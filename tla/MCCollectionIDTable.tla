------------------------ MODULE MCCollectionIDTable ------------------------
(* Model values for CollectionIDTable: the file's ID of a is not its hash, *)
(* which is also c's, but collides with the hash of b.                     *)
EXTENDS CollectionIDTable, TLC

CONSTANTS a, b, c, t1, t2

MCName == {a, b, c}
MCID == {1, 3}
MCHash == a :> 1 @@ b :> 3 @@ c :> 1
MCFileNames == <<a>>
MCFileIDs == <<3>>
MCThread == {t1, t2}
=============================================================================
