------------------------ MODULE MCGenericParameters ------------------------
(* A thread that sets, one that loads and sets, and one that only reads.   *)
EXTENDS GenericParameters

CONSTANTS setter, loader, reader, int, double, k1, k2, x

MCThread == {setter, loader, reader}
MCType == {int, double}
MCKey == {k1, k2}
MCValue == {x}
MCVector == {<<>>, <<x>>, <<x, x>>}
MCBatch == {[k \in {k1, k2} |-> <<x, x>>]}

\* Writes that make a vector empty, longer and shorter under the key k1.
Sets == {c \in SetVectorCall \cup SetCall :
            c.key = k1 /\ c.value # <<x, x>> /\ (c.type = double => c.value = x)}

MCCalls ==
    [t \in MCThread |->
        CASE t = setter -> Sets
          [] t = loader -> {c \in LoadCall : c.type = int}
          [] t = reader -> {c \in GetCall : c.type = int /\ c.key = k1}
                              \cup IterateCall \cup CopyCall]
=============================================================================
