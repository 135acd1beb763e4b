-------------------------- MODULE ConsistentColls --------------------------
(***************************************************************************)
(* The names of collections as the ROOT based writers order and compare    *)
(* them (src/rootUtils.h).                                                 *)
(***************************************************************************)
EXTENDS Naturals, Sequences, FiniteSets, Functions

CONSTANTS
    Name,  \* the collection names
    Size,  \* per name, its length
    Rank   \* per name, its place in the case-insensitive order of names

ASSUME NamesAssumption == Size \in [Name -> Nat] /\ Rank \in [Name -> Nat]

\* sortAlphabeticaly: names that only differ in case may come in any order.
Sorted(names) ==
    {s \in [1..Cardinality(names) -> names] :
        /\ Range(s) = names
        /\ \A i, j \in 1..Len(s) : i < j => Rank[s[i]] <= Rank[s[j]]}

\* Mutant: the next name of the same length is taken for smaller as well.
LessOrEqual(x, y) == Size[x] = Size[y] /\ Rank[x] <= Rank[y]

\* The comparison of checkConsistentColls.
Less(x, y) == Size[x] = Size[y] /\ Rank[x] < Rank[y]

\* std::lower_bound in the len elements after the first ones of s
LowerBound(s, x) ==
    LET bound[len \in 0..Len(s)] == [first \in 0..Len(s) - len |->
            IF len = 0 THEN first
            ELSE LET half == len \div 2
                     mid == first + half
                 IN IF Less(s[mid + 1], x) THEN bound[len - half - 1][mid + 1]
                    ELSE bound[half][first]]
    IN bound[Len(s)][0]

BinarySearch(s, x) ==
    LET i == LowerBound(s, x) IN i < Len(s) /\ ~Less(x, s[i + 1])

checkConsistentColls(existing, candidates) ==
    /\ Len(existing) = Cardinality(candidates)
    /\ \A x \in candidates : BinarySearch(existing, x)
=============================================================================
