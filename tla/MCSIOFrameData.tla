--------------------------- MODULE MCSIOFrameData ---------------------------
(* podio with its user data, a datamodel in its second version, another    *)
(* one that has links to its objects, and the libraries with their blocks. *)
EXTENDS SIOFrameData

CONSTANTS podio, podioSio, edm, edmSio, ext, extSio, \* the libraries
          user, hit, link,                          \* the types
          datamodel, extension, json, json2,        \* the datamodels
          evolve,                                  \* an evolution function
          p, q, r                                  \* the names

MCLibrary == {podio, edm, ext, podioSio, edmSio, extSio}
MCSIOLibrary == {podioSio, edmSio, extSio}
MCNeeds == [l \in MCLibrary |->
              CASE l = podio -> {}
                [] l = edm -> {podio}
                [] l = edmSio -> {podio, edm}
                [] l = ext -> {podio, edm}
                [] l = extSio -> {podio, edm, ext}
                [] OTHER -> {podio}]
MCType == {user, hit, link}
MCTypesOf == [l \in MCLibrary |->
                CASE l \in {podio, podioSio} -> {user}
                  [] l \in {edm, edmSio} -> {hit}
                  [] OTHER -> {link}]
MCCurrent == [t \in MCType |-> IF t = hit THEN 2 ELSE 1]
MCPackageOf == [l \in MCLibrary |-> CASE l \in {edm, edmSio} -> datamodel
                                     [] l \in {ext, extSio} -> extension
                                     [] OTHER -> None]
MCDefinition == [d \in {datamodel, extension} |-> IF d = datamodel THEN json ELSE json2]
MCEvolution == {[type |-> hit, from |-> 1, func |-> evolve]}

\* The libraries in two directories, one of them twice; without the blocks
\* of the datamodel; and a variable that leads to none.
MCPaths ==
    {[explicit |-> TRUE, existing |-> {1, 2},
      dirs |-> <<<<podioSio, extSio>>, <<edmSio, podioSio>>>>],
     [explicit |-> FALSE, existing |-> {2}, dirs |-> <<<<>>, <<podioSio>>>>],
     [explicit |-> TRUE, existing |-> {1, 2}, dirs |-> <<<<>>, <<podioSio>>>>]}

Collection(n, t, v, s) == [name |-> n, type |-> t, version |-> v, subset |-> s]

\* An entry of the present version, one of the first, and newer ones.
MCEntry == {<<Collection(p, hit, 2, FALSE), Collection(q, user, 1, FALSE)>>,
            <<Collection(q, user, 1, FALSE), Collection(r, hit, 1, TRUE)>>,
            <<Collection(q, user, 1, FALSE), Collection(p, hit, 3, FALSE)>>,
            <<Collection(p, link, 1, FALSE), Collection(q, user, 2, FALSE)>>}
MCLimits == {{}, {q}, {p, q}, {r}}
MCName == {p, q, r}
=============================================================================
