-------------------------- MODULE MCInventoryParse --------------------------
(* The hives InventoryParse.cfg gives Parse.                               *)
EXTENDS InventoryParse

MCKeys == <<"InventoryApplicationFile", "InventoryApplication">>

\* Two records of one name, one of another, one without values, one that panics.
MCRecs ==
  {[name |-> 1, values |-> "v", form |-> "good"],
   [name |-> 1, values |-> "w", form |-> "good"],
   [name |-> 2, values |-> "v", form |-> "over"],
   [name |-> 1, values |-> "v", form |-> "panics"]}

Lists(S, n) == UNION {[1..m -> S] : m \in 0..n}

Sound(nodes) == [sound |-> TRUE, nodes |-> nodes]
Refused == [sound |-> FALSE, nodes |-> <<>>]

Indexes(n) == {Sound(l) : l \in Lists(MCRecs, n)} \cup {Refused}

Children(n) ==
  [name : KeyNames, index : Indexes(n)]
    \cup [name : LegacyKeys \cup OtherNames, index : {Sound(<<>>)}]

\* Long lists in one child, short ones in the other two.
MCRoots ==
  Lists(Children(1), 2) \cup {<<c, d>> : c \in Children(3), d \in Children(1)}
    \cup {<<d, c>> : c \in Children(3), d \in Children(1)}
    \cup {<<b, d, c>> : b, c, d \in Children(0) \cup Children(1)}

RootNode(index) == [isRoot |-> TRUE, index |-> index]
OtherNode == [isRoot |-> FALSE, index |-> Sound(<<>>)]

MCHives ==
  {[baseNode |-> TRUE, top |-> Sound(<<RootNode(Sound(r))>>)] : r \in MCRoots}
    \cup [baseNode : BOOLEAN,
          top : {Refused, Sound(<<>>), Sound(<<OtherNode>>), Sound(<<RootNode(Refused)>>)}
            \cup {Sound(<<OtherNode, RootNode(Sound(<<c>>)), RootNode(i)>>) :
                    c \in Children(1), i \in {Refused, Sound(<<>>)}}]
=============================================================================
