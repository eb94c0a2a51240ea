------------------------------ MODULE MCFiles ------------------------------
(***************************************************************************)
(* Instances of Files: two files f and g, a directory s with the file a    *)
(* and the directory k with the file b, and d, the place s is copied to.   *)
(***************************************************************************)
EXTENDS Files

MCOrder == <<"skb", "sa", "sk", "sn", "s", "dkb", "dkt", "da", "dk", "dn", "dt", "d", "f", "g", "t">>

MCParent == [p \in ToSet(MCOrder) |->
    CASE p \in {"sa", "sk", "sn"} -> "s"
      [] p = "skb" -> "sk"
      [] p \in {"da", "dk", "dn", "dt"} -> "d"
      [] p \in {"dkb", "dkt"} -> "dk"
      [] OTHER -> "root"]

MCTwin == [p \in ToSet(MCOrder) |->
    CASE p = "s" -> "d" [] p = "sa" -> "da" [] p = "sk" -> "dk" [] p = "skb" -> "dkb"
      [] p = "sn" -> "dn" [] p = "f" -> "g" [] OTHER -> p]

MCTemp == [p \in ToSet(MCOrder) |->
    IF MCParent[p] = "d" THEN "dt" ELSE IF MCParent[p] = "dk" THEN "dkt" ELSE "t"]

MCName == [p \in ToSet(MCOrder) |->
    CASE p = "sa" -> <<"a", "a", "b">> [] p = "sk" -> <<"b">> [] p = "sn" -> <<"a", "b", "a">>
      [] p = "skb" -> <<"a", "b", "a", "b">> [] OTHER -> <<"a">>]

Op(kind, src, dst) ==
    [kind |-> kind, src |-> src, dst |-> dst, recursive |-> FALSE, overwrite |-> FALSE,
     cross |-> FALSE, depth |-> 3, entries |-> 4, expect |-> 1, pattern |-> <<>>, results |-> 2,
     refused |-> "no"]

EmptyDisk == [p \in ToSet(MCOrder) |-> None]
FilesDisk == [EmptyDisk EXCEPT !["f"] = Blocks(1), !["g"] = Blocks(2)]
OneFileDisk == [EmptyDisk EXCEPT !["f"] = Blocks(1)]
TreeDisk == [EmptyDisk EXCEPT !["s"] = Dir, !["sa"] = Blocks(1), !["sk"] = Dir, !["skb"] = Blocks(2)]
LinkDisk == [TreeDisk EXCEPT !["sn"] = Link]
FullDisk == [TreeDisk EXCEPT !["sn"] = Blocks(3)]

FileOps ==
    {[Op(k, "f", "g") EXCEPT !.overwrite = o, !.cross = c] :
        k \in {"write", "copy", "move"}, o \in BOOLEAN, c \in BOOLEAN}
    \cup {Op("delete", "f", "g"), Op("replace", "f", "g"), Op("deleteIf", "f", "g"),
          Op("create", "f", "g"), [Op("replace", "f", "g") EXCEPT !.expect = 2]}

TreeOps ==
    {[Op(k, "s", "d") EXCEPT !.recursive = TRUE, !.cross = TRUE, !.depth = h, !.entries = n] :
        k \in {"copy", "move", "delete"}, h \in {1, 3}, n \in {3, 4, 5}}
    \cup {Op("copy", "s", "d"), Op("move", "s", "d"), Op("delete", "s", "d"),
          [Op("move", "s", "d") EXCEPT !.recursive = TRUE],
          [Op("delete", "root", "d") EXCEPT !.recursive = TRUE],
          [Op("delete", "s", "d") EXCEPT !.depth = 0]}
    \cup {[Op("delete", "s", "d") EXCEPT !.refused = w] : w \in {"arguments", "ranges", "permission"}}

LinkOps == {[Op(k, "s", "d") EXCEPT !.recursive = TRUE, !.cross = TRUE, !.entries = 5] :
               k \in {"copy", "move", "delete"}}
           \cup {[Op(k, "sn", "dn") EXCEPT !.cross = c] :
                   k \in {"copy", "move", "delete"}, c \in BOOLEAN}

Characters == {"a", "b", "*", "?"}
Patterns == UNION {[1 .. n -> Characters] : n \in 1 .. 4}
SearchOps == {[Op("search", "s", "d") EXCEPT !.pattern = q, !.recursive = TRUE, !.entries = 5,
                 !.results = 3] : q \in Patterns}
             \cup {[Op("list", "s", "d") EXCEPT !.recursive = r, !.depth = h, !.entries = n,
                     !.results = 9] : r \in BOOLEAN, h \in 1 .. 3, n \in 1 .. 5}

ContentOps == {[Op("content", "s", "d") EXCEPT !.recursive = TRUE, !.entries = n, !.results = k] :
                  n \in 4 .. 6, k \in 1 .. 7}
LargeDisk == [FullDisk EXCEPT !["sa"] = Blocks(LargeVersion)]
BinaryDisk == [FullDisk EXCEPT !["sa"] = Blocks(BinaryVersion)]

MCScenarios ==
    {[ops |-> FileOps, disk |-> FilesDisk, outside |-> {"f", "g", "root"}],
     [ops |-> FileOps, disk |-> OneFileDisk, outside |-> {"f", "g", "root"}],
     [ops |-> TreeOps, disk |-> TreeDisk, outside |-> {"sa", "sn", "root"}],
     [ops |-> LinkOps, disk |-> LinkDisk, outside |-> {"sa"}],
     [ops |-> SearchOps \cup ContentOps, disk |-> FullDisk, outside |-> {}],
     [ops |-> ContentOps, disk |-> LargeDisk, outside |-> {}],
     [ops |-> ContentOps, disk |-> BinaryDisk, outside |-> {}]}
=============================================================================
