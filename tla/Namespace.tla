----------------------------- MODULE Namespace -----------------------------
(***************************************************************************)
(* What the file system promises about names and identities, one atomic    *)
(* step per successful call: the set of live entries of the table on disk, *)
(* without slots, sectors, caches or program counters.  FileSystem, whose  *)
(* calls write the disk one sector at a time and may be cut by a reset,    *)
(* implements it (FileSystem!NamespaceSpec).                               *)
(***************************************************************************)
EXTENDS Integers

CONSTANTS Names,        \* the names a path is made of
          NoName,       \* the empty name
          File, Dir,    \* the two values of fs_file_entry.type
          MaxId         \* bound of the model, as in FileSystem

VARIABLE nodes          \* the live entries

(* The root directory is id 0 and has no entry of its own. *)
Root == 0

NodeSet == [id : 1 .. MaxId, parent : 0 .. MaxId, name : Names \cup {NoName},
            type : {File, Dir}]

Ids == {n.id : n \in nodes}

Init == nodes = {}

(* A new entry gets an id above every live one and hangs under the root or *)
(* under an entry that is still there.  Only what is made as / has no      *)
(* name, and it hangs under the root.                                      *)
Create ==
  \E x \in NodeSet :
    /\ \A i \in Ids : i < x.id
    /\ x.parent \in Ids \cup {Root}
    /\ x.name = NoName => x.parent = Root
    /\ nodes' = nodes \cup {x}

(* A file can go at any time, whatever was created under it. *)
RemoveFile ==
  \E x \in nodes :
    /\ x.type = File
    /\ nodes' = nodes \ {x}

(* A directory can go only when nothing is left in it. *)
RemoveDir ==
  \E x \in nodes :
    /\ x.type = Dir
    /\ \A y \in nodes : y.parent # x.id
    /\ nodes' = nodes \ {x}

Next == Create \/ RemoveFile \/ RemoveDir

Spec == Init /\ [][Next]_nodes
=============================================================================
