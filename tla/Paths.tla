------------------------------- MODULE Paths -------------------------------
(***************************************************************************)
(* Paths and the working directory: path_to_abs, path_resolve, path_to_id, *)
(* path_to_name, fpath_to_path and id_to_path of kernel/src/fs.c, and the  *)
(* commands mk, mkdir, rm, rmdir and cd of main.c that give them the paths *)
(* a user types.  Commands are atomic here; FileSystem has their steps.    *)
(***************************************************************************)
EXTENDS Integers, SequencesExt

CONSTANTS
  Names, NoName,   \* the names of entries; the empty one
  File, Dir,       \* fs_file_entry.type
  SlotCount,       \* entries in the table
  MaxId,           \* bound of the model: creation stops there
  Paths            \* what is typed: [abs |-> it begins with a slash,
                   \*   parts |-> a sequence of names, "." and ".."]

ASSUME SlotAssumption == SlotCount \in Nat \ {0}
ASSUME MaxIdAssumption == MaxId \in Nat
ASSUME NameAssumption ==
  NoName \notin Names /\ {".", ".."} \cap (Names \cup {NoName}) = {}
ASSUME PathAssumption ==
  \A p \in Paths :
    p.abs \in BOOLEAN /\ p.parts \in Seq(Names \cup {".", ".."})

VARIABLES
  table,           \* slot -> entry
  current_dir_id

vars == <<table, current_dir_id>>

Slots == 1 .. SlotCount
NotFound == -1
Empty == [id |-> 0, name |-> NoName, parent |-> 0, type |-> NoName]
Live == {s \in Slots : table[s].id # 0}
LastId == IF Live = {} THEN 0 ELSE Max({table[s].id : s \in Live})

First(S) == CHOOSE s \in S : \A t \in S : s <= t

-----------------------------------------------------------------------------
(* Lookup and path strings. *)

(* name_and_parent_id_to_id: the first entry of that name under parent. *)
Lookup(parent, name) ==
  LET S == {s \in Live : table[s].name = name /\ table[s].parent = parent}
  IN  IF S = {} THEN NotFound ELSE table[First(S)].id

(* path_to_id of a resolved path; nothing hangs under NotFound. *)
PathToId(parts) ==
  LET Id[i \in 0 .. Len(parts)] == IF i = 0 THEN 0 ELSE Lookup(Id[i - 1], parts[i])
  IN  Id[Len(parts)]

(* Mutant: ".." keeps what it should take back. *)
Resolve_DotDotKept(parts) == SelectSeq(parts, LAMBDA n : n \notin {".", ".."})
(* path_resolve, by words alone: above the root is the root. *)
Push(stack, n) ==
  CASE n = "."  -> stack
    [] n = ".." -> IF stack = <<>> THEN stack ELSE Front(stack)
    [] OTHER    -> Append(stack, n)
Resolve(parts) ==
  LET Stack[i \in 0 .. Len(parts)] == IF i = 0 THEN <<>> ELSE Push(Stack[i - 1], parts[i])
  IN  Stack[Len(parts)]

(* The first entry with that id. *)
Holders(id) == {s \in Live : table[s].id = id}
Entry(id) == table[First(Holders(id))]
(* The empty name leaves nothing between two slashes. *)
Component(e) == IF e.name = NoName THEN <<>> ELSE <<e.name>>

(* Mutant: the names come out from the entry to the root. *)
IdToPath_Reversed(id) ==
  LET Up[i \in 0 .. MaxId] ==
        IF Holders(i) = {} THEN <<>>
        ELSE Component(Entry(i))
               \o (IF Entry(i).parent = 0 THEN <<>> ELSE Up[Entry(i).parent])
  IN  Up[id]
(* id_to_path: from the entry to the root, or to where an entry is missing. *)
IdToPath(id) ==
  LET Up[i \in 0 .. MaxId] ==
        IF Holders(i) = {} THEN <<>>
        ELSE (IF Entry(i).parent = 0 THEN <<>> ELSE Up[Entry(i).parent])
               \o Component(Entry(i))
  IN  Up[id]

PathToAbs(p) == IF p.abs THEN p.parts ELSE IdToPath(current_dir_id) \o p.parts

(* What a command makes of the path it is given. *)
Resolved(p) == Resolve(PathToAbs(p))
Target(p) == PathToId(Resolved(p))

-----------------------------------------------------------------------------
Init == table = [s \in Slots |-> Empty] /\ current_dir_id = 0

NameOf(parts) == IF parts = <<>> THEN NoName ELSE Last(parts)
(* Mutant: what hangs under the root is put into the working directory. *)
ParentOf_Cwd(parts) ==
  IF Len(parts) < 2 THEN current_dir_id ELSE PathToId(Front(parts))
ParentOf(parts) == IF Len(parts) < 2 THEN 0 ELSE PathToId(Front(parts))

(* fs_mk_file and fs_mk_dir: a name that is taken is no obstacle, nor is a *)
(* parent that is a file; with a full table nothing is written.            *)
Make(p, type) ==
  /\ LastId < MaxId /\ Live # Slots
  /\ LET parts == Resolved(p)
         parent == ParentOf(parts)
     IN  /\ parent # NotFound
         /\ table' = [table EXCEPT ![First(Slots \ Live)] =
                        [id |-> LastId + 1, name |-> NameOf(parts),
                         parent |-> parent, type |-> type]]
  /\ UNCHANGED current_dir_id

(* fs_rm_file and fs_rm_dir; the working directory can go too. *)
Unlink(p, type) ==
  /\ \E s \in {t \in Live : table[t].type = type} :
       /\ table[s].id = Target(p)
       /\ type = Dir => \A t \in Live : table[t].parent # table[s].id
       /\ table' = [table EXCEPT ![s] = Empty]
  /\ UNCHANGED current_dir_id

(* A file is accepted like a directory. *)
Cd(p) ==
  /\ Target(p) # NotFound
  /\ current_dir_id' = Target(p)
  /\ UNCHANGED table

Command(p) == Make(p, File) \/ Make(p, Dir) \/ Unlink(p, File) \/ Unlink(p, Dir) \/ Cd(p)
Next == \E p \in Paths : Command(p)

Spec == Init /\ [][Next]_vars

-----------------------------------------------------------------------------
(* The table holds entries with different ids, and the working directory   *)
(* has a number that is or was an id.                                      *)
TypeOK ==
  /\ \A s \in Live :
       /\ table[s].id \in 1 .. MaxId /\ table[s].parent \in 0 .. table[s].id - 1
       /\ table[s].name \in Names \cup {NoName} /\ table[s].type \in {File, Dir}
       /\ \A t \in Live : table[s].id = table[t].id => s = t
  /\ \A s \in Slots \ Live : table[s] = Empty
  /\ current_dir_id \in 0 .. MaxId

(* What the names do not tell apart, or do not reach, no path can name:    *)
(* two entries of one name in one place, an entry with the empty name,     *)
(* one whose parent was removed.                                           *)
Unique ==
  \A s, t \in Live :
    table[s].name = table[t].name /\ table[s].parent = table[t].parent => s = t
Reached(id) ==
  LET R[i \in 0 .. MaxId] ==
        i = 0 \/ (Holders(i) # {} /\ Entry(i).name # NoName /\ R[Entry(i).parent])
  IN  R[id]

(* The directory above, as the table has it; above the root is the root. *)
Above(id) == IF Holders(id) = {} THEN 0 ELSE Entry(id).parent

(* A path walked entry by entry from where it starts. *)
Step(id, n) ==
  CASE id = NotFound -> NotFound
    [] id # NotFound /\ n = "." -> id
    [] id # NotFound /\ n = ".." -> Above(id)
    [] OTHER -> Lookup(id, n)
Walk(p) ==
  LET At[i \in 0 .. Len(p.parts)] ==
        IF i = 0 THEN (IF p.abs THEN 0 ELSE current_dir_id)
        ELSE Step(At[i - 1], p.parts[i])
  IN  At[Len(p.parts)]

(* Where a path can be walked, resolving its words finds the same entry:   *)
(* the detour over the names of the working directory, and ".." without a  *)
(* look at the table, make no difference.                                  *)
ResolveIsWalk ==
  Unique /\ Reached(current_dir_id) =>
    \A p \in Paths : Walk(p) # NotFound => Target(p) = Walk(p)

(* The path that pwd shows leads back to the entry. *)
PwdLeadsBack ==
  Unique => \A s \in Live :
    Reached(table[s].id) => PathToId(IdToPath(table[s].id)) = table[s].id

(* What was made under a free name is found under it by the next command,  *)
(* as long as the working directory is there.                              *)
MadeIsFound ==
  [][(\E s \in Slots \ Live : table'[s] # Empty) /\ Reached(current_dir_id) =>
       \A p \in Paths, type \in {File, Dir} :
         Make(p, type) /\ Target(p) = NotFound => Target(p)' = LastId + 1]_vars
=============================================================================
