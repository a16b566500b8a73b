-------------------------- MODULE FileSystemProofs --------------------------
(***************************************************************************)
(* Theorems about FileSystem, for every disk size, table size, set of      *)
(* names and sizes, and every set of points at which a reset may hit.      *)
(***************************************************************************)
EXTENDS FileSystem, TLAPS

(* The control points of a write, after the entry was copied. *)
Writing == {"sector", "chain_scan", "chain_set", "link", "commit"}
(* The control points at which a new entry exists in memory only. *)
Making == {"scan", "set", "entry"}

(* What the locals are at each control point. *)
LocalsOK ==
  /\ pc = "walk" => op \in Ops /\ k = 0 /\ n = 0
  /\ pc = "walk" /\ op = "read" => size > 0
  /\ pc = "walk" /\ op \in Makers => lastId < MaxId
  /\ pc = "idle" => k = 0 /\ n = 0
  /\ pc = "boot" => k = 0 /\ n = 0
  /\ pc = "scan" => k = 0
  /\ pc \in {"set", "clear", "read", "sector", "chain_scan", "chain_set", "link"}
       => k < RegionSize
  /\ pc \in {"sector", "chain_scan", "chain_set", "link"} => n <= size
  /\ pc = "chain_set" => nxt \in Bits
  /\ pc = "link" => nxt \in Bits \cup {Junk}

TypeInv == TypeOK /\ LocalsOK

-----------------------------------------------------------------------------
(* Arithmetic of the geometry. *)

(* A sector of a region that starts in the bitmap is a frame. *)
LEMMA SectorIsFrame ==
  ASSUME NEW b \in Bits, NEW i \in 0 .. RegionSize - 1
  PROVE  b + i \in Frames
  BY GeometryAssumption DEF Bits, Frames

LEMMA ZeroBit ==
  /\ 0 \in Bits /\ 0 \in Slots /\ 0 \in Words /\ EmptyEntry \in Entries
  /\ Junk \in Nat /\ Junk \in Words /\ NotFound \in Words /\ Bits \subseteq Words
  BY GeometryAssumption, InputAssumption
  DEF Bits, Slots, Words, Entries, EmptyEntry, Junk

(* What is not the end of a chain names a frame, or none. *)
LEMMA WordsFollowed ==
  ASSUME NEW w \in Words, w \notin EndOfChain
  PROVE  w \in Bits \cup {Junk}
  BY DEF Words, EndOfChain

LEMMA ScanResultsType == ScanResults \subseteq Bits \cup {NotFound}
  BY DEF ScanResults, FreeWindows, OverrunWindows

(* A region takes at least the 504 bytes of its last sector. *)
LEMMA CapacityType == Capacity \in Nat /\ Capacity > 0
  BY GeometryAssumption DEF Capacity

LEMMA ChunkType ==
  ASSUME size \in Nat, n \in Nat, n <= size
  PROVE  Chunk \in Nat /\ n + Chunk <= size
  BY CapacityType DEF Chunk, Least

(* The index of a sector in its file, whatever the position in the call. *)
LEMMA IndexType ==
  ASSUME n \in Nat, k \in 0 .. RegionSize
  PROVE  Index \in Int
  <1>1. n \div Capacity \in Int
    BY CapacityType
  <1> QED
    BY <1>1, GeometryAssumption DEF Index

LEMMA PointerType ==
  ASSUME TypeOK, NEW f
  PROVE  PointerAt(f, {0}) \subseteq Words /\ PointerAt(f, Words) \subseteq Words
  BY ZeroBit DEF TypeOK, PointerAt, Words

(* Writing one sector keeps the types of the storage. *)
LEMMA PutSectorType ==
  ASSUME TypeOK, NEW f, NEW w \in Words, PutSector(f, w)
  PROVE  /\ word' \in [Frames -> Words]
         /\ data' \in [Frames -> (0 .. MaxId) \X Int]
  <1>1. ent.id \in 0 .. MaxId
    BY DEF TypeOK, Entries
  <1>2. <<ent.id, Index>> \in (0 .. MaxId) \X Int
    BY <1>1, IndexType DEF TypeOK
  <1> QED
    BY <1>2 DEF TypeOK, PutSector

LEMMA BitmapType ==
  ASSUME TypeOK, NEW f \in Nat, BitmapSet(f) \/ BitmapClear(f)
  PROVE  bitmap' \subseteq Bits /\ lastId' \in 0 .. MaxId
  BY DEF TypeOK, BitmapSet, BitmapClear

LEMMA LiveIdsType ==
  ASSUME TypeOK
  PROVE  LiveIds \subseteq 0 .. MaxId
  BY DEF TypeOK, LiveIds, Live, Entries

LEMMA ReloadType ==
  ASSUME TypeOK, ReloadLastId
  PROVE  lastId' \in 0 .. MaxId
  BY LiveIdsType, InputAssumption DEF ReloadLastId

LEMMA ResetType ==
  ASSUME ResetLocals, pc' \in {"idle", "boot"}
  PROVE  /\ op' \in Ops \cup {"none"} /\ cur' \in 0 .. MaxId \cup {NotFound}
         /\ ent' \in Entries /\ slot' \in Slots /\ reg' \in Bits
         /\ nxt' \in Words /\ k' \in 0 .. RegionSize
         /\ n' \in Nat /\ size' \in Nat /\ pc' \in Pcs
         /\ LocalsOK'
  BY ZeroBit, InputAssumption, GeometryAssumption
  DEF ResetLocals, LocalsOK, Pcs

-----------------------------------------------------------------------------
(* Type correctness. *)

LEMMA TypeInit == Init => TypeInv
  BY ZeroBit, InputAssumption, GeometryAssumption, DisksAssumption
  DEF Init, TypeInv, TypeOK, LocalsOK, Pcs

LEMMA TypeStep == TypeInv /\ [Next]_vars => TypeInv'
  <1> SUFFICES ASSUME TypeInv, [Next]_vars
               PROVE  TypeInv'
    OBVIOUS
  <1> USE DEF TypeInv
  <1>1. ASSUME NEW o \in Ops, Start(o)
        PROVE  TypeInv'
    BY <1>1, InputAssumption
    DEF Start, TypeOK, LocalsOK, disk, Ops, Makers, Pcs, Root
  <1>2. CASE Walk
    <2>1. cur' \in 0 .. MaxId \cup {NotFound}
      BY <1>2 DEF Walk, TypeOK, Entries
    <2> QED
      BY <1>2, <2>1 DEF Walk, TypeOK, LocalsOK, disk
  <1>3. CASE MkFile \/ MkDir
    <2>1. CASE cur = NotFound
      BY <1>3, <2>1, ResetType DEF MkFile, MkDir, MkEntry, Return, TypeOK, disk
    <2>2. CASE cur # NotFound
      <3> PICK nm \in Names \cup {NoName} :
             ent' = [id |-> lastId + 1, parent |-> cur, name |-> nm,
                     type |-> TypeOf(op), frame |-> 0,
                     size |-> IF op = "mk_dir" THEN 4 ELSE 0]
        BY <1>3, <2>2 DEF MkFile, MkDir, MkEntry
      <3>0. lastId + 1 \in 0 .. MaxId /\ cur \in 0 .. MaxId
        BY <1>3, <2>2, InputAssumption DEF MkFile, MkDir, MkEntry, Makers, TypeOK, LocalsOK
      <3>1. ent' \in Entries
        BY <3>0, ZeroBit DEF Entries, TypeOf
      <3> QED
        BY <1>3, <2>2, <3>1 DEF MkFile, MkDir, MkEntry, TypeOK, LocalsOK, disk, Pcs
    <2> QED
      BY <2>1, <2>2
  <1>4. CASE MkScan
    <2> PICK b \in ScanResults :
           IF b = NotFound
           THEN Return
           ELSE /\ reg' = b /\ ent' = [ent EXCEPT !.frame = b]
                /\ pc' = "set"
                /\ UNCHANGED <<op, cur, slot, nxt, k, n, size>>
      BY <1>4 DEF MkScan
    <2>1. CASE b = NotFound
      BY <1>4, <2>1, ResetType DEF MkScan, Return, TypeOK, disk
    <2>2. CASE b # NotFound
      <3>1. b \in Bits
        BY <2>2, ScanResultsType
      <3>2. ent' \in Entries
        BY <2>2, <3>1 DEF TypeOK, Entries
      <3> QED
        BY <1>4, <2>2, <3>1, <3>2, GeometryAssumption
        DEF MkScan, TypeOK, LocalsOK, disk, Pcs
    <2> QED
      BY <2>1, <2>2
  <1>5. CASE MkSet
    <2>1. reg + k \in Nat
      BY <1>5, ZeroBit DEF MkSet, TypeOK, Bits
    <2>2. bitmap' \subseteq Bits /\ lastId' \in 0 .. MaxId
      BY <1>5, <2>1, BitmapType DEF MkSet
    <2> QED
      BY <1>5, <2>2, GeometryAssumption DEF MkSet, TypeOK, LocalsOK, Pcs
  <1>6. CASE WriteEntry
    <2>1. table' \in [Slots -> Entries] /\ leaked' \subseteq Bits
      BY <1>6 DEF WriteEntry, TypeOK, IsFirst
    <2> QED
      BY <1>6, <2>1 DEF WriteEntry, TypeOK, LocalsOK, locals, Pcs
  <1>7. CASE Reload
    BY <1>7, ReloadType, ResetType DEF Reload, Return, TypeOK
  <1>8. ASSUME NEW o \in {"rm_file", "rm_dir", "write", "read"},
               NEW next \in {"next", "erase", "sector", "read"},
               o = "write" <=> next = "sector", o = "read" <=> next = "read",
               Locate(o, next)
        PROVE  TypeInv'
    <2>1. CASE Return
      BY <1>8, <2>1, ResetType DEF Locate, Return, TypeOK, disk
    <2>2. CASE ~Return
      <3> PICK s \in Slots :
             /\ ent' = table[s] /\ slot' = s /\ reg' = table[s].frame
             /\ pc' = next
             /\ size' = IF o = "read" THEN Least(table[s].size, size - 1)
                        ELSE size
             /\ UNCHANGED <<op, cur, nxt, k, n>>
        BY <1>8, <2>2 DEF Locate
      <3>1. ent' \in Entries /\ reg' \in Bits /\ table[s].size \in Nat
        BY DEF TypeOK, Entries
      <3>2. size' \in Nat
        BY <1>8, <3>1 DEF Locate, Least, TypeOK, LocalsOK
      <3> QED
        BY <1>8, <3>1, <3>2, GeometryAssumption
        DEF Locate, TypeOK, LocalsOK, disk, Pcs
    <2> QED
      BY <2>1, <2>2
  <1>9. CASE FreeNext
    <2>1. nxt' \in Words
      BY <1>9, ZeroBit, PointerType DEF FreeNext, TypeOK
    <2> QED
      BY <1>9, <2>1, GeometryAssumption DEF FreeNext, TypeOK, LocalsOK, disk, Pcs
  <1>10. CASE FreeClear
    <2>1. reg + k \in Nat
      BY <1>10, ZeroBit DEF FreeClear, TypeOK, Bits
    <2>2. bitmap' \subseteq Bits /\ lastId' \in 0 .. MaxId
      BY <1>10, <2>1, BitmapType DEF FreeClear
    <2>3. /\ reg' \in Bits \cup {Junk} /\ k' \in 0 .. RegionSize /\ n' \in Nat
          /\ pc' \in {"clear", "erase", "next"}
          /\ pc' = "clear" => k' < RegionSize
      BY <1>10, GeometryAssumption, WordsFollowed
      DEF FreeClear, TypeOK, LocalsOK
    <2> QED
      BY <1>10, <2>2, <2>3 DEF FreeClear, TypeOK, LocalsOK, Pcs
  <1>11. CASE Erase
    <2>1. table' \in [Slots -> Entries]
      BY <1>11, ZeroBit DEF Erase, TypeOK
    <2> QED
      BY <1>11, <2>1 DEF Erase, TypeOK, LocalsOK, locals, Pcs
  <1>12. CASE WriteSector
    <2>1. \E w \in Words : PutSector(reg + k, w)
      BY <1>12, ZeroBit DEF WriteSector
    <2>2. /\ word' \in [Frames -> Words]
          /\ data' \in [Frames -> (0 .. MaxId) \X Int]
      BY <2>1, PutSectorType
    <2> QED
      BY <1>12, <2>2, GeometryAssumption DEF WriteSector, TypeOK, LocalsOK
  <1>13. CASE WriteLastSector
    <2>1. /\ word' \in [Frames -> Words]
          /\ data' \in [Frames -> (0 .. MaxId) \X Int]
      BY <1>13, ZeroBit, PutSectorType DEF WriteLastSector
    <2>2. ent' \in Entries
      BY <1>13 DEF WriteLastSector, TypeOK, Entries
    <2> QED
      BY <1>13, <2>1, <2>2 DEF WriteLastSector, TypeOK, LocalsOK, Pcs
  <1>14. CASE ChainSector
    <2>1. nxt' \in Words
      BY <1>14, PointerType DEF ChainSector
    <2> QED
      BY <1>14, <2>1, WordsFollowed DEF ChainSector, TypeOK, LocalsOK, disk, Pcs
  <1>15. CASE ChainScan
    <2> PICK b \in ScanResults :
           IF b = NotFound
           THEN /\ PutSector(reg + k, 0)
                /\ ent' = [ent EXCEPT !.size = n + Chunk]
                /\ pc' = "commit"
                /\ UNCHANGED <<nxt, k>>
           ELSE /\ nxt' = b /\ k' = 0 /\ pc' = "chain_set"
                /\ UNCHANGED <<ent, word, data>>
      BY <1>15 DEF ChainScan
    <2>1. CASE b = NotFound
      <3>1. /\ word' \in [Frames -> Words]
            /\ data' \in [Frames -> (0 .. MaxId) \X Int]
        BY <2>1, ZeroBit, PutSectorType
      <3>2. n + Chunk \in Nat
        BY <1>15, ChunkType DEF ChainScan, TypeOK, LocalsOK
      <3>3. ent' \in Entries
        BY <2>1, <3>2 DEF TypeOK, Entries
      <3> QED
        BY <1>15, <2>1, <3>1, <3>3 DEF ChainScan, TypeOK, LocalsOK, Pcs
    <2>2. CASE b # NotFound
      <3>1. b \in Bits /\ b \in Words
        BY <2>2, ScanResultsType DEF Words
      <3> QED
        BY <1>15, <2>2, <3>1, GeometryAssumption
        DEF ChainScan, TypeOK, LocalsOK, Pcs
    <2> QED
      BY <2>1, <2>2
  <1>16. CASE ChainSet
    <2>1. nxt + k \in Nat /\ nxt \in Words
      BY <1>16, ZeroBit DEF ChainSet, TypeOK, LocalsOK, Bits
    <2>2. bitmap' \subseteq Bits /\ lastId' \in 0 .. MaxId
      BY <1>16, <2>1, BitmapType DEF ChainSet
    <2>3. k' \in 0 .. RegionSize - 1 /\ pc' \in {"link", "chain_set"}
      BY <1>16, GeometryAssumption DEF ChainSet, TypeOK, LocalsOK
    <2> QED
      BY <1>16, <2>1, <2>2, <2>3, GeometryAssumption
      DEF ChainSet, TypeOK, LocalsOK, Pcs
  <1>17. CASE Link
    <2>1. nxt \in Words
      BY DEF TypeOK
    <2>2. /\ word' \in [Frames -> Words]
          /\ data' \in [Frames -> (0 .. MaxId) \X Int]
      BY <1>17, <2>1, PutSectorType DEF Link
    <2>3. n + Chunk \in Nat /\ n + Chunk <= size
      BY <1>17, ChunkType DEF Link, TypeOK, LocalsOK
    <2> QED
      BY <1>17, <2>2, <2>3, GeometryAssumption
      DEF Link, TypeOK, LocalsOK, Pcs
  <1>18. CASE Commit
    <2>1. table' \in [Slots -> Entries]
      BY <1>18 DEF Commit, TypeOK
    <2> QED
      BY <1>18, <2>1, ResetType DEF Commit, Return, TypeOK
  <1>19. CASE ReadSector
    <2>1. n' \in Nat
      BY <1>19 DEF ReadSector, TypeOK, Least
    <2>2. /\ reg' \in Bits \cup {Junk} /\ k' \in 0 .. RegionSize /\ k' < RegionSize
          /\ pc' \in {"read", "read_end"}
      BY <1>19, GeometryAssumption, PointerType, WordsFollowed
      DEF ReadSector, TypeOK, LocalsOK
    <2> QED
      BY <1>19, <2>1, <2>2 DEF ReadSector, TypeOK, LocalsOK, disk, Pcs
  <1>20. CASE ReadEnd
    BY <1>20, ResetType DEF ReadEnd, Return, TypeOK, disk
  <1>21. CASE Crash
    BY <1>21, ResetType DEF Crash, TypeOK, disk
  <1>22. CASE Boot
    BY <1>22, ReloadType, ResetType DEF Boot, Return, TypeOK
  <1>23. CASE UNCHANGED vars
    BY <1>23 DEF vars, disk, locals, TypeOK, LocalsOK
  <1> QED
    BY <1>1, <1>2, <1>3, <1>4, <1>5, <1>6, <1>7, <1>8, <1>9, <1>10, <1>11,
       <1>12, <1>13, <1>14, <1>15, <1>16, <1>17, <1>18, <1>19, <1>20, <1>21,
       <1>22, <1>23
    DEF Next, Step, RmFile, RmDir, Write, Read

(* Every value stays in the range its C type and the disk layout give it.  *)
THEOREM TypeCorrect == Spec => []TypeOK
  <1>1. Init => TypeInv
    BY TypeInit
  <1>2. TypeInv /\ [Next]_vars => TypeInv'
    BY TypeStep
  <1>3. TypeInv => TypeOK
    BY DEF TypeInv
  <1> QED
    BY <1>1, <1>2, <1>3, PTL DEF Spec

-----------------------------------------------------------------------------
(* Identities.  IdsOrdered is not inductive: the entry that a maker is     *)
(* about to write must be above the live ones already, and the copy that a *)
(* write or a removal goes by must be of the entry its slot holds.         *)

WellFormed(e) ==
  /\ e.name \in Names \cup {NoName} /\ (e.name = NoName => e.parent = Root)
  /\ e.type \in {File, Dir}

Identity(e) == [id |-> e.id, parent |-> e.parent, name |-> e.name,
                type |-> e.type, frame |-> e.frame]

CopiesOK ==
  /\ \A s \in Live : WellFormed(table[s])
  /\ pc = "walk" => cur \in LiveIds \cup {Root, NotFound}
  /\ pc \in Making =>
       /\ WellFormed(ent) /\ ent.id > 0
       /\ \A i \in LiveIds : i < ent.id
       /\ ent.parent \in LiveIds \cup {Root}
  /\ pc \in Writing => slot \in Live /\ Identity(ent) = Identity(table[slot])
  /\ pc \in {"next", "clear", "erase"} =>
       slot \in Live /\ op \in {"rm_file", "rm_dir"} /\ table[slot].type = TypeOf(op)
  /\ pc \in {"next", "clear"} => op = "rm_file"
  /\ pc = "erase" /\ op = "rm_dir" => ~HasChildren(table[slot].id)

IdInv == TypeInv /\ IdsOrdered /\ CopiesOK

LEMMA SameTable ==
  ASSUME table' = table
  PROVE  /\ Live' = Live /\ LiveIds' = LiveIds
         /\ \A i : HasChildren(i)' <=> HasChildren(i)
         /\ NamespaceNodes' = NamespaceNodes
  BY DEF Live, LiveIds, HasChildren, NamespaceNodes

(* reload_last_id_to_disk leaves a number no live id is above. *)
LEMMA ReloadCovers ==
  ASSUME ReloadLastId
  PROVE  \A i \in LiveIds : i <= lastId'
  BY DEF ReloadLastId

LEMMA IdInit == Init => IdInv
  <1>1. ASSUME Init PROVE Live = {}
    BY <1>1 DEF Init, Live, EmptyEntry
  <1> QED
    BY <1>1, TypeInit
    DEF IdInv, IdsOrdered, CopiesOK, LiveIds, Init, Making, Writing

LEMMA IdStep == IdInv /\ [Next]_vars => IdInv'
  <1> SUFFICES ASSUME IdInv, [Next]_vars
               PROVE  IdInv'
    OBVIOUS
  <1>0. TypeInv'
    BY TypeStep DEF IdInv
  <1> USE <1>0 DEF IdInv, Making, Writing
  <1>1. ASSUME NEW o \in Ops, Start(o)
        PROVE  IdInv'
    BY <1>1, SameTable DEF Start, disk, IdsOrdered, CopiesOK
  <1>2. CASE Walk
    <2>1. cur' \in LiveIds \cup {Root, NotFound}
      BY <1>2 DEF Walk, IsFirst, LiveIds, Live, Root
    <2> QED
      BY <1>2, <2>1, SameTable DEF Walk, disk, IdsOrdered, CopiesOK
  <1>3. CASE MkFile \/ MkDir
    <2>1. CASE cur = NotFound
      BY <1>3, <2>1, SameTable
      DEF MkFile, MkDir, MkEntry, Return, ResetLocals, disk, IdsOrdered, CopiesOK
    <2>2. CASE cur # NotFound
      <3> PICK nm \in Names \cup {NoName} :
             /\ nm = NoName => cur = Root
             /\ ent' = [id |-> lastId + 1, parent |-> cur, name |-> nm,
                        type |-> TypeOf(op), frame |-> 0,
                        size |-> IF op = "mk_dir" THEN 4 ELSE 0]
        BY <1>3, <2>2 DEF MkFile, MkDir, MkEntry
      <3>1. WellFormed(ent') /\ ent'.id > 0 /\ ent'.parent \in LiveIds \cup {Root}
        BY <1>3, <2>2, InputAssumption
        DEF MkFile, MkDir, MkEntry, WellFormed, TypeOf, CopiesOK, TypeInv, TypeOK
      <3>2. \A i \in LiveIds : i < ent'.id
        BY <1>3, LiveIdsType, InputAssumption DEF MkFile, MkDir, MkEntry, IdsOrdered, TypeInv, TypeOK
      <3> QED
        BY <1>3, <2>2, <3>1, <3>2, SameTable
        DEF MkFile, MkDir, MkEntry, disk, IdsOrdered, CopiesOK, WellFormed
    <2> QED
      BY <2>1, <2>2
  <1>4. CASE MkScan
    <2> PICK b \in ScanResults :
           IF b = NotFound
           THEN Return
           ELSE /\ reg' = b /\ ent' = [ent EXCEPT !.frame = b]
                /\ pc' = "set"
                /\ UNCHANGED <<op, cur, slot, nxt, k, n, size>>
      BY <1>4 DEF MkScan
    <2>1. CASE b = NotFound
      BY <1>4, <2>1, SameTable
      DEF MkScan, Return, ResetLocals, disk, IdsOrdered, CopiesOK
    <2>2. CASE b # NotFound
      <3>1. /\ ent'.id = ent.id /\ ent'.parent = ent.parent
            /\ ent'.name = ent.name /\ ent'.type = ent.type
        BY <2>2 DEF TypeInv, TypeOK, Entries
      <3> QED
        BY <1>4, <2>2, <3>1, SameTable
        DEF MkScan, disk, IdsOrdered, CopiesOK, WellFormed
    <2> QED
      BY <2>1, <2>2
  <1>5. CASE MkSet
    <2>1. lastId' >= lastId /\ lastId' \in Int
      BY <1>5, InputAssumption DEF MkSet, BitmapSet, TypeInv, TypeOK
    <2>2. \A i \in LiveIds : i <= lastId'
      BY <1>5, <2>1, LiveIdsType, InputAssumption
      DEF MkSet, IdsOrdered, TypeInv, TypeOK
    <2> QED
      BY <1>5, <2>2, SameTable DEF MkSet, IdsOrdered, CopiesOK
  <1>6. CASE WriteEntry
    <2>1. CASE EmptySlots = {}
      BY <1>6, <2>1, SameTable DEF WriteEntry, locals, IdsOrdered, CopiesOK
    <2>2. CASE EmptySlots # {}
      <3> PICK s \in Slots : /\ IsFirst(s, EmptySlots)
                             /\ table' = [table EXCEPT ![s] = ent]
        BY <1>6, <2>2 DEF WriteEntry
      <3>1. table[s].id = 0
        BY DEF IsFirst, EmptySlots
      <3>2. Live' = Live \cup {s} /\ s \notin Live
        BY <1>6, <3>1 DEF WriteEntry, Live, CopiesOK, TypeInv, TypeOK
      <3>3. /\ table'[s] = ent
            /\ \A t \in Live : table'[t] = table[t] /\ table[t].id \in LiveIds
        BY <3>2 DEF TypeInv, TypeOK, LiveIds, Live
      <3>4. \A i \in LiveIds : i < ent.id
        BY <1>6 DEF WriteEntry, CopiesOK
      <3>5. ent.parent < ent.id
        BY <1>6 DEF WriteEntry, CopiesOK, Root
      <3>6. \A t \in Slots : table[t].id \in Int
        BY DEF TypeInv, TypeOK, Entries
      <3>7. \A t, u \in Live' : table'[t].id = table'[u].id => t = u
        BY <3>2, <3>3, <3>4, <3>6 DEF IdsOrdered, Live
      <3>8. \A t \in Live' : table'[t].parent < table'[t].id
        BY <3>2, <3>3, <3>5 DEF IdsOrdered
      <3>9. \A t \in Live' : WellFormed(table'[t])
        BY <1>6, <3>2, <3>3 DEF WriteEntry, CopiesOK
      <3> QED
        BY <1>6, <3>7, <3>8, <3>9 DEF WriteEntry, IdsOrdered, CopiesOK, WellFormed
    <2> QED
      BY <2>1, <2>2
  <1>7. CASE Reload
    BY <1>7, ReloadCovers, SameTable
    DEF Reload, Return, ResetLocals, IdsOrdered, CopiesOK
  <1>8. ASSUME NEW o \in {"rm_file", "rm_dir", "write", "read"},
               NEW next \in {"next", "erase", "sector", "read"},
               o = "write" <=> next = "sector", o = "read" <=> next = "read",
               o = "rm_file" <=> next = "next",
               Locate(o, next)
        PROVE  IdInv'
    <2>1. CASE Return
      BY <1>8, <2>1, SameTable
      DEF Locate, Return, ResetLocals, disk, IdsOrdered, CopiesOK
    <2>2. CASE ~Return
      <3> PICK s \in Slots :
             /\ IsFirst(s, WithId(cur)) /\ ~Refused(o, s)
             /\ ent' = table[s] /\ slot' = s /\ pc' = next /\ op' = op
        BY <1>8, <2>2 DEF Locate
      <3>1. cur # 0 /\ table[s].id = cur /\ s \in Live
        BY <1>8, <2>2 DEF Locate, IsFirst, WithId, Live, Root
      <3>2. table[s].type = TypeOf(op) /\ (op = "rm_dir" => ~HasChildren(table[s].id))
        BY <1>8, <3>1 DEF Refused, Locate
      <3> QED
        BY <1>8, <3>1, <3>2, SameTable DEF Locate, disk, IdsOrdered, CopiesOK
    <2> QED
      BY <2>1, <2>2
  <1>9. CASE FreeNext
    BY <1>9, SameTable DEF FreeNext, disk, IdsOrdered, CopiesOK
  <1>10. CASE FreeClear
    BY <1>10, SameTable DEF FreeClear, IdsOrdered, CopiesOK
  <1>11. CASE Erase
    <2>1. slot \in Slots /\ table' = [table EXCEPT ![slot] = EmptyEntry]
      BY <1>11 DEF Erase, TypeInv, TypeOK
    <2>2. Live' = Live \ {slot}
      BY <2>1 DEF Live, EmptyEntry, TypeInv, TypeOK
    <2>3. \A t \in Live' : table'[t] = table[t]
      BY <2>1, <2>2 DEF TypeInv, TypeOK, Live
    <2> QED
      BY <1>11, <2>2, <2>3 DEF Erase, locals, IdsOrdered, CopiesOK, WellFormed
  <1>12. CASE WriteSector
    BY <1>12, SameTable DEF WriteSector, IdsOrdered, CopiesOK
  <1>13. CASE WriteLastSector
    <2>1. Identity(ent') = Identity(ent)
      BY <1>13 DEF WriteLastSector, Identity, TypeInv, TypeOK, Entries
    <2> QED
      BY <1>13, <2>1, SameTable DEF WriteLastSector, IdsOrdered, CopiesOK, Identity
  <1>14. CASE ChainSector
    BY <1>14, SameTable DEF ChainSector, disk, IdsOrdered, CopiesOK
  <1>15. CASE ChainScan
    <2>1. Identity(ent') = Identity(ent) /\ pc' \in {"commit", "chain_set"}
      BY <1>15 DEF ChainScan, Identity, TypeInv, TypeOK, Entries
    <2> QED
      BY <1>15, <2>1, SameTable DEF ChainScan, IdsOrdered, CopiesOK, Identity
  <1>16. CASE ChainSet
    <2>1. lastId' >= lastId /\ lastId' \in Int
      BY <1>16, InputAssumption DEF ChainSet, BitmapSet, TypeInv, TypeOK
    <2>2. \A i \in LiveIds : i <= lastId'
      BY <1>16, <2>1, LiveIdsType, InputAssumption
      DEF ChainSet, IdsOrdered, TypeInv, TypeOK
    <2> QED
      BY <1>16, <2>2, SameTable DEF ChainSet, IdsOrdered, CopiesOK
  <1>17. CASE Link
    BY <1>17, SameTable DEF Link, IdsOrdered, CopiesOK
  <1>18. CASE Commit
    <2>1. /\ slot \in Slots /\ table' = [table EXCEPT ![slot] = ent]
          /\ Identity(ent) = Identity(table[slot]) /\ slot \in Live
      BY <1>18 DEF Commit, TypeInv, TypeOK, CopiesOK
    <2>2. \A t \in Slots : Identity(table'[t]) = Identity(table[t])
      BY <2>1 DEF TypeInv, TypeOK
    <2>3. \A t \in Slots : /\ table'[t].id = table[t].id
                           /\ table'[t].parent = table[t].parent
                           /\ table'[t].name = table[t].name
                           /\ table'[t].type = table[t].type
      BY <2>2 DEF Identity
    <2>4. Live' = Live /\ LiveIds' = LiveIds
      BY <2>3 DEF Live, LiveIds
    <2> QED
      BY <1>18, <2>3, <2>4
      DEF Commit, Return, ResetLocals, IdsOrdered, CopiesOK, WellFormed, Live
  <1>19. CASE ReadSector
    BY <1>19, SameTable DEF ReadSector, disk, IdsOrdered, CopiesOK
  <1>20. CASE ReadEnd
    BY <1>20, SameTable
    DEF ReadEnd, Return, ResetLocals, disk, IdsOrdered, CopiesOK
  <1>21. CASE Crash
    BY <1>21, SameTable DEF Crash, disk, IdsOrdered, CopiesOK
  <1>22. CASE Boot
    BY <1>22, ReloadCovers, SameTable
    DEF Boot, Return, ResetLocals, IdsOrdered, CopiesOK
  <1>23. CASE UNCHANGED vars
    BY <1>23, SameTable DEF vars, disk, locals, IdsOrdered, CopiesOK
  <1> QED
    BY <1>1, <1>2, <1>3, <1>4, <1>5, <1>6, <1>7, <1>8, <1>9, <1>10, <1>11,
       <1>12, <1>13, <1>14, <1>15, <1>16, <1>17, <1>18, <1>19, <1>20, <1>21,
       <1>22, <1>23
    DEF Next, Step, RmFile, RmDir, Write, Read

(* Live entries have distinct ids, each above its parent's, and the next   *)
(* id to be given is above all of them, whatever resets hit the calls.     *)
THEOREM IdsCorrect == Spec => []IdsOrdered
  <1>1. IdInv => IdsOrdered
    BY DEF IdInv
  <1> QED
    BY IdInit, IdStep, <1>1, PTL DEF Spec

-----------------------------------------------------------------------------
(* Refinement: the table changes in three steps only.  The write of a new  *)
(* entry is the abstract Create, the erasure of one is RemoveFile or       *)
(* RemoveDir, and the write-back of a copy does not show.                  *)

Node(s) == [id |-> table[s].id, parent |-> table[s].parent,
            name |-> table[s].name, type |-> table[s].type]

LEMMA NodesOfSlots == NamespaceNodes = {Node(s) : s \in Live}
  BY DEF NamespaceNodes, Node

LEMMA IdsOfNodes == Abstract!Ids = LiveIds
  <1>1. ASSUME NEW i \in LiveIds PROVE i \in Abstract!Ids
    <2>1. PICK s \in Live : i = Node(s).id
      BY DEF LiveIds, Node
    <2> QED
      BY <2>1, NodesOfSlots DEF Abstract!Ids
  <1>2. ASSUME NEW i \in Abstract!Ids PROVE i \in LiveIds
    <2>1. PICK s \in Live : i = Node(s).id
      BY NodesOfSlots DEF Abstract!Ids
    <2> QED
      BY <2>1 DEF LiveIds, Node
  <1> QED
    BY <1>1, <1>2

LEMMA RefinementInit == Init => Abstract!Init
  BY DEF Init, Abstract!Init, NamespaceNodes, Live, EmptyEntry

LEMMA CreateStep == IdInv /\ WriteEntry => [Abstract!Next]_NamespaceNodes
  <1> SUFFICES ASSUME IdInv, WriteEntry
               PROVE  [Abstract!Next]_NamespaceNodes
    OBVIOUS
  <1>1. CASE EmptySlots = {}
    BY <1>1, SameTable DEF WriteEntry
  <1>2. CASE EmptySlots # {}
    <2> PICK s \in Slots : /\ IsFirst(s, EmptySlots)
                           /\ table' = [table EXCEPT ![s] = ent]
      BY <1>2 DEF WriteEntry
    <2> DEFINE x == [id |-> ent.id, parent |-> ent.parent,
                     name |-> ent.name, type |-> ent.type]
    <2>1. WellFormed(ent) /\ ent.id > 0 /\ ent.parent \in LiveIds \cup {Root}
          /\ \A i \in LiveIds : i < ent.id
      BY DEF IdInv, CopiesOK, Making, WriteEntry
    <2>2. Live' = Live \cup {s} /\ s \notin Live
      BY <2>1 DEF IsFirst, EmptySlots, Live, IdInv, TypeInv, TypeOK
    <2>3. \A t \in Live' : Node(t)' = IF t = s THEN x ELSE Node(t)
      BY <2>2 DEF Node, IdInv, TypeInv, TypeOK, Live
    <2>4. NamespaceNodes' = NamespaceNodes \cup {x}
      BY <2>2, <2>3 DEF NamespaceNodes, Node
    <2>5. x \in Abstract!NodeSet
      BY <2>1, InputAssumption
      DEF Abstract!NodeSet, WellFormed, IdInv, TypeInv, TypeOK, Entries
    <2>6. Abstract!Create
      BY <2>1, <2>4, <2>5, IdsOfNodes
      DEF Abstract!Create, Abstract!Root, Root, WellFormed
    <2> QED
      BY <2>6 DEF Abstract!Next
  <1> QED
    BY <1>1, <1>2

LEMMA RemoveStep == IdInv /\ Erase => [Abstract!Next]_NamespaceNodes
  <1> SUFFICES ASSUME IdInv, Erase
               PROVE  [Abstract!Next]_NamespaceNodes
    OBVIOUS
  <1>1. slot \in Live /\ table' = [table EXCEPT ![slot] = EmptyEntry]
    BY DEF Erase, IdInv, CopiesOK
  <1>2. Live' = Live \ {slot}
    BY <1>1 DEF Live, EmptyEntry, IdInv, TypeInv, TypeOK
  <1>3. \A t \in Live' : Node(t)' = Node(t)
    BY <1>1, <1>2 DEF Node, IdInv, TypeInv, TypeOK, Live
  <1>4. \A t \in Live : Node(t) = Node(slot) => t = slot
    BY <1>1 DEF Node, IdInv, IdsOrdered
  <1>5. NamespaceNodes' = NamespaceNodes \ {Node(slot)}
    <2>1. NamespaceNodes' = {Node(t)' : t \in Live'}
      BY DEF NamespaceNodes, Node
    <2>2. NamespaceNodes' = {Node(t) : t \in Live \ {slot}}
      BY <2>1, <1>2, <1>3
    <2> QED
      BY <2>2, <1>1, <1>4, NodesOfSlots
  <1>6. Node(slot) \in NamespaceNodes
    BY <1>1, NodesOfSlots
  <1>7. CASE op = "rm_file"
    <2>1. Node(slot).type = File
      BY <1>7 DEF Node, Erase, IdInv, CopiesOK, TypeOf
    <2> QED
      BY <1>5, <1>6, <2>1 DEF Abstract!RemoveFile, Abstract!Next
  <1>8. CASE op = "rm_dir"
    <2>1. Node(slot).type = Dir
      BY <1>8 DEF Node, Erase, IdInv, CopiesOK, TypeOf
    <2>2. \A y \in NamespaceNodes : y.parent # Node(slot).id
      BY <1>8 DEF NamespaceNodes, Node, Erase, IdInv, CopiesOK, HasChildren
    <2> QED
      BY <1>5, <1>6, <2>1, <2>2 DEF Abstract!RemoveDir, Abstract!Next
  <1> QED
    BY <1>7, <1>8 DEF Erase, IdInv, CopiesOK

LEMMA CommitStep == IdInv /\ Commit => NamespaceNodes' = NamespaceNodes
  <1> SUFFICES ASSUME IdInv, Commit
               PROVE  NamespaceNodes' = NamespaceNodes
    OBVIOUS
  <1>1. /\ slot \in Slots /\ table' = [table EXCEPT ![slot] = ent]
        /\ Identity(ent) = Identity(table[slot])
    BY DEF Commit, IdInv, TypeInv, TypeOK, CopiesOK, Writing
  <1>2. \A t \in Slots : Identity(table'[t]) = Identity(table[t])
    BY <1>1 DEF IdInv, TypeInv, TypeOK
  <1>3. \A t \in Slots : Node(t)' = Node(t) /\ table'[t].id = table[t].id
    BY <1>2 DEF Identity, Node
  <1>4. Live' = Live
    BY <1>3 DEF Live
  <1> QED
    BY <1>3, <1>4 DEF NamespaceNodes, Node, Live

(* The steps that leave the table alone. *)
LEMMA OtherSteps ==
  [Next]_vars => WriteEntry \/ Erase \/ Commit \/ table' = table
  BY DEF Next, Step, vars, disk, locals, Start, Walk, MkFile, MkDir, MkEntry, MkScan, MkSet,
         Reload, RmFile, RmDir, Write, Read, Locate, FreeNext, FreeClear,
         WriteSector, WriteLastSector, ChainSector, ChainScan, ChainSet, Link,
         ReadSector, ReadEnd, Boot, Crash

LEMMA RefinementStep == IdInv /\ [Next]_vars => [Abstract!Next]_NamespaceNodes
  BY OtherSteps, CreateStep, RemoveStep, CommitStep, SameTable

(* The calls, cut into sector writes and hit by resets, are atomic as far  *)
(* as names and identities go: what the table shows is what some sequence  *)
(* of whole calls leaves.                                                  *)
THEOREM Refinement == Spec => NamespaceSpec
  BY RefinementInit, RefinementStep, IdInit, IdStep, PTL
  DEF Spec, NamespaceSpec, Abstract!Spec

(* The write-back of a stale copy never changes who an entry is.           *)
THEOREM IdentityIsFixed == Spec => IdentityFixed
  <1> DEFINE Fixed == \A s \in Live :
        table'[s] # table[s] =>
          \/ table'[s] = EmptyEntry
          \/ table'[s] = [table[s] EXCEPT !.size = table'[s].size]
  <1>1. ASSUME IdInv, [Next]_vars PROVE [Fixed]_vars
    <2>1. CASE WriteEntry
      BY <1>1, <2>1
      DEF WriteEntry, IsFirst, EmptySlots, Live, IdInv, TypeInv, TypeOK
    <2>2. CASE Erase
      BY <1>1, <2>2 DEF Erase, Live, IdInv, TypeInv, TypeOK
    <2>3. CASE Commit
      <3>1. table' = [table EXCEPT ![slot] = ent] /\ slot \in Slots
        BY <1>1, <2>3 DEF Commit, IdInv, TypeInv, TypeOK
      <3>2. ent \in Entries /\ table[slot] \in Entries
            /\ Identity(ent) = Identity(table[slot])
        BY <1>1, <2>3, <3>1 DEF Commit, IdInv, TypeInv, TypeOK, CopiesOK, Writing
      <3>3. ent = [table[slot] EXCEPT !.size = ent.size]
        BY <3>2 DEF Entries, Identity
      <3> QED
        BY <1>1, <3>1, <3>3 DEF Live, IdInv, TypeInv, TypeOK
    <2> QED
      BY <1>1, <2>1, <2>2, <2>3, OtherSteps
  <1> QED
    BY <1>1, IdInit, IdStep, PTL DEF Spec, IdentityFixed

-----------------------------------------------------------------------------
(* Blocks: the regions that begin at a multiple of the region size.        *)

Aligned(b) == b % RegionSize = 0
AlignedBits == {b \in Bits : Aligned(b)}

LEMMA Positive == /\ RegionSize \in Nat /\ RegionSize > 0
                  /\ FramesPerSector \in Nat /\ FramesPerSector > 0
                  /\ NumFrames \in Nat /\ NumFrames > 0
  BY GeometryAssumption

LEMMA MultipleIsAligned ==
  ASSUME NEW q \in Int
  PROVE  Aligned(RegionSize * q)
  BY Positive DEF Aligned

LEMMA AlignedIsMultiple ==
  ASSUME NEW x \in Int, Aligned(x)
  PROVE  x = RegionSize * (x \div RegionSize) /\ x \div RegionSize \in Int
  BY Positive DEF Aligned

LEMMA AlignedApart ==
  ASSUME NEW a \in Int, NEW b \in Int, Aligned(a), Aligned(b), a < b
  PROVE  a + RegionSize <= b
  <1> DEFINE p == a \div RegionSize
             q == b \div RegionSize
  <1>1. a = RegionSize * p /\ b = RegionSize * q /\ p \in Int /\ q \in Int
    BY AlignedIsMultiple
  <1> HIDE DEF p, q
  <1>2. ~(p >= q)
    BY <1>1, Positive
  <1>3. RegionSize * (p + 1) <= RegionSize * q
    BY <1>1, <1>2, Positive
  <1> QED
    BY <1>1, <1>3, Positive

LEMMA BlockStart ==
  ASSUME NEW b \in Nat
  PROVE  \E a \in Nat : Aligned(a) /\ a <= b /\ b < a + RegionSize
  <1> DEFINE a == RegionSize * (b \div RegionSize)
  <1>1. b \div RegionSize \in Nat
    BY Positive
  <1>2. a \in Nat /\ a <= b /\ b < a + RegionSize
    BY Positive
  <1>3. Aligned(a)
    BY <1>1, MultipleIsAligned
  <1> QED
    BY <1>2, <1>3

(* A bitmap sector holds whole blocks. *)
LEMMA SectorsAligned ==
  ASSUME NEW q \in Int
  PROVE  Aligned(FramesPerSector * q)
  <1> DEFINE d == FramesPerSector \div RegionSize
  <1>1. FramesPerSector = RegionSize * d /\ d \in Int
    BY AlignedIsMultiple, GeometryAssumption DEF Aligned
  <1> HIDE DEF d
  <1>2. FramesPerSector * q = RegionSize * (d * q) /\ d * q \in Int
    BY <1>1, Positive
  <1> QED
    BY <1>2, MultipleIsAligned

(* The sector of the bitmap that bit b is in. *)
LEMMA SectorBounds ==
  ASSUME NEW b \in Nat
  PROVE  /\ SectorEnd(b) \in Nat
         /\ SectorEnd(b) - FramesPerSector <= b /\ b < SectorEnd(b)
         /\ Aligned(SectorEnd(b)) /\ Aligned(SectorEnd(b) - FramesPerSector)
  <1> DEFINE q == b \div FramesPerSector
  <1>1. /\ q \in Nat /\ FramesPerSector * q <= b
        /\ b < FramesPerSector * q + FramesPerSector
    BY Positive
  <1>2. /\ SectorEnd(b) = FramesPerSector * q + FramesPerSector
        /\ SectorEnd(b) = FramesPerSector * (q + 1)
    BY <1>1, Positive DEF SectorEnd
  <1> HIDE DEF q
  <1>3. Aligned(FramesPerSector * q) /\ Aligned(FramesPerSector * (q + 1))
    BY <1>1, SectorsAligned
  <1> QED
    BY <1>1, <1>2, <1>3, Positive

LEMMA SameSector ==
  ASSUME NEW a \in Nat, NEW b \in Nat,
         SectorEnd(b) - FramesPerSector <= a, a < SectorEnd(b)
  PROVE  SectorEnd(a) = SectorEnd(b)
  <1> DEFINE p == a \div FramesPerSector
             q == b \div FramesPerSector
  <1>1. /\ p \in Nat /\ FramesPerSector * p <= a
        /\ a < FramesPerSector * p + FramesPerSector
        /\ q \in Nat /\ FramesPerSector * q <= b
        /\ b < FramesPerSector * q + FramesPerSector
    BY Positive
  <1>2. /\ SectorEnd(a) = FramesPerSector * p + FramesPerSector
        /\ SectorEnd(b) = FramesPerSector * q + FramesPerSector
    BY <1>1, Positive DEF SectorEnd
  <1> HIDE DEF p, q
  <1>3. ~(p >= q + 1)
    <2>1. p >= q + 1 => FramesPerSector * p >= FramesPerSector * (q + 1)
      BY <1>1, Positive
    <2> QED
      BY <2>1, <1>1, <1>2, Positive
  <1>4. ~(q >= p + 1)
    <2>1. q >= p + 1 => FramesPerSector * q >= FramesPerSector * (p + 1)
      BY <1>1, Positive
    <2> QED
      BY <2>1, <1>1, <1>2, Positive
  <1> QED
    BY <1>1, <1>2, <1>3, <1>4

LEMMA BitmapAligned == Aligned(NumFrames)
  <1> DEFINE q == NumFrames \div FramesPerSector
  <1>1. NumFrames = FramesPerSector * q /\ q \in Int
    BY Positive, GeometryAssumption
  <1> HIDE DEF q
  <1> QED
    BY <1>1, SectorsAligned

(* A block lies in one bitmap sector, and two blocks have no bit in common. *)
LEMMA BlockInside ==
  ASSUME NEW b \in AlignedBits
  PROVE  /\ b \in Nat /\ b + RegionSize <= SectorEnd(b)
         /\ b + RegionSize <= NumFrames /\ Window(b) \subseteq Bits
  <1>1. b \in Nat /\ b < NumFrames /\ Aligned(b)
    BY Positive DEF AlignedBits, Bits
  <1>2. b + RegionSize <= NumFrames
    BY <1>1, BitmapAligned, AlignedApart, Positive
  <1>3. b + RegionSize <= SectorEnd(b)
    BY <1>1, SectorBounds, AlignedApart
  <1> QED
    BY <1>1, <1>2, <1>3, Positive DEF Window, Bits

LEMMA BlocksApart ==
  ASSUME NEW a \in AlignedBits, NEW b \in AlignedBits, a # b
  PROVE  Window(a) \cap Window(b) = {}
  <1>1. a \in Int /\ b \in Int /\ Aligned(a) /\ Aligned(b)
    BY DEF AlignedBits, Bits
  <1>2. a + RegionSize <= b \/ b + RegionSize <= a
    BY <1>1, AlignedApart
  <1> QED
    BY <1>1, <1>2, Positive DEF Window

LEMMA ZeroAligned == 0 \in AlignedBits
  BY ZeroBit, Positive DEF AlignedBits, Aligned

Whole(b) == Window(b) \subseteq bitmap \/ Window(b) \cap bitmap = {}

(* With blocks marked as wholes the scan finds the start of a free block:  *)
(* an earlier bit of its block is free too, and a window that sticks out   *)
(* of the bitmap sector begins behind the start of the sector's last block. *)
LEMMA FirstFreeBlock ==
  ASSUME \A a \in AlignedBits : Whole(a),
         NEW b \in ScanResults, b # NotFound
  PROVE  b \in AlignedBits /\ Window(b) \cap bitmap = {}
  <1>1. /\ b \in Bits /\ b \in FreeWindows \cup OverrunWindows
        /\ \A f \in FreeWindows : b <= f
    BY DEF ScanResults, FreeWindows, OverrunWindows
  <1>2. b \in Nat
    BY <1>1 DEF Bits
  <1>3. b \notin bitmap
    BY <1>1, <1>2, SectorBounds, Positive
    DEF FreeWindows, OverrunWindows, Window
  <1> PICK a \in Nat : Aligned(a) /\ a <= b /\ b < a + RegionSize
    BY <1>2, BlockStart
  <1>4. a \in AlignedBits
    BY <1>1, Positive DEF AlignedBits, Bits
  <1>5. b \in Window(a)
    BY <1>2, Positive DEF Window
  <1>6. Window(a) \cap bitmap = {}
    BY <1>3, <1>4, <1>5 DEF Whole
  <1>7. SectorEnd(a) = SectorEnd(b)
    <2>1. SectorEnd(b) - FramesPerSector <= a
      <3>1. CASE a < SectorEnd(b) - FramesPerSector
        <4>1. a + RegionSize <= SectorEnd(b) - FramesPerSector
          BY <1>2, <3>1, SectorBounds, AlignedApart, Positive
        <4> QED
          BY <4>1, <1>2, SectorBounds, Positive
      <3> QED
        BY <3>1, <1>2, SectorBounds, Positive
    <2> QED
      BY <2>1, <1>2, SameSector, SectorBounds, Positive
  <1>8. a \in FreeWindows
    BY <1>4, <1>6, <1>7, BlockInside DEF FreeWindows, AlignedBits
  <1>9. a = b
    BY <1>1, <1>2, <1>8
  <1> QED
    BY <1>4, <1>6, <1>9

-----------------------------------------------------------------------------
(* Alignment.  As long as no reset falls between two bits of a region, all *)
(* blocks but the one being marked or cleared are marked as wholes, and    *)
(* every region in a table entry and in the locals is a block.  That needs *)
(* the pointer words that calls follow to name blocks: they all do on a    *)
(* disk that was blank, and where no file needs a second region none is    *)
(* ever followed.                                                          *)

BitsAreWhole == CrashPoints \cap {"set", "chain_set", "clear"} = {}

(* The block whose bits are being changed. *)
Unfinished == IF pc \in {"set", "clear"} THEN {reg}
              ELSE IF pc = "chain_set" THEN {nxt} ELSE {}

BitmapWhole ==
  /\ \A b \in AlignedBits \ Unfinished : Whole(b)
  /\ pc \in {"set", "chain_set"} =>
       \A b \in Unfinished : \A i \in 0 .. k - 1 : b + i \in bitmap
  /\ pc = "clear" => \A i \in 0 .. k - 1 : reg + i \notin bitmap

FramesAligned ==
  /\ \A s \in Slots : table[s].frame \in AlignedBits
  /\ ent.frame \in AlignedBits /\ reg \in AlignedBits

BlocksInv == BitmapWhole /\ FramesAligned

PointersAligned ==
  /\ \A b \in AlignedBits : word[b + RegionSize - 1] \in AlignedBits \cup {NotFound}
  /\ nxt \in AlignedBits \cup {NotFound}

(* What a call is about to take for a region is one. *)
FollowedOK ==
  /\ pc = "clear" => nxt \in AlignedBits \cup EndOfChain
  /\ pc \in {"chain_set", "link"} => nxt \in AlignedBits
  /\ pc = "read" /\ k = RegionSize - 1 /\ n + 504 < size =>
       PointerAt(reg + k, {0}) \subseteq AlignedBits \cup {NotFound}

LEMMA BlocksInit == Init => BlocksInv
  <1> SUFFICES ASSUME Init
               PROVE  BlocksInv
    OBVIOUS
  <1>1. BitmapWhole
    BY DEF Init, BitmapWhole, Unfinished, Whole
  <1>2. FramesAligned
    BY ZeroAligned DEF Init, FramesAligned, EmptyEntry
  <1> QED
    BY <1>1, <1>2 DEF BlocksInv

LEMMA LastIsFrame ==
  ASSUME NEW b \in AlignedBits
  PROVE  b + RegionSize - 1 \in Frames
  BY BlockInside, Positive DEF Frames

LEMMA PointersInit == Init /\ BlankDisk => PointersAligned
  BY LastIsFrame, ZeroAligned DEF Init, BlankDisk, EndOfChain, PointersAligned

(* With aligned pointers everything a call follows is a block. *)
LEMMA PointersFollowed ==
  ASSUME TypeInv, FramesAligned, PointersAligned
  PROVE  FollowedOK
  <1>1. pc \in {"chain_set", "link"} => nxt \in AlignedBits
    BY BlockInside, Positive
    DEF PointersAligned, TypeInv, LocalsOK, Bits, NotFound, Junk
  <1>2. ASSUME k = RegionSize - 1
        PROVE  PointerAt(reg + k, {0}) \subseteq AlignedBits \cup {NotFound}
    <2>1. reg \in AlignedBits /\ reg \in Nat
      BY BlockInside DEF FramesAligned
    <2>2. reg + k = reg + RegionSize - 1
      BY <1>2, <2>1, Positive
    <2>3. reg + k \in Frames /\ word[reg + k] \in AlignedBits \cup {NotFound}
      BY <2>1, <2>2, LastIsFrame DEF PointersAligned
    <2> QED
      BY <2>3 DEF PointerAt
  <1>3. nxt \in AlignedBits \cup EndOfChain
    BY DEF PointersAligned, EndOfChain
  <1> QED
    BY <1>1, <1>2, <1>3 DEF FollowedOK

(* What the steps that change no bit and no block leave as it is. *)
LEMMA SameBitmap ==
  ASSUME BitmapWhole, bitmap' = bitmap, Unfinished = {},
         Unfinished' = {} \/ (k' = 0 /\ Unfinished' \subseteq AlignedBits)
  PROVE  BitmapWhole'
  BY DEF BitmapWhole, Unfinished, Whole, Window

LEMMA SameWords ==
  ASSUME PointersAligned, word' = word,
         nxt' \in AlignedBits \cup {NotFound}
  PROVE  PointersAligned'
  BY DEF PointersAligned

(* The pointer word of a region is in the last of its sectors and nowhere  *)
(* else: a sector before the last is the last one of no other block.       *)
LEMMA PutAligned ==
  ASSUME TypeOK, FramesAligned, PointersAligned, k \in 0 .. RegionSize - 1,
         NEW w, PutSector(reg + k, w),
         k = RegionSize - 1 => w \in AlignedBits \cup {NotFound},
         nxt' \in AlignedBits \cup {NotFound}
  PROVE  PointersAligned'
  <1> SUFFICES ASSUME NEW b \in AlignedBits
               PROVE  word'[b + RegionSize - 1] \in AlignedBits \cup {NotFound}
    BY DEF PointersAligned
  <1>1. b + RegionSize - 1 \in Frames /\ b \in Nat /\ reg \in Nat
    BY BlockInside, Positive DEF Frames, FramesAligned
  <1>2. word'[b + RegionSize - 1] = IF b + RegionSize - 1 = reg + k THEN w
                                   ELSE word[b + RegionSize - 1]
    BY <1>1 DEF PutSector, TypeOK
  <1>3. CASE b + RegionSize - 1 = reg + k
    <2>1. b + RegionSize - 1 \in Window(reg) \cap Window(b)
      BY <1>1, <1>3, Positive DEF Window
    <2>2. b = reg
      BY <2>1, BlocksApart DEF FramesAligned
    <2> QED
      BY <1>1, <1>2, <1>3, <2>2, Positive
  <1> QED
    BY <1>2, <1>3 DEF PointersAligned

(* One more bit of the unfinished block is marked. *)
LEMMA SetWhole ==
  ASSUME BitmapWhole, NEW b \in AlignedBits, Unfinished = {b},
         pc \in {"set", "chain_set"}, k \in 0 .. RegionSize - 1,
         BitmapSet(b + k),
         \/ Unfinished' = {b} /\ k' = k + 1 /\ pc' \in {"set", "chain_set"}
         \/ Unfinished' = {} /\ k + 1 = RegionSize /\ pc' \notin {"set", "chain_set", "clear"}
  PROVE  BitmapWhole'
  <1>1. b \in Nat /\ Window(b) \subseteq Bits /\ b + k \in Window(b)
    BY BlockInside, Positive DEF Window
  <1>2. bitmap' = bitmap \cup {b + k}
    BY <1>1 DEF BitmapSet
  <1>3. \A i \in 0 .. k : b + i \in bitmap'
    BY <1>1, <1>2 DEF BitmapWhole
  <1>4. \A a \in AlignedBits \ {b} : Whole(a)'
    BY <1>1, <1>2, BlocksApart DEF BitmapWhole, Whole, Window
  <1>5. CASE Unfinished' = {b} /\ k' = k + 1
    <2>1. \A i \in 0 .. k' - 1 : b + i \in bitmap'
      BY <1>3, <1>5
    <2>2. pc' # "clear"
      OBVIOUS
    <2> QED
      BY <1>4, <1>5, <2>1, <2>2 DEF BitmapWhole
  <1>6. CASE Unfinished' = {} /\ k + 1 = RegionSize
    <2>1. \A f \in Window(b) : f - b \in 0 .. k /\ f = b + (f - b)
      BY <1>1, <1>6 DEF Window
    <2>2. Whole(b)'
      BY <1>3, <2>1 DEF Whole, Window
    <2> QED
      BY <1>4, <1>6, <2>2 DEF BitmapWhole
  <1> QED
    BY <1>5, <1>6

(* One more bit of it is cleared. *)
LEMMA ClearWhole ==
  ASSUME BitmapWhole, FramesAligned, pc = "clear", k \in 0 .. RegionSize - 1,
         BitmapClear(reg + k),
         \/ pc' = "clear" /\ reg' = reg /\ k' = k + 1
         \/ pc' \in {"erase", "next"} /\ k + 1 = RegionSize
  PROVE  BitmapWhole'
  <1>1. /\ reg \in AlignedBits /\ reg \in Nat /\ Window(reg) \subseteq Bits
        /\ reg + k \in Window(reg)
    BY BlockInside, Positive DEF Window, FramesAligned
  <1>2. bitmap' = bitmap \ {reg + k}
    BY <1>1 DEF BitmapClear
  <1>3. \A i \in 0 .. k : reg + i \notin bitmap'
    BY <1>1, <1>2 DEF BitmapWhole
  <1>4. \A a \in AlignedBits \ {reg} : Whole(a)'
    BY <1>1, <1>2, BlocksApart DEF BitmapWhole, Whole, Window, Unfinished
  <1>5. CASE pc' = "clear" /\ reg' = reg /\ k' = k + 1
    BY <1>3, <1>4, <1>5 DEF BitmapWhole, Unfinished
  <1>6. CASE pc' \in {"erase", "next"} /\ k + 1 = RegionSize
    <2>1. \A f \in Window(reg) : f - reg \in 0 .. k /\ f = reg + (f - reg)
      BY <1>1, <1>6 DEF Window
    <2>2. Window(reg) \cap bitmap' = {}
      BY <1>3, <2>1
    <2>3. \A a \in AlignedBits : Window(a) \subseteq bitmap' \/ Window(a) \cap bitmap' = {}
      BY <1>4, <2>2 DEF Whole, Window
    <2> QED
      BY <1>6, <2>3 DEF BitmapWhole, Unfinished, Whole, Window
  <1> QED
    BY <1>5, <1>6

LEMMA BlocksStep ==
  ASSUME BitsAreWhole, TypeInv, BlocksInv, FollowedOK, [Next]_vars
  PROVE  BlocksInv'
  <1> USE DEF BlocksInv
  <1>0. TypeOK /\ LocalsOK
    BY DEF TypeInv
  <1>k. pc \in {"set", "clear", "read", "sector", "chain_scan", "chain_set", "link"}
          => k \in 0 .. RegionSize - 1
    BY <1>0, Positive DEF TypeOK, LocalsOK
  (* The scan finds a block whenever no block is half marked. *)
  <1>a. ASSUME Unfinished = {}, NEW b \in ScanResults, b # NotFound
        PROVE  b \in AlignedBits
    BY <1>a, FirstFreeBlock DEF BitmapWhole
  <1>b. ASSUME Return \/ (pc' = "boot" /\ ResetLocals), Unfinished = {},
               table' = table, bitmap' = bitmap
        PROVE  BlocksInv'
    <2>1. BitmapWhole'
      BY <1>b, SameBitmap DEF Return, Unfinished
    <2>2. FramesAligned'
      BY <1>b, ZeroAligned DEF Return, ResetLocals, FramesAligned, EmptyEntry
    <2> QED
      BY <2>1, <2>2
  (* A step that changes no bit and no region. *)
  <1>c. ASSUME Unfinished = {}, Unfinished' = {},
               UNCHANGED <<table, bitmap, reg>>, ent'.frame = ent.frame
        PROVE  BlocksInv'
    <2>1. BitmapWhole'
      BY <1>c, SameBitmap
    <2>2. FramesAligned'
      BY <1>c DEF FramesAligned
    <2> QED
      BY <2>1, <2>2
  <1>1. ASSUME NEW o \in Ops, Start(o)
        PROVE  BlocksInv'
    BY <1>1, <1>c DEF Start, disk, Unfinished
  <1>2. CASE Walk
    BY <1>2, <1>c DEF Walk, disk, Unfinished
  <1>3. CASE MkFile \/ MkDir
    <2>1. CASE cur = NotFound
      BY <1>3, <2>1, <1>b DEF MkFile, MkDir, MkEntry, disk, Unfinished
    <2>2. CASE cur # NotFound
      <3>1. ent'.frame = 0
        BY <1>3, <2>2 DEF MkFile, MkDir, MkEntry
      <3>2. BitmapWhole'
        BY <1>3, <2>2, SameBitmap DEF MkFile, MkDir, MkEntry, disk, Unfinished
      <3>3. FramesAligned'
        BY <1>3, <2>2, <3>1, ZeroAligned DEF MkFile, MkDir, MkEntry, disk, FramesAligned
      <3> QED
        BY <3>2, <3>3
    <2> QED
      BY <2>1, <2>2
  <1>4. CASE MkScan
    <2> PICK b \in ScanResults :
           IF b = NotFound
           THEN Return
           ELSE /\ reg' = b /\ ent' = [ent EXCEPT !.frame = b]
                /\ pc' = "set"
                /\ UNCHANGED <<op, cur, slot, nxt, k, n, size>>
      BY <1>4 DEF MkScan
    <2>1. CASE b = NotFound
      BY <1>4, <2>1, <1>b DEF MkScan, disk, Unfinished
    <2>2. CASE b # NotFound
      <3>1. b \in AlignedBits
        BY <1>4, <2>2, <1>a DEF MkScan, Unfinished
      <3>2. BitmapWhole'
        BY <1>4, <1>0, <2>2, <3>1, SameBitmap DEF MkScan, disk, Unfinished, LocalsOK
      <3>3. FramesAligned'
        BY <1>4, <1>0, <2>2, <3>1 DEF MkScan, disk, FramesAligned, TypeOK, Entries
      <3> QED
        BY <3>2, <3>3
    <2> QED
      BY <2>1, <2>2
  <1>5. CASE MkSet
    <2>1. reg \in AlignedBits /\ k \in 0 .. RegionSize - 1
      BY <1>5, <1>k DEF MkSet, FramesAligned
    <2>2. BitmapWhole'
      BY <1>5, <2>1, SetWhole DEF MkSet, Unfinished
    <2>3. FramesAligned'
      BY <1>5 DEF MkSet, FramesAligned
    <2> QED
      BY <2>2, <2>3
  <1>6. CASE WriteEntry
    <2>1. FramesAligned'
      BY <1>6, <1>0 DEF WriteEntry, FramesAligned, TypeOK, locals
    <2>2. BitmapWhole'
      BY <1>6, SameBitmap DEF WriteEntry, Unfinished, locals
    <2> QED
      BY <2>1, <2>2
  <1>7. CASE Reload
    BY <1>7, <1>b DEF Reload, Unfinished
  <1>8. ASSUME NEW o, NEW next \in {"next", "erase", "sector", "read"},
               Locate(o, next)
        PROVE  BlocksInv'
    <2>1. CASE Return
      BY <1>8, <2>1, <1>b DEF Locate, disk, Unfinished
    <2>2. CASE ~Return
      <3> PICK s \in Slots :
             ent' = table[s] /\ reg' = table[s].frame /\ pc' = next
        BY <1>8, <2>2 DEF Locate
      <3>1. BitmapWhole'
        BY <1>8, SameBitmap DEF Locate, disk, Unfinished
      <3>2. FramesAligned'
        BY <1>8 DEF Locate, disk, FramesAligned
      <3> QED
        BY <3>1, <3>2
    <2> QED
      BY <2>1, <2>2
  <1>9. CASE FreeNext
    <2>1. BitmapWhole'
      BY <1>9, SameBitmap DEF FreeNext, disk, Unfinished, FramesAligned
    <2>2. FramesAligned'
      BY <1>9 DEF FreeNext, disk, FramesAligned
    <2> QED
      BY <2>1, <2>2
  <1>10. CASE FreeClear
    <2>1. k \in 0 .. RegionSize - 1
      BY <1>10, <1>k DEF FreeClear
    <2>2. nxt \in EndOfChain \/ nxt \in AlignedBits
      BY <1>10 DEF FreeClear, FollowedOK
    <2>3. /\ \/ pc' = "clear" /\ reg' = reg /\ k' = k + 1
             \/ pc' \in {"erase", "next"} /\ k + 1 = RegionSize
          /\ reg' \in AlignedBits
      BY <1>10, <2>1, <2>2, Positive DEF FreeClear, FramesAligned
    <2>4. BitmapWhole'
      BY <1>10, <2>1, <2>3, ClearWhole DEF FreeClear
    <2>5. FramesAligned'
      BY <1>10, <2>3 DEF FreeClear, FramesAligned
    <2> QED
      BY <2>4, <2>5
  <1>11. CASE Erase
    <2>1. FramesAligned'
      BY <1>11, <1>0, ZeroAligned DEF Erase, FramesAligned, TypeOK, EmptyEntry, locals
    <2>2. BitmapWhole'
      BY <1>11, SameBitmap DEF Erase, Unfinished, locals
    <2> QED
      BY <2>1, <2>2
  <1>12. CASE WriteSector
    BY <1>12, SameBitmap DEF WriteSector, FramesAligned, Unfinished
  <1>13. CASE WriteLastSector
    <2>1. ent'.frame = ent.frame
      BY <1>13, <1>0 DEF WriteLastSector, TypeOK, Entries
    <2> QED
      BY <1>13, <2>1, SameBitmap DEF WriteLastSector, FramesAligned, Unfinished
  <1>14. CASE ChainSector
    BY <1>14, SameBitmap DEF ChainSector, disk, FramesAligned, Unfinished
  <1>15. CASE ChainScan
    <2> PICK b \in ScanResults :
           IF b = NotFound
           THEN /\ PutSector(reg + k, 0)
                /\ ent' = [ent EXCEPT !.size = n + Chunk]
                /\ pc' = "commit"
                /\ UNCHANGED <<nxt, k>>
           ELSE /\ nxt' = b /\ k' = 0 /\ pc' = "chain_set"
                /\ UNCHANGED <<ent, word, data>>
      BY <1>15 DEF ChainScan
    <2>1. CASE b = NotFound
      <3>1. ent'.frame = ent.frame
        BY <2>1, <1>0 DEF TypeOK, Entries
      <3> QED
        BY <1>15, <2>1, <3>1, SameBitmap DEF ChainScan, FramesAligned, Unfinished
    <2>2. CASE b # NotFound
      <3>1. b \in AlignedBits
        BY <1>15, <2>2, <1>a DEF ChainScan, Unfinished
      <3>2. BitmapWhole'
        BY <1>15, <2>2, <3>1, SameBitmap DEF ChainScan, Unfinished
      <3>3. FramesAligned'
        BY <1>15, <2>2, <3>1 DEF ChainScan, FramesAligned
      <3> QED
        BY <3>2, <3>3
    <2> QED
      BY <2>1, <2>2
  <1>16. CASE ChainSet
    <2>1. nxt \in AlignedBits /\ k \in 0 .. RegionSize - 1
      BY <1>16, <1>k DEF ChainSet, FollowedOK
    <2>2. BitmapWhole'
      BY <1>16, <2>1, SetWhole DEF ChainSet, Unfinished
    <2>3. FramesAligned'
      BY <1>16 DEF ChainSet, FramesAligned
    <2> QED
      BY <2>2, <2>3
  <1>17. CASE Link
    <2>1. nxt \in AlignedBits
      BY <1>17 DEF Link, FollowedOK
    <2> QED
      BY <1>17, <2>1, SameBitmap DEF Link, FramesAligned, Unfinished
  <1>18. CASE Commit
    <2>1. FramesAligned'
      BY <1>18, <1>0, ZeroAligned
      DEF Commit, Return, ResetLocals, FramesAligned, TypeOK, EmptyEntry
    <2>2. BitmapWhole'
      BY <1>18, SameBitmap DEF Commit, Return, ResetLocals, Unfinished
    <2> QED
      BY <2>1, <2>2
  <1>19. CASE ReadSector
    <2>1. k \in 0 .. RegionSize - 1 /\ n \in Nat /\ size \in Nat
      BY <1>0, <1>19, <1>k DEF ReadSector, TypeOK
    <2>2. pc' \in {"read", "read_end"} /\ reg' \in AlignedBits
      <3>1. CASE k < RegionSize - 1
        BY <1>19, <3>1 DEF ReadSector, FramesAligned
      <3>2. CASE ~(k < RegionSize - 1)
        <4> PICK w \in PointerAt(reg + k, {0}) :
               IF n + 504 >= size \/ w \in EndOfChain
               THEN pc' = "read_end" /\ UNCHANGED <<reg, k>>
               ELSE reg' = w /\ k' = 0 /\ UNCHANGED pc
          BY <1>19, <3>2 DEF ReadSector
        <4>1. k = RegionSize - 1
          BY <2>1, <3>2, Positive
        <4>2. ~(n + 504 >= size) => w \in AlignedBits \cup {NotFound}
          BY <1>19, <2>1, <4>1 DEF ReadSector, FollowedOK
        <4> QED
          BY <1>19, <4>2 DEF ReadSector, FramesAligned, EndOfChain
      <3> QED
        BY <3>1, <3>2
    <2> QED
      BY <1>19, <2>2, SameBitmap DEF ReadSector, disk, FramesAligned, Unfinished
  <1>20. CASE ReadEnd
    BY <1>20, <1>b DEF ReadEnd, disk, Unfinished
  <1>21. CASE Crash
    BY <1>21, <1>b DEF Crash, disk, Unfinished, BitsAreWhole
  <1>22. CASE Boot
    BY <1>22, <1>b DEF Boot, Unfinished
  <1>23. CASE UNCHANGED vars
    BY <1>23
    DEF vars, disk, locals, BitmapWhole, FramesAligned, Unfinished, Whole, Window
  <1> QED
    BY <1>1, <1>2, <1>3, <1>4, <1>5, <1>6, <1>7, <1>8, <1>9, <1>10, <1>11,
       <1>12, <1>13, <1>14, <1>15, <1>16, <1>17, <1>18, <1>19, <1>20, <1>21,
       <1>22, <1>23
    DEF Next, Step, RmFile, RmDir, Write, Read

(* Pointer words change where a region is linked to the next one or ends   *)
(* the chain, and nxt where a pointer word is read or a region is chosen.  *)
LEMMA PointersStep ==
  ASSUME TypeInv, BlocksInv, PointersAligned, [Next]_vars
  PROVE  PointersAligned'
  <1> USE DEF BlocksInv
  <1>0. TypeOK /\ LocalsOK
    BY DEF TypeInv
  <1>k. pc \in {"sector", "chain_scan", "link"} => k \in 0 .. RegionSize - 1
    BY <1>0, Positive DEF TypeOK, LocalsOK
  <1>l. \A S : PointerAt(reg + RegionSize - 1, S) \subseteq AlignedBits \cup {NotFound}
    BY LastIsFrame DEF FramesAligned, PointersAligned, PointerAt
  <1>n. nxt \in AlignedBits \cup {NotFound}
    BY DEF PointersAligned
  <1>1. ASSUME word' = word, nxt' = nxt \/ nxt' = 0
        PROVE  PointersAligned'
    BY <1>1, <1>n, SameWords, ZeroAligned
  <1>2. CASE FreeNext
    <2>1. nxt' \in AlignedBits \cup {NotFound}
      BY <1>2, <1>l DEF FreeNext
    <2> QED
      BY <1>2, <2>1, SameWords DEF FreeNext, disk
  <1>3. CASE WriteSector
    <2>1. k \in 0 .. RegionSize - 1 /\ k # RegionSize - 1
      BY <1>3, <1>k, Positive DEF WriteSector
    <2> QED
      BY <1>3, <1>0, <1>n, <2>1, PutAligned DEF WriteSector
  <1>4. CASE WriteLastSector
    BY <1>4, <1>0, <1>n, ZeroAligned, PutAligned, Positive DEF WriteLastSector
  <1>5. CASE ChainSector
    <2>1. k = RegionSize - 1 /\ reg \in Nat
      BY <1>5, <1>0, BlockInside DEF ChainSector, FramesAligned
    <2>2. nxt' \in AlignedBits \cup {NotFound}
      BY <1>5, <1>l, <2>1, Positive DEF ChainSector
    <2> QED
      BY <1>5, <2>2, SameWords DEF ChainSector, disk
  <1>6. CASE ChainScan
    <2> PICK b \in ScanResults :
           IF b = NotFound
           THEN /\ PutSector(reg + k, 0)
                /\ UNCHANGED <<nxt, k>>
           ELSE /\ nxt' = b
                /\ UNCHANGED <<ent, word, data>>
      BY <1>6 DEF ChainScan
    <2>1. CASE b = NotFound
      <3>1. k \in 0 .. RegionSize - 1
        BY <1>6, <1>k DEF ChainScan
      <3> QED
        BY <1>0, <1>n, <2>1, <3>1, ZeroAligned, PutAligned
    <2>2. CASE b # NotFound
      <3>1. b \in AlignedBits
        BY <1>6, <2>2, FirstFreeBlock DEF ChainScan, BitmapWhole, Unfinished
      <3> QED
        BY <2>2, <3>1, SameWords
    <2> QED
      BY <2>1, <2>2
  <1>7. CASE Link
    <2>1. nxt \in AlignedBits /\ k \in 0 .. RegionSize - 1
      BY <1>7, <1>k, PointersFollowed DEF Link, FollowedOK
    <2> QED
      BY <1>7, <1>0, <2>1, PutAligned DEF Link
  <1> QED
    <2>1. \/ word' = word /\ (nxt' = nxt \/ nxt' = 0)
          \/ FreeNext \/ WriteSector \/ WriteLastSector \/ ChainSector \/ ChainScan \/ Link
      BY DEF Next, Step, vars, disk, locals, Start, Walk, MkFile, MkDir, MkEntry,
             MkScan, MkSet, WriteEntry, Reload, RmFile, RmDir, Write, Read, Locate,
             FreeClear, Erase, ChainSet, Commit, ReadSector, ReadEnd, Boot, Crash,
             Return, ResetLocals
    <2> QED
      BY <2>1, <1>1, <1>2, <1>3, <1>4, <1>5, <1>6, <1>7

AlignInv == TypeInv /\ BlocksInv /\ PointersAligned

LEMMA AlignInit == Init /\ BlankDisk => AlignInv
  BY TypeInit, BlocksInit, PointersInit DEF AlignInv

LEMMA AlignStep ==
  ASSUME BitsAreWhole
  PROVE  AlignInv /\ [Next]_vars => AlignInv'
  BY TypeStep, BlocksStep, PointersStep, PointersFollowed DEF AlignInv, BlocksInv

(* Blocks do not straddle the end of a bitmap sector. *)
LEMMA BlocksAreInside ==
  ASSUME BlocksInv, FollowedOK
  PROVE  InsideSector
  <1>1. \A s \in Slots : table[s].frame + RegionSize <= SectorEnd(table[s].frame)
    BY BlockInside DEF BlocksInv, FramesAligned
  <1>2. reg + RegionSize <= SectorEnd(reg)
    BY BlockInside DEF BlocksInv, FramesAligned
  <1>3. pc = "chain_set" => nxt + RegionSize <= SectorEnd(nxt)
    BY BlockInside DEF FollowedOK
  <1> QED
    BY <1>1, <1>2, <1>3 DEF InsideSector, LiveFiles, Live

(* On a disk that was blank when it was formatted no pointer word that     *)
(* holds user bytes is ever followed, for any sizes of files and any stale *)
(* pointers in regions that are used again, as long as resets leave the    *)
(* bits of a region whole.  (fs_format does not make a disk blank.)        *)
THEOREM PointersNeverWild ==
  ASSUME BitsAreWhole
  PROVE  Spec => NeverWild
  <1>1. AlignInv => OnDisk
    BY BlockInside, Positive
    DEF AlignInv, BlocksInv, FramesAligned, OnDisk, Junk, AlignedBits, Bits
  <1> QED
    BY AlignInit, AlignStep, <1>1, PTL DEF Spec, NeverWild

(* Then no region straddles the end of a bitmap sector either: the scan    *)
(* never goes by what is behind its buffer, and no bit is set or cleared   *)
(* in the last-id sector.                                                  *)
THEOREM RegionsStayInside ==
  ASSUME BitsAreWhole
  PROVE  Spec => RegionsInsideSector
  <1>1. AlignInv => InsideSector
    BY BlocksAreInside, PointersFollowed DEF AlignInv, BlocksInv
  <1> QED
    BY AlignInit, AlignStep, <1>1, PTL DEF Spec, RegionsInsideSector

-----------------------------------------------------------------------------
(* Regions and contents, for files of one region.  A reset while bits are  *)
(* cleared leaves a live file with sectors that are handed out again, and  *)
(* one between two bits of a region leaves a window that the scan, where   *)
(* the bitmap has more than one sector, may take although its last sectors *)
(* are another file's; the theorems exclude these two and no other.        *)

OneRegionEach == \A z \in Sizes : z <= Capacity
RemovalsWhole == CrashPoints \cap {"clear", "erase"} = {}
ScansSafe == BitsAreWhole \/ NumFrames = FramesPerSector

(* The bits of the file in slot may be cleared already.  *)
Removing == pc \in {"clear", "erase"} /\ op = "rm_file"
(* A region is marked, or being marked, for the entry in the making. *)
Adding == pc \in {"set", "entry"} /\ op = "mk_file"

MakerOK ==
  /\ pc \in {"scan", "set"} => op = "mk_file"
  /\ pc \in Making =>
       op \in Makers /\ ent.type = TypeOf(op) /\ (op = "mk_file" => ent.size = 0)

RegionsOwned ==
  /\ \A s, t \in LiveFiles : s # t => RegionOf(s) \cap RegionOf(t) = {}
  /\ \A s \in LiveFiles :
       ~(Removing /\ s = slot) => RegionOf(s) \cap Bits \subseteq bitmap

AddedFree ==
  Adding =>
    /\ ent.frame = reg
    /\ \A s \in LiveFiles : RegionOf(s) \cap Window(reg) = {}
    /\ \A i \in 0 .. (IF pc = "set" THEN k ELSE RegionSize) - 1 :
         reg + i \in Bits => reg + i \in bitmap

(* The first j sectors from f on were written last for entry i. *)
Holds(f, i, j) == \A h \in 0 .. j - 1 : data[f + h] = <<i, h>>

(* A file that has bytes was written whole, and its region ends its chain. *)
ContentsOwned ==
  \A s \in LiveFiles :
    /\ table[s].size <= Capacity
    /\ table[s].size > 0 =>
         /\ word[table[s].frame + RegionSize - 1] = 0
         /\ Holds(table[s].frame, table[s].id, RegionSize)

(* The locals of the calls that go by a copy of an entry. *)
WriterOK ==
  /\ pc = "walk" /\ op = "write" => size <= Capacity
  /\ pc \notin {"chain_scan", "chain_set", "link"}
  /\ pc \in {"sector", "commit"} =>
       /\ slot \in LiveFiles /\ reg = table[slot].frame
       /\ n = 0 /\ size <= Capacity /\ k \in 0 .. RegionSize - 1
       /\ Holds(reg, ent.id, k)
  /\ pc = "commit" =>
       /\ Holds(reg, ent.id, RegionSize) /\ word[reg + RegionSize - 1] = 0
       /\ ent.size <= Capacity

RemoverOK ==
  /\ pc \in {"next", "clear", "erase"} /\ op = "rm_file" =>
       slot \in LiveFiles /\ ent = table[slot] /\ reg = table[slot].frame /\ n = 0
  /\ pc = "clear" => nxt \in EndOfChain

ReaderOK ==
  pc = "read" =>
    /\ slot \in LiveFiles /\ ent = table[slot] /\ reg = table[slot].frame
    /\ size <= ent.size /\ n = Least(k * 512, size)

OwnInv == MakerOK /\ RegionsOwned /\ AddedFree /\ ContentsOwned
          /\ WriterOK /\ RemoverOK /\ ReaderOK

(* What the region theorems stand on. *)
RegionInv == IdInv /\ OwnInv /\ (BitsAreWhole => BlocksInv)

LEMMA OwnInit == Init => OwnInv
  <1> SUFFICES ASSUME Init
               PROVE  OwnInv
    OBVIOUS
  <1>1. LiveFiles = {}
    BY DEF Init, LiveFiles, Live, EmptyEntry
  <1> QED
    BY <1>1 DEF Init, OwnInv, MakerOK, RegionsOwned, AddedFree, ContentsOwned,
                WriterOK, RemoverOK, ReaderOK, Making, Adding

(* Every window the scan returns is free, as far as it lies in the bitmap. *)
LEMMA ScanFindsFree ==
  ASSUME TypeOK, ScansSafe, BitsAreWhole => BlocksInv, Unfinished = {},
         NEW b \in ScanResults, b # NotFound
  PROVE  b \in Bits /\ Window(b) \cap bitmap = {}
  <1>1. b \in Bits /\ b \in FreeWindows \cup OverrunWindows
    BY DEF ScanResults, FreeWindows, OverrunWindows
  <1>2. CASE BitsAreWhole
    BY <1>2, <1>1, FirstFreeBlock DEF BlocksInv, BitmapWhole
  <1>3. CASE NumFrames = FramesPerSector
    <2>1. b \in Nat /\ b < FramesPerSector
      BY <1>1, <1>3, Positive DEF Bits
    <2>2. b \div FramesPerSector = 0
      BY <2>1, Positive
    <2>3. SectorEnd(b) = NumFrames
      BY <1>3, <2>2, Positive DEF SectorEnd
    <2> QED
      BY <1>1, <2>1, <2>3, Positive
      DEF FreeWindows, OverrunWindows, Window, TypeOK, Bits
  <1> QED
    BY <1>2, <1>3 DEF ScansSafe

(* Two windows that share a sector share one that has a bit. *)
LEMMA WindowsMeetInBits ==
  ASSUME NEW a \in Bits, NEW b \in Bits, Window(a) \cap Window(b) # {}
  PROVE  Window(a) \cap Window(b) \cap Bits # {}
  <1>1. a \in Window(b) \/ b \in Window(a)
    BY Positive DEF Bits, Window
  <1>2. a \in Window(a) /\ b \in Window(b)
    BY Positive DEF Bits, Window
  <1> QED
    BY <1>1, <1>2

LEMMA FileSectors ==
  ASSUME TypeOK, NEW s \in LiveFiles
  PROVE  /\ table[s].frame \in Bits /\ table[s].frame \in Nat
         /\ \A i \in 0 .. RegionSize - 1 :
              table[s].frame + i \in Frames /\ table[s].frame + i \in RegionOf(s)
  <1>1. table[s].frame \in Bits
    BY DEF TypeOK, Entries, LiveFiles, Live
  <1> QED
    BY <1>1, Positive, SectorIsFrame DEF Bits, RegionOf, Window

LEMMA SameFiles ==
  ASSUME table' = table
  PROVE  LiveFiles' = LiveFiles /\ \A s : RegionOf(s)' = RegionOf(s)
  BY DEF LiveFiles, Live, RegionOf, Window

LEMMA SameRegions ==
  ASSUME RegionsOwned, table' = table, bitmap \subseteq bitmap',
         ~Removing \/ (Removing' /\ slot' = slot)
  PROVE  RegionsOwned'
  BY SameFiles DEF RegionsOwned

LEMMA SameContents ==
  ASSUME ContentsOwned, UNCHANGED <<table, word, data>>
  PROVE  ContentsOwned'
  BY SameFiles DEF ContentsOwned, Holds

(* Between two steps that touch no sector and make no entry. *)
LEMMA Quiet ==
  ASSUME OwnInv, UNCHANGED <<table, bitmap, word, data>>,
         pc' \notin Making, ~Removing \/ (Removing' /\ slot' = slot),
         WriterOK', RemoverOK', ReaderOK'
  PROVE  OwnInv'
  BY SameRegions, SameContents
  DEF OwnInv, MakerOK, AddedFree, Adding, Making

LEMMA FirstIndex ==
  ASSUME n = 0, k \in Nat
  PROVE  Index = k
  <1>1. 0 \div Capacity = 0
    BY CapacityType
  <1> QED
    BY <1>1, Positive DEF Index

(* Writing a sector of the file in slot touches no other file. *)
LEMMA PutOwn ==
  ASSUME TypeOK, RegionsOwned, ContentsOwned, table' = table,
         slot \in LiveFiles, reg = table[slot].frame,
         n = 0, k \in 0 .. RegionSize - 1, ent.id = table[slot].id,
         NEW w, PutSector(reg + k, w), k = RegionSize - 1 => w = 0,
         Holds(reg, ent.id, k)
  PROVE  /\ ContentsOwned'
         /\ \A h \in 0 .. k : data'[reg + h] = <<ent.id, h>>
         /\ word'[reg + k] = w
  <1>1. /\ reg \in Nat /\ reg + k \in RegionOf(slot)
        /\ \A i \in 0 .. RegionSize - 1 : reg + i \in Frames
    BY FileSectors
  <1>2. \A f \in Frames : /\ data'[f] = IF f = reg + k THEN <<ent.id, k>> ELSE data[f]
                          /\ word'[f] = IF f = reg + k THEN w ELSE word[f]
    <2>1. reg + k \in Frames /\ Index = k
      BY <1>1, FirstIndex
    <2>2. /\ data' = [data EXCEPT ![reg + k] = <<ent.id, k>>]
          /\ word' = [word EXCEPT ![reg + k] = w]
      BY <2>1 DEF PutSector
    <2> QED
      BY <2>1, <2>2 DEF TypeOK
  <1>3. \A h \in 0 .. k : data'[reg + h] = <<ent.id, h>>
    BY <1>1, <1>2, Positive DEF Holds
  <1>4. word'[reg + k] = w
    BY <1>1, <1>2, Positive
  <1>5. ASSUME NEW s \in LiveFiles, s # slot, NEW i \in 0 .. RegionSize - 1
        PROVE  /\ data'[table[s].frame + i] = data[table[s].frame + i]
               /\ word'[table[s].frame + i] = word[table[s].frame + i]
    <2>1. table[s].frame + i \in Frames /\ table[s].frame + i \in RegionOf(s)
      BY FileSectors
    <2>2. table[s].frame + i # reg + k
      BY <1>1, <1>5, <2>1 DEF RegionsOwned
    <2> QED
      BY <1>2, <2>1, <2>2
  <1>6. ASSUME NEW s \in LiveFiles, table[s].size > 0
        PROVE  /\ word'[table[s].frame + RegionSize - 1] = 0
               /\ \A h \in 0 .. RegionSize - 1 :
                    data'[table[s].frame + h] = <<table[s].id, h>>
    <2>1. /\ word[table[s].frame + RegionSize - 1] = 0
          /\ \A h \in 0 .. RegionSize - 1 :
               data[table[s].frame + h] = <<table[s].id, h>>
      BY <1>6 DEF ContentsOwned, Holds
    <2>2. CASE s = slot
      BY <1>1, <1>2, <2>1, <2>2, Positive
    <2>3. CASE s # slot
      <3>1. RegionSize - 1 \in 0 .. RegionSize - 1
        BY Positive
      <3>2. table[s].frame \in Nat
        BY FileSectors
      <3>3. word'[table[s].frame + (RegionSize - 1)] = word[table[s].frame + (RegionSize - 1)]
        BY <1>5, <2>3, <3>1
      <3> QED
        BY <1>5, <2>1, <2>3, <3>1, <3>2, <3>3, Positive
    <2> QED
      BY <2>2, <2>3
  <1>7. ContentsOwned'
    BY <1>6, SameFiles DEF ContentsOwned, Holds
  <1> QED
    BY <1>3, <1>4, <1>7

LEMMA OwnStep ==
  ASSUME OneRegionEach, RemovalsWhole, ScansSafe, RegionInv, [Next]_vars
  PROVE  OwnInv'
  <1>0. IdInv /\ TypeOK /\ LocalsOK /\ CopiesOK /\ OwnInv /\ (BitsAreWhole => BlocksInv)
    BY DEF RegionInv, IdInv, TypeInv
  <1>l. /\ MakerOK /\ RegionsOwned /\ AddedFree /\ ContentsOwned
        /\ WriterOK /\ RemoverOK /\ ReaderOK
    BY <1>0 DEF OwnInv
  <1>k. k \in Nat /\ RegionSize \in Nat \ {0} /\ Capacity \in Nat
    BY <1>0, CapacityType, Positive DEF TypeOK
  (* The call returns, or a reset loses it, between two changes of the disk. *)
  <1>r. ASSUME Return \/ (pc' = "boot" /\ ResetLocals), ~Removing,
               UNCHANGED <<table, bitmap, word, data>>
        PROVE  OwnInv'
    <2>1. WriterOK' /\ RemoverOK' /\ ReaderOK' /\ pc' \notin Making
      BY <1>r DEF Return, ResetLocals, WriterOK, RemoverOK, ReaderOK, Making
    <2> QED
      BY <1>0, <1>r, <2>1, Quiet
  <1>1. ASSUME NEW o \in Ops, Start(o)
        PROVE  OwnInv'
    <2>1. WriterOK' /\ RemoverOK' /\ ReaderOK'
      BY <1>1 DEF Start, WriterOK, RemoverOK, ReaderOK, OneRegionEach
    <2> QED
      BY <1>0, <1>1, <2>1, Quiet DEF Start, disk, Removing, Making
  <1>2. CASE Walk
    <2>1. WriterOK' /\ RemoverOK' /\ ReaderOK'
      BY <1>l, <1>2 DEF Walk, WriterOK, RemoverOK, ReaderOK
    <2> QED
      BY <1>0, <1>2, <2>1, Quiet DEF Walk, disk, Removing, Making
  <1>3. CASE MkFile \/ MkDir
    <2>1. CASE cur = NotFound
      BY <1>3, <2>1, <1>r DEF MkFile, MkDir, MkEntry, disk, Removing
    <2>2. CASE cur # NotFound
      <3>1. /\ op \in Makers /\ ent'.type = TypeOf(op)
            /\ op = "mk_file" => ent'.size = 0
            /\ pc' = IF op = "mk_file" THEN "scan" ELSE "entry"
            /\ UNCHANGED <<table, bitmap, word, data, op>> /\ pc = "walk"
        BY <1>3, <2>2 DEF MkFile, MkDir, MkEntry, Makers, disk
      <3>2. MakerOK' /\ AddedFree' /\ WriterOK' /\ RemoverOK' /\ ReaderOK'
        BY <3>1 DEF MakerOK, AddedFree, Adding, WriterOK, RemoverOK, ReaderOK, Makers, Making
      <3>3. RegionsOwned' /\ ContentsOwned'
        BY <1>l, <3>1, SameRegions, SameContents DEF Removing
      <3> QED
        BY <3>2, <3>3 DEF OwnInv
    <2> QED
      BY <2>1, <2>2
  <1>4. CASE MkScan
    <2> PICK b \in ScanResults :
           IF b = NotFound
           THEN Return
           ELSE /\ reg' = b /\ ent' = [ent EXCEPT !.frame = b]
                /\ pc' = "set"
                /\ UNCHANGED <<op, cur, slot, nxt, k, n, size>>
      BY <1>4 DEF MkScan
    <2>0. pc = "scan" /\ op = "mk_file" /\ k = 0
      BY <1>0, <1>l, <1>4 DEF MkScan, MakerOK, LocalsOK
    <2>1. CASE b = NotFound
      BY <1>4, <2>0, <2>1, <1>r DEF MkScan, disk, Removing
    <2>2. CASE b # NotFound
      <3>1. b \in Bits /\ Window(b) \cap bitmap = {}
        BY <1>0, <2>0, <2>2, ScanFindsFree DEF Unfinished
      <3>2. ASSUME NEW s \in LiveFiles
            PROVE  RegionOf(s) \cap Window(b) = {}
        <4>1. RegionOf(s) \cap Bits \subseteq bitmap
          BY <1>l, <2>0 DEF RegionsOwned, Removing
        <4>2. table[s].frame \in Bits
          BY <1>0, FileSectors
        <4> QED
          BY <3>1, <4>1, <4>2, WindowsMeetInBits DEF RegionOf
      <3>3. /\ ent'.frame = b /\ ent'.type = ent.type /\ ent'.size = ent.size
            /\ reg' = b /\ pc' = "set" /\ op' = op /\ k' = 0
            /\ UNCHANGED <<table, bitmap, word, data>>
        BY <1>0, <1>4, <2>0, <2>2 DEF MkScan, disk, TypeOK, Entries
      <3>4. MakerOK' /\ WriterOK' /\ RemoverOK' /\ ReaderOK'
        BY <1>l, <2>0, <3>3 DEF MakerOK, WriterOK, RemoverOK, ReaderOK, Making
      <3>5. AddedFree'
        BY <3>2, <3>3, SameFiles DEF AddedFree, Window
      <3>6. RegionsOwned' /\ ContentsOwned'
        BY <1>l, <2>0, <3>3, SameRegions, SameContents DEF Removing
      <3> QED
        BY <3>4, <3>5, <3>6 DEF OwnInv
    <2> QED
      BY <2>1, <2>2
  <1>5. CASE MkSet
    <2>0. /\ pc = "set" /\ op = "mk_file" /\ Adding /\ k < RegionSize
          /\ pc' = IF k + 1 = RegionSize THEN "entry" ELSE "set"
          /\ k' = k + 1
          /\ UNCHANGED <<table, word, data, op, ent, reg>>
      BY <1>0, <1>l, <1>5 DEF MkSet, MakerOK, Adding, LocalsOK
    <2>1. bitmap \subseteq bitmap' /\ (reg + k \in Bits => reg + k \in bitmap')
      BY <1>5 DEF MkSet, BitmapSet
    <2>2. RegionsOwned' /\ ContentsOwned'
      BY <1>l, <2>0, <2>1, SameRegions, SameContents DEF Removing
    <2>3. (IF pc = "set" THEN k ELSE RegionSize)' = k + 1
      BY <2>0
    <2>4. \A i \in 0 .. k : reg + i \in Bits => reg + i \in bitmap'
      BY <1>k, <1>l, <2>0, <2>1 DEF AddedFree
    <2>5. AddedFree'
      BY <1>k, <1>l, <2>0, <2>3, <2>4, SameFiles DEF AddedFree, Window
    <2>6. MakerOK' /\ WriterOK' /\ RemoverOK' /\ ReaderOK'
      BY <1>l, <2>0 DEF MakerOK, WriterOK, RemoverOK, ReaderOK, Making
    <2> QED
      BY <2>2, <2>5, <2>6 DEF OwnInv
  <1>6. CASE WriteEntry
    <2>0. /\ pc = "entry" /\ op \in Makers /\ ent.type = TypeOf(op)
          /\ op = "mk_file" => ent.size = 0
          /\ pc' = "reload" /\ UNCHANGED <<bitmap, word, data, op, slot>>
      BY <1>l, <1>6 DEF WriteEntry, MakerOK, Making, locals
    <2>1. /\ MakerOK' /\ AddedFree' /\ WriterOK' /\ RemoverOK' /\ ReaderOK'
          /\ ~Removing /\ ~Removing'
      BY <2>0 DEF MakerOK, AddedFree, Adding, WriterOK, RemoverOK, ReaderOK, Making,
                  Removing
    <2>2. CASE UNCHANGED table
      BY <1>l, <2>0, <2>1, <2>2, SameRegions, SameContents DEF OwnInv
    <2>3. ASSUME NEW e \in EmptySlots, table' = [table EXCEPT ![e] = ent]
          PROVE  OwnInv'
      <3>1. e \in Slots /\ e \notin Live
        BY <2>3 DEF EmptySlots, Live
      <3>2. table'[e] = ent /\ \A s \in Slots \ {e} : table'[s] = table[s]
        BY <1>0, <2>3, <3>1 DEF TypeOK
      <3>3. LiveFiles' \subseteq LiveFiles \cup {e} /\ (e \in LiveFiles' => op = "mk_file")
        BY <2>0, <3>2 DEF LiveFiles, Live, TypeOf, File, Dir, Makers
      <3>4. \A s \in LiveFiles : s # e /\ table'[s] = table[s] /\ RegionOf(s)' = RegionOf(s)
        BY <3>1, <3>2 DEF LiveFiles, Live, RegionOf, Window
      <3>5. ASSUME e \in LiveFiles'
            PROVE  /\ RegionOf(e)' = Window(reg) /\ ent.size = 0
                   /\ \A s \in LiveFiles : RegionOf(s) \cap Window(reg) = {}
                   /\ Window(reg) \cap Bits \subseteq bitmap
        <4>1. Adding /\ ent.size = 0 /\ ent.frame = reg /\ reg \in Nat
          BY <1>0, <1>l, <2>0, <3>3, <3>5 DEF Adding, AddedFree, TypeOK, Entries, Bits
        <4>2. RegionOf(e)' = Window(reg)
          BY <3>2, <4>1 DEF RegionOf, Window
        <4>3. \A i \in 0 .. RegionSize - 1 : reg + i \in Bits => reg + i \in bitmap
          BY <1>l, <2>0, <4>1 DEF AddedFree
        <4>4. \A f \in Window(reg) : f - reg \in 0 .. RegionSize - 1 /\ reg + (f - reg) = f
          BY <4>1, Positive DEF Window
        <4> QED
          BY <1>l, <4>1, <4>2, <4>3, <4>4 DEF AddedFree
      <3>6. RegionsOwned'
        BY <1>l, <2>0, <2>1, <3>3, <3>4, <3>5 DEF RegionsOwned
      <3>7. ASSUME NEW s \in LiveFiles'
            PROVE  \/ s \in LiveFiles /\ table'[s] = table[s]
                   \/ table'[s].size = 0
        BY <3>2, <3>3, <3>4, <3>5
      <3>8. ContentsOwned'
        <4>1. \A s \in LiveFiles' :
                \/ s \in LiveFiles /\ table'[s] = table[s]
                \/ table'[s].size <= Capacity /\ ~(table'[s].size > 0)
          BY <1>k, <3>7
        <4> QED
          BY <1>l, <2>0, <4>1 DEF ContentsOwned, Holds
      <3> QED
        BY <2>1, <3>6, <3>8 DEF OwnInv
    <2> QED
      BY <1>6, <2>2, <2>3 DEF WriteEntry, IsFirst
  <1>7. CASE Reload
    BY <1>7, <1>r DEF Reload, Removing
  <1>8. ASSUME NEW o \in Ops \ Makers, NEW next, Locate(o, next),
               next = (CASE o = "rm_file" -> "next" [] o = "rm_dir" -> "erase"
                         [] o = "write" -> "sector" [] o = "read" -> "read")
        PROVE  OwnInv'
    <2>0. pc = "walk" /\ op = o /\ ~Removing /\ UNCHANGED <<table, bitmap, word, data>>
      BY <1>8 DEF Locate, Removing, disk
    <2>1. CASE Return
      BY <2>0, <2>1, <1>r
    <2>2. CASE ~Return
      <3> PICK s \in Slots :
             /\ IsFirst(s, WithId(cur)) /\ ~Refused(o, s) /\ cur # Root
             /\ ent' = table[s] /\ slot' = s /\ reg' = table[s].frame
             /\ pc' = next
             /\ size' = IF o = "read" THEN Least(table[s].size, size - 1)
                        ELSE size
             /\ UNCHANGED <<op, cur, nxt, k, n>>
        BY <1>8, <2>2 DEF Locate
      <3>1. o # "rm_dir" => s \in LiveFiles
        BY <1>8 DEF IsFirst, WithId, Live, LiveFiles, Refused, TypeOf, Root, Ops, Makers
      <3>2. s \in LiveFiles => s \in LiveFiles'
        BY <2>0, SameFiles
      <3>3. n = 0 /\ k = 0 /\ table[s].size \in Nat /\ size \in Nat
        BY <1>0, <2>0 DEF LocalsOK, TypeOK, Entries
      <3>4. WriterOK'
        BY <1>8, <1>k, <1>l, <2>0, <3>1, <3>2, <3>3, Positive
        DEF WriterOK, Holds, Ops, Makers
      <3>5. RemoverOK'
        BY <1>8, <2>0, <3>1, <3>2, <3>3 DEF RemoverOK, Ops, Makers
      <3>6. ReaderOK'
        BY <1>8, <1>0, <2>0, <3>1, <3>2, <3>3 DEF ReaderOK, Ops, Makers, Least, LocalsOK
      <3> QED
        BY <1>0, <1>8, <2>0, <3>4, <3>5, <3>6, Quiet DEF Making, Ops, Makers
    <2> QED
      BY <2>1, <2>2
  <1>9. CASE FreeNext
    <2>0. /\ pc = "next" /\ op = "rm_file" /\ pc' = "clear"
          /\ UNCHANGED <<table, bitmap, word, data, op, slot, ent, reg, n>>
      BY <1>0, <1>9 DEF FreeNext, CopiesOK, disk
    <2>1. slot \in LiveFiles /\ ent = table[slot] /\ reg = table[slot].frame /\ n = 0
      BY <1>l, <2>0 DEF RemoverOK
    <2>2. nxt' \in EndOfChain
      <3>1. CASE ent.size = 0
        BY <1>9, <2>1, <3>1, Positive DEF FreeNext, RegionsToFree, EndOfChain
      <3>2. CASE ent.size > 0
        <4>1. reg + (RegionSize - 1) \in Frames /\ reg \in Nat
          BY <1>0, <1>k, <2>1, FileSectors
        <4>2. reg + (RegionSize - 1) = reg + RegionSize - 1
          BY <1>k, <4>1
        <4>3. PointerAt(reg + RegionSize - 1, {0}) = {0}
          BY <1>l, <2>1, <3>2, <4>1, <4>2 DEF ContentsOwned, PointerAt
        <4> QED
          BY <1>9, <4>3 DEF FreeNext, EndOfChain
      <3> QED
        BY <1>0, <3>1, <3>2 DEF TypeOK, Entries
    <2>3. WriterOK' /\ RemoverOK' /\ ReaderOK'
      BY <2>0, <2>1, <2>2, SameFiles DEF WriterOK, RemoverOK, ReaderOK
    <2> QED
      BY <1>0, <2>0, <2>3, Quiet DEF Removing, Making
  <1>10. CASE FreeClear
    <2>0. /\ pc = "clear" /\ op = "rm_file" /\ Removing /\ k < RegionSize
          /\ UNCHANGED <<table, word, data, op, slot, ent, nxt>>
      BY <1>0, <1>10 DEF FreeClear, CopiesOK, Removing, LocalsOK
    <2>1. /\ slot \in LiveFiles /\ ent = table[slot] /\ reg = table[slot].frame /\ n = 0
          /\ nxt \in EndOfChain
      BY <1>l, <2>0 DEF RemoverOK
    <2>2. pc' \in {"clear", "erase"} /\ reg' = reg /\ n' = n /\ Removing'
      BY <1>10, <2>0, <2>1 DEF FreeClear, Removing
    <2>3. bitmap \ {reg + k} \subseteq bitmap'
      BY <1>10 DEF FreeClear, BitmapClear
    <2>4. reg + k \in RegionOf(slot)
      <3>1. k \in 0 .. RegionSize - 1
        BY <1>k, <2>0
      <3> QED
        BY <1>0, <2>1, <3>1, FileSectors
    <2>5. RegionsOwned'
      <3>1. \A s \in LiveFiles : s # slot => RegionOf(s) \cap Bits \subseteq bitmap'
        BY <1>l, <2>1, <2>3, <2>4 DEF RegionsOwned
      <3> QED
        BY <1>l, <2>0, <2>2, <3>1, SameFiles DEF RegionsOwned
    <2>6. ContentsOwned'
      BY <1>l, <2>0, SameContents
    <2>7. MakerOK' /\ AddedFree' /\ WriterOK' /\ RemoverOK' /\ ReaderOK'
      BY <2>0, <2>1, <2>2, SameFiles
      DEF MakerOK, AddedFree, Adding, WriterOK, RemoverOK, ReaderOK, Making
    <2> QED
      BY <2>5, <2>6, <2>7 DEF OwnInv
  <1>11. CASE Erase
    <2>0. /\ pc = "erase" /\ pc' = "reload" /\ slot \in Live
          /\ UNCHANGED <<bitmap, word, data, op, slot>>
      BY <1>0, <1>11 DEF Erase, locals, CopiesOK
    <2>1. /\ table'[slot] = EmptyEntry
          /\ \A s \in Slots \ {slot} : table'[s] = table[s]
      BY <1>0, <1>11 DEF Erase, TypeOK
    <2>2. LiveFiles' = LiveFiles \ {slot}
      BY <2>0, <2>1 DEF LiveFiles, Live, EmptyEntry
    <2>3. \A s \in LiveFiles' : table'[s] = table[s] /\ RegionOf(s)' = RegionOf(s)
      BY <2>1, <2>2 DEF LiveFiles, Live, RegionOf, Window
    <2>4. RegionsOwned'
      BY <1>l, <2>0, <2>2, <2>3 DEF RegionsOwned, Removing
    <2>5. ContentsOwned'
      BY <1>l, <2>0, <2>2, <2>3 DEF ContentsOwned, Holds
    <2>6. MakerOK' /\ AddedFree' /\ WriterOK' /\ RemoverOK' /\ ReaderOK'
      BY <2>0 DEF MakerOK, AddedFree, Adding, WriterOK, RemoverOK, ReaderOK, Making
    <2> QED
      BY <2>4, <2>5, <2>6 DEF OwnInv
  (* Writing. *)
  <1>w. ASSUME pc = "sector"
        PROVE  /\ slot \in LiveFiles /\ reg = table[slot].frame /\ n = 0
               /\ size <= Capacity /\ size \in Nat /\ k \in 0 .. RegionSize - 1
               /\ Holds(reg, ent.id, k) /\ ent.id = table[slot].id /\ ~More
    <2>1. Identity(ent) = Identity(table[slot])
      BY <1>0, <1>w DEF CopiesOK, Writing
    <2>2. ent.id = table[slot].id
      BY <2>1 DEF Identity
    <2> QED
      BY <1>0, <1>k, <1>l, <1>w, <2>2 DEF WriterOK, More, TypeOK
  <1>12. CASE WriteSector
    <2>0. /\ pc = "sector" /\ pc' = "sector" /\ k < RegionSize - 1 /\ k' = k + 1
          /\ UNCHANGED <<table, bitmap, op, ent, slot, reg, n, size>>
          /\ \E w : PutSector(reg + k, w)
      BY <1>12 DEF WriteSector
    <2>1. ContentsOwned' /\ \A h \in 0 .. k : data'[reg + h] = <<ent.id, h>>
      BY <1>0, <1>l, <1>k, <1>w, <2>0, PutOwn
    <2>2. WriterOK'
      BY <1>k, <1>w, <2>0, <2>1, SameFiles DEF WriterOK, Holds
    <2>3. RegionsOwned'
      BY <1>l, <2>0, SameRegions DEF Removing
    <2>4. MakerOK' /\ AddedFree' /\ RemoverOK' /\ ReaderOK'
      BY <2>0 DEF MakerOK, AddedFree, Adding, RemoverOK, ReaderOK, Making
    <2> QED
      BY <2>1, <2>2, <2>3, <2>4 DEF OwnInv
  <1>13. CASE WriteLastSector
    <2>0. /\ pc = "sector" /\ pc' = "commit" /\ k = RegionSize - 1
          /\ UNCHANGED <<table, bitmap, op, slot, reg, n, k, size>>
          /\ PutSector(reg + k, 0)
      BY <1>13 DEF WriteLastSector
    <2>1. /\ ContentsOwned' /\ word'[reg + k] = 0
          /\ \A h \in 0 .. k : data'[reg + h] = <<ent.id, h>>
      BY <1>0, <1>l, <1>k, <1>w, <2>0, PutOwn
    <2>2. ent'.id = ent.id /\ ent'.size = size
      BY <1>0, <1>13 DEF WriteLastSector, TypeOK, Entries
    <2>3. reg \in Nat /\ reg + (RegionSize - 1) = reg + RegionSize - 1
      BY <1>0, <1>k, <1>w, <2>0, FileSectors
    <2>4. WriterOK'
      BY <1>k, <1>w, <2>0, <2>1, <2>2, <2>3, SameFiles DEF WriterOK, Holds
    <2>5. RegionsOwned'
      BY <1>l, <2>0, SameRegions DEF Removing
    <2>6. MakerOK' /\ AddedFree' /\ RemoverOK' /\ ReaderOK'
      BY <2>0 DEF MakerOK, AddedFree, Adding, RemoverOK, ReaderOK, Making
    <2> QED
      BY <2>1, <2>4, <2>5, <2>6 DEF OwnInv
  <1>14. CASE ChainSector
    BY <1>14, <1>w DEF ChainSector
  <1>15. CASE ChainScan \/ ChainSet \/ Link
    BY <1>15, <1>l DEF ChainScan, ChainSet, Link, WriterOK
  <1>16. CASE Commit
    <2>0. /\ pc = "commit" /\ pc' = "idle" /\ slot \in LiveFiles
          /\ UNCHANGED <<bitmap, word, data>>
          /\ reg = table[slot].frame
          /\ Holds(reg, ent.id, RegionSize) /\ word[reg + RegionSize - 1] = 0
          /\ ent.size <= Capacity
      BY <1>16, <1>l DEF Commit, Return, WriterOK
    <2>1. /\ table'[slot] = ent
          /\ \A s \in Slots \ {slot} : table'[s] = table[s]
      BY <1>0, <1>16 DEF Commit, TypeOK
    <2>2. /\ ent.id = table[slot].id /\ ent.type = table[slot].type
          /\ ent.frame = table[slot].frame
      <3>1. Identity(ent) = Identity(table[slot])
        BY <1>0, <2>0 DEF CopiesOK, Writing
      <3> QED
        BY <3>1 DEF Identity
    <2>3. LiveFiles' = LiveFiles /\ \A s \in LiveFiles : RegionOf(s)' = RegionOf(s)
      BY <2>0, <2>1, <2>2 DEF LiveFiles, Live, RegionOf, Window
    <2>4. RegionsOwned'
      BY <1>l, <2>0, <2>3 DEF RegionsOwned, Removing
    <2>5. ContentsOwned'
      <3>1. \A s \in LiveFiles : s # slot => table'[s] = table[s]
        BY <2>1 DEF LiveFiles, Live
      <3> QED
        BY <1>l, <2>0, <2>1, <2>2, <2>3, <3>1 DEF ContentsOwned, Holds
    <2>6. MakerOK' /\ AddedFree' /\ WriterOK' /\ RemoverOK' /\ ReaderOK'
      BY <2>0, <1>16
      DEF MakerOK, AddedFree, Adding, WriterOK, RemoverOK, ReaderOK, Making
    <2> QED
      BY <2>4, <2>5, <2>6 DEF OwnInv
  <1>17. CASE ReadSector
    <2>0. /\ pc = "read" /\ n < size /\ n \in Nat /\ size \in Nat /\ k < RegionSize
          /\ slot \in LiveFiles /\ ent = table[slot] /\ reg = table[slot].frame
          /\ size <= ent.size /\ n = Least(k * 512, size)
          /\ UNCHANGED <<table, bitmap, word, data, op, ent, slot, size>>
      BY <1>0, <1>l, <1>17 DEF ReadSector, ReaderOK, disk, TypeOK, LocalsOK
    <2>1. n = k * 512
      <3>1. k * 512 \in Nat
        BY <1>k
      <3> QED
        BY <2>0, <3>1 DEF Least
    <2>2. CASE k < RegionSize - 1
      <3>1. /\ n' = Least(n + 512, size) /\ k' = k + 1 /\ pc' = "read" /\ reg' = reg
        BY <1>17, <2>2, <2>0 DEF ReadSector
      <3>2. n' = Least(k' * 512, size)
        BY <1>k, <2>1, <3>1
      <3>3. WriterOK' /\ RemoverOK' /\ ReaderOK'
        BY <2>0, <3>1, <3>2, SameFiles DEF WriterOK, RemoverOK, ReaderOK
      <3> QED
        BY <1>0, <2>0, <3>1, <3>3, Quiet DEF Removing, Making
    <2>3. CASE ~(k < RegionSize - 1)
      <3>1. n + 504 >= size
        <4>1. ent.size <= Capacity
          BY <1>l, <2>0 DEF ContentsOwned
        <4>2. k = RegionSize - 1
          BY <1>k, <2>0, <2>3
        <4>3. ent.size \in Nat
          BY <1>0 DEF TypeOK, Entries
        <4> QED
          BY <1>k, <2>0, <2>1, <4>1, <4>2, <4>3 DEF Capacity
      <3>2. pc' = "read_end"
        BY <1>17, <2>3, <3>1 DEF ReadSector
      <3>3. WriterOK' /\ RemoverOK' /\ ReaderOK'
        BY <3>2 DEF WriterOK, RemoverOK, ReaderOK
      <3> QED
        BY <1>0, <2>0, <3>2, <3>3, Quiet DEF Removing, Making
    <2> QED
      BY <2>2, <2>3
  <1>18. CASE ReadEnd
    BY <1>18, <1>r DEF ReadEnd, Removing, disk
  <1>19. CASE Crash
    BY <1>19, <1>r DEF Crash, Removing, RemovalsWhole, disk
  <1>20. CASE Boot
    BY <1>20, <1>r DEF Boot, Removing
  <1>21. CASE UNCHANGED vars
    <2>1. UNCHANGED <<table, bitmap, word, data, pc, op, ent, slot, reg, nxt, k, n, size>>
      BY <1>21 DEF vars, disk, locals
    <2>2. RegionsOwned' /\ ContentsOwned'
      BY <1>l, <2>1, SameRegions, SameContents DEF Removing
    <2>3. MakerOK' /\ AddedFree' /\ WriterOK' /\ RemoverOK' /\ ReaderOK'
      BY <1>l, <2>1, SameFiles
      DEF MakerOK, AddedFree, Adding, WriterOK, RemoverOK, ReaderOK, Making, Holds, Window
    <2> QED
      BY <2>2, <2>3 DEF OwnInv
  <1> QED
    BY <1>1, <1>2, <1>3, <1>4, <1>5, <1>6, <1>7, <1>8, <1>9, <1>10, <1>11,
       <1>12, <1>13, <1>14, <1>15, <1>16, <1>17, <1>18, <1>19, <1>20, <1>21
    DEF Next, Step, RmFile, RmDir, Write, Read, Ops, Makers

LEMMA RegionInit == Init => RegionInv
  BY IdInit, OwnInit, BlocksInit DEF RegionInv

(* Files of one region follow no pointer word. *)
LEMMA OwnFollowed ==
  ASSUME RegionInv
  PROVE  FollowedOK
  <1>1. WriterOK /\ RemoverOK /\ ReaderOK /\ ContentsOwned /\ TypeOK
    BY DEF RegionInv, OwnInv, IdInv, TypeInv
  <1>2. ~(pc = "read" /\ k = RegionSize - 1 /\ n + 504 < size)
    <2> SUFFICES ASSUME pc = "read", k = RegionSize - 1
                 PROVE  n + 504 >= size
      BY <1>1 DEF TypeOK
    <2>1. size <= Capacity /\ n = Least(k * 512, size) /\ size \in Nat
      BY <1>1, CapacityType DEF ReaderOK, ContentsOwned, TypeOK, Entries
    <2> QED
      BY <2>1, Positive DEF Least, Capacity
  <1> QED
    BY <1>1, <1>2 DEF FollowedOK, WriterOK, RemoverOK

LEMMA RegionStep ==
  ASSUME OneRegionEach, RemovalsWhole, ScansSafe, RegionInv, [Next]_vars
  PROVE  RegionInv'
  BY IdStep, OwnStep, OwnFollowed, BlocksStep DEF RegionInv, IdInv

(* No two files share a sector, and no sector of a live file is unmarked   *)
(* so that the next scan could hand it out: for files of one region, when  *)
(* no reset falls into a removal, and where the bitmap has more sectors    *)
(* than one none falls between the bits of a region.                       *)
THEOREM RegionsApart ==
  ASSUME OneRegionEach, RemovalsWhole, ScansSafe
  PROVE  Spec => []RegionsDisjoint
  <1>1. RegionInv => RegionsDisjoint
    BY DEF RegionInv, OwnInv, RegionsOwned, RegionsDisjoint, BeingFreed, Removing
  <1> QED
    BY <1>1, RegionInit, RegionStep, PTL DEF Spec

(* Files of one region work on blocks only, whatever the storage area held *)
(* before it was formatted.                                                *)
THEOREM OneRegionInside ==
  ASSUME OneRegionEach, RemovalsWhole, BitsAreWhole
  PROVE  Spec => [](InsideSector /\ OnDisk)
  <1>1. ScansSafe
    BY DEF ScansSafe
  <1>2. RegionInv => InsideSector
    BY OwnFollowed, BlocksAreInside DEF RegionInv
  <1>3. RegionInv => OnDisk
    BY BlockInside, Positive
    DEF RegionInv, BlocksInv, FramesAligned, OnDisk, Junk, AlignedBits, Bits
  <1> QED
    BY <1>1, <1>2, <1>3, RegionInit, RegionStep, PTL DEF Spec

(* What a file is read back as is what was last written into it, sector    *)
(* for sector, under the same assumptions.                                 *)
THEOREM ReadsGiveWrites ==
  ASSUME OneRegionEach, RemovalsWhole, ScansSafe
  PROVE  Spec => []ReadsOwnBytes
  <1>1. RegionInv => ReadsOwnBytes
    <2> SUFFICES ASSUME RegionInv, pc = "read", n < size
                 PROVE  data[reg + k] = <<ent.id, Index>>
      BY DEF ReadsOwnBytes
    <2>1. /\ slot \in LiveFiles /\ ent = table[slot] /\ reg = table[slot].frame
          /\ size <= ent.size /\ n = Least(k * 512, size)
          /\ TypeOK /\ k \in 0 .. RegionSize - 1 /\ ContentsOwned
      BY Positive DEF RegionInv, OwnInv, ReaderOK, IdInv, TypeInv, TypeOK, LocalsOK
    <2>2. ent.size \in Nat /\ n \in Nat /\ size \in Nat /\ n < ent.size
      BY <2>1 DEF TypeOK, Entries
    <2>3. data[reg + k] = <<ent.id, k>>
      <3>1. ent.size > 0
        BY <2>2
      <3>2. Holds(reg, ent.id, RegionSize)
        BY <2>1, <3>1 DEF ContentsOwned
      <3> QED
        BY <2>1, <3>2 DEF Holds
    <2>4. Index = k
      <3>1. ent.size <= Capacity
        BY <2>1 DEF ContentsOwned
      <3>2. n < Capacity
        BY <2>2, <3>1, CapacityType
      <3>3. n \div Capacity = 0
        BY <2>2, <3>2, CapacityType
      <3> QED
        BY <2>1, <3>3, Positive DEF Index
    <2> QED
      BY <2>3, <2>4
  <1> QED
    BY <1>1, RegionInit, RegionStep, PTL DEF Spec

-----------------------------------------------------------------------------
(* The bitmap, to the bit: what is marked is what files or the entries     *)
(* that found no slot have, but for the region a call is at.  A reset that *)
(* falls into the marking, or between it and the entry, leaves marks that  *)
(* nobody has.                                                             *)

MarksWhole == CrashPoints \cap {"set", "chain_set", "entry", "clear", "erase"} = {}

(* The bits set so far for the entry in the making, and cleared so far. *)
MadeBits  == IF Adding THEN reg .. reg + (IF pc = "set" THEN k ELSE RegionSize) - 1
             ELSE {}
FreedBits == IF Removing THEN reg .. reg + (IF pc = "clear" THEN k ELSE RegionSize) - 1
             ELSE {}

FileBits == UNION {RegionOf(s) : s \in LiveFiles}

MarksInv ==
  /\ bitmap = ((leaked \cup FileBits) \ FreedBits) \cup MadeBits
  /\ \A s \in LiveFiles : leaked \cap RegionOf(s) = {}
  /\ Adding => leaked \cap Window(reg) = {}

LEMMA MarksInit == Init => MarksInv
  <1> SUFFICES ASSUME Init
               PROVE  MarksInv
    OBVIOUS
  <1>1. LiveFiles = {}
    BY DEF Init, LiveFiles, Live, EmptyEntry
  <1> QED
    BY <1>1 DEF Init, MarksInv, FileBits, MadeBits, FreedBits, Adding, Removing

LEMMA FileBitsAre ==
  ASSUME NEW f
  PROVE  f \in FileBits <=> \E s \in LiveFiles : f \in RegionOf(s)
  BY DEF FileBits

LEMMA SameMarks ==
  ASSUME MarksInv, UNCHANGED <<bitmap, leaked>>, LiveFiles' = LiveFiles,
         \A s \in LiveFiles : RegionOf(s)' = RegionOf(s),
         ~Adding /\ ~Adding', FreedBits = {}, FreedBits' = {}
  PROVE  MarksInv'
  <1>1. FileBits' = FileBits
    BY DEF FileBits
  <1> QED
    BY <1>1 DEF MarksInv, MadeBits

LEMMA MarksStep ==
  ASSUME OneRegionEach, MarksWhole, RegionInv, MarksInv, [Next]_vars
  PROVE  MarksInv'
  <1>0. /\ IdInv /\ TypeOK /\ LocalsOK /\ CopiesOK /\ OwnInv /\ BlocksInv
        /\ BitsAreWhole /\ ScansSafe
    BY DEF RegionInv, IdInv, TypeInv, MarksWhole, BitsAreWhole, ScansSafe
  <1>l. /\ MakerOK /\ RegionsOwned /\ AddedFree /\ RemoverOK
    BY <1>0 DEF OwnInv
  <1>k. /\ k \in Nat /\ RegionSize \in Nat \ {0} /\ reg \in Nat
        /\ Window(reg) \subseteq Bits
    BY <1>0, Positive, BlockInside DEF TypeOK, BlocksInv, FramesAligned
  (* Steps that touch no mark and no entry. *)
  <1>q. ASSUME UNCHANGED <<table, bitmap, leaked>>, pc \notin {"set", "clear"},
               ~Adding, ~Removing, ~Adding', ~Removing'
        PROVE  MarksInv'
    BY <1>q, SameFiles, SameMarks DEF FreedBits
  <1>1. ASSUME NEW o \in Ops, Start(o)
        PROVE  MarksInv'
    BY <1>1, <1>q DEF Start, disk, Adding, Removing
  <1>2. CASE Walk
    BY <1>2, <1>q DEF Walk, disk, Adding, Removing
  <1>3. CASE MkFile \/ MkDir
    <2>1. op' # "mk_file" \/ pc' # "entry"
      BY <1>3 DEF MkFile, MkDir, MkEntry, Return
    <2> QED
      BY <1>3, <1>q, <2>1 DEF MkFile, MkDir, MkEntry, disk, Adding, Removing, Return
  <1>4. CASE MkScan
    <2> PICK b \in ScanResults :
           IF b = NotFound
           THEN Return
           ELSE /\ reg' = b /\ ent' = [ent EXCEPT !.frame = b]
                /\ pc' = "set"
                /\ UNCHANGED <<op, cur, slot, nxt, k, n, size>>
      BY <1>4 DEF MkScan
    <2>0. pc = "scan" /\ k = 0 /\ ~Adding /\ ~Removing
      BY <1>0, <1>4 DEF MkScan, LocalsOK, Adding, Removing
    <2>1. CASE b = NotFound
      BY <1>4, <1>q, <2>0, <2>1 DEF MkScan, disk, Adding, Removing, Return
    <2>2. CASE b # NotFound
      <3>1. b \in Bits /\ Window(b) \cap bitmap = {}
        BY <1>0, <2>0, <2>2, ScanFindsFree DEF Unfinished
      <3>2. leaked \subseteq bitmap
        BY <2>0 DEF MarksInv, FreedBits
      <3>3. MadeBits' = {} /\ FreedBits' = {} /\ Window(reg)' = Window(b)
        <4>1. reg' = b /\ k' = 0 /\ pc' = "set" /\ b \in Nat
          BY <2>0, <2>2, <3>1 DEF Bits
        <4> QED
          BY <4>1, <2>2 DEF MadeBits, FreedBits, Removing, Window
      <3>4. FileBits' = FileBits /\ UNCHANGED <<table, bitmap, leaked>>
        BY <1>4, SameFiles DEF MkScan, disk, FileBits
      <3> QED
        BY <2>0, <3>1, <3>2, <3>3, <3>4, SameFiles
        DEF MarksInv, MadeBits, FreedBits
    <2> QED
      BY <2>1, <2>2
  <1>5. CASE MkSet
    <2>0. /\ pc = "set" /\ Adding /\ Adding' /\ ~Removing /\ ~Removing' /\ k < RegionSize
          /\ pc' = IF k + 1 = RegionSize THEN "entry" ELSE "set"
          /\ k' = k + 1
          /\ UNCHANGED <<table, leaked, reg>>
      BY <1>0, <1>l, <1>5 DEF MkSet, MakerOK, Adding, Removing, LocalsOK
    <2>1. bitmap' = bitmap \cup {reg + k}
      BY <1>5, <1>k, <2>0 DEF MkSet, BitmapSet, Window
    <2>2. MadeBits' = MadeBits \cup {reg + k}
      <3>1. (IF pc = "set" THEN k ELSE RegionSize)' = k + 1
        BY <2>0
      <3> QED
        BY <1>k, <2>0, <3>1 DEF MadeBits
    <2>3. FileBits' = FileBits /\ Window(reg)' = Window(reg)
      BY <2>0, SameFiles DEF FileBits, Window
    <2> QED
      BY <2>0, <2>1, <2>2, <2>3, SameFiles DEF MarksInv, FreedBits
  <1>6. CASE WriteEntry
    <2>0. /\ pc = "entry" /\ op \in Makers /\ ent.type = TypeOf(op)
          /\ ~Removing /\ ~Removing' /\ ~Adding'
          /\ UNCHANGED <<bitmap, reg, op>>
      BY <1>l, <1>6 DEF WriteEntry, MakerOK, Making, locals, Removing, Adding
    <2>1. MadeBits = IF op = "mk_file" THEN Window(reg) ELSE {}
      BY <2>0 DEF MadeBits, Adding, Window
    <2>2. FreedBits = {} /\ FreedBits' = {} /\ MadeBits' = {}
      BY <2>0 DEF FreedBits, MadeBits
    <2>3. CASE UNCHANGED table
      <3>1. leaked' = leaked \/ leaked' = IF op = "mk_file" THEN leaked \cup Window(reg)
                                           ELSE leaked
        BY <1>6, <1>k DEF WriteEntry
      <3>2. op = "mk_file" => \A s \in LiveFiles : RegionOf(s) \cap Window(reg) = {}
        BY <1>l, <2>0 DEF AddedFree, Adding
      <3>3. leaked' = leaked \cup MadeBits
        <4>1. ASSUME EmptySlots # {}, op = "mk_file"
              PROVE  FALSE
          <5> PICK e \in EmptySlots : table' = [table EXCEPT ![e] = ent]
            BY <1>6, <4>1 DEF WriteEntry, IsFirst
          <5>1. table[e] = ent
            BY <1>0, <2>3 DEF EmptySlots, TypeOK
          <5>2. ent.id > 0
            BY <1>0, <2>0 DEF CopiesOK, Making
          <5> QED
            BY <5>1, <5>2 DEF EmptySlots
        <4> QED
          BY <1>6, <1>k, <2>1, <4>1 DEF WriteEntry
      <3>4. FileBits' = FileBits
        BY <2>3, SameFiles DEF FileBits
      <3> QED
        BY <2>0, <2>1, <2>2, <2>3, <3>2, <3>3, <3>4, SameFiles DEF MarksInv
    <2>4. ASSUME NEW e \in EmptySlots, table' = [table EXCEPT ![e] = ent], leaked' = leaked
          PROVE  MarksInv'
      <3>1. e \in Slots /\ e \notin Live
        BY <2>4 DEF EmptySlots, Live
      <3>2. table'[e] = ent /\ \A s \in Slots \ {e} : table'[s] = table[s]
        BY <1>0, <2>4, <3>1 DEF TypeOK
      <3>3. LiveFiles' = IF op = "mk_file" THEN LiveFiles \cup {e} ELSE LiveFiles
        <4>1. ent.id # 0
          BY <1>0, <2>0 DEF CopiesOK, Making
        <4> QED
          BY <2>0, <3>1, <3>2, <4>1 DEF LiveFiles, Live, TypeOf, File, Dir, Makers
      <3>4. \A s \in LiveFiles : s # e /\ RegionOf(s)' = RegionOf(s)
        BY <3>1, <3>2 DEF LiveFiles, Live, RegionOf, Window
      <3>5. op = "mk_file" => RegionOf(e)' = Window(reg)
        BY <1>l, <2>0, <3>2 DEF RegionOf, Window, AddedFree, Adding
      <3>6. FileBits' = FileBits \cup MadeBits
        BY <2>1, <3>3, <3>4, <3>5 DEF FileBits
      <3>7. \A s \in LiveFiles' : leaked' \cap RegionOf(s)' = {}
        BY <2>0, <2>4, <3>3, <3>4, <3>5 DEF MarksInv, Adding
      <3> QED
        BY <2>0, <2>2, <2>4, <3>6, <3>7 DEF MarksInv
    <2> QED
      BY <1>6, <2>3, <2>4 DEF WriteEntry, IsFirst
  <1>7. CASE Reload
    BY <1>7, <1>q DEF Reload, Return, Adding, Removing
  <1>8. ASSUME NEW o \in Ops, NEW next \in {"next", "erase", "sector", "read"},
               Locate(o, next), next = "erase" => o = "rm_dir"
        PROVE  MarksInv'
    <2>1. pc = "walk" /\ ~Adding /\ ~Removing /\ UNCHANGED <<table, bitmap, leaked>>
      BY <1>8 DEF Locate, disk, Adding, Removing
    <2>2. ~Adding' /\ ~Removing'
      BY <1>8 DEF Locate, Return, Adding, Removing
    <2> QED
      BY <1>q, <2>1, <2>2
  <1>9. CASE FreeNext
    <2>1. /\ pc = "next" /\ pc' = "clear" /\ k' = 0 /\ reg' = reg
          /\ ~Adding /\ ~Removing /\ ~Adding' /\ UNCHANGED <<table, bitmap, leaked>>
      BY <1>9 DEF FreeNext, disk, Adding, Removing
    <2>2. FreedBits = {} /\ FreedBits' = {}
      BY <1>k, <2>1 DEF FreedBits
    <2> QED
      BY <2>1, <2>2, SameFiles, SameMarks
  <1>10. CASE FreeClear
    <2>0. /\ pc = "clear" /\ op = "rm_file" /\ Removing /\ ~Adding /\ k < RegionSize
          /\ UNCHANGED <<table, leaked, op>>
      BY <1>0, <1>10 DEF FreeClear, CopiesOK, Removing, LocalsOK, Adding
    <2>1. /\ slot \in LiveFiles /\ reg = table[slot].frame /\ nxt \in EndOfChain
      BY <1>l, <2>0 DEF RemoverOK
    <2>2. /\ reg' = reg /\ Removing' /\ ~Adding'
          /\ IF k + 1 < RegionSize THEN pc' = "clear" /\ k' = k + 1 ELSE pc' = "erase"
      BY <1>10, <2>0, <2>1 DEF FreeClear, Removing, Adding
    <2>3. reg + k \in Window(reg) /\ Window(reg) = RegionOf(slot)
      BY <1>k, <2>0, <2>1 DEF Window, RegionOf
    <2>4. bitmap' = bitmap \ {reg + k}
      BY <1>10, <1>k, <2>3 DEF FreeClear, BitmapClear
    <2>5. FreedBits' = FreedBits \cup {reg + k}
      <3>1. (IF pc = "clear" THEN k ELSE RegionSize)' = k + 1
        BY <1>k, <2>0, <2>2
      <3> QED
        BY <1>k, <2>0, <2>2, <3>1 DEF FreedBits
    <2>6. FileBits' = FileBits /\ MadeBits = {} /\ MadeBits' = {}
      BY <2>0, <2>2, SameFiles DEF FileBits, MadeBits
    <2> QED
      BY <2>0, <2>2, <2>4, <2>5, <2>6, SameFiles DEF MarksInv
  <1>11. CASE Erase
    <2>0. /\ pc = "erase" /\ pc' = "reload" /\ slot \in Live
          /\ ~Adding /\ ~Adding' /\ ~Removing' /\ (Removing <=> op = "rm_file")
          /\ UNCHANGED <<bitmap, leaked>>
          /\ op \in {"rm_file", "rm_dir"} /\ table[slot].type = TypeOf(op)
      BY <1>0, <1>11 DEF Erase, locals, CopiesOK, Adding, Removing
    <2>1. /\ table'[slot] = EmptyEntry
          /\ \A s \in Slots \ {slot} : table'[s] = table[s]
      BY <1>0, <1>11 DEF Erase, TypeOK
    <2>2. LiveFiles' = LiveFiles \ {slot}
      BY <2>0, <2>1 DEF LiveFiles, Live, EmptyEntry
    <2>3. \A s \in LiveFiles' : RegionOf(s)' = RegionOf(s)
      BY <2>1, <2>2 DEF LiveFiles, Live, RegionOf, Window
    <2>4. FreedBits' = {} /\ MadeBits = {} /\ MadeBits' = {}
      BY <2>0 DEF FreedBits, MadeBits
    <2>5. CASE op = "rm_file"
      <3>1. slot \in LiveFiles /\ FreedBits = RegionOf(slot)
        BY <1>l, <2>0, <2>5 DEF RemoverOK, FreedBits, RegionOf, Window
      <3>2. FileBits' = FileBits \ RegionOf(slot)
        BY <1>l, <2>2, <2>3, <3>1 DEF FileBits, RegionsOwned
      <3>3. leaked \cap RegionOf(slot) = {}
        BY <3>1 DEF MarksInv
      <3> QED
        BY <2>0, <2>2, <2>3, <2>4, <3>1, <3>2, <3>3 DEF MarksInv
    <2>6. CASE op = "rm_dir"
      <3>1. slot \notin LiveFiles /\ FreedBits = {}
        BY <2>0, <2>6 DEF LiveFiles, TypeOf, File, Dir, FreedBits
      <3> QED
        BY <2>0, <2>2, <2>3, <2>4, <3>1, SameMarks
    <2> QED
      BY <2>0, <2>5, <2>6
  <1>12. CASE WriteSector \/ WriteLastSector \/ ChainSector \/ ChainScan \/ Link
    <2>1. /\ UNCHANGED <<table, bitmap, leaked>>
          /\ pc \notin {"set", "clear", "entry", "erase"}
          /\ pc' \notin {"set", "clear", "entry", "erase"}
      BY <1>12
      DEF WriteSector, WriteLastSector, ChainSector, ChainScan, Link, disk
    <2> QED
      BY <1>q, <2>1 DEF Adding, Removing
  <1>13. CASE ChainSet
    BY <1>13, <1>0 DEF ChainSet, OwnInv, WriterOK
  <1>14. CASE Commit
    <2>1. /\ pc = "commit" /\ pc' = "idle" /\ UNCHANGED <<bitmap, leaked>>
          /\ Identity(ent) = Identity(table[slot]) /\ slot \in Live
      BY <1>0, <1>14 DEF Commit, Return, CopiesOK, Writing
    <2>2. /\ table'[slot] = ent
          /\ \A s \in Slots \ {slot} : table'[s] = table[s]
      BY <1>0, <1>14 DEF Commit, TypeOK
    <2>3. /\ ent.id = table[slot].id /\ ent.type = table[slot].type
          /\ ent.frame = table[slot].frame
      BY <2>1 DEF Identity
    <2>4. LiveFiles' = LiveFiles /\ \A s \in LiveFiles : RegionOf(s)' = RegionOf(s)
      BY <2>1, <2>2, <2>3 DEF LiveFiles, Live, RegionOf, Window
    <2> QED
      BY <2>1, <2>4, SameMarks DEF FreedBits, Adding, Removing
  <1>15. CASE ReadSector \/ ReadEnd
    <2>1. /\ UNCHANGED <<table, bitmap, leaked>>
          /\ pc \notin {"set", "clear", "entry", "erase"}
          /\ pc' \notin {"set", "clear", "entry", "erase"}
      BY <1>15 DEF ReadSector, ReadEnd, Return, disk
    <2> QED
      BY <1>q, <2>1 DEF Adding, Removing
  <1>16. CASE Crash \/ Boot
    <2>1. /\ UNCHANGED <<table, bitmap, leaked>>
          /\ pc \notin {"set", "clear", "entry", "erase"}
          /\ pc' \notin {"set", "clear", "entry", "erase"}
      BY <1>16 DEF Crash, Boot, Return, disk, MarksWhole
    <2> QED
      BY <1>q, <2>1 DEF Adding, Removing
  <1>17. CASE UNCHANGED vars
    <2>1. UNCHANGED <<table, bitmap, leaked, pc, op, reg, k>>
      BY <1>17 DEF vars, disk, locals
    <2>2. /\ FileBits' = FileBits /\ MadeBits' = MadeBits /\ FreedBits' = FreedBits
          /\ Adding' = Adding /\ Window(reg)' = Window(reg)
      BY <2>1, SameFiles DEF FileBits, MadeBits, FreedBits, Adding, Removing, Window
    <2> QED
      BY <2>1, <2>2, SameFiles DEF MarksInv
  <1> QED
    BY <1>1, <1>2, <1>3, <1>4, <1>5, <1>6, <1>7, <1>8, <1>9, <1>10, <1>11,
       <1>12, <1>13, <1>14, <1>15, <1>16, <1>17
    DEF Next, Step, RmFile, RmDir, Write, Read, Ops

(* No bit is lost and none is left over: between calls the bitmap is the   *)
(* sectors of the live files and the regions that fs_mk_file marked for an *)
(* entry the full table had no slot for, as long as resets fall neither    *)
(* into the marking of a region nor before its entry is on the disk.       *)
THEOREM MarksAreAccounted ==
  ASSUME OneRegionEach, MarksWhole
  PROVE  Spec => []MarksAccounted
  <1>1. RemovalsWhole /\ ScansSafe
    BY DEF MarksWhole, RemovalsWhole, ScansSafe, BitsAreWhole
  <1>2. MarksInv => MarksAccounted
    BY DEF MarksInv, MarksAccounted, FileBits, MadeBits, FreedBits, Adding, Removing
  <1> QED
    BY <1>1, <1>2, RegionInit, RegionStep, MarksInit, MarksStep, PTL DEF Spec
=============================================================================
