----------------------------- MODULE FileSystem -----------------------------
(***************************************************************************)
(* The calls of kernel/src/fs.c, executed by one caller at a time, with    *)
(* one step per sector that a call writes, and a reset that may hit any of *)
(* the steps named by CrashPoints.                                         *)
(*                                                                         *)
(* A path is a walk: every iteration of the loop of path_to_id looks one   *)
(* component up under the id found so far, so a call first takes some      *)
(* number of Walk steps from the root (every caller hands an absolute path *)
(* over) and then does its work with the id it arrived at.  Contents are   *)
(* abstracted to (owner, index) tags; the pointer word in the last eight   *)
(* bytes of a sector is kept, because regions are chained through it.      *)
(***************************************************************************)
EXTENDS Integers, FiniteSets

CONSTANTS
  Names,            \* path components; a name longer than 23 is not among them
  NoName,           \* 24 zero bytes: an empty slot, or what mk / makes
  NumSlots,         \* fs_max_files_entrys (1024)
  NumFrames,        \* bits of the bitmap: 4096 per bitmap sector
  FramesPerSector,  \* bits of one bitmap sector (4096)
  RegionSize,       \* data_file_region_size (8 sectors)
  Sizes,            \* lengths passed to fs_write_file
  ReadLimits,       \* max_size of fs_read_file
  OldDisks,         \* what the pointer words of the storage area may hold
                    \* when fs_format is done: it does not write there
  MaxId,            \* bound of the model: no entry is made beyond this id
  CrashPoints       \* values of pc at which a reset may hit

ASSUME NamesAssumption == NoName \notin Names
ASSUME GeometryAssumption ==
  /\ NumSlots \in Nat \ {0}
  /\ RegionSize \in Nat \ {0}
  /\ FramesPerSector \in Nat \ {0} /\ FramesPerSector % RegionSize = 0
  /\ NumFrames \in Nat \ {0}       /\ NumFrames % FramesPerSector = 0
ASSUME InputAssumption ==
  /\ Sizes \subseteq Nat
  /\ ReadLimits \subseteq Nat \ {0}
  /\ MaxId \in Nat

File == 2
Dir == 3
Root == 0
NotFound == -1          \* fs_not_found = 0-1
(* Bytes that are no frame number: there is no such sector on the disk, in *)
(* the storage area or in the bitmap.                                      *)
Junk == NumFrames + RegionSize

Slots == 0 .. NumSlots - 1
Bits  == 0 .. NumFrames - 1
(* A window that starts in the bitmap may stick out of its last sector. *)
Frames == 0 .. NumFrames + RegionSize - 2
Words  == Bits \cup {NotFound, Junk}
(* The values of a pointer word that end a chain. *)
EndOfChain == {0, NotFound}

ASSUME DisksAssumption == OldDisks \subseteq [Frames -> Words]

Entries == [id : 0 .. MaxId, parent : 0 .. MaxId, name : Names \cup {NoName},
            type : {0, File, Dir}, size : Nat, frame : Bits]
EmptyEntry == [id |-> 0, parent |-> 0, name |-> NoName,
               type |-> 0, size |-> 0, frame |-> 0]

Ops == {"mk_file", "mk_dir", "rm_file", "rm_dir", "write", "read"}
Makers == {"mk_file", "mk_dir"}
(* The type an operation insists on, or gives to the entry it makes. *)
TypeOf(o) == IF o \in {"mk_dir", "rm_dir"} THEN Dir ELSE File

VARIABLES
  \* on disk
  table,    \* slot -> entry
  bitmap,   \* the frames whose bit is set
  lastId,   \* the last-id sector
  word,     \* frame -> the last eight bytes of its sector
  data,     \* frame -> who last wrote it: <<entry id, index in the file>>
  \* locals of the call in progress
  pc,       \* where the call is
  op,       \* which call it is
  cur,      \* this_id: where the walk over the path has come to
  ent,      \* this_entry: a copy of the entry in memory
  slot,     \* where the copy was read from
  reg,      \* region_start / data_frame
  nxt,      \* next, next_region
  k,        \* index of a sector, or of a bit, within the region
  n,        \* bytes written or read so far; regions freed so far
  size,     \* size, to_read
  \* history
  leaked    \* frames marked by fs_mk_file for an entry the table had no slot for

disk   == <<table, bitmap, lastId, word, data>>
locals == <<op, cur, ent, slot, reg, nxt, k, n, size>>
vars   == <<disk, pc, locals, leaked>>

-----------------------------------------------------------------------------
(* The table. *)

Live == {s \in Slots : table[s].id # 0}
LiveIds == {table[s].id : s \in Live}
IsFirst(s, S) == s \in S /\ \A t \in S : s <= t

(* name_and_parent_id_to_id compares the name and the parent only. *)
Matches(nm, parent) ==
  {s \in Slots : table[s].name = nm /\ table[s].parent = parent}

(* find_entry_by_id, and the same loop in fs_write_file and fs_read_file. *)
WithId(i) == {s \in Slots : table[s].id = i}

EmptySlots == {s \in Slots : table[s].id = 0}

(* Mutant: the last slot of the table is not looked at. *)
HasChildren_OneShort(i) ==
  \E s \in Live : s < NumSlots - 1 /\ table[s].parent = i
(* dir_has_children *)
HasChildren(i) == \E s \in Live : table[s].parent = i

-----------------------------------------------------------------------------
(* The bitmap. *)

Window(b) == b .. b + RegionSize - 1
SectorEnd(b) == ((b \div FramesPerSector) + 1) * FramesPerSector

(* Windows get_data_region sees whole and free in the sector it holds. *)
FreeWindows ==
  {b \in Bits : /\ b + RegionSize <= SectorEnd(b)
                /\ Window(b) \cap bitmap = {}}

(* Windows that reach past the 512 bytes of this_buffer: the bits beyond   *)
(* it are whatever the stack holds, so only those inside count for sure.   *)
OverrunWindows ==
  {b \in Bits : /\ b + RegionSize > SectorEnd(b)
                /\ (b .. SectorEnd(b) - 1) \cap bitmap = {}}

(* The results get_data_region can return: the first window it takes to be *)
(* free.                                                                   *)
ScanResults ==
  {b \in FreeWindows \cup OverrunWindows : \A f \in FreeWindows : b <= f}
  \cup (IF FreeWindows = {} THEN {NotFound} ELSE {})

(* Mutant: the byte is written, not or-ed: the other bits of it are lost. *)
BitmapSet_Assign(f) ==
  IF f \in Bits
  THEN bitmap' = {b \in bitmap : b \div 8 # f \div 8} \cup {f} /\ UNCHANGED lastId
  ELSE UNCHANGED <<bitmap, lastId>>
(* A bit past the bitmap falls into the sector after it, the last-id one:  *)
(* setting it can only raise the number there, clearing it only lower it.  *)
(* For a frame that is none the disk has no sector to change.              *)
BitmapSet(f) ==
  IF f \in Bits
  THEN bitmap' = bitmap \cup {f} /\ UNCHANGED lastId
  ELSE /\ UNCHANGED bitmap
       /\ \E i \in 0 .. MaxId : i >= lastId /\ lastId' = i

BitmapClear(f) ==
  /\ bitmap' = bitmap \ {f}
  /\ IF f \in Bits \/ f >= Junk
     THEN UNCHANGED lastId
     ELSE \E i \in 0 .. MaxId : i <= lastId /\ lastId' = i

-----------------------------------------------------------------------------
(* Sizes. *)

Capacity == (RegionSize - 1) * 512 + 504          \* fs_region_capacity
Least(a, b) == IF a < b THEN a ELSE b

(* regions_num of free_file_regions: it divides the size in bytes by 8. *)
RegionsToFree(bytes) ==
  LET frames_num == (bytes + 7) \div 8
      regions    == (frames_num * 8) \div RegionSize
  IN  IF regions = 0 THEN 1 ELSE regions

(* Index within the file of sector k of the region that starts at byte n. *)
Index == (n \div Capacity) * RegionSize + k
(* Mutant: a chunk that just fits asks for another region. *)
More_AtCapacity == size - n >= Capacity
More  == size - n > Capacity
Chunk == Least(size - n, Capacity)

-----------------------------------------------------------------------------
(* Control. *)

ResetLocals ==
  /\ op' = "none" /\ cur' = 0 /\ ent' = EmptyEntry /\ slot' = 0
  /\ reg' = 0 /\ nxt' = 0 /\ k' = 0 /\ n' = 0 /\ size' = 0

(* The call returns to its caller. *)
Return == pc' = "idle" /\ ResetLocals

Start(o) ==
  /\ pc = "idle"
  /\ o \in Makers => lastId < MaxId
  /\ pc' = "walk" /\ op' = o /\ cur' = Root
  /\ size' \in CASE o = "write" -> Sizes
                 [] o = "read"  -> ReadLimits
                 [] OTHER       -> {0}
  /\ UNCHANGED <<disk, ent, slot, reg, nxt, k, n, leaked>>

(* One iteration of the loop of path_to_id. *)
Walk ==
  /\ pc = "walk"
  /\ \E nm \in Names :
       IF Matches(nm, cur) = {}
       THEN cur' = NotFound
       ELSE \E s \in Slots : IsFirst(s, Matches(nm, cur)) /\ cur' = table[s].id
  /\ UNCHANGED <<disk, pc, op, ent, slot, reg, nxt, k, n, size, leaked>>

-----------------------------------------------------------------------------
(* fs_mk_file and fs_mk_dir: cur is the id of the parent, the last         *)
(* component of the path is the name, and the name of / is empty.  Neither *)
(* asks whether the name is taken or the parent a directory.               *)

MkEntry(o, next) ==
  /\ pc = "walk" /\ op = o
  /\ IF cur = NotFound
     THEN Return
     ELSE /\ \E nm \in Names \cup {NoName} :
               /\ nm = NoName => cur = Root
               /\ ent' = [id |-> lastId + 1, parent |-> cur, name |-> nm,
                          type |-> TypeOf(o), frame |-> 0,
                          size |-> IF o = "mk_dir" THEN 4 ELSE 0]
          /\ pc' = next
          /\ UNCHANGED <<op, cur, slot, reg, nxt, k, n, size>>
  /\ UNCHANGED <<disk, leaked>>

MkFile == MkEntry("mk_file", "scan")
MkDir  == MkEntry("mk_dir", "entry")

MkScan ==
  /\ pc = "scan"
  /\ \E b \in ScanResults :
       IF b = NotFound
       THEN Return
       ELSE /\ reg' = b /\ ent' = [ent EXCEPT !.frame = b]
            /\ pc' = "set"
            /\ UNCHANGED <<op, cur, slot, nxt, k, n, size>>
  /\ UNCHANGED <<disk, leaked>>

(* Mutant: the loop ends one bit early. *)
MkSet_OneShort ==
  /\ pc = "set"
  /\ BitmapSet(reg + k)
  /\ k' = k + 1
  /\ pc' = IF k + 1 >= RegionSize - 1 THEN "entry" ELSE "set"
  /\ UNCHANGED <<table, word, data, op, cur, ent, slot, reg, nxt, n, size, leaked>>
(* Mutant: the loop ends one bit late. *)
MkSet_OneMore ==
  /\ pc = "set"
  /\ BitmapSet(reg + k)
  /\ k' = k + 1
  /\ pc' = IF k = RegionSize THEN "entry" ELSE "set"
  /\ UNCHANGED <<table, word, data, op, cur, ent, slot, reg, nxt, n, size, leaked>>
MkSet ==
  /\ pc = "set"
  /\ BitmapSet(reg + k)
  /\ k' = k + 1
  /\ pc' = IF k + 1 = RegionSize THEN "entry" ELSE "set"
  /\ UNCHANGED <<table, word, data, op, cur, ent, slot, reg, nxt, n, size, leaked>>

(* write_entry_to_table, whose result fs_mk_file and fs_mk_dir ignore. *)
WriteEntry ==
  /\ pc = "entry"
  /\ IF EmptySlots = {}
     THEN /\ UNCHANGED table
          /\ leaked' = IF op = "mk_file" THEN leaked \cup (Window(reg) \cap Bits)
                       ELSE leaked
     ELSE /\ \E s \in Slots : IsFirst(s, EmptySlots)
                              /\ table' = [table EXCEPT ![s] = ent]
          /\ UNCHANGED leaked
  /\ pc' = "reload"
  /\ UNCHANGED <<bitmap, lastId, word, data, locals>>

(* Mutant: the number of entries, which is not their greatest id. *)
ReloadLastId_Count == lastId' = Cardinality(Live)
(* reload_last_id_to_disk: the greatest id of the table. *)
ReloadLastId ==
  \E i \in LiveIds \cup {0} : (\A j \in LiveIds : j <= i) /\ lastId' = i

Reload ==
  /\ pc = "reload"
  /\ ReloadLastId
  /\ Return
  /\ UNCHANGED <<table, bitmap, word, data, leaked>>

-----------------------------------------------------------------------------
(* The type check of each call, and the children check of fs_rm_dir_by_id. *)
Refused(o, s) ==
  \/ table[s].type # TypeOf(o)
  \/ o = "rm_dir" /\ HasChildren(cur)

(* The calls on an existing entry find it by the id the walk ended at,     *)
(* refuse the wrong type, and go on with a copy of it.                     *)

Locate(o, next) ==
  /\ pc = "walk" /\ op = o
  /\ IF cur \in {Root, NotFound} \/ WithId(cur) = {}
     THEN Return
     ELSE \E s \in Slots :
            /\ IsFirst(s, WithId(cur))
            /\ IF Refused(o, s)
               THEN Return
               ELSE /\ ent' = table[s] /\ slot' = s /\ reg' = table[s].frame
                    /\ pc' = next
                    /\ size' = IF o = "read" THEN Least(table[s].size, size - 1)
                               ELSE size
                    /\ UNCHANGED <<op, cur, nxt, k, n>>
  /\ UNCHANGED <<disk, leaked>>

RmFile == Locate("rm_file", "next")
RmDir  == Locate("rm_dir", "erase")
Write  == Locate("write", "sector")
Read   == Locate("read", "read")

(* The pointer word in the buffer after a read of sector f.  Where there   *)
(* is no sector the read fails, and the buffer is as it was before.        *)
PointerAt(f, before) == IF f \in Frames THEN {word[f]} ELSE before

(* free_file_regions, one region per turn: the next pointer is looked at   *)
(* only while more regions are expected, and before the bits are cleared.  *)
FreeNext ==
  /\ pc = "next"
  /\ nxt' \in IF n + 1 < RegionsToFree(ent.size)
              THEN PointerAt(reg + RegionSize - 1, {0})
              ELSE {NotFound}
  /\ k' = 0 /\ pc' = "clear"
  /\ UNCHANGED <<disk, op, cur, ent, slot, reg, n, size, leaked>>

FreeClear ==
  /\ pc = "clear"
  /\ BitmapClear(reg + k)
  /\ IF k + 1 < RegionSize
     THEN /\ k' = k + 1 /\ UNCHANGED <<pc, reg, n>>
     ELSE IF nxt \in EndOfChain
     THEN /\ pc' = "erase" /\ UNCHANGED <<reg, k, n>>
     ELSE /\ reg' = nxt /\ n' = n + 1 /\ pc' = "next" /\ UNCHANGED k
  /\ UNCHANGED <<table, word, data, op, cur, ent, slot, nxt, size, leaked>>

(* erase_table_entry *)
Erase ==
  /\ pc = "erase"
  /\ table' = [table EXCEPT ![slot] = EmptyEntry]
  /\ pc' = "reload"
  /\ UNCHANGED <<bitmap, lastId, word, data, locals, leaked>>

-----------------------------------------------------------------------------
(* fs_write_file_inside. *)

(* ata_sector_write; the disk refuses a sector that it does not have.      *)
PutSector(f, w) ==
  IF f \in Frames
  THEN /\ data' = [data EXCEPT ![f] = <<ent.id, Index>>]
       /\ word' = [word EXCEPT ![f] = w]
  ELSE UNCHANGED <<data, word>>

(* A sector before the last of its region: 512 bytes of payload, of which  *)
(* the final eight are user bytes if the chunk reaches them, else zero.    *)
WriteSector ==
  /\ pc = "sector" /\ k < RegionSize - 1
  /\ PutSector(reg + k, IF k * 512 + 504 < Chunk THEN Junk ELSE 0)
  /\ k' = k + 1
  /\ UNCHANGED <<table, bitmap, lastId, pc, op, cur, ent, slot, reg, nxt, n,
                 size, leaked>>

WriteLastSector ==
  /\ pc = "sector" /\ k = RegionSize - 1 /\ ~More
  /\ PutSector(reg + k, 0)
  /\ ent' = [ent EXCEPT !.size = size]
  /\ pc' = "commit"
  /\ UNCHANGED <<table, bitmap, lastId, op, cur, slot, reg, nxt, k, n, size, leaked>>

(* Mutant: the pointer is taken from the first sector of the region. *)
ChainSector_FirstSector ==
  /\ pc = "sector" /\ k = RegionSize - 1 /\ More
  /\ nxt' \in PointerAt(reg, Words)
  /\ pc' = IF nxt' \in EndOfChain THEN "chain_scan" ELSE "link"
  /\ UNCHANGED <<disk, op, cur, ent, slot, reg, k, n, size, leaked>>
(* More to come: what is found in the sector is followed unless it ends a  *)
(* chain, whoever left it there; else a region is looked for before the    *)
(* sector is written.  The buffer is that of the sector before, which is   *)
(* user bytes.                                                             *)
ChainSector ==
  /\ pc = "sector" /\ k = RegionSize - 1 /\ More
  /\ nxt' \in PointerAt(reg + k, Words)
  /\ pc' = IF nxt' \in EndOfChain THEN "chain_scan" ELSE "link"
  /\ UNCHANGED <<disk, op, cur, ent, slot, reg, k, n, size, leaked>>

ChainScan ==
  /\ pc = "chain_scan"
  /\ \E b \in ScanResults :
       IF b = NotFound
       THEN /\ PutSector(reg + k, 0)
            /\ ent' = [ent EXCEPT !.size = n + Chunk]
            /\ pc' = "commit"
            /\ UNCHANGED <<nxt, k>>
       ELSE /\ nxt' = b /\ k' = 0 /\ pc' = "chain_set"
            /\ UNCHANGED <<ent, word, data>>
  /\ UNCHANGED <<table, bitmap, lastId, op, cur, slot, reg, n, size, leaked>>

(* Mutant: the loop ends one bit early. *)
ChainSet_OneShort ==
  /\ pc = "chain_set"
  /\ BitmapSet(nxt + k)
  /\ k' = RegionSize - 1 /\ pc' = "link"
  /\ UNCHANGED <<table, word, data, op, cur, ent, slot, reg, nxt, n, size, leaked>>
ChainSet ==
  /\ pc = "chain_set"
  /\ BitmapSet(nxt + k)
  /\ IF k + 1 = RegionSize
     THEN pc' = "link" /\ UNCHANGED k
     ELSE pc' = "chain_set" /\ k' = k + 1
  /\ UNCHANGED <<table, word, data, op, cur, ent, slot, reg, nxt, n, size, leaked>>

(* Mutant: written is not advanced with the region. *)
Link_NotAdvanced ==
  /\ pc = "link"
  /\ PutSector(reg + k, nxt)
  /\ pc' = "sector" /\ reg' = nxt /\ k' = 0
  /\ UNCHANGED <<table, bitmap, lastId, op, cur, ent, slot, nxt, n, size, leaked>>
Link ==
  /\ pc = "link"
  /\ PutSector(reg + k, nxt)
  /\ pc' = "sector" /\ reg' = nxt /\ k' = 0 /\ n' = n + Chunk
  /\ UNCHANGED <<table, bitmap, lastId, op, cur, ent, slot, nxt, size, leaked>>

(* fs_write_file puts its copy of the entry back.  last_id is not redone. *)
Commit ==
  /\ pc = "commit"
  /\ table' = [table EXCEPT ![slot] = ent]
  /\ Return
  /\ UNCHANGED <<bitmap, lastId, word, data, leaked>>

-----------------------------------------------------------------------------
(* fs_read_file_inside: sector after sector, until to_read bytes are there *)
(* or the chain ends.                                                      *)

ReadSector ==
  /\ pc = "read" /\ n < size
  /\ IF k < RegionSize - 1
     THEN n' = Least(n + 512, size) /\ k' = k + 1 /\ UNCHANGED <<pc, reg>>
     ELSE /\ n' = Least(n + 504, size)
          /\ \E w \in PointerAt(reg + k, {0}) :
               IF n + 504 >= size \/ w \in EndOfChain
               THEN pc' = "read_end" /\ UNCHANGED <<reg, k>>
               ELSE reg' = w /\ k' = 0 /\ UNCHANGED pc
  /\ UNCHANGED <<disk, op, cur, ent, slot, nxt, size, leaked>>

ReadEnd ==
  /\ pc = "read_end" \/ (pc = "read" /\ n >= size)
  /\ Return
  /\ UNCHANGED <<disk, leaked>>

-----------------------------------------------------------------------------
(* A reset loses the call in progress; what was written stays written.     *)
(* The next boot finds a valid superblock and redoes last_id (fs_init).    *)

Crash ==
  /\ pc \in CrashPoints
  /\ pc' = "boot" /\ ResetLocals
  /\ UNCHANGED <<disk, leaked>>

Boot ==
  /\ pc = "boot"
  /\ ReloadLastId
  /\ Return
  /\ UNCHANGED <<table, bitmap, word, data, leaked>>

-----------------------------------------------------------------------------
(* fs_format clears the metadata and leaves the storage area as it was.    *)
Init ==
  /\ table = [s \in Slots |-> EmptyEntry]
  /\ bitmap = {} /\ lastId = 0
  /\ word \in OldDisks
  /\ data = [f \in Frames |-> <<0, 0>>]
  /\ pc = "idle" /\ op = "none" /\ cur = 0 /\ ent = EmptyEntry /\ slot = 0
  /\ reg = 0 /\ nxt = 0 /\ k = 0 /\ n = 0 /\ size = 0
  /\ leaked = {}

(* The steps of a call under way, in the order of the code. *)
Step ==
  \/ Walk
  \/ MkFile \/ MkDir \/ MkScan \/ MkSet \/ WriteEntry \/ Reload
  \/ RmFile \/ RmDir \/ Write \/ Read
  \/ FreeNext \/ FreeClear \/ Erase
  \/ WriteSector \/ WriteLastSector \/ ChainSector \/ ChainScan \/ ChainSet
  \/ Link \/ Commit
  \/ ReadSector \/ ReadEnd
  \/ Boot

Next == (\E o \in Ops : Start(o)) \/ Step \/ Crash

Spec == Init /\ [][Next]_vars
(* The caller keeps running its own call: nothing in fs.c waits. *)
FairSpec == Spec /\ WF_vars(Step)

-----------------------------------------------------------------------------
(* Properties. *)

Pcs == {"idle", "walk", "scan", "set", "entry", "reload", "next", "clear",
        "erase", "sector", "chain_scan", "chain_set", "link", "commit",
        "read", "read_end", "boot"}

(* The variables stay within their C types and the model's bounds. *)
TypeOK ==
  /\ table \in [Slots -> Entries]
  /\ bitmap \subseteq Bits
  /\ lastId \in 0 .. MaxId
  /\ word \in [Frames -> Words]
  /\ data \in [Frames -> (0 .. MaxId) \X Int]
  /\ pc \in Pcs /\ op \in Ops \cup {"none"}
  /\ cur \in 0 .. MaxId \cup {NotFound}
  /\ ent \in Entries /\ slot \in Slots
  /\ reg \in Bits \cup {Junk} /\ nxt \in Words
  /\ k \in 0 .. RegionSize /\ n \in Nat /\ size \in Nat
  /\ leaked \subseteq Bits

(* Ids are the identity of an entry: find_entry_by_id, dir_has_children and *)
(* the parent links all go through them.  No two live entries share one,    *)
(* the number a new entry is about to get is above every live one, and      *)
(* every entry is younger than its parent, dead or alive, so that a walk    *)
(* down never comes back and id_to_path's walk up ends.                     *)
IdsOrdered ==
  /\ \A s, t \in Live : table[s].id = table[t].id => s = t
  /\ \A s \in Live : table[s].parent < table[s].id
  /\ pc \notin {"next", "clear", "erase", "reload", "boot"} =>
       \A i \in LiveIds : i <= lastId

(* The frames of a live file's first region. *)
RegionOf(s) == Window(table[s].frame)
LiveFiles == {s \in Live : table[s].type = File}
(* The file whose bits fs_rm_file is clearing. *)
BeingFreed == IF pc \in {"clear", "next", "erase"} /\ op = "rm_file" THEN {slot} ELSE {}

(* No two live files share a sector, and every sector of a live file is    *)
(* marked in the bitmap, so that the next scan cannot hand it out again.   *)
RegionsDisjoint ==
  /\ \A s, t \in LiveFiles \ BeingFreed :
       s # t => RegionOf(s) \cap RegionOf(t) = {}
  /\ \A s \in LiveFiles \ BeingFreed : RegionOf(s) \cap Bits \subseteq bitmap

(* Between calls a bit is set for a sector of a live file or for the       *)
(* region of an entry that found the table full, and for nothing else.     *)
MarksAccounted ==
  pc = "idle" =>
    /\ bitmap = leaked \cup UNION {RegionOf(s) : s \in LiveFiles}
    /\ \A s \in LiveFiles : leaked \cap RegionOf(s) = {}

(* Every pointer word of the storage area ends a chain: zeros, or ones.    *)
(* True of a new disk; nothing in the code makes it so.                    *)
BlankDisk == \A f \in Frames : word[f] \in EndOfChain

(* No region straddles the end of a bitmap sector, which is where          *)
(* get_data_region reads past its buffer and bitmap_set into last_id.      *)
InsideSector ==
  /\ \A s \in LiveFiles : table[s].frame + RegionSize <= SectorEnd(table[s].frame)
  /\ pc \in {"set", "clear"} => reg + RegionSize <= SectorEnd(reg)
  /\ pc = "chain_set" => nxt + RegionSize <= SectorEnd(nxt)

(* On a disk that was blank when it was formatted all regions are so,      *)
(* those reached through pointers included that an earlier file left       *)
(* behind.  On another disk a write of more than one region takes over     *)
(* what it finds, and the bits of any window are cleared with the file.    *)
RegionsInsideSector == BlankDisk => []InsideSector

(* fs_read_file returns what fs_write_file last put into that file: each   *)
(* sector it reads was written last for this entry, as that sector of it.  *)
ReadsOwnBytes ==
  pc = "read" /\ n < size => data[reg + k] = <<ent.id, Index>>

(* The call works on frames. *)
OnDisk == reg # Junk

(* On a disk that was blank when it was formatted no call ever follows a   *)
(* pointer word that holds bytes of a user, although regions are reused    *)
(* with all that is in them.                                               *)
NeverWild == BlankDisk => []OnDisk

(* An entry on disk keeps its identity until it is erased: the write-back  *)
(* of a copy at the end of fs_write_file changes the size and no more, and *)
(* hits the slot the copy came from.                                       *)
IdentityFixed ==
  [][\A s \in Live :
       table'[s] # table[s] =>
         \/ table'[s] = EmptyEntry
         \/ table'[s] = [table[s] EXCEPT !.size = table'[s].size]]_vars

(* Every call returns, whatever was on the disk before it was formatted:   *)
(* chains of regions may lead in circles and out of the disk, but a call   *)
(* counts bytes or regions, and not links.                                 *)
CallsReturn == pc # "idle" ~> pc = "idle"

(* The calls implement the atomic ones of Namespace, under any reset. *)
NamespaceNodes ==
  {[id |-> table[s].id, parent |-> table[s].parent,
    name |-> table[s].name, type |-> table[s].type] : s \in Live}
Abstract == INSTANCE Namespace WITH nodes <- NamespaceNodes
NamespaceSpec == Abstract!Spec
=============================================================================
