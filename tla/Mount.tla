-------------------------------- MODULE Mount --------------------------------
(***************************************************************************)
(* fs_init of kernel/src/fs.c: finding a file system on the disk, or       *)
(* making one, with writes that fail and resets at every step.  A metadata *)
(* sector is one of: junk, zeroed, or written as part of the bitmap, of    *)
(* the last id or of the table.                                            *)
(***************************************************************************)
EXTENDS Integers

CONSTANTS
  Totals,            \* sizes of the disk, in sectors, from one boot to another
  TableSectors,      \* fs_table_size_sectors (128)
  Attempts,          \* attempts of fs_write_retry (5)
  IdentifyOutcomes   \* whether ata_identify may fail with a disk present

BitmapSectors(total) == ((total \div 8) \div 8 + 511) \div 512
(* fs_compute_layout, as the superblock records it. *)
Layout(total) ==
  LET bitmap == BitmapSectors(total)
      table  == bitmap + 2
  IN  [total |-> total, bitmap |-> bitmap, table |-> table,
       storage |-> table + TableSectors, tsecs |-> TableSectors]

ASSUME TotalsAssumption ==
  /\ TableSectors \in Nat \ {0} /\ Attempts \in Nat \ {0}
  /\ Totals \subseteq Nat
  /\ \A t \in Totals : t > Layout(t).storage
ASSUME IdentifyAssumption == IdentifyOutcomes \subseteq BOOLEAN

Invalid == [total |-> 0, bitmap |-> 0, table |-> 0, storage |-> 0, tsecs |-> 0]
Superblocks == {Layout(t) : t \in Totals} \cup {Invalid}
Meta == UNION {1 .. Layout(t).storage - 1 : t \in Totals \cup {0}}
Contents == {"junk", "zero", "bits", "id", "rows"}

VARIABLES
  \* on disk
  sb,          \* sector 0, Invalid unless magic and checksum are right
  meta,        \* lba -> contents
  half,        \* history: a format has begun on the metadata and its
               \* superblock is not written
  \* of the running kernel
  pc,          \* where fs_init is
  total,       \* what ata_identify says
  layout,      \* sectors, fs_data_bitmap_size_sectors, start_table, start_storage
  step,        \* of fs_format: the sectors written so far
  attempt,     \* of fs_write_retry
  status,      \* the result of fs_init
  readFailed,  \* history: the read of sector 0 failed in this boot
  strayed      \* history: since the last format a call wrote to the disk
               \* although fs_init had returned -1

disk == <<sb, meta, half>>
boot == <<total, layout, step, attempt, status, readFailed>>
vars == <<disk, pc, boot, strayed>>

TypeOK ==
  /\ sb \in Superblocks
  /\ meta \in [Meta -> Contents] /\ half \in BOOLEAN
  /\ pc \in {"off", "load", "format", "reload", "running"}
  /\ total \in Totals \cup {0}
  /\ layout \in {Layout(t) : t \in Totals \cup {0}}
  /\ step \in 0 .. layout.storage /\ attempt \in 0 .. Attempts - 1
  /\ status \in {-1, 0, 1}
  /\ readFailed \in BOOLEAN /\ strayed \in BOOLEAN

Init ==
  /\ sb = Invalid /\ meta = [l \in Meta |-> "junk"] /\ half = FALSE
  /\ pc = "off" /\ total = 0 /\ layout = Layout(0)
  /\ step = 0 /\ attempt = 0 /\ status = -1
  /\ readFailed = FALSE /\ strayed = FALSE

(* The kernel goes on to its shell, whatever fs_init returns. *)
Finish(result) ==
  /\ pc' = "running" /\ status' = result /\ step' = 0 /\ attempt' = 0

-----------------------------------------------------------------------------
(* ata_identify.  With no answer the layout is that of an empty disk.      *)
Identify ==
  /\ pc = "off"
  /\ \E t \in Totals, ok \in IdentifyOutcomes :
       IF ok
       THEN /\ total' = t /\ pc' = "load"
            /\ UNCHANGED <<layout, step, attempt, status>>
       ELSE /\ total' = 0 /\ layout' = Layout(0)
            /\ Finish(-1)
  /\ readFailed' = FALSE
  /\ UNCHANGED <<disk, strayed>>

(* The checks of fs_load_superblock. *)
Accepted(b, t) ==
  /\ b # Invalid
  /\ b.tsecs = TableSectors
  /\ b.table = b.bitmap + 2 /\ b.storage = b.table + b.tsecs
  /\ b.total <= t /\ b.storage < b.total

(* Mutant: the layout is computed from the size the disk has now. *)
Load_Computed ==
  /\ pc = "load"
  /\ \E readOk \in BOOLEAN :
       /\ readFailed' = ~readOk
       /\ pc' = IF readOk /\ Accepted(sb, total) THEN "reload" ELSE "format"
       /\ layout' = Layout(total)
  /\ UNCHANGED <<disk, total, step, attempt, status, strayed>>
(* Mutant: only a disk of the recorded size is taken. *)
Load_SameSize ==
  /\ pc = "load"
  /\ \E readOk \in BOOLEAN :
       /\ readFailed' = ~readOk
       /\ IF readOk /\ Accepted(sb, total) /\ sb.total = total
          THEN pc' = "reload" /\ layout' = sb
          ELSE pc' = "format" /\ layout' = Layout(total)
  /\ UNCHANGED <<disk, total, step, attempt, status, strayed>>
(* fs_load_superblock: a sector 0 that cannot be read is treated like one  *)
(* that holds no file system.                                              *)
Load ==
  /\ pc = "load"
  /\ \E readOk \in BOOLEAN :
       /\ readFailed' = ~readOk
       /\ IF readOk /\ Accepted(sb, total)
          THEN pc' = "reload" /\ layout' = sb
          ELSE pc' = "format" /\ layout' = Layout(total)
  /\ UNCHANGED <<disk, total, step, attempt, status, strayed>>

(* reload_last_id_to_disk: nobody looks at the result of its write. *)
Reload ==
  /\ pc = "reload"
  /\ meta' = [meta EXCEPT ![layout.table - 1] = "id"] \/ UNCHANGED meta
  /\ Finish(1)
  /\ UNCHANGED <<sb, half, total, layout, readFailed, strayed>>

-----------------------------------------------------------------------------
(* fs_format: sector 0 is zeroed first and the superblock written last.    *)

(* Mutant: the last-id sector is forgotten. *)
FormatOrder_NoLastId ==
  [s \in 0 .. layout.storage |->
     CASE s \in 0 .. layout.bitmap -> s
       [] s \in layout.bitmap + 1 .. layout.storage - 2 -> s + 1
       [] OTHER -> 0]
(* Which sector each write goes to: sector 0, the bitmap, the table, the   *)
(* last id, and sector 0 again.                                            *)
FormatOrder ==
  [s \in 0 .. layout.storage |->
     CASE s \in 0 .. layout.bitmap -> s
       [] s \in layout.bitmap + 1 .. layout.storage - 2 -> s + 1
       [] s = layout.storage - 1 -> layout.table - 1
       [] s = layout.storage -> 0]

(* Mutant: the old superblock stays until the new one is written. *)
Put_KeepOld(s) ==
  IF FormatOrder[s] = 0
  THEN /\ sb' = IF s = 0 THEN sb ELSE layout
       /\ half' = (s = 0 /\ half)
       /\ UNCHANGED meta
  ELSE /\ meta' = [meta EXCEPT ![FormatOrder[s]] = "zero"]
       /\ half' = TRUE
       /\ UNCHANGED sb
(* What write number s leaves on the disk. *)
Put(s) ==
  IF FormatOrder[s] = 0
  THEN /\ sb' = IF s = 0 THEN Invalid ELSE layout
       /\ half' = (s = 0 /\ half)
       /\ UNCHANGED meta
  ELSE /\ meta' = [meta EXCEPT ![FormatOrder[s]] = "zero"]
       /\ half' = TRUE
       /\ UNCHANGED sb

FormatOk ==
  /\ pc = "format"
  /\ Put(step)
  /\ IF step = layout.storage
     THEN Finish(0) /\ strayed' = FALSE
     ELSE step' = step + 1 /\ attempt' = 0 /\ UNCHANGED <<pc, status, strayed>>
  /\ UNCHANGED <<total, layout, readFailed>>

(* Mutant: the attempts start over for ever. *)
FormatError_StartOver ==
  /\ pc = "format"
  /\ Put(step) \/ UNCHANGED disk
  /\ attempt' = (attempt + 1) % Attempts
  /\ UNCHANGED <<pc, step, status, total, layout, readFailed, strayed>>
(* An error or a timeout can come after the sector was written as well as  *)
(* before.  The last attempt ends fs_init, but not the kernel.             *)
FormatError ==
  /\ pc = "format"
  /\ Put(step) \/ UNCHANGED disk
  /\ IF attempt + 1 < Attempts
     THEN attempt' = attempt + 1 /\ UNCHANGED <<pc, step, status>>
     ELSE Finish(-1)
  /\ UNCHANGED <<total, layout, readFailed, strayed>>

-----------------------------------------------------------------------------
(* The calls of the file system write where the layout in memory says,     *)
(* whatever fs_init returned.                                              *)
AreaOf(l, lba) ==
  CASE lba \in 1 .. l.bitmap -> "bits"
    [] lba = l.bitmap + 1 -> "id"
    [] lba \in l.table .. l.storage - 1 -> "rows"
    [] OTHER -> "none"

Use ==
  /\ pc = "running"
  /\ \E lba \in 1 .. layout.storage - 1 :
       meta' = [meta EXCEPT ![lba] = AreaOf(layout, lba)]
  /\ strayed' = (strayed \/ status = -1)
  /\ UNCHANGED <<sb, half, pc, boot>>

(* A reset, or power off. *)
Reset ==
  /\ pc # "off"
  /\ pc' = "off" /\ step' = 0 /\ attempt' = 0
  /\ UNCHANGED <<disk, total, layout, status, readFailed, strayed>>

-----------------------------------------------------------------------------
FsInit == Load \/ Reload \/ FormatOk \/ FormatError

Next == Identify \/ FsInit \/ Use \/ Reset

Spec == Init /\ [][Next]_vars
(* Nothing in fs_init waits for anything but the disk, and the waits for   *)
(* the disk are counted.                                                   *)
FairSpec == Spec /\ WF_vars(FsInit)

-----------------------------------------------------------------------------
(* A superblock on disk that passes the checks tells the truth: every      *)
(* sector of each area it names was zeroed or written as part of that      *)
(* area, however many formats were cut short or failed, on whatever sizes. *)
(* Only calls made although fs_init had failed can break this.             *)
AreasMatch ==
  sb # Invalid /\ ~strayed =>
    \A lba \in 1 .. sb.storage - 1 : meta[lba] \in {"zero", AreaOf(sb, lba)}

(* A format that was cut short, by an error or a reset, is never mistaken  *)
(* for a file system: its bitmap may be zeroed and its table not.          *)
NeverHalfFormatted == half => sb = Invalid

(* A mounted file system is the one on disk: what the calls write will be  *)
(* found again at the next boot on this disk.                              *)
MountedIsOnDisk ==
  pc = "running" /\ status # -1 => sb = layout /\ Accepted(sb, total)

(* A file system that fits the disk is never formatted away, unless its    *)
(* superblock could not be read in this very boot.                         *)
KeptUnlessUnreadable ==
  [][pc # "off" /\ Accepted(sb, total) /\ ~readFailed => sb' = sb]_vars

(* fs_init comes to an end, with any number of failing writes. *)
BootEnds == pc \in {"load", "format", "reload"} ~> pc \in {"running", "off"}
=============================================================================
