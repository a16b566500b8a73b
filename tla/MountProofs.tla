----------------------------- MODULE MountProofs -----------------------------
(***************************************************************************)
(* Mounting and formatting, for every set of disk sizes, every number of   *)
(* table sectors and of attempts.                                          *)
(***************************************************************************)
EXTENDS Mount, TLAPS

(* What the checks of fs_load_superblock and the rest of the code rely on  *)
(* in a layout: the areas follow each other.                               *)
Areas(l) ==
  /\ l.bitmap \in Nat
  /\ l.table = l.bitmap + 2
  /\ l.storage = l.table + TableSectors
  /\ 1 .. l.storage - 1 \subseteq Meta

LEMMA LayoutAreas ==
  ASSUME NEW t \in Totals \cup {0}
  PROVE  Areas(Layout(t)) /\ Layout(t).tsecs = TableSectors /\ Layout(t).total = t
  <1>1. t \in Nat /\ TableSectors \in Nat
    BY TotalsAssumption
  <1>2. BitmapSectors(t) \in Nat
    BY <1>1 DEF BitmapSectors
  <1>3. 1 .. Layout(t).storage - 1 \subseteq Meta
    BY DEF Meta
  <1> QED
    BY <1>1, <1>2, <1>3 DEF Areas, Layout

(* A layout that leaves room for data passes the checks of the next boot,  *)
(* on this disk or on a larger one.                                        *)
LEMMA LayoutAccepted ==
  ASSUME NEW t \in Totals, NEW u \in Nat, t <= u
  PROVE  Accepted(Layout(t), u) /\ Layout(t) # Invalid
  <1>1. Areas(Layout(t)) /\ Layout(t).tsecs = TableSectors /\ Layout(t).total = t
    BY LayoutAreas
  <1>2. Layout(t).storage < t /\ Layout(t).table # 0
    BY <1>1, TotalsAssumption DEF Areas
  <1>3. Layout(t) # Invalid
    BY <1>2 DEF Invalid
  <1> QED
    BY <1>1, <1>2, <1>3 DEF Accepted, Areas

(* Every sector that a bit of the bitmap stands for is a sector of the     *)
(* disk, as soon as the disk has 5000 of them.                             *)
THEOREM BitsInsideDisk ==
  ASSUME NEW t \in Nat, t >= 5000, TableSectors = 128
  PROVE  Layout(t).storage + 4096 * Layout(t).bitmap <= t
  BY DEF Layout, BitmapSectors

-----------------------------------------------------------------------------
Lba(l, s) ==
  IF s <= l.bitmap THEN s
  ELSE IF s <= l.storage - 2 THEN s + 1
  ELSE IF s = l.storage - 1 THEN l.table - 1
  ELSE 0

LEMMA FormatOrderValue ==
  ASSUME TypeOK, NEW s \in 0 .. layout.storage
  PROVE  FormatOrder[s] = Lba(layout, s)
  <1>1. Areas(layout) /\ TableSectors \in Nat \ {0}
    BY LayoutAreas, TotalsAssumption DEF TypeOK
  <1>2. FormatOrder[s] =
          CASE s \in 0 .. layout.bitmap -> s
            [] s \in layout.bitmap + 1 .. layout.storage - 2 -> s + 1
            [] s = layout.storage - 1 -> layout.table - 1
            [] s = layout.storage -> 0
    BY DEF FormatOrder
  <1>3. CASE s \in 0 .. layout.bitmap
    BY <1>1, <1>2, <1>3 DEF Lba, Areas
  <1>4. CASE s \in layout.bitmap + 1 .. layout.storage - 2
    BY <1>1, <1>2, <1>4 DEF Lba, Areas
  <1>5. CASE s = layout.storage - 1
    BY <1>1, <1>2, <1>5 DEF Lba, Areas
  <1>6. CASE s = layout.storage
    BY <1>1, <1>2, <1>6 DEF Lba, Areas
  <1> QED
    BY <1>1, <1>3, <1>4, <1>5, <1>6 DEF Areas

(* How far fs_format has come: sector 0 is invalid from its first write to *)
(* its last, and everything it has passed is zero.                         *)
FormatOK ==
  pc = "format" =>
    /\ total \in Totals /\ layout = Layout(total)
    /\ step > 0 => sb = Invalid \/ (step = layout.storage /\ sb = layout)
    /\ \A s \in 1 .. step - 1 : meta[Lba(layout, s)] = "zero"

(* The layout in memory is that of the disk wherever it was read from it.  *)
MountedOK ==
  /\ pc # "format" => step = 0 /\ attempt = 0
  /\ pc = "load" => total \in Totals
  /\ pc = "reload" \/ (pc = "running" /\ status # -1) =>
       total \in Totals /\ sb = layout /\ Accepted(sb, total)

MountInv ==
  TypeOK /\ FormatOK /\ MountedOK /\ AreasMatch /\ NeverHalfFormatted

(* A new machine: a disk full of anything. *)
LEMMA MountInit == Init => MountInv
  <1> SUFFICES ASSUME Init
               PROVE  MountInv
    OBVIOUS
  <1>1. Areas(Layout(0)) /\ TableSectors \in Nat \ {0} /\ Attempts \in Nat \ {0}
    BY LayoutAreas, TotalsAssumption
  <1>2. sb \in Superblocks /\ meta \in [Meta -> Contents]
    BY DEF Init, Superblocks, Contents
  <1>3. layout \in {Layout(t) : t \in Totals \cup {0}}
    BY DEF Init
  <1>4. step \in 0 .. layout.storage /\ attempt \in 0 .. Attempts - 1
    BY <1>1 DEF Init, Areas
  <1>5. TypeOK
    BY <1>2, <1>3, <1>4 DEF Init, TypeOK
  <1> QED
    BY <1>5 DEF Init, MountInv, FormatOK, MountedOK, AreasMatch, NeverHalfFormatted

LEMMA IdentifyStep == MountInv /\ Identify => MountInv'
  <1> SUFFICES ASSUME MountInv, Identify
               PROVE  MountInv'
    OBVIOUS
  <1> USE DEF MountInv
  <1>1. /\ UNCHANGED <<sb, meta, half, strayed>> /\ pc = "off"
        /\ pc' \in {"load", "running"} /\ (pc' = "running" => status' = -1)
    BY DEF Identify, Finish, disk
  <1>2. Areas(Layout(0)) /\ TableSectors \in Nat \ {0} /\ Attempts \in Nat \ {0}
    BY LayoutAreas, TotalsAssumption
  <1>3. step = 0 /\ attempt = 0
    BY <1>1 DEF MountedOK
  <1>4. \/ /\ pc' = "load" /\ total' \in Totals
           /\ UNCHANGED <<layout, step, attempt, status>>
        \/ /\ pc' = "running" /\ total' = 0 /\ layout' = Layout(0)
           /\ status' = -1 /\ step' = 0 /\ attempt' = 0
    BY DEF Identify, Finish
  <1>5. step' = 0 /\ attempt' = 0 /\ readFailed' = FALSE
    BY <1>3, <1>4 DEF Identify
  <1>6. layout' \in {Layout(t) : t \in Totals \cup {0}}
    BY <1>4 DEF TypeOK
  <1>7. 0 \in 0 .. layout'.storage /\ 0 \in 0 .. Attempts - 1
    BY <1>2, <1>6, LayoutAreas DEF Areas
  <1>8. TypeOK'
    BY <1>1, <1>4, <1>5, <1>6, <1>7 DEF TypeOK
  <1> QED
    BY <1>1, <1>4, <1>5, <1>8 DEF FormatOK, MountedOK, AreasMatch, NeverHalfFormatted, AreaOf

LEMMA LoadStep == MountInv /\ Load => MountInv'
  <1> SUFFICES ASSUME MountInv, Load
               PROVE  MountInv'
    OBVIOUS
  <1> USE DEF MountInv
  <1>1. /\ UNCHANGED <<sb, meta, half, strayed, total, step, attempt, status>>
        /\ pc = "load" /\ total \in Totals /\ readFailed' \in BOOLEAN
        /\ \/ pc' = "reload" /\ layout' = sb /\ Accepted(sb, total)
           \/ pc' = "format" /\ layout' = Layout(total)
    BY DEF Load, disk, MountedOK
  <1>2. sb # Invalid => \E t \in Totals : sb = Layout(t)
    BY DEF TypeOK, Superblocks
  <1>3. layout' \in {Layout(t) : t \in Totals \cup {0}}
    BY <1>1, <1>2 DEF Accepted
  <1>4. step = 0 /\ attempt = 0
    BY <1>1 DEF MountedOK
  <1>5. Areas(layout')
    BY <1>3, LayoutAreas
  <1>6. step' \in 0 .. layout'.storage /\ attempt' \in 0 .. Attempts - 1
    BY <1>1, <1>4, <1>5, TotalsAssumption DEF Areas
  <1>7. TypeOK'
    BY <1>1, <1>3, <1>6 DEF TypeOK
  <1> QED
    BY <1>1, <1>4, <1>7 DEF FormatOK, MountedOK, AreasMatch, NeverHalfFormatted, AreaOf

LEMMA ReloadStep == MountInv /\ Reload => MountInv'
  <1> SUFFICES ASSUME MountInv, Reload
               PROVE  MountInv'
    OBVIOUS
  <1> USE DEF MountInv
  <1>1. /\ UNCHANGED <<sb, half, strayed, total, layout, readFailed>> /\ pc = "reload"
        /\ pc' = "running" /\ status' = 1 /\ step' = 0 /\ attempt' = 0
        /\ meta' = [meta EXCEPT ![layout.table - 1] = "id"] \/ meta' = meta
    BY DEF Reload, Finish
  <1>2. sb = layout /\ Accepted(sb, total) /\ total \in Totals
    BY <1>1 DEF MountedOK
  <1>3. Areas(layout) /\ TableSectors \in Nat \ {0} /\ Attempts \in Nat \ {0}
    BY LayoutAreas, TotalsAssumption DEF TypeOK
  <1>4. TypeOK'
    BY <1>1, <1>3 DEF TypeOK, Contents, Areas
  <1>5. layout.table - 1 = layout.bitmap + 1
    BY <1>3 DEF Areas
  <1>6. AreasMatch'
    BY <1>1, <1>2, <1>3, <1>5 DEF AreasMatch, AreaOf, Areas, TypeOK
  <1> QED
    BY <1>1, <1>2, <1>4, <1>6 DEF FormatOK, MountedOK, NeverHalfFormatted

(* One write of fs_format that reached the disk, successful or not. *)
LEMMA PutStep ==
  ASSUME MountInv, pc = "format", Put(step)
  PROVE  /\ sb' \in Superblocks /\ meta' \in [Meta -> Contents] /\ half' \in BOOLEAN
         /\ half' => sb' = Invalid
         /\ sb' = Invalid \/ (step = layout.storage /\ sb' = layout /\ meta' = meta)
         /\ \A s \in 1 .. step : s < layout.storage => meta'[Lba(layout, s)] = "zero"
         /\ step = layout.storage => sb' = layout /\ half' = FALSE /\ meta' = meta
  <1> USE DEF MountInv
  <1>1. /\ Areas(layout) /\ TableSectors \in Nat \ {0} /\ layout \in Superblocks
        /\ step \in 0 .. layout.storage /\ meta \in [Meta -> Contents]
        /\ sb \in Superblocks /\ Invalid \in Superblocks
    BY LayoutAreas, TotalsAssumption DEF TypeOK, FormatOK, Superblocks
  <1>2. FormatOrder[step] = Lba(layout, step)
    BY FormatOrderValue, <1>1
  <1>3. \A s \in 0 .. layout.storage :
          /\ Lba(layout, s) = 0 <=> s = 0 \/ s = layout.storage
          /\ s # 0 /\ s # layout.storage => Lba(layout, s) \in 1 .. layout.storage - 1
    BY <1>1 DEF Lba, Areas
  <1>4. CASE step = 0 \/ step = layout.storage
    <2>1. /\ sb' = IF step = 0 THEN Invalid ELSE layout
          /\ half' = (step = 0 /\ half) /\ meta' = meta
      BY <1>1, <1>2, <1>3, <1>4 DEF Put
    <2>2. \A s \in 1 .. step : s < layout.storage => meta[Lba(layout, s)] = "zero"
      BY <1>1, <1>4 DEF FormatOK
    <2>3. step = 0 => step # layout.storage
      BY <1>1 DEF Areas
    <2> QED
      BY <1>1, <1>4, <2>1, <2>2, <2>3 DEF TypeOK
  <1>5. CASE step # 0 /\ step # layout.storage
    <2>1. /\ sb' = sb /\ half' = TRUE
          /\ meta' = [meta EXCEPT ![Lba(layout, step)] = "zero"]
          /\ Lba(layout, step) \in Meta
      BY <1>1, <1>2, <1>3, <1>5 DEF Put, Areas
    <2>2. sb = Invalid
      BY <1>1, <1>5 DEF FormatOK
    <2>3. \A s \in 1 .. step - 1 : meta[Lba(layout, s)] = "zero"
      BY DEF FormatOK
    <2>4. \A s \in 1 .. step : meta'[Lba(layout, s)] = "zero"
      <3> SUFFICES ASSUME NEW s \in 1 .. step
                   PROVE  meta'[Lba(layout, s)] = "zero"
        OBVIOUS
      <3>1. Lba(layout, s) \in Meta
        BY <1>1, <1>3, <1>5 DEF Areas
      <3>2. s = step \/ s \in 1 .. step - 1
        BY <1>1
      <3> QED
        BY <1>1, <2>1, <2>3, <3>1, <3>2
    <2>5. "zero" \in Contents
      BY DEF Contents
    <2> QED
      BY <1>1, <1>5, <2>1, <2>2, <2>4, <2>5
  <1> QED
    BY <1>4, <1>5

(* Once all of it is zeroed, there is nothing for the superblock to get    *)
(* wrong.                                                                  *)
LEMMA AllZero ==
  ASSUME Areas(layout), TableSectors \in Nat \ {0},
         \A s \in 1 .. layout.storage - 1 : meta'[Lba(layout, s)] = "zero"
  PROVE  \A lba \in 1 .. layout.storage - 1 : meta'[lba] = "zero"
  <1> SUFFICES ASSUME NEW lba \in 1 .. layout.storage - 1
               PROVE  \E s \in 1 .. layout.storage - 1 : lba = Lba(layout, s)
    OBVIOUS
  <1>1. CASE lba <= layout.bitmap
    BY <1>1 DEF Lba, Areas
  <1>2. CASE lba = layout.bitmap + 1
    <2>1. lba = Lba(layout, layout.storage - 1) /\ layout.storage - 1 \in 1 .. layout.storage - 1
      BY <1>2 DEF Lba, Areas
    <2> QED
      BY <2>1
  <1>3. CASE lba > layout.bitmap + 1
    <2>1. lba = Lba(layout, lba - 1) /\ lba - 1 \in 1 .. layout.storage - 1
      BY <1>3 DEF Lba, Areas
    <2> QED
      BY <2>1
  <1> QED
    BY <1>1, <1>2, <1>3 DEF Areas

LEMMA FormatOkStep == MountInv /\ FormatOk => MountInv'
  <1> SUFFICES ASSUME MountInv, FormatOk
               PROVE  MountInv'
    OBVIOUS
  <1> USE DEF MountInv
  <1>1. pc = "format" /\ Put(step) /\ UNCHANGED <<total, layout, readFailed>>
    BY DEF FormatOk
  <1>2. /\ sb' \in Superblocks /\ meta' \in [Meta -> Contents] /\ half' \in BOOLEAN
        /\ half' => sb' = Invalid
        /\ sb' = Invalid \/ (step = layout.storage /\ sb' = layout /\ meta' = meta)
        /\ \A s \in 1 .. step : s < layout.storage => meta'[Lba(layout, s)] = "zero"
        /\ step = layout.storage => sb' = layout /\ half' = FALSE /\ meta' = meta
    BY <1>1, PutStep
  <1>3. /\ Areas(layout) /\ TableSectors \in Nat \ {0} /\ Attempts \in Nat \ {0}
        /\ step \in 0 .. layout.storage /\ total \in Totals /\ layout = Layout(total)
        /\ total \in Nat
    BY <1>1, LayoutAreas, TotalsAssumption DEF TypeOK, FormatOK
  <1>4. CASE step = layout.storage
    <2>1. /\ pc' = "running" /\ status' = 0 /\ step' = 0 /\ attempt' = 0 /\ strayed' = FALSE
      BY <1>4 DEF FormatOk, Finish
    <2>2. Accepted(sb', total) /\ sb' = layout
      BY <1>2, <1>3, <1>4, LayoutAccepted
    <2>3. AreasMatch'
      BY <1>1, <1>2, <1>3, <1>4, AllZero DEF AreasMatch
    <2>4. step' \in 0 .. layout'.storage /\ attempt' \in 0 .. Attempts - 1
      BY <1>1, <1>3, <2>1 DEF Areas
    <2>5. TypeOK'
      BY <1>1, <1>2, <2>1, <2>4 DEF TypeOK
    <2> QED
      BY <1>1, <1>2, <1>3, <2>1, <2>2, <2>3, <2>5 DEF FormatOK, MountedOK, NeverHalfFormatted
  <1>5. CASE step # layout.storage
    <2>1. /\ step' = step + 1 /\ attempt' = 0
          /\ UNCHANGED <<pc, status, strayed>>
      BY <1>5 DEF FormatOk
    <2>2. sb' = Invalid
      BY <1>2, <1>5
    <2>3. TypeOK'
      BY <1>1, <1>2, <1>3, <1>5, <2>1 DEF TypeOK, Areas
    <2>4. FormatOK'
      BY <1>1, <1>2, <1>3, <1>5, <2>1, <2>2 DEF FormatOK, Areas
    <2> QED
      BY <1>1, <1>2, <2>1, <2>2, <2>3, <2>4 DEF MountedOK, AreasMatch, NeverHalfFormatted
  <1> QED
    BY <1>4, <1>5

LEMMA FormatErrorStep == MountInv /\ FormatError => MountInv'
  <1> SUFFICES ASSUME MountInv, FormatError
               PROVE  MountInv'
    OBVIOUS
  <1> USE DEF MountInv
  <1>1. /\ pc = "format" /\ UNCHANGED <<total, layout, readFailed, strayed>>
        /\ Put(step) \/ UNCHANGED <<sb, meta, half>>
        /\ \/ /\ attempt + 1 < Attempts /\ attempt' = attempt + 1
              /\ UNCHANGED <<pc, step, status>>
           \/ pc' = "running" /\ status' = -1 /\ step' = 0 /\ attempt' = 0
    BY DEF FormatError, Finish, disk
  <1>3. /\ Areas(layout) /\ TableSectors \in Nat \ {0} /\ Attempts \in Nat \ {0}
        /\ step \in 0 .. layout.storage /\ total \in Totals /\ layout = Layout(total)
        /\ layout \in Superblocks
    BY <1>1, LayoutAreas, TotalsAssumption DEF TypeOK, FormatOK, Superblocks
  <1>4. /\ sb' \in Superblocks /\ meta' \in [Meta -> Contents] /\ half' \in BOOLEAN
        /\ half' => sb' = Invalid
        /\ step > 0 => sb' = Invalid \/ (step = layout.storage /\ sb' = layout)
        /\ \A s \in 1 .. step - 1 : meta'[Lba(layout, s)] = "zero"
        /\ sb' # Invalid => meta' = meta /\ (sb' = sb \/ (sb' = layout /\ step = layout.storage))
    <2>1. CASE Put(step)
      <3>1. /\ sb' \in Superblocks /\ meta' \in [Meta -> Contents] /\ half' \in BOOLEAN
            /\ half' => sb' = Invalid
            /\ sb' = Invalid \/ (step = layout.storage /\ sb' = layout /\ meta' = meta)
            /\ \A s \in 1 .. step : s < layout.storage => meta'[Lba(layout, s)] = "zero"
        BY <1>1, <2>1, PutStep
      <3>2. \A s \in 1 .. step - 1 : s \in 1 .. step /\ s < layout.storage
        BY <1>3 DEF Areas
      <3> QED
        BY <3>1, <3>2
    <2>2. CASE UNCHANGED <<sb, meta, half>>
      BY <1>1, <1>3, <2>2 DEF TypeOK, FormatOK, NeverHalfFormatted
    <2> QED
      BY <1>1, <2>1, <2>2
  <1>5. TypeOK'
    BY <1>1, <1>3, <1>4 DEF TypeOK, Areas
  <1>6. AreasMatch'
    <2>1. CASE sb' = layout /\ step = layout.storage
      BY <1>1, <1>3, <1>4, <2>1, AllZero DEF AreasMatch
    <2>2. CASE sb' = Invalid
      BY <2>2 DEF AreasMatch
    <2>3. CASE sb' = sb /\ meta' = meta
      BY <1>1, <2>3 DEF AreasMatch, AreaOf
    <2> QED
      BY <1>4, <2>1, <2>2, <2>3
  <1>7. FormatOK' /\ MountedOK'
    BY <1>1, <1>3, <1>4 DEF FormatOK, MountedOK
  <1> QED
    BY <1>4, <1>5, <1>6, <1>7 DEF NeverHalfFormatted

LEMMA UseStep == MountInv /\ Use => MountInv'
  <1> SUFFICES ASSUME MountInv, Use
               PROVE  MountInv'
    OBVIOUS
  <1> USE DEF MountInv
  <1>1. PICK lba \in 1 .. layout.storage - 1 :
          meta' = [meta EXCEPT ![lba] = AreaOf(layout, lba)]
    BY DEF Use
  <1>2. /\ pc = "running" /\ strayed' = (strayed \/ status = -1)
        /\ UNCHANGED <<sb, half, pc, total, layout, step, attempt, status, readFailed>>
    BY DEF Use, boot
  <1>3. Areas(layout) /\ TableSectors \in Nat \ {0}
    BY LayoutAreas, TotalsAssumption DEF TypeOK
  <1>4. AreaOf(layout, lba) \in Contents
    BY <1>3 DEF AreaOf, Areas, Contents
  <1>5. TypeOK'
    BY <1>1, <1>2, <1>3, <1>4 DEF TypeOK, Areas
  <1>6. AreasMatch'
    BY <1>1, <1>2, <1>3 DEF AreasMatch, MountedOK, Areas, TypeOK
  <1> QED
    BY <1>2, <1>5, <1>6 DEF FormatOK, MountedOK, NeverHalfFormatted

LEMMA MountStep == MountInv /\ [Next]_vars => MountInv'
  <1> SUFFICES ASSUME MountInv, [Next]_vars
               PROVE  MountInv'
    OBVIOUS
  <1>1. CASE Reset
    <2>1. Areas(layout) /\ TableSectors \in Nat \ {0} /\ Attempts \in Nat \ {0}
      BY LayoutAreas, TotalsAssumption DEF TypeOK, MountInv
    <2> QED
      BY <1>1, <2>1 DEF Reset, disk, MountInv, TypeOK, FormatOK, MountedOK, AreasMatch,
                        NeverHalfFormatted, AreaOf, Areas
  <1>2. CASE UNCHANGED vars
    BY <1>2 DEF vars, disk, boot, MountInv, TypeOK, FormatOK, MountedOK, AreasMatch,
                NeverHalfFormatted, AreaOf
  <1> QED
    BY <1>1, <1>2, IdentifyStep, LoadStep, ReloadStep, FormatOkStep, FormatErrorStep,
       UseStep DEF Next, FsInit

-----------------------------------------------------------------------------
(* Every variable of fs_init stays in its type. *)
THEOREM MountTypeCorrect == Spec => []TypeOK
  <1>1. MountInv => TypeOK
    BY DEF MountInv
  <1> QED
    BY MountInit, MountStep, <1>1, PTL DEF Spec

(* Wherever a format is cut short, there is no superblock.                 *)
THEOREM NeverHalf == Spec => []NeverHalfFormatted
  <1>1. MountInv => NeverHalfFormatted
    BY DEF MountInv
  <1> QED
    BY MountInit, MountStep, <1>1, PTL DEF Spec

(* A superblock that passes the checks tells the truth about the disk.     *)
THEOREM SuperblockTrue == Spec => []AreasMatch
  <1>1. MountInv => AreasMatch
    BY DEF MountInv
  <1> QED
    BY MountInit, MountStep, <1>1, PTL DEF Spec

(* What is mounted will be found again. *)
THEOREM MountedFound == Spec => []MountedIsOnDisk
  <1>1. MountInv => MountedIsOnDisk
    BY DEF MountInv, MountedOK, MountedIsOnDisk
  <1> QED
    BY MountInit, MountStep, <1>1, PTL DEF Spec

-----------------------------------------------------------------------------
(* A format begins on a superblock that was refused, or not read.          *)
RefusedOK ==
  pc = "format" /\ step = 0 /\ ~readFailed => ~Accepted(sb, total)

LEMMA RefusedStep == MountInv /\ RefusedOK /\ [Next]_vars => RefusedOK'
  <1> SUFFICES ASSUME MountInv, RefusedOK, [Next]_vars, pc' = "format", step' = 0
               PROVE  ~readFailed' => ~Accepted(sb', total')
    BY DEF RefusedOK
  <1> USE DEF MountInv
  <1>1. CASE Load
    BY <1>1 DEF Load, disk
  <1>2. CASE FormatOk
    <2>1. step = layout.storage => pc' = "running"
      BY <1>2 DEF FormatOk, Finish
    <2>2. step # layout.storage => step' = step + 1
      BY <1>2 DEF FormatOk
    <2>3. step \in Nat
      BY LayoutAreas, TotalsAssumption DEF TypeOK, Areas
    <2> QED
      BY <2>1, <2>2, <2>3
  <1>3. CASE FormatError
    <2>1. pc = "format" /\ step = 0 /\ UNCHANGED <<total, readFailed>>
      BY <1>3 DEF FormatError, Finish
    <2>2. CASE UNCHANGED sb
      BY <2>1, <2>2 DEF RefusedOK
    <2>3. CASE Put(step)
      <3>1. Areas(layout) /\ TableSectors \in Nat \ {0}
        BY LayoutAreas, TotalsAssumption DEF TypeOK
      <3>2. sb' = Invalid
        BY <2>1, <2>3, <3>1, PutStep DEF Areas
      <3> QED
        BY <3>2 DEF Accepted
    <2> QED
      BY <1>3, <2>2, <2>3 DEF FormatError, disk
  <1>4. CASE UNCHANGED vars
    BY <1>4 DEF vars, disk, boot, RefusedOK
  <1>5. pc' # "format" \/ Load \/ FormatOk \/ FormatError \/ UNCHANGED vars
    BY DEF Next, FsInit, Identify, Reload, Use, Reset, Finish, TypeOK
  <1> QED
    BY <1>1, <1>2, <1>3, <1>4, <1>5

(* The superblock of a file system that fits the disk changes only in a    *)
(* boot that could not read it.                                            *)
LEMMA KeptStep ==
  MountInv /\ RefusedOK /\ [Next]_vars =>
    [pc # "off" /\ Accepted(sb, total) /\ ~readFailed => sb' = sb]_vars
  <1> SUFFICES ASSUME MountInv, RefusedOK, Next,
                      pc # "off", Accepted(sb, total), ~readFailed
               PROVE  sb' = sb
    OBVIOUS
  <1> USE DEF MountInv
  <1>1. CASE pc = "format" /\ Put(step)
    <2>1. step # 0
      BY <1>1 DEF RefusedOK
    <2>2. step \in Nat
      BY LayoutAreas, TotalsAssumption DEF TypeOK, Areas
    <2>3. sb # Invalid
      BY DEF Accepted
    <2>4. step = layout.storage /\ sb = layout
      BY <1>1, <2>1, <2>2, <2>3 DEF FormatOK
    <2> QED
      BY <1>1, <2>4, PutStep
  <1>2. (pc = "format" /\ Put(step)) \/ UNCHANGED sb
    BY DEF Next, FsInit, Identify, Load, Reload, FormatOk, FormatError, Use, Reset, disk
  <1> QED
    BY <1>1, <1>2

(* A file system that fits the disk is never formatted away, unless its    *)
(* superblock could not be read in this very boot.                         *)
THEOREM FileSystemKept == Spec => KeptUnlessUnreadable
  <1>1. Init => RefusedOK
    BY DEF Init, RefusedOK
  <1>2. Spec => [](MountInv /\ RefusedOK)
    BY <1>1, MountInit, MountStep, RefusedStep, PTL DEF Spec
  <1> QED
    BY <1>2, KeptStep, PTL DEF Spec, KeptUnlessUnreadable
=============================================================================
