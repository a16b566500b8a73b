------------------------------- MODULE Frames -------------------------------
(***************************************************************************)
(* The allocator of physical frames, kernel/src/pmm.c: a bitmap that is    *)
(* built from the memory map of the boot loader and lives in one of the    *)
(* regions it describes.  pmm_init runs once, before interrupts are on.    *)
(***************************************************************************)
EXTENDS Integers

CONSTANTS
  FrameSize,     \* FRAME_SIZE (4096)
  MemoryMaps     \* memory maps: sequences of [base, length, usable]

Highest(m, i) ==
  m[i].usable /\ \A j \in DOMAIN m :
    m[j].usable => m[j].base + m[j].length <= m[i].base + m[i].length

(* total_frame and bitmap_size, from the end of the highest usable region. *)
TotalFrames(hi) == (hi + FrameSize - 1) \div FrameSize
BitmapSize(frames) == (frames + 7) \div 8

HasRoom(m, i, bytes) == m[i].usable /\ m[i].length >= bytes
FirstRoom(m, i, bytes) ==
  HasRoom(m, i, bytes) /\ \A j \in DOMAIN m : j < i => ~HasRoom(m, j, bytes)

(* What the Limine protocol says of a memory map: usable regions begin and *)
(* end at frames.  Frame 0 is not among them.                              *)
Aligned(m) ==
  \A i \in DOMAIN m : m[i].usable =>
    /\ m[i].base % FrameSize = 0 /\ m[i].base > 0
    /\ m[i].length % FrameSize = 0

ASSUME FrameAssumption == FrameSize \in Nat \ {0}
ASSUME MapAssumption ==
  \A m \in MemoryMaps :
    /\ DOMAIN m \subseteq Nat
    /\ \A i \in DOMAIN m : m[i].base \in Nat /\ m[i].length \in Nat
    /\ \A i \in DOMAIN m : m[i].usable \in BOOLEAN
    /\ Aligned(m)

VARIABLES
  map,       \* the response of the boot loader
  total,     \* total_frame
  place,     \* bitmap_phys
  bits,      \* the frames whose bit is set
  result,    \* what pmm_alloc_frame returned last
  held       \* history: the frames handed out and not freed

pmm == <<map, total, place, bits, result, held>>

FramesOf(e) ==
  e.base \div FrameSize .. e.base \div FrameSize + e.length \div FrameSize - 1
UsableFrames == UNION {FramesOf(map[i]) : i \in {j \in DOMAIN map : map[j].usable}}

(* Mutant: the last part of a frame is not counted. *)
BitmapFrames_RoundDown ==
  place \div FrameSize ..
    place \div FrameSize + BitmapSize(total) \div FrameSize - 1
(* The frames the bitmap itself occupies. *)
BitmapFrames ==
  place \div FrameSize ..
    place \div FrameSize + (BitmapSize(total) + FrameSize - 1) \div FrameSize - 1

(* pmm_init, for a machine with a region the bitmap fits in. *)
PmmInit ==
  /\ map \in MemoryMaps
  /\ \E i \in DOMAIN map :
       Highest(map, i) /\ total = TotalFrames(map[i].base + map[i].length)
  /\ \E i \in DOMAIN map :
       FirstRoom(map, i, BitmapSize(total)) /\ place = map[i].base
  /\ bits = ((0 .. 8 * BitmapSize(total) - 1) \ UsableFrames) \cup BitmapFrames
  /\ result = 0 /\ held = {}

FreeFrames == {f \in 0 .. total - 1 : f \notin bits}

(* Mutant: the frame above the first free one is marked. *)
Mark_Next(f) == bits \cup {f + 1}
Mark(f) == bits \cup {f}

(* The lowest free frame.  0 says that there is none. *)
AllocFrame ==
  /\ IF FreeFrames = {}
     THEN result' = 0 /\ UNCHANGED <<bits, held>>
     ELSE \E f \in FreeFrames :
            /\ \A g \in FreeFrames : f <= g
            /\ bits' = Mark(f) /\ held' = held \cup {f}
            /\ result' = f * FrameSize
  /\ UNCHANGED <<map, total, place>>

(* pmm_free_frame, by a caller that has the frame. *)
FreeFrame ==
  /\ \E f \in held : bits' = bits \ {f} /\ held' = held \ {f}
  /\ UNCHANGED <<map, total, place, result>>

PmmNext == AllocFrame \/ FreeFrame

PmmSpec == PmmInit /\ [][PmmNext]_pmm

-----------------------------------------------------------------------------
(* The variables stay in their types. *)
PmmTypeOK ==
  /\ map \in MemoryMaps /\ total \in Nat /\ place \in Nat
  /\ bits \subseteq 0 .. 8 * BitmapSize(total) - 1
  /\ result \in Nat /\ held \subseteq 0 .. total - 1

(* The frames that hold a byte of the bitmap. *)
Occupied == {b \div FrameSize : b \in place .. place + BitmapSize(total) - 1}

(* Every byte of the bitmap lies in usable memory, in a frame that stays   *)
(* marked whatever is handed out and freed.                                *)
BitmapSafe == Occupied \subseteq UsableFrames \cap bits

(* The clear bits are the frames of usable memory that nobody has: none is *)
(* handed out twice, none is lost, and an allocation that returns 0 finds  *)
(* all of them in use.                                                     *)
FramesAccounted ==
  /\ FreeFrames = UsableFrames \ (Occupied \cup held)
  /\ held \subseteq UsableFrames \ Occupied
=============================================================================
