--------------------------- MODULE ServicesProofs ---------------------------
(***************************************************************************)
(* The two services the rest of the kernel only calls.  The frame          *)
(* allocator, for every memory map and every size of a frame; and the      *)
(* keyboard ring, a bounded FIFO queue for every buffer size as long as    *)
(* one task at a time is inside read_kyboard_from_main.                    *)
(***************************************************************************)
EXTENDS Frames, KeyboardRing, SequenceTheorems, TLAPS

-----------------------------------------------------------------------------
(* The frame allocator. *)

(* The two halves of what a quotient is. *)
LEMMA Division ==
  ASSUME NEW x \in Nat, NEW d \in Nat, d > 0
  PROVE  x \div d \in Nat /\ d * (x \div d) <= x /\ x < d * (x \div d + 1)
  OBVIOUS

LEMMA Quotient ==
  ASSUME NEW x \in Nat, NEW d \in Nat, d > 0, NEW q \in Nat,
         d * q <= x, x < d * (q + 1)
  PROVE  x \div d = q
  <1>1. x \div d \in Nat /\ d * (x \div d) <= x /\ x < d * (x \div d + 1)
    BY Division
  <1>2. x \div d < q + 1
    BY <1>1
  <1>3. q < x \div d + 1
    BY <1>1
  <1> QED
    BY <1>1, <1>2, <1>3

LEMMA Multiple ==
  ASSUME NEW x \in Nat, NEW d \in Nat, d > 0, x % d = 0
  PROVE  x = d * (x \div d) /\ x \div d \in Nat
  OBVIOUS

(* Rounding up: enough units, and no more than a whole number that is.     *)
LEMMA RoundUp ==
  ASSUME NEW n \in Nat, NEW d \in Nat, d > 0
  PROVE  /\ (n + d - 1) \div d \in Nat
         /\ n <= d * ((n + d - 1) \div d)
         /\ d * ((n + d - 1) \div d) < n + d
         /\ \A l \in Nat : n <= d * l => (n + d - 1) \div d <= l
  <1> DEFINE h == (n + d - 1) \div d
  <1>1. h \in Nat /\ d * h <= n + d - 1 /\ n + d - 1 < d * (h + 1)
    BY Division
  <1>2. n <= d * h /\ d * h < n + d
    <2>1. d * (h + 1) = d * h + d
      BY <1>1
    <2> QED
      BY <1>1, <2>1
  <1>3. ASSUME NEW l \in Nat, n <= d * l
        PROVE  h <= l
    <2>1. d * h < d * (l + 1)
      BY <1>1, <1>3
    <2>2. h < l + 1
      BY <1>1, <2>1
    <2> QED
      BY <1>1, <2>2
  <1> QED
    BY <1>1, <1>2, <1>3

(* The frames of a range of bytes that begins at a frame. *)
LEMMA FramesOfBytes ==
  ASSUME NEW n \in Nat, NEW d \in Nat, d > 0, NEW q \in Nat
  PROVE  {b \div d : b \in d * q .. d * q + n - 1} = q .. q + (n + d - 1) \div d - 1
  <1> DEFINE h == (n + d - 1) \div d
  <1>1. h \in Nat /\ n <= d * h /\ d * h < n + d
    BY RoundUp
  <1>2. d * q \in Nat
    OBVIOUS
  <1>3. ASSUME NEW b \in d * q .. d * q + n - 1
        PROVE  b \div d \in q .. q + h - 1
    <2>1. b \in Nat
      BY <1>2
    <2>2. b \div d \in Nat /\ d * (b \div d) <= b /\ b < d * (b \div d + 1)
      BY <2>1, Division
    <2>3. d * q < d * (b \div d + 1)
      BY <1>2, <2>1, <2>2
    <2>4. q < b \div d + 1
      BY <2>2, <2>3
    <2>5. b < d * (q + h)
      BY <1>1, <1>2, <2>1
    <2>6. d * (b \div d) < d * (q + h)
      BY <1>1, <2>1, <2>2, <2>5
    <2>7. b \div d < q + h
      BY <1>1, <2>2, <2>6
    <2> QED
      BY <1>1, <2>2, <2>4, <2>7
  <1>4. ASSUME NEW c \in q .. q + h - 1
        PROVE  \E b \in d * q .. d * q + n - 1 : c = b \div d
    <2>1. c \in Nat /\ d * c \in Nat
      BY <1>1
    <2>2. d * q <= d * c
      BY <2>1
    <2>3. d * c + d <= d * q + d * h
      <3>1. d * (c + 1) <= d * (q + h)
        BY <1>1, <2>1
      <3> QED
        BY <1>1, <2>1, <3>1
    <2>4. d * c <= d * q + n - 1
      BY <1>1, <1>2, <2>1, <2>3
    <2>5. (d * c) \div d = c
      BY <2>1, Quotient
    <2> QED
      BY <1>2, <2>1, <2>2, <2>4, <2>5
  <1> QED
    BY <1>3, <1>4

-----------------------------------------------------------------------------
(* What pmm_init settles for good: the bitmap is inside usable memory and  *)
(* has a bit for each of its frames.                                       *)
Settled ==
  /\ Occupied \subseteq UsableFrames
  /\ UsableFrames \subseteq 0 .. total - 1
  /\ total \in Nat /\ total <= 8 * BitmapSize(total)

FramesInv == PmmTypeOK /\ Settled /\ BitmapSafe /\ FramesAccounted

LEMMA FramesInit == PmmInit => FramesInv
  <1> SUFFICES ASSUME PmmInit
               PROVE  FramesInv
    OBVIOUS
  <1>1. FrameSize \in Nat /\ FrameSize > 0
    BY FrameAssumption
  <1>2. /\ map \in MemoryMaps /\ Aligned(map)
        /\ \A i \in DOMAIN map : map[i].base \in Nat /\ map[i].length \in Nat
    BY MapAssumption DEF PmmInit
  <1>3. \A i \in DOMAIN map : map[i].usable =>
          /\ map[i].base = FrameSize * (map[i].base \div FrameSize)
          /\ map[i].length = FrameSize * (map[i].length \div FrameSize)
          /\ map[i].base \div FrameSize \in Nat
          /\ map[i].length \div FrameSize \in Nat
    BY <1>1, <1>2, Multiple DEF Aligned
  <1>4. PICK i \in DOMAIN map :
          Highest(map, i) /\ total = TotalFrames(map[i].base + map[i].length)
    BY DEF PmmInit
  <1>5. PICK r \in DOMAIN map :
          FirstRoom(map, r, BitmapSize(total)) /\ place = map[r].base
    BY DEF PmmInit
  <1>6. total \in Nat /\ map[i].base + map[i].length <= FrameSize * total
    BY <1>1, <1>2, <1>4, RoundUp DEF TotalFrames
  <1>7. /\ BitmapSize(total) \in Nat /\ total <= 8 * BitmapSize(total)
    BY <1>6 DEF BitmapSize
  <1>8. UsableFrames \subseteq 0 .. total - 1
    <2> SUFFICES ASSUME NEW j \in DOMAIN map, map[j].usable
                 PROVE  FramesOf(map[j]) \subseteq 0 .. total - 1
      BY DEF UsableFrames
    <2> DEFINE b == map[j].base \div FrameSize
               l == map[j].length \div FrameSize
    <2>1. /\ b \in Nat /\ l \in Nat
          /\ map[j].base = FrameSize * b /\ map[j].length = FrameSize * l
      BY <1>3
    <2>2. map[j].base + map[j].length <= FrameSize * total
      BY <1>1, <1>2, <1>4, <1>6, <2>1 DEF Highest
    <2>3. FrameSize * (b + l) <= FrameSize * total
      BY <1>1, <2>1, <2>2
    <2> HIDE DEF b, l
    <2>4. b + l <= total
      BY <1>1, <1>6, <2>1, <2>3
    <2>5. b .. b + l - 1 \subseteq 0 .. total - 1
      BY <1>6, <2>1, <2>4
    <2> QED
      BY <2>5 DEF FramesOf, b, l
  <1>9. map[r].usable /\ BitmapSize(total) <= map[r].length
    BY <1>5 DEF FirstRoom, HasRoom
  <1>10. Occupied = BitmapFrames
    <2>1. place = FrameSize * (place \div FrameSize) /\ place \div FrameSize \in Nat
      BY <1>3, <1>5, <1>9
    <2> QED
      BY <1>1, <1>7, <2>1, FramesOfBytes DEF Occupied, BitmapFrames
  <1>11. BitmapFrames \subseteq FramesOf(map[r])
    <2> DEFINE l == map[r].length \div FrameSize
               h == (BitmapSize(total) + FrameSize - 1) \div FrameSize
               q == map[r].base \div FrameSize
    <2>1. l \in Nat /\ map[r].length = FrameSize * l /\ q \in Nat
      BY <1>3, <1>9
    <2>2. h \in Nat /\ h <= l
      BY <1>1, <1>7, <1>9, <2>1, RoundUp
    <2> HIDE DEF l, h, q
    <2>3. q .. q + h - 1 \subseteq q .. q + l - 1
      BY <2>1, <2>2
    <2> QED
      BY <1>5, <2>3 DEF BitmapFrames, FramesOf, l, h, q
  <1>12. FramesOf(map[r]) \subseteq UsableFrames
    BY <1>9 DEF UsableFrames
  <1>13. bits = ((0 .. 8 * BitmapSize(total) - 1) \ UsableFrames) \cup Occupied
    BY <1>10 DEF PmmInit
  <1>14. Occupied \subseteq UsableFrames /\ held = {} /\ result = 0
    BY <1>10, <1>11, <1>12 DEF PmmInit
  <1>15. 0 .. total - 1 \subseteq 0 .. 8 * BitmapSize(total) - 1
    BY <1>6, <1>7
  <1>16. PmmTypeOK
    BY <1>2, <1>5, <1>6, <1>8, <1>13, <1>14, <1>15 DEF PmmTypeOK
  <1>17. BitmapSafe
    BY <1>13, <1>14 DEF BitmapSafe
  <1>18. FramesAccounted
    BY <1>8, <1>13, <1>14, <1>15 DEF FramesAccounted, FreeFrames
  <1> QED
    BY <1>6, <1>7, <1>8, <1>14, <1>16, <1>17, <1>18 DEF FramesInv, Settled

LEMMA FramesStep == FramesInv /\ [PmmNext]_pmm => FramesInv'
  <1> SUFFICES ASSUME FramesInv, [PmmNext]_pmm
               PROVE  FramesInv'
    OBVIOUS
  <1> USE DEF FramesInv
  <1>1. UNCHANGED <<map, total, place>>
    BY DEF PmmNext, AllocFrame, FreeFrame, pmm
  <1>2. /\ Occupied' = Occupied /\ UsableFrames' = UsableFrames
        /\ BitmapSize(total)' = BitmapSize(total) /\ (0 .. total - 1)' = 0 .. total - 1
    BY <1>1 DEF Occupied, UsableFrames, BitmapSize
  <1>3. Settled'
    BY <1>1, <1>2 DEF Settled
  <1>4. 0 .. total - 1 \subseteq 0 .. 8 * BitmapSize(total) - 1
    <2>1. BitmapSize(total) \in Nat
      BY DEF Settled, BitmapSize
    <2> QED
      BY <2>1 DEF Settled
  <1>5. CASE AllocFrame
    <2>1. CASE FreeFrames = {}
      <3>1. UNCHANGED <<bits, held>> /\ result' = 0
        BY <1>5, <2>1 DEF AllocFrame
      <3>2. FreeFrames' = FreeFrames
        BY <1>2, <3>1 DEF FreeFrames
      <3>3. PmmTypeOK'
        BY <1>1, <1>2, <3>1 DEF PmmTypeOK
      <3> QED
        BY <1>2, <1>3, <3>1, <3>2, <3>3 DEF BitmapSafe, FramesAccounted
    <2>2. CASE FreeFrames # {}
      <3>1. PICK f \in FreeFrames :
              /\ bits' = bits \cup {f} /\ held' = held \cup {f}
              /\ result' = f * FrameSize
        BY <1>5, <2>2 DEF AllocFrame, Mark
      <3>2. f \in 0 .. total - 1 /\ f \in UsableFrames /\ f \notin Occupied
        BY DEF FreeFrames, FramesAccounted
      <3>3. result' \in Nat
        BY <3>1, <3>2, FrameAssumption DEF Settled
      <3>4. PmmTypeOK'
        BY <1>1, <1>2, <1>4, <3>1, <3>2, <3>3 DEF PmmTypeOK
      <3>5. FreeFrames' = FreeFrames \ {f}
        BY <1>2, <3>1 DEF FreeFrames
      <3> QED
        BY <1>2, <1>3, <3>1, <3>2, <3>4, <3>5 DEF BitmapSafe, FramesAccounted
    <2> QED
      BY <2>1, <2>2
  <1>6. CASE FreeFrame
    <2>1. PICK f \in held : bits' = bits \ {f} /\ held' = held \ {f}
      BY <1>6 DEF FreeFrame
    <2>2. f \in 0 .. total - 1 /\ f \in UsableFrames /\ f \notin Occupied /\ result' = result
      BY <1>6 DEF FreeFrame, PmmTypeOK, FramesAccounted
    <2>3. FreeFrames' = FreeFrames \cup {f}
      BY <1>2, <2>1, <2>2 DEF FreeFrames
    <2>4. PmmTypeOK'
      BY <1>1, <1>2, <2>1, <2>2 DEF PmmTypeOK
    <2> QED
      BY <1>2, <1>3, <2>1, <2>2, <2>3, <2>4 DEF BitmapSafe, FramesAccounted
  <1>7. CASE UNCHANGED pmm
    BY <1>2, <1>3, <1>7 DEF pmm, PmmTypeOK, BitmapSafe, FramesAccounted, FreeFrames
  <1> QED
    BY <1>5, <1>6, <1>7 DEF PmmNext

(* Frame numbers stay below total_frame, and bits inside the bitmap.       *)
THEOREM FramesTypeCorrect == PmmSpec => []PmmTypeOK
  <1>1. FramesInv => PmmTypeOK
    BY DEF FramesInv
  <1> QED
    BY FramesInit, FramesStep, <1>1, PTL DEF PmmSpec

(* The allocator never hands its own bitmap out. *)
THEOREM BitmapIsSafe == PmmSpec => []BitmapSafe
  <1>1. FramesInv => BitmapSafe
    BY DEF FramesInv
  <1> QED
    BY FramesInit, FramesStep, <1>1, PTL DEF PmmSpec

(* Every usable frame is free or has one owner. *)
THEOREM AllAccounted == PmmSpec => []FramesAccounted
  <1>1. FramesInv => FramesAccounted
    BY DEF FramesInv
  <1> QED
    BY FramesInit, FramesStep, <1>1, PTL DEF PmmSpec

-----------------------------------------------------------------------------
(* The keyboard ring. *)

(* Past the test, a call has the oldest key to itself. *)
ReadersOK ==
  \A r \in Readers :
    /\ at[r] # "poll" => head # tail
    /\ at[r] \in {"load", "store"} => taken[r] = buffer[tail]
    /\ at[r] = "store" => loaded[r] = tail

RingInv == OneReader /\ TypeOK /\ ReadersOK

LEMMA AfterValue ==
  ASSUME NEW i \in Slots
  PROVE  After(i) = IF i + 1 = BufferSize THEN 0 ELSE i + 1
  BY BufferAssumption DEF After, Slots

LEMMA HeldRange ==
  ASSUME TypeOK
  PROVE  /\ Held \in 0 .. BufferSize - 1
         /\ Held = 0 <=> head = tail
         /\ \A i \in 0 .. BufferSize - 1 : Position(i) \in Slots
  BY BufferAssumption DEF TypeOK, Held, Position, Slots

QueueOK == Queue \in Seq(Chars \cup {NoChar}) /\ Len(Queue) = Held

LEMMA QueueType == TypeOK => QueueOK
  <1> SUFFICES ASSUME TypeOK PROVE QueueOK
    OBVIOUS
  <1> USE DEF QueueOK
  <1>1. \A i \in 1 .. Held : i - 1 \in 0 .. BufferSize - 1
    BY HeldRange, BufferAssumption
  <1> QED
    BY <1>1, HeldRange DEF Queue, TypeOK

LEMMA RingInit == OneReader /\ Init => RingInv
  BY BufferAssumption DEF Init, RingInv, TypeOK, ReadersOK, Slots

LEMMA RingStep == RingInv /\ [Next]_vars => RingInv'
  <1> SUFFICES ASSUME RingInv, [Next]_vars
               PROVE  RingInv'
    OBVIOUS
  <1> USE DEF RingInv, TypeOK, ReadersOK, ring, OneReader
  <1>1. CASE Key
    <2>0. After(head) = IF head + 1 = BufferSize THEN 0 ELSE head + 1
      BY AfterValue
    <2>1. After(head) \in Slots /\ After(head) # head
      BY <2>0, BufferAssumption DEF Slots
    <2>2. buffer' \in [Slots -> Chars \cup {NoChar}]
      BY <1>1 DEF Key
    <2>3. \A r \in Readers : at[r] # "poll" => buffer'[tail] = buffer[tail]
      BY <1>1 DEF Key
    <2> QED
      BY <1>1, <2>1, <2>2, <2>3 DEF Key
  <1>2. ASSUME NEW r \in Readers, Poll(r)
        PROVE  RingInv'
    BY <1>2 DEF Poll
  <1>3. ASSUME NEW r \in Readers, Take(r)
        PROVE  RingInv'
    BY <1>3 DEF Take
  <1>4. ASSUME NEW r \in Readers, LoadTail(r)
        PROVE  RingInv'
    BY <1>4 DEF LoadTail
  <1>5. ASSUME NEW r \in Readers, StoreTail(r)
        PROVE  RingInv'
    <2>0. After(loaded[r]) = IF loaded[r] + 1 = BufferSize THEN 0 ELSE loaded[r] + 1
      BY AfterValue
    <2>1. After(loaded[r]) \in Slots
      BY <2>0, BufferAssumption DEF Slots
    <2> QED
      BY <1>5, <2>1 DEF StoreTail
  <1>6. CASE UNCHANGED vars
    BY <1>6 DEF vars
  <1> QED
    BY <1>1, <1>2, <1>3, <1>4, <1>5, <1>6 DEF Next, Read

(* The indices stay inside the buffer. *)
THEOREM RingTypeCorrect == OneReader => (Spec => []TypeOK)
  <1>1. RingInv => TypeOK
    BY DEF RingInv
  <1> QED
    BY RingInit, RingStep, <1>1, PTL DEF Spec

-----------------------------------------------------------------------------
(* Refinement. *)

LEMMA QueueSame ==
  ASSUME UNCHANGED ring
  PROVE  Queue' = Queue
  BY DEF ring, Queue, Held, Position

LEMMA QueueTypeNext == TypeOK' => QueueOK'
  BY QueueType, PTL

LEMMA AcceptStep ==
  ASSUME RingInv, Key
  PROVE  Fifo!Accept
  <1> USE DEF RingInv, TypeOK
  <1>1. PICK c \in Chars : buffer' = [buffer EXCEPT ![head] = c]
    BY DEF Key
  <1>2. TypeOK'
    BY RingStep DEF Next
  <1>3. Held < BufferSize - 1 /\ Held' = Held + 1
    <2>1. After(head) = IF head + 1 = BufferSize THEN 0 ELSE head + 1
      BY AfterValue
    <2> QED
      BY <2>1, BufferAssumption DEF Key, Held, Slots
  <1>4. Position(Held) = head
    BY BufferAssumption DEF Held, Position, Slots
  <1>5. \A i \in 0 .. Held - 1 : Position(i) # head /\ Position(i) \in Slots
    BY BufferAssumption DEF Held, Position, Slots
  <1>6. \A i \in 1 .. Held : buffer'[Position(i - 1)] = buffer[Position(i - 1)]
    BY <1>1, <1>5, HeldRange
  <1>7. buffer'[head] = c
    BY <1>1
  <1>8. Len(Queue) = Held /\ Len(Queue') = Held + 1
    BY <1>2, <1>3, QueueType, QueueTypeNext, HeldRange DEF QueueOK
  <1>9. \A i : Position(i)' = Position(i)
    BY DEF Key, Position
  <1>10. Queue' = Append(Queue, c)
    <2>0. Queue \in Seq(Chars \cup {NoChar}) /\ Queue' \in Seq(Chars \cup {NoChar})
      BY <1>2, QueueType, QueueTypeNext DEF QueueOK
    <2>1. Queue' = [i \in 1 .. Held + 1 |-> buffer'[Position(i - 1)]]
      BY <1>3, <1>9 DEF Queue
    <2>2. \A i \in 1 .. Held + 1 :
            buffer'[Position(i - 1)] = IF i <= Held THEN Queue[i] ELSE c
      BY <1>4, <1>6, <1>7, HeldRange DEF Queue
    <2>3. Held \in Nat /\ c \in Chars \cup {NoChar}
      BY HeldRange
    <2>4. /\ Append(Queue, c) \in Seq(Chars \cup {NoChar})
          /\ Len(Append(Queue, c)) = Held + 1
          /\ \A i \in 1 .. Held + 1 :
               Append(Queue, c)[i] = IF i <= Held THEN Queue[i] ELSE c
      BY <2>0, <2>3, <1>8
    <2>5. \A i \in 1 .. Len(Queue') : Queue'[i] = Append(Queue, c)[i]
      BY <2>1, <2>2, <2>4, <1>8
    <2> QED
      BY <2>0, <2>4, <2>5, <1>8, SeqEqual
  <1> QED
    BY <1>3, <1>8, <1>10 DEF Fifo!Accept, Key

LEMMA DeliverStep ==
  ASSUME RingInv, NEW r \in Readers, StoreTail(r)
  PROVE  Fifo!Deliver
  <1> USE DEF RingInv, TypeOK
  <1>1. tail' = After(tail) /\ out' = buffer[tail] /\ head # tail
    BY DEF StoreTail, ReadersOK
  <1>a. After(tail) = IF tail + 1 = BufferSize THEN 0 ELSE tail + 1
    BY AfterValue
  <1>2. Held > 0 /\ Held' = Held - 1
    BY <1>1, <1>a, BufferAssumption DEF StoreTail, Held, Slots
  <1>3. \A i \in 1 .. Held - 1 : Position(i - 1)' = Position(i)
    <2> SUFFICES ASSUME NEW i \in 1 .. Held - 1
                 PROVE  Position(i - 1)' = Position(i)
      OBVIOUS
    <2>1. i \in Nat /\ i > 0 /\ i < BufferSize /\ tail \in Nat /\ tail < BufferSize
      BY HeldRange, BufferAssumption DEF Slots
    <2> QED
      BY <1>1, <1>a, <2>1, BufferAssumption DEF Position
  <1>4. Queue' = [i \in 1 .. Held - 1 |-> buffer[Position(i)]]
    BY <1>2, <1>3 DEF Queue, StoreTail
  <1>5. /\ Queue \in Seq(Chars \cup {NoChar}) /\ Len(Queue) = Held
        /\ Queue' \in Seq(Chars \cup {NoChar}) /\ Len(Queue') = Held - 1
    BY <1>2, RingStep, QueueType, QueueTypeNext DEF QueueOK, Next, Read
  <1>6. Held \in Nat /\ Queue # <<>>
    BY <1>2, <1>5, HeldRange
  <1>7. Queue' = Tail(Queue)
    <2>1. /\ Tail(Queue) \in Seq(Chars \cup {NoChar})
          /\ Len(Tail(Queue)) = Held - 1
          /\ \A i \in 1 .. Held - 1 : Tail(Queue)[i] = Queue[i + 1]
      BY <1>5, <1>6, HeadTailProperties
    <2>2. \A i \in 1 .. Held - 1 : Queue[i + 1] = buffer[Position(i)]
      BY <1>6 DEF Queue
    <2>3. \A i \in 1 .. Len(Queue') : Queue'[i] = Tail(Queue)[i]
      BY <1>4, <1>5, <2>1, <2>2
    <2> QED
      BY <1>5, <2>1, <2>3, SeqEqual
  <1>8. Head(Queue) = buffer[tail]
    BY <1>2, <1>5, <1>6, BufferAssumption DEF Queue, Position, Slots
  <1> QED
    BY <1>1, <1>6, <1>7, <1>8 DEF Fifo!Deliver

(* A task that reads the keyboard, interrupted wherever, gets the keys the *)
(* handler accepted, each once and in the order they were struck.          *)
THEOREM RingIsFifo == OneReader => (Spec => FifoSpec)
  <1>1. Init => Fifo!Init
    BY BufferAssumption DEF Init, Fifo!Init, Queue, Held
  <1>2. RingInv /\ [Next]_vars => [Fifo!Next]_<<Queue, out>>
    <2> SUFFICES ASSUME RingInv, [Next]_vars
                 PROVE  [Fifo!Next]_<<Queue, out>>
      OBVIOUS
    <2>1. CASE Key
      BY <2>1, AcceptStep DEF Fifo!Next
    <2>2. ASSUME NEW r \in Readers, StoreTail(r)
          PROVE  Fifo!Next
      BY <2>2, DeliverStep DEF Fifo!Next
    <2>3. ASSUME NEW r \in Readers, Poll(r) \/ Take(r) \/ LoadTail(r)
          PROVE  UNCHANGED <<Queue, out>>
      BY <2>3, QueueSame DEF Poll, Take, LoadTail
    <2>4. CASE UNCHANGED vars
      BY <2>4, QueueSame DEF vars
    <2> QED
      BY <2>1, <2>2, <2>3, <2>4 DEF Next, Read
  <1> QED
    BY <1>1, <1>2, RingInit, RingStep, PTL DEF Spec, FifoSpec, Fifo!Spec
=============================================================================
