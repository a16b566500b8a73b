---------------------------- MODULE KeyboardRing ----------------------------
(***************************************************************************)
(* The ring of kernel/src/keyboard.c.  The handler of IRQ1 runs with       *)
(* interrupts off, so it is one step.  read_kyboard_from_main is called    *)
(* from tasks and can be interrupted between any two of its accesses to    *)
(* the volatile indices, so it is one step per access that matters.        *)
(***************************************************************************)
EXTENDS Integers, Sequences

CONSTANTS BufferSize,   \* BUFFER_SIZE (256)
          Chars,        \* the non-zero values of scancode_ascii
          NoChar,       \* 0: a slot never written, a scancode without a character
          Readers       \* the tasks that call read_kyboard_from_main

ASSUME BufferAssumption == BufferSize \in Nat /\ BufferSize > 1
ASSUME CharsAssumption == NoChar \notin Chars

Slots == 0 .. BufferSize - 1
(* The shell is the only caller until it hands the keyboard to a command. *)
OneReader == \A r, s \in Readers : r = s

VARIABLES
  buffer, head, tail,   \* the volatile globals
  at,                   \* reader -> where it is in read_kyboard_from_main
  taken,                \* reader -> *char_output_pointer
  loaded,               \* reader -> tail, loaded to be incremented
  out                   \* the character the last successful call returned

ring == <<buffer, head, tail>>
vars == <<ring, at, taken, loaded, out>>

TypeOK ==
  /\ buffer \in [Slots -> Chars \cup {NoChar}]
  /\ head \in Slots /\ tail \in Slots
  /\ at \in [Readers -> {"poll", "take", "load", "store"}]
  /\ taken \in [Readers -> Chars \cup {NoChar}]
  /\ loaded \in [Readers -> Slots]
  /\ out \in Chars \cup {NoChar}

(* Next index in the ring. *)
After(i) == (i + 1) % BufferSize

Init ==
  /\ buffer = [i \in Slots |-> NoChar]
  /\ head = 0 /\ tail = 0
  /\ at = [r \in Readers |-> "poll"]
  /\ taken = [r \in Readers |-> NoChar]
  /\ loaded = [r \in Readers |-> 0]
  /\ out = NoChar

(* Mutant: a full ring is taken for one with room. *)
Key_NoFullCheck ==
  /\ \E c \in Chars : buffer' = [buffer EXCEPT ![head] = c]
  /\ head' = After(head)
  /\ UNCHANGED <<tail, at, taken, loaded, out>>
(* click_on_keybord, for a key that stands for a character: releases,      *)
(* unknown scancodes, and keys that find the ring full change nothing.     *)
Key ==
  /\ After(head) # tail
  /\ \E c \in Chars : buffer' = [buffer EXCEPT ![head] = c]
  /\ head' = After(head)
  /\ UNCHANGED <<tail, at, taken, loaded, out>>

(* Mutant: the last key in the ring is taken for none. *)
Poll_LastKey(r) ==
  /\ at[r] = "poll"
  /\ head # tail /\ head # After(tail)
  /\ at' = [at EXCEPT ![r] = "take"]
  /\ UNCHANGED <<ring, taken, loaded, out>>
(* The test for an empty ring; a call that finds it empty returns 0. *)
Poll(r) ==
  /\ at[r] = "poll"
  /\ head # tail
  /\ at' = [at EXCEPT ![r] = "take"]
  /\ UNCHANGED <<ring, taken, loaded, out>>

Take(r) ==
  /\ at[r] = "take"
  /\ taken' = [taken EXCEPT ![r] = buffer[tail]]
  /\ at' = [at EXCEPT ![r] = "load"]
  /\ UNCHANGED <<ring, loaded, out>>

(* tail = (tail + 1) % BUFFER_SIZE is a load and a store. *)
LoadTail(r) ==
  /\ at[r] = "load"
  /\ loaded' = [loaded EXCEPT ![r] = tail]
  /\ at' = [at EXCEPT ![r] = "store"]
  /\ UNCHANGED <<ring, taken, out>>

StoreTail(r) ==
  /\ at[r] = "store"
  /\ tail' = After(loaded[r])
  /\ out' = taken[r]
  /\ at' = [at EXCEPT ![r] = "poll"]
  /\ UNCHANGED <<buffer, head, taken, loaded>>

Read(r) == Poll(r) \/ Take(r) \/ LoadTail(r) \/ StoreTail(r)

Next == Key \/ \E r \in Readers : Read(r)

Spec == Init /\ [][Next]_vars
(* shell and get_input_c poll until they have a key, and the scheduler     *)
(* gives every active task its turn.                                       *)
FairSpec == Spec /\ \A r \in Readers : WF_vars(Read(r))

-----------------------------------------------------------------------------
(* The keys in the ring, oldest first. *)
Held == IF head >= tail THEN head - tail ELSE head - tail + BufferSize
Position(i) == IF tail + i < BufferSize THEN tail + i ELSE tail + i - BufferSize
Queue == [i \in 1 .. Held |-> buffer[Position(i - 1)]]

Fifo == INSTANCE BoundedFifo
          WITH queue <- Queue, out <- out, Capacity <- BufferSize - 1

(* A reader that is interrupted by the handler anywhere in its call still  *)
(* gets every accepted key once and in order, and no accepted key is       *)
(* overwritten by later ones.                                              *)
FifoSpec == Fifo!Spec
(* And it gets all of them in the end. *)
FairFifoSpec == Fifo!FairSpec
=============================================================================
