---------------------------- MODULE BoundedFifo ----------------------------
(***************************************************************************)
(* What the keyboard driver promises the tasks that read it: the keys it   *)
(* accepted, in the order they were struck, each of them once.             *)
(***************************************************************************)
EXTENDS Integers, Sequences

CONSTANTS Chars,      \* the characters a key can stand for
          Capacity,   \* keys held before further ones are dropped
          NoChar      \* nothing was delivered yet

VARIABLES queue,      \* accepted and not yet delivered
          out         \* the character delivered last

Init == queue = <<>> /\ out = NoChar

Accept ==
  /\ Len(queue) < Capacity
  /\ \E c \in Chars : queue' = Append(queue, c)
  /\ UNCHANGED out

Deliver ==
  /\ queue # <<>>
  /\ out' = Head(queue)
  /\ queue' = Tail(queue)

Next == Accept \/ Deliver

Spec == Init /\ [][Next]_<<queue, out>>
(* A key that was accepted is delivered, if only the others before it are. *)
FairSpec == Spec /\ WF_<<queue, out>>(Deliver)
=============================================================================
