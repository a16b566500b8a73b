---------------------------- MODULE SectorStore ----------------------------
(***************************************************************************)
(* What the file system takes ata_sector_read and ata_sector_write for:    *)
(* each does its work in one moment of its call, or not at all.  A write   *)
(* that fails has happened as a whole, or not at all, when it returns; one *)
(* that succeeds is there after a reset.                                   *)
(***************************************************************************)
EXTENDS Integers

CONSTANTS Sectors, Values, Callers

VARIABLES
  contents,      \* sector -> what a read finds
  durable,       \* sector -> what a reset leaves
  open, done,    \* the callers in a call, and those whose work is done
  op, lba, buf,  \* caller -> what it is called for
  result,        \* caller -> what its last call returned
  void           \* nothing is promised any more

calls == <<open, done, op, lba, buf, result>>

Init ==
  /\ contents \in [Sectors -> Values] /\ durable = contents
  /\ open = {} /\ done = {} /\ void = FALSE

Begin(c) ==
  /\ c \notin open
  /\ \E o \in {"write", "read"}, s \in Sectors, v \in Values :
       /\ op' = [op EXCEPT ![c] = o]
       /\ lba' = [lba EXCEPT ![c] = s]
       /\ buf' = [buf EXCEPT ![c] = v]
  /\ open' = open \cup {c}
  /\ UNCHANGED <<contents, durable, done, result>>

Work(c) ==
  /\ c \in open \ done
  /\ IF op[c] = "write"
     THEN contents' = [contents EXCEPT ![lba[c]] = buf[c]] /\ UNCHANGED buf
     ELSE buf' = [buf EXCEPT ![c] = contents[lba[c]]] /\ UNCHANGED contents
  /\ done' = done \cup {c}
  /\ UNCHANGED <<durable, open, op, lba, result>>

Succeed(c) ==
  /\ c \in open \cap done
  /\ durable[lba[c]] = contents[lba[c]]
  /\ result' = [result EXCEPT ![c] = 0]
  /\ open' = open \ {c} /\ done' = done \ {c}
  /\ UNCHANGED <<contents, durable, op, lba, buf>>

Fail(c) ==
  /\ c \in open
  /\ \E r \in {-2, 1} : result' = [result EXCEPT ![c] = r]
  /\ open' = open \ {c} /\ done' = done \ {c}
  /\ UNCHANGED <<contents, durable, op, lba, buf>>

(* Sectors become durable in any order, calls or not. *)
Settle ==
  /\ \E S \in SUBSET Sectors :
       durable' = [s \in Sectors |-> IF s \in S THEN contents[s] ELSE durable[s]]
  /\ UNCHANGED <<contents, calls>>

Serve == Settle \/ \E c \in Callers : Begin(c) \/ Work(c) \/ Succeed(c) \/ Fail(c)

Next == void' \/ (~void /\ ~void' /\ Serve)

Spec == Init /\ [][Next]_<<contents, durable, calls, void>>
=============================================================================
