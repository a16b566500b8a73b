----------------------------- MODULE AtaDriver -----------------------------
(***************************************************************************)
(* ata_sector_read and ata_sector_write of kernel/src/ata.c, register      *)
(* access by register access, against a disk with a write cache that takes *)
(* its time and may fail.  The two functions differ in their command and   *)
(* in the direction of the data only.                                      *)
(***************************************************************************)
EXTENDS Integers

CONSTANTS
  Sectors, Values,   \* addresses of sectors, contents of a sector
  NoValue,           \* nothing in the cache
  Callers,           \* tasks that are in the driver
  Loops              \* ATA_ERROR_TIMEOUT_LOOPS (100000)

ASSUME LoopsAssumption == Loops \in Nat \ {0}
ASSUME ValueAssumption == NoValue \notin Values

VARIABLES
  \* the disk
  media, cache,      \* sector -> what is on it, and what is not yet
  address,           \* HDDEVSEL and the LBA registers
  dev,               \* the status register: BSY, DRQ, or neither
  cmd, target, port, \* what it is doing, for which sector, with which data
  err,               \* the ERR bit
  \* the calls
  at, op, lba, buf,  \* caller -> where it is, and what it was called for
  left,              \* caller -> timeout
  result,            \* caller -> what its last call returned
  doubt              \* history: a call gave up on a disk that was not done,
                     \* or a command cleared an error nobody had looked at

disk == <<media, cache, address, dev, cmd, target, port, err>>
args == <<op, lba, buf>>
vars == <<disk, at, args, left, result, doubt>>

Seen(s) == IF cache[s] = NoValue THEN media[s] ELSE cache[s]
OneCaller == \A c, d \in Callers : c = d

Places == {"idle", "wait", "select", "command", "accept", "data", "transfer",
           "stored", "flush", "flushed"}
(* The variables stay in their types; no loop counts below one turn. *)
TypeOK ==
  /\ media \in [Sectors -> Values] /\ cache \in [Sectors -> Values \cup {NoValue}]
  /\ address \in Sectors /\ target \in Sectors /\ port \in Values
  /\ dev \in {"ready", "busy", "drq"} /\ err \in BOOLEAN
  /\ cmd \in {"none", "write", "store", "read", "flush"}
  /\ at \in [Callers -> Places] /\ op \in [Callers -> {"write", "read"}]
  /\ lba \in [Callers -> Sectors] /\ buf \in [Callers -> Values]
  /\ left \in [Callers -> 1 .. Loops] /\ result \in [Callers -> {-2, 0, 1}]
  /\ doubt \in BOOLEAN

Init ==
  /\ media \in [Sectors -> Values] /\ cache = [s \in Sectors |-> NoValue]
  /\ address \in Sectors /\ target \in Sectors /\ port \in Values
  /\ dev = "ready" /\ cmd = "none" /\ err = FALSE
  /\ at = [c \in Callers |-> "idle"] /\ op = [c \in Callers |-> "read"]
  /\ lba \in [Callers -> Sectors] /\ buf \in [Callers -> Values]
  /\ left = [c \in Callers |-> Loops] /\ result = [c \in Callers |-> -2]
  /\ doubt = FALSE

-----------------------------------------------------------------------------
(* The disk. *)

Complete(failed) == dev' = "ready" /\ cmd' = "none" /\ err' = failed

(* It gets a command done, or a part of it, or fails. *)
Serve ==
  /\ dev = "busy"
  /\ \/ /\ cmd = "write" /\ dev' = "drq"
        /\ UNCHANGED <<media, cache, port, cmd, err>>
     \/ /\ cmd = "read" /\ dev' = "drq" /\ port' = Seen(target)
        /\ UNCHANGED <<media, cache, cmd, err>>
     \/ /\ cmd = "store" /\ Complete(FALSE)
        /\ cache' = [cache EXCEPT ![target] = port]
        /\ UNCHANGED <<media, port>>
     \/ /\ cmd = "flush" /\ Complete(FALSE)
        /\ media' = [s \in Sectors |-> Seen(s)]
        /\ cache' = [s \in Sectors |-> NoValue]
        /\ UNCHANGED port
     \/ Complete(TRUE) /\ UNCHANGED <<media, cache, port>>
  /\ UNCHANGED <<address, target, at, args, left, result, doubt>>

(* It writes its cache back when it likes. *)
Destage ==
  /\ \E s \in Sectors :
       /\ cache[s] # NoValue
       /\ media' = [media EXCEPT ![s] = cache[s]]
       /\ cache' = [cache EXCEPT ![s] = NoValue]
  /\ UNCHANGED <<address, dev, cmd, target, port, err, at, args, left, result, doubt>>

(* What a command does to it: while it is busy, or waits for data, it may  *)
(* be ignored.                                                             *)
Issue(k) ==
  \/ /\ dev # "busy"
     /\ dev' = "busy" /\ cmd' = k /\ target' = address /\ err' = FALSE
  \/ dev # "ready" /\ UNCHANGED <<dev, cmd, target, err>>

-----------------------------------------------------------------------------
(* The calls. *)

Go(c, place) ==
  at' = [at EXCEPT ![c] = place] /\ left' = [left EXCEPT ![c] = Loops]

Return(c, r) == Go(c, "idle") /\ result' = [result EXCEPT ![c] = r]

(* Mutant: the loops are not counted. *)
Turn_NotCounted(c) == UNCHANGED <<at, left, result, doubt>>
(* A turn of a loop that has not seen what it waits for. *)
Turn(c) ==
  IF left[c] = 1
  THEN Return(c, -2) /\ doubt' = (doubt \/ dev # "ready")
  ELSE left' = [left EXCEPT ![c] = @ - 1] /\ UNCHANGED <<at, result, doubt>>

Call(c) ==
  /\ at[c] = "idle"
  /\ \E o \in {"write", "read"}, s \in Sectors, v \in Values :
       /\ op' = [op EXCEPT ![c] = o]
       /\ lba' = [lba EXCEPT ![c] = s]
       /\ buf' = [buf EXCEPT ![c] = v]
  /\ Go(c, "wait")
  /\ UNCHANGED <<disk, result, doubt>>

AwaitIdle(c) ==
  /\ at[c] = "wait"
  /\ IF dev # "busy" THEN Go(c, "select") /\ UNCHANGED <<result, doubt>> ELSE Turn(c)
  /\ UNCHANGED <<disk, args>>

(* Mutant: the registers still hold the sector of the call before. *)
Select_Stale(c) ==
  /\ at[c] = "select"
  /\ Go(c, "command")
  /\ UNCHANGED <<disk, args, result, doubt>>
Select(c) ==
  /\ at[c] = "select"
  /\ address' = lba[c]
  /\ Go(c, "command")
  /\ UNCHANGED <<media, cache, dev, cmd, target, port, err, args, result, doubt>>

Command(c) ==
  /\ at[c] = "command"
  /\ Issue(op[c])
  /\ Go(c, "accept")
  /\ UNCHANGED <<media, cache, address, port, args, result, doubt>>

AwaitAccept(c) ==
  /\ at[c] = "accept"
  /\ IF dev = "busy" THEN Turn(c)
     ELSE /\ IF err THEN Return(c, 1) ELSE Go(c, "data") /\ UNCHANGED result
          /\ UNCHANGED doubt
  /\ UNCHANGED <<disk, args>>

AwaitData(c) ==
  /\ at[c] = "data"
  /\ IF dev = "drq" THEN Go(c, "transfer") /\ UNCHANGED <<result, doubt>> ELSE Turn(c)
  /\ UNCHANGED <<disk, args>>

(* The 256 words.  A disk that waits for no such data, or has none to give *)
(* ignores what is written and gives anything.                             *)
Transfer(c) ==
  /\ at[c] = "transfer"
  /\ IF dev # "drq" \/ cmd # op[c]
     THEN /\ UNCHANGED <<port, dev, cmd>>
          /\ IF op[c] = "write" THEN UNCHANGED buf
             ELSE \E v \in Values : buf' = [buf EXCEPT ![c] = v]
     ELSE IF op[c] = "write"
     THEN port' = buf[c] /\ dev' = "busy" /\ cmd' = "store" /\ UNCHANGED buf
     ELSE buf' = [buf EXCEPT ![c] = port] /\ dev' = "ready" /\ cmd' = "none"
          /\ UNCHANGED port
  /\ Go(c, "stored")
  /\ UNCHANGED <<media, cache, address, target, err, op, lba, result, doubt>>

(* Mutant: the cache of the disk is not flushed. *)
AwaitStored_NoFlush(c) ==
  /\ at[c] = "stored"
  /\ IF dev = "busy" THEN Turn(c) ELSE Return(c, 0) /\ UNCHANGED doubt
  /\ UNCHANGED <<disk, args>>
(* Here the ERR bit is not looked at, and the next command clears it. *)
AwaitStored(c) ==
  /\ at[c] = "stored"
  /\ IF dev = "busy" THEN Turn(c) ELSE Go(c, "flush") /\ UNCHANGED <<result, doubt>>
  /\ UNCHANGED <<disk, args>>

Flush(c) ==
  /\ at[c] = "flush"
  /\ Issue("flush")
  /\ doubt' = (doubt \/ err)
  /\ Go(c, "flushed")
  /\ UNCHANGED <<media, cache, address, port, args, result>>

(* Mutant: the error of the flush is not looked at either. *)
AwaitFlushed_NoError(c) ==
  /\ at[c] = "flushed"
  /\ IF dev = "busy" THEN Turn(c) ELSE Return(c, 0) /\ UNCHANGED doubt
  /\ UNCHANGED <<disk, args>>
AwaitFlushed(c) ==
  /\ at[c] = "flushed"
  /\ IF dev = "busy" THEN Turn(c)
     ELSE Return(c, IF err THEN 1 ELSE 0) /\ UNCHANGED doubt
  /\ UNCHANGED <<disk, args>>

(* ata_sector_write, and ata_sector_read with it. *)
Continue(c) ==
  \/ AwaitIdle(c) \/ Select(c) \/ Command(c) \/ AwaitAccept(c) \/ AwaitData(c)
  \/ Transfer(c) \/ AwaitStored(c) \/ Flush(c) \/ AwaitFlushed(c)

Next == Serve \/ Destage \/ \E c \in Callers : Call(c) \/ Continue(c)

Spec == Init /\ [][Next]_vars
(* The calls run; the disk may never answer. *)
FairSpec == Spec /\ \A c \in Callers : WF_vars(Continue(c))

-----------------------------------------------------------------------------
(* A write that returns 0 is on the platters, and a read that returns 0    *)
(* got what a reset would find there, as long as no call before or during  *)
(* it has given up on a busy disk or hidden an error.                      *)
SuccessIsTrue ==
  \A c \in Callers :
    at[c] = "idle" /\ result[c] = 0 /\ ~doubt =>
      media[lba[c]] = buf[c] /\ cache[lba[c]] = NoValue

(* No sector but the one of a write under way ever changes, for a reader   *)
(* that comes later, under the same condition.                             *)
OthersKept ==
  [][\A s \in Sectors :
       Seen(s)' # Seen(s) /\ ~doubt =>
         \E c \in Callers : at[c] # "idle" /\ op[c] = "write" /\ lba[c] = s]_vars

Contents == [s \in Sectors |-> Seen(s)]
Open == {c \in Callers : at[c] # "idle"}
(* The calls whose work is done: the data is where a reader finds it, or   *)
(* has been read, and no error says otherwise.                             *)
Done ==
  {c \in Callers :
     \/ at[c] = "flushed"
     \/ at[c] \in {"stored", "flush"} /\ dev = "ready" /\ ~err}

Store == INSTANCE SectorStore
           WITH contents <- Contents, durable <- media,
                open <- Open, done <- Done, void <- doubt

(* A call works on its sector in one moment or not at all, and never after *)
(* it returned: fs.c can try a write that failed again, and take a sector  *)
(* for written or not written in between.                                  *)
StoreSpec == Store!Spec

(* Every call ends, whatever the disk does. *)
CallsEnd == \A c \in Callers : at[c] # "idle" ~> at[c] = "idle"
=============================================================================
