----------------------------- MODULE AtaIdentify -----------------------------
(***************************************************************************)
(* ata_identify of kernel/src/ata.c, which fs_init calls before any other  *)
(* access, against whatever may be on the primary channel: a disk, a       *)
(* packet device, or nothing, a bus that reads as 0 or one that floats.    *)
(* What is there may still be starting, and then takes no command.         *)
(***************************************************************************)
EXTENDS Integers

CONSTANT Loops   \* ATA_ERROR_TIMEOUT_LOOPS (100000), see AtaDriver

VARIABLES
  \* the channel
  kind,    \* what is on it
  dev,     \* starting, busy with the command, or what its status says
  sig,     \* LBA1 and LBA2 hold the signature of a packet device
  \* the call
  at, left, result,
  buffer   \* what the 256 words are

channel == <<kind, dev, sig>>
call == <<at, left, result, buffer>>
vars == <<channel, call>>

Present == {"disk", "packet"}

TypeOK ==
  /\ kind \in Present \cup {"nothing", "floating"}
  /\ dev \in {"starting", "busy", "ready", "drq", "err"} /\ sig \in BOOLEAN
  /\ at \in {"select", "command", "status", "busy", "signature", "data", "read", "done"}
  /\ left \in 1 .. Loops /\ result \in {-2, -1, 0, 1}
  /\ buffer \in {"zero", "identity", "other"}

Init ==
  /\ kind \in Present \cup {"nothing", "floating"}
  /\ dev \in IF kind \in Present THEN {"starting", "ready"} ELSE {"ready"}
  /\ sig = (kind = "packet" /\ dev = "ready")
  /\ at = "select" /\ left = Loops /\ result = -2 /\ buffer = "zero"

-----------------------------------------------------------------------------
(* The channel.  A bus that floats has every bit set.                      *)
Bsy == kind = "floating" \/ dev \in {"starting", "busy"}
Drq == kind = "floating" \/ dev = "drq"
Err == kind = "floating" \/ dev = "err"
(* A packet device that is ready says 0, as no device does.                *)
AllZero == kind = "nothing" \/ (kind = "packet" /\ dev = "ready")

Started ==
  /\ dev = "starting" /\ dev' = "ready" /\ sig' = (kind = "packet")
  /\ UNCHANGED <<kind, call>>

(* A packet device refuses and shows its signature; a disk may fail.       *)
Serve ==
  /\ dev = "busy"
  /\ \/ kind = "disk" /\ dev' = "drq" /\ UNCHANGED sig
     \/ dev' = "err" /\ sig' = (kind = "packet")
  /\ UNCHANGED <<kind, call>>

-----------------------------------------------------------------------------
(* The call. *)

Go(place) == at' = place /\ left' = Loops /\ UNCHANGED <<result, buffer>>
Return(r) == at' = "done" /\ result' = r /\ UNCHANGED <<left, buffer>>

(* Mutant: the loops are not counted. *)
Turn_NotCounted == UNCHANGED call
Turn ==
  IF left = 1 THEN Return(-2)
  ELSE left' = left - 1 /\ UNCHANGED <<at, result, buffer>>

(* The LBA registers are cleared; what is starting ignores that.           *)
Select ==
  /\ at = "select" /\ Go("command")
  /\ sig' = (sig /\ dev = "starting")
  /\ UNCHANGED <<kind, dev>>

Command ==
  /\ at = "command" /\ Go("status")
  /\ dev' = IF kind \in Present /\ dev = "ready" THEN "busy" ELSE dev
  /\ UNCHANGED <<kind, sig>>

Status ==
  /\ at = "status"
  /\ IF AllZero THEN Return(0) ELSE Go("busy")
  /\ UNCHANGED channel

AwaitIdle ==
  /\ at = "busy"
  /\ IF ~Bsy THEN Go("signature") ELSE IF Err THEN Return(-1) ELSE Turn
  /\ UNCHANGED channel

Signature ==
  /\ at = "signature"
  /\ IF sig \/ kind = "floating" THEN Return(-1) ELSE Go("data")
  /\ UNCHANGED channel

(* Mutant: without a look at DRQ. *)
AwaitData_NotAwaited ==
  /\ at = "data"
  /\ IF Err THEN Return(-1) ELSE Go("read")
  /\ UNCHANGED channel
AwaitData ==
  /\ at = "data"
  /\ IF Err THEN Return(-1) ELSE IF Drq THEN Go("read") ELSE Turn
  /\ UNCHANGED channel

Read ==
  /\ at = "read"
  /\ buffer' = IF kind = "disk" /\ dev = "drq" THEN "identity" ELSE "other"
  /\ dev' = IF dev = "drq" THEN "ready" ELSE dev
  /\ at' = "done" /\ result' = 1
  /\ UNCHANGED <<kind, sig, left>>

Code ==
  Select \/ Command \/ Status \/ AwaitIdle \/ Signature \/ AwaitData \/ Read

Next == Started \/ Serve \/ Code

Spec == Init /\ [][Next]_vars
(* The call runs; what is on the channel may never answer.                 *)
FairSpec == Spec /\ WF_vars(Code)

-----------------------------------------------------------------------------
(* 1 is returned for a disk only, with its own words, and the disk waits   *)
(* for nothing then; fs_init takes the size of the disk from them.         *)
FoundIsDisk ==
  at = "done" /\ result = 1 => kind = "disk" /\ buffer = "identity" /\ dev = "ready"

(* Boot does not hang here, whatever is on the channel.                    *)
IdentifyEnds == <>(at = "done")
=============================================================================
