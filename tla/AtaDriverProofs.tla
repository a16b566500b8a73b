-------------------------- MODULE AtaDriverProofs --------------------------
(***************************************************************************)
(* The ATA driver with one caller at a time, for any number of sectors and *)
(* any length of its waits; and the channel, where it runs after a disk    *)
(* was identified.                                                         *)
(***************************************************************************)
EXTENDS AtaChannel, TLAPS

(* The disk and a call in step: what the disk is doing is what the call    *)
(* waits for.                                                              *)
InStep(c) ==
  /\ at[c] \in {"idle", "wait", "select", "command"} => dev = "ready"
  /\ at[c] = "command" => address = lba[c]
  /\ at[c] \in {"accept", "data", "transfer"} =>
       /\ target = lba[c]
       /\ dev # "ready" => cmd = op[c] /\ ~err
       /\ dev = "ready" => at[c] = "accept" /\ err
       /\ dev = "busy" => at[c] = "accept"
       /\ dev = "drq" /\ op[c] = "read" => port = Seen(lba[c])
  /\ at[c] \in {"stored", "flush"} =>
       /\ dev # "drq"
       /\ dev = "busy" =>
            /\ at[c] = "stored" /\ op[c] = "write"
            /\ cmd = "store" /\ target = lba[c] /\ port = buf[c]
       /\ dev = "ready" => err \/ Seen(lba[c]) = buf[c]
  /\ at[c] = "flushed" =>
       /\ dev # "drq"
       /\ dev = "busy" => cmd = "flush" /\ Seen(lba[c]) = buf[c]
       /\ dev = "ready" => err \/ (media[lba[c]] = buf[c] /\ cache[lba[c]] = NoValue)
  /\ at[c] = "idle" /\ result[c] = 0 =>
       media[lba[c]] = buf[c] /\ cache[lba[c]] = NoValue

(* Nobody else keeps the disk busy. *)
Owned == dev = "busy" => \E c \in Callers : at[c] # "idle"

AtaInv == OneCaller /\ TypeOK /\ (~doubt => Owned /\ \A c \in Callers : InStep(c))

LEMMA InitType == Init => TypeOK
  <1> SUFFICES ASSUME Init
               PROVE  TypeOK
    OBVIOUS
  <1>1. Loops \in 1 .. Loops
    BY LoopsAssumption
  <1>2. left \in [Callers -> 1 .. Loops]
    BY <1>1 DEF Init
  <1>3. at \in [Callers -> Places] /\ op \in [Callers -> {"write", "read"}]
        /\ result \in [Callers -> {-2, 0, 1}]
        /\ cache \in [Sectors -> Values \cup {NoValue}]
    BY DEF Init, Places
  <1> QED
    BY <1>2, <1>3 DEF Init, TypeOK

LEMMA AtaInit == OneCaller /\ Init => AtaInv
  BY InitType DEF AtaInv, Init, Owned, InStep

-----------------------------------------------------------------------------
(* Types. *)

LEMMA TurnType ==
  ASSUME TypeOK, NEW c \in Callers, Turn(c)
  PROVE  /\ at' \in [Callers -> Places] /\ left' \in [Callers -> 1 .. Loops]
         /\ result' \in [Callers -> {-2, 0, 1}] /\ doubt' \in BOOLEAN
  <1>1. CASE left[c] = 1
    BY <1>1, LoopsAssumption DEF TypeOK, Turn, Return, Go, Places
  <1>2. CASE left[c] # 1
    <2>1. left[c] - 1 \in 1 .. Loops
      BY <1>2, LoopsAssumption DEF TypeOK
    <2> QED
      BY <1>2, <2>1 DEF TypeOK, Turn
  <1> QED
    BY <1>1, <1>2

LEMMA TypeStep == TypeOK /\ [Next]_vars => TypeOK'
  <1> SUFFICES ASSUME TypeOK, [Next]_vars
               PROVE  TypeOK'
    OBVIOUS
  <1> USE LoopsAssumption
  <1>1. CASE Serve
    <2>1. \A s \in Sectors : Seen(s) \in Values
      BY DEF TypeOK, Seen
    <2>2. /\ media' \in [Sectors -> Values]
          /\ cache' \in [Sectors -> Values \cup {NoValue}]
          /\ port' \in Values
      BY <1>1, <2>1 DEF TypeOK, Serve, Complete
    <2>3. dev' \in {"ready", "busy", "drq"} /\ err' \in BOOLEAN
          /\ cmd' \in {"none", "write", "store", "read", "flush"}
      BY <1>1 DEF TypeOK, Serve, Complete
    <2> QED
      BY <1>1, <2>2, <2>3 DEF TypeOK, Serve, args
  <1>2. CASE Destage
    BY <1>2 DEF TypeOK, Destage, args
  <1>3. ASSUME NEW c \in Callers, Call(c)
        PROVE  TypeOK'
    BY <1>3 DEF TypeOK, Call, Go, Places, disk
  <1>4. ASSUME NEW c \in Callers,
               AwaitIdle(c) \/ AwaitAccept(c) \/ AwaitData(c) \/ AwaitStored(c)
                 \/ AwaitFlushed(c)
        PROVE  TypeOK'
    <2>1. UNCHANGED disk /\ UNCHANGED args
      BY <1>4 DEF AwaitIdle, AwaitAccept, AwaitData, AwaitStored, AwaitFlushed
    <2>2. /\ at' \in [Callers -> Places] /\ left' \in [Callers -> 1 .. Loops]
          /\ result' \in [Callers -> {-2, 0, 1}] /\ doubt' \in BOOLEAN
      <3>1. CASE Turn(c)
        BY <3>1, TurnType
      <3>2. CASE ~Turn(c)
        BY <1>4, <3>2
        DEF TypeOK, AwaitIdle, AwaitAccept, AwaitData, AwaitStored, AwaitFlushed,
            Return, Go, Places
      <3> QED
        BY <3>1, <3>2
    <2> QED
      BY <2>1, <2>2 DEF TypeOK, disk, args
  <1>5. ASSUME NEW c \in Callers, Select(c)
        PROVE  TypeOK'
    BY <1>5 DEF TypeOK, Select, Go, Places, args
  <1>6. ASSUME NEW c \in Callers, Command(c)
        PROVE  TypeOK'
    <2>1. dev' \in {"ready", "busy", "drq"} /\ err' \in BOOLEAN /\ target' \in Sectors
          /\ cmd' \in {"none", "write", "store", "read", "flush"}
      BY <1>6 DEF TypeOK, Command, Issue
    <2> QED
      BY <1>6, <2>1 DEF TypeOK, Command, Go, Places, args
  <1>7. ASSUME NEW c \in Callers, Transfer(c)
        PROVE  TypeOK'
    <2>1. port' \in Values /\ dev' \in {"ready", "busy", "drq"}
          /\ cmd' \in {"none", "write", "store", "read", "flush"}
          /\ buf' \in [Callers -> Values]
      BY <1>7 DEF TypeOK, Transfer
    <2>2. at' \in [Callers -> Places] /\ left' \in [Callers -> 1 .. Loops]
      BY <1>7 DEF TypeOK, Transfer, Go, Places
    <2>3. UNCHANGED <<media, cache, address, target, err, op, lba, result, doubt>>
      BY <1>7 DEF Transfer
    <2> QED
      BY <2>1, <2>2, <2>3 DEF TypeOK
  <1>8. ASSUME NEW c \in Callers, Flush(c)
        PROVE  TypeOK'
    <2>1. dev' \in {"ready", "busy", "drq"} /\ err' \in BOOLEAN /\ target' \in Sectors
          /\ cmd' \in {"none", "write", "store", "read", "flush"}
      BY <1>8 DEF TypeOK, Flush, Issue
    <2> QED
      BY <1>8, <2>1 DEF TypeOK, Flush, Go, Places, args
  <1>9. CASE UNCHANGED vars
    BY <1>9 DEF TypeOK, vars, disk, args
  <1> QED
    BY <1>1, <1>2, <1>3, <1>4, <1>5, <1>6, <1>7, <1>8, <1>9 DEF Next, Continue

-----------------------------------------------------------------------------
(* The disk and the call stay in step, unless a call gives up. *)

LEMMA DoubtStays == TypeOK /\ [Next]_vars /\ ~doubt' => ~doubt
  BY DEF TypeOK, Next, Continue, Serve, Destage, Call, AwaitIdle, Select, Command,
         AwaitAccept, AwaitData, Transfer, AwaitStored, Flush, AwaitFlushed, Turn, vars

(* A disk that is busy, or has data, is waited for or given up on in doubt. *)
LEMMA TurnWaits ==
  ASSUME NEW c \in Callers, Turn(c), dev # "ready", ~doubt'
  PROVE  UNCHANGED <<at, result>>
  BY DEF Turn

LEMMA ServeInStep ==
  ASSUME TypeOK, NEW c \in Callers, InStep(c), Serve
  PROVE  InStep(c)'
  <1>1. UNCHANGED <<at, op, lba, buf, result, target, address>> /\ dev = "busy"
    BY DEF Serve, args
  <1>2. at[c] \in {"accept", "stored", "flushed"}
    BY <1>1 DEF InStep, TypeOK, Places
  <1>3. lba[c] \in Sectors
    BY DEF TypeOK
  <1>4. CASE at[c] = "accept"
    <2>1. cmd = op[c] /\ target = lba[c] /\ op[c] \in {"write", "read"}
      BY <1>1, <1>4 DEF InStep, TypeOK
    <2> QED
      BY <1>1, <1>4, <2>1 DEF InStep, Serve, Complete, Seen
  <1>5. CASE at[c] = "stored"
    <2>1. cmd = "store" /\ target = lba[c] /\ port = buf[c]
      BY <1>1, <1>5 DEF InStep
    <2>2. dev' = "ready" /\ (err' \/ cache' = [cache EXCEPT ![lba[c]] = buf[c]])
      BY <1>1, <2>1 DEF Serve, Complete
    <2>3. err' \/ Seen(lba[c])' = buf'[c]
      BY <1>1, <1>3, <2>2, ValueAssumption DEF Seen, TypeOK
    <2> QED
      BY <1>1, <1>5, <2>2, <2>3 DEF InStep
  <1>6. CASE at[c] = "flushed"
    <2>1. cmd = "flush" /\ Seen(lba[c]) = buf[c]
      BY <1>1, <1>6 DEF InStep
    <2>2. dev' = "ready"
          /\ \/ err'
             \/ media' = [s \in Sectors |-> Seen(s)] /\ cache' = [s \in Sectors |-> NoValue]
      BY <2>1 DEF Serve, Complete
    <2> QED
      BY <1>1, <1>3, <1>6, <2>1, <2>2 DEF InStep
  <1> QED
    BY <1>2, <1>4, <1>5, <1>6

LEMMA DestageSeen ==
  ASSUME TypeOK, Destage, NEW s \in Sectors
  PROVE  /\ Seen(s)' = Seen(s)
         /\ cache[s] = NoValue => media'[s] = media[s] /\ cache'[s] = NoValue
  BY DEF TypeOK, Destage, Seen

LEMMA DestageInStep ==
  ASSUME TypeOK, NEW c \in Callers, InStep(c), Destage
  PROVE  InStep(c)'
  <1>1. UNCHANGED <<address, dev, cmd, target, port, err, at, op, lba, buf, result>>
    BY DEF Destage, args
  <1>2. lba[c] \in Sectors
    BY DEF TypeOK
  <1>3. Seen(lba[c])' = Seen(lba[c])
    BY <1>1, <1>2, DestageSeen DEF Seen
  <1>4. cache[lba[c]] = NoValue => media'[lba[c]] = media[lba[c]] /\ cache'[lba[c]] = NoValue
    BY <1>2, DestageSeen
  <1> QED
    BY <1>1, <1>3, <1>4 DEF InStep

LEMMA CallInStep ==
  ASSUME TypeOK, NEW c \in Callers, InStep(c), Call(c) \/ AwaitIdle(c) \/ Select(c),
         ~doubt'
  PROVE  InStep(c)'
  <1>1. dev = "ready" /\ dev' = "ready"
    BY DEF InStep, Call, AwaitIdle, Select, disk
  <1>2. at'[c] \in {"wait", "select", "command"}
    BY <1>1 DEF TypeOK, Call, AwaitIdle, Select, Go
  <1>3. at'[c] = "command" => address' = lba'[c]
    BY <1>1, <1>2 DEF TypeOK, Call, AwaitIdle, Select, Go, args
  <1> QED
    BY <1>1, <1>2, <1>3 DEF InStep

LEMMA CommandInStep ==
  ASSUME TypeOK, NEW c \in Callers, InStep(c), Command(c)
  PROVE  InStep(c)'
  <1>1. dev = "ready" /\ address = lba[c]
    BY DEF InStep, Command
  <1>2. dev' = "busy" /\ cmd' = op[c] /\ target' = address /\ err' = FALSE
    BY <1>1 DEF Command, Issue
  <1>3. at'[c] = "accept" /\ UNCHANGED <<op, lba, buf>>
    BY DEF TypeOK, Command, Go, args
  <1> QED
    BY <1>1, <1>2, <1>3 DEF InStep

(* The loops that wait: a call moves on when the disk is done. *)
LEMMA AwaitInStep ==
  ASSUME TypeOK, NEW c \in Callers, InStep(c), ~doubt',
         AwaitAccept(c) \/ AwaitData(c) \/ AwaitStored(c) \/ AwaitFlushed(c)
  PROVE  InStep(c)'
  <1>1. UNCHANGED disk /\ UNCHANGED args
    BY DEF AwaitAccept, AwaitData, AwaitStored, AwaitFlushed
  <1>2. CASE AwaitAccept(c)
    <2>1. CASE dev = "busy"
      BY <1>1, <1>2, <2>1, TurnWaits DEF AwaitAccept, InStep, disk, args, Seen
    <2>2. CASE dev # "busy" /\ err
      <3>1. dev = "ready" /\ at'[c] = "idle" /\ result'[c] = 1
        BY <1>2, <2>2 DEF TypeOK, AwaitAccept, InStep, Return, Go
      <3> QED
        BY <1>1, <3>1 DEF InStep, disk
    <2>3. CASE dev # "busy" /\ ~err
      <3>1. dev = "drq" /\ at'[c] = "data"
        BY <1>2, <2>3 DEF TypeOK, AwaitAccept, InStep, Go
      <3> QED
        BY <1>1, <1>2, <2>3, <3>1 DEF AwaitAccept, InStep, disk, args, Seen
    <2> QED
      BY <2>1, <2>2, <2>3
  <1>3. CASE AwaitData(c)
    <2>1. dev = "drq"
      BY <1>3 DEF AwaitData, InStep, TypeOK
    <2>2. at'[c] = "transfer"
      BY <1>3, <2>1 DEF AwaitData, Go, TypeOK
    <2> QED
      BY <1>1, <1>3, <2>1, <2>2 DEF AwaitData, InStep, disk, args, Seen
  <1>4. CASE AwaitStored(c)
    <2>1. CASE dev = "busy"
      BY <1>1, <1>4, <2>1, TurnWaits DEF AwaitStored, InStep, disk, args, Seen
    <2>2. CASE dev # "busy"
      <3>1. at'[c] = "flush"
        BY <1>4, <2>2 DEF AwaitStored, Go, TypeOK
      <3> QED
        BY <1>1, <1>4, <2>2, <3>1 DEF AwaitStored, InStep, disk, args, Seen
    <2> QED
      BY <2>1, <2>2
  <1>5. CASE AwaitFlushed(c)
    <2>1. CASE dev = "busy"
      BY <1>1, <1>5, <2>1, TurnWaits DEF AwaitFlushed, InStep, disk, args, Seen
    <2>2. CASE dev # "busy"
      <3>1. dev = "ready" /\ (err \/ (media[lba[c]] = buf[c] /\ cache[lba[c]] = NoValue))
        BY <1>5, <2>2 DEF AwaitFlushed, InStep, TypeOK
      <3>2. at'[c] = "idle" /\ result'[c] = IF err THEN 1 ELSE 0
        BY <1>5, <2>2 DEF AwaitFlushed, Return, Go, TypeOK
      <3> QED
        BY <1>1, <3>1, <3>2 DEF InStep, disk, args
    <2> QED
      BY <2>1, <2>2
  <1> QED
    BY <1>2, <1>3, <1>4, <1>5

LEMMA TransferInStep ==
  ASSUME TypeOK, NEW c \in Callers, InStep(c), Transfer(c)
  PROVE  InStep(c)'
  <1>1. dev = "drq" /\ cmd = op[c] /\ target = lba[c]
        /\ (op[c] = "read" => port = Seen(lba[c]))
    BY DEF TypeOK, Transfer, InStep
  <1>2. at'[c] = "stored" /\ UNCHANGED <<media, cache, target, op, lba>>
    BY DEF TypeOK, Transfer, Go
  <1>3. CASE op[c] = "write"
    BY <1>1, <1>2, <1>3 DEF Transfer, InStep
  <1>4. CASE op[c] # "write"
    <2>1. dev' = "ready" /\ buf'[c] = port /\ port = Seen(lba[c])
      BY <1>1, <1>4 DEF TypeOK, Transfer
    <2> QED
      BY <1>2, <2>1 DEF InStep, Seen
  <1> QED
    BY <1>3, <1>4

LEMMA FlushInStep ==
  ASSUME TypeOK, NEW c \in Callers, InStep(c), Flush(c), ~doubt'
  PROVE  InStep(c)'
  <1>1. dev = "ready" /\ Seen(lba[c]) = buf[c]
    BY DEF TypeOK, Flush, InStep
  <1>2. dev' = "busy" /\ cmd' = "flush" /\ at'[c] = "flushed"
    BY <1>1 DEF TypeOK, Flush, Issue, Go
  <1>3. UNCHANGED <<media, cache, op, lba, buf>>
    BY DEF Flush, args
  <1> QED
    BY <1>1, <1>2, <1>3 DEF InStep, Seen

LEMMA InStepStep ==
  ASSUME OneCaller, TypeOK, NEW c \in Callers, InStep(c), [Next]_vars, ~doubt'
  PROVE  InStep(c)'
  <1>1. CASE Serve
    BY <1>1, ServeInStep
  <1>2. CASE Destage
    BY <1>2, DestageInStep
  <1>3. ASSUME NEW d \in Callers, Call(d) \/ Continue(d)
        PROVE  InStep(c)'
    <2>1. Call(c) \/ Continue(c)
      BY <1>3 DEF OneCaller
    <2> QED
      BY <2>1, CallInStep, CommandInStep, AwaitInStep, TransferInStep, FlushInStep
      DEF Continue
  <1>4. CASE UNCHANGED vars
    BY <1>4 DEF vars, disk, args, InStep, Seen
  <1> QED
    BY <1>1, <1>2, <1>3, <1>4 DEF Next

(* Only a call makes the disk busy, and with one caller that call leaves a *)
(* busy disk in doubt.                                                     *)
LEMMA OwnedStep ==
  ASSUME AtaInv, [Next]_vars, ~doubt'
  PROVE  Owned'
  <1>1. ~doubt
    BY DoubtStays DEF AtaInv
  <1>2. ASSUME NEW c \in Callers
        PROVE  at'[c] = "idle" => dev' = "ready"
    BY <1>1, <1>2, InStepStep DEF AtaInv, InStep
  <1>3. CASE Callers = {}
    BY <1>1, <1>3 DEF AtaInv, Owned, Next, Serve, Destage, vars, disk
  <1> QED
    BY <1>2, <1>3 DEF Owned

LEMMA AtaStep == AtaInv /\ [Next]_vars => AtaInv'
  <1> SUFFICES ASSUME AtaInv, [Next]_vars
               PROVE  AtaInv'
    OBVIOUS
  <1>1. TypeOK'
    BY TypeStep DEF AtaInv
  <1>2. ASSUME ~doubt'
        PROVE  Owned' /\ \A c \in Callers : InStep(c)'
    BY <1>2, DoubtStays, InStepStep, OwnedStep DEF AtaInv
  <1> QED
    BY <1>1, <1>2 DEF AtaInv, OneCaller

-----------------------------------------------------------------------------
(* The registers, the counters and the disk keep their types, with any    *)
(* number of callers at once.                                             *)
THEOREM AtaTypeCorrect == Spec => []TypeOK
  <1>1. Init => TypeOK
    BY InitType
  <1>2. TypeOK /\ [Next]_vars => TypeOK'
    BY TypeStep
  <1> QED
    BY <1>1, <1>2, PTL DEF Spec

(* With one caller, a write that returned 0 is on the platters, and a read *)
(* that returned 0 got what is there, unless a call gave up on the disk or *)
(* hid an error.                                                           *)
THEOREM AtaSuccessIsTrue == OneCaller => (Spec => []SuccessIsTrue)
  <1>1. ASSUME OneCaller
        PROVE  Init => AtaInv
    BY <1>1, AtaInit
  <1>2. AtaInv /\ [Next]_vars => AtaInv'
    BY AtaStep
  <1>3. AtaInv => SuccessIsTrue
    BY DEF AtaInv, InStep, SuccessIsTrue
  <1>4. ASSUME OneCaller
        PROVE  Spec => []SuccessIsTrue
    BY <1>1, <1>2, <1>3, <1>4, PTL DEF Spec
  <1> QED
    BY <1>4

(* What a step that changes a sector must be: the disk storing a write.    *)
LEMMA OthersStep ==
  ASSUME AtaInv, [Next]_vars, NEW s \in Sectors, Seen(s)' # Seen(s), ~doubt
  PROVE  \E c \in Callers : at[c] # "idle" /\ op[c] = "write" /\ lba[c] = s
  <1>1. Serve
    <2>1. ASSUME Destage
          PROVE  FALSE
      BY <2>1, DestageSeen DEF AtaInv
    <2>2. ASSUME ~Serve, ~Destage
          PROVE  UNCHANGED <<media, cache>>
      BY <2>2 DEF Next, Continue, Call, AwaitIdle, Select, Command, AwaitAccept, AwaitData,
                  Transfer, AwaitStored, Flush, AwaitFlushed, vars, disk
    <2> QED
      BY <2>1, <2>2 DEF Seen
  <1>2. cmd = "store" /\ target = s
    <2>1. ASSUME cmd = "flush"
          PROVE  Seen(s)' = Seen(s)
      BY <1>1, <2>1 DEF AtaInv, TypeOK, Serve, Complete, Seen
    <2>2. \/ UNCHANGED <<media, cache>>
          \/ cmd = "flush"
          \/ cmd = "store" /\ cache' = [cache EXCEPT ![target] = port] /\ UNCHANGED media
      BY <1>1 DEF Serve
    <2> QED
      BY <2>1, <2>2 DEF AtaInv, TypeOK, Seen
  <1>3. PICK c \in Callers : at[c] # "idle"
    BY <1>1 DEF AtaInv, Owned, Serve
  <1>4. InStep(c) /\ dev = "busy"
    BY <1>1, <1>3 DEF AtaInv, Serve
  <1>5. at[c] = "stored" /\ op[c] = "write" /\ target = lba[c]
    BY <1>2, <1>3, <1>4 DEF InStep, AtaInv, TypeOK, Places
  <1> QED
    BY <1>2, <1>5

(* With one caller, a step changes what a later reader finds in no sector *)
(* but that of a write under way.                                         *)
THEOREM AtaOthersKept == OneCaller => (Spec => OthersKept)
  <1>1. ASSUME OneCaller
        PROVE  Init => AtaInv
    BY <1>1, AtaInit
  <1>2. AtaInv /\ [Next]_vars => AtaInv'
    BY AtaStep
  <1>3. AtaInv /\ [Next]_vars =>
          [\A s \in Sectors :
             Seen(s)' # Seen(s) /\ ~doubt =>
               \E c \in Callers : at[c] # "idle" /\ op[c] = "write" /\ lba[c] = s]_vars
    BY OthersStep
  <1>4. ASSUME OneCaller
        PROVE  Spec => OthersKept
    BY <1>1, <1>2, <1>3, <1>4, PTL DEF Spec, OthersKept
  <1> QED
    BY <1>4

-----------------------------------------------------------------------------
(* The calls work on their sectors in one moment each. *)

Stutter == UNCHANGED <<Contents, media, Open, Done, args, result, doubt>>

LEMMA StoreInit == Init => Store!Init
  <1> SUFFICES ASSUME Init
               PROVE  Store!Init
    OBVIOUS
  <1>1. Contents = media
    BY DEF Init, Contents, Seen
  <1>2. Open = {} /\ Done = {}
    BY DEF Init, Open, Done
  <1> QED
    BY <1>1, <1>2 DEF Init, Store!Init

(* One caller is all of Open, and of Done when its work is done. *)
LEMMA OnlyCaller ==
  ASSUME OneCaller, NEW c \in Callers
  PROVE  /\ Open = IF at[c] # "idle" THEN {c} ELSE {}
         /\ Done = IF \/ at[c] = "flushed"
                      \/ at[c] \in {"stored", "flush"} /\ dev = "ready" /\ ~err
                   THEN {c} ELSE {}
  BY DEF OneCaller, Open, Done

LEMMA OnlyCallerNext ==
  ASSUME OneCaller, NEW c \in Callers
  PROVE  /\ Open' = IF at'[c] # "idle" THEN {c} ELSE {}
         /\ Done' = IF \/ at'[c] = "flushed"
                       \/ at'[c] \in {"stored", "flush"} /\ dev' = "ready" /\ ~err'
                    THEN {c} ELSE {}
  BY DEF OneCaller, Open, Done

LEMMA ServeStores ==
  ASSUME AtaInv, ~doubt, Serve
  PROVE  Stutter \/ Store!Serve
  <1>1. UNCHANGED <<at, args, result, doubt>> /\ dev = "busy"
    BY DEF Serve
  <1>2. PICK c \in Callers : at[c] # "idle"
    BY <1>1 DEF AtaInv, Owned
  <1>3. InStep(c) /\ OneCaller /\ TypeOK
    BY DEF AtaInv
  <1>4. at[c] \in {"accept", "stored", "flushed"} /\ lba[c] \in Sectors
    BY <1>1, <1>2, <1>3 DEF InStep, TypeOK, Places
  <1>5. Open' = Open /\ c \in Open
    BY <1>1, <1>2 DEF Open
  <1>6. CASE at[c] = "accept"
    <2>1. cmd = op[c] /\ op[c] \in {"write", "read"}
      BY <1>1, <1>3, <1>6 DEF InStep, TypeOK
    <2>2. UNCHANGED <<media, cache>>
      BY <2>1 DEF Serve
    <2>3. Done = {} /\ Done' = {}
      BY <1>1, <1>3, <1>6, OnlyCaller, OnlyCallerNext
    <2> QED
      BY <1>1, <1>5, <2>2, <2>3 DEF Stutter, Contents, Seen
  <1>7. CASE at[c] = "stored"
    <2>1. op[c] = "write" /\ cmd = "store" /\ target = lba[c] /\ port = buf[c]
      BY <1>1, <1>3, <1>7 DEF InStep
    <2>2. Done = {}
      BY <1>1, <1>3, <1>7, OnlyCaller
    <2>3. CASE err'
      <3>1. UNCHANGED <<media, cache>>
        BY <2>1, <2>3 DEF Serve, Complete
      <3>2. Done' = {}
        BY <1>1, <1>3, <1>7, <2>3, OnlyCallerNext
      <3> QED
        BY <1>1, <1>5, <2>2, <3>1, <3>2 DEF Stutter, Contents, Seen
    <2>4. CASE ~err'
      <3>1. /\ cache' = [cache EXCEPT ![lba[c]] = buf[c]] /\ UNCHANGED media
            /\ dev' = "ready"
        BY <2>1, <2>4 DEF Serve, Complete
      <3>2. Done' = {c}
        BY <1>1, <1>3, <1>7, <2>4, <3>1, OnlyCallerNext
      <3>3. Contents' = [Contents EXCEPT ![lba[c]] = buf[c]]
        BY <1>3, <1>4, <3>1, ValueAssumption DEF Contents, Seen, TypeOK
      <3>4. Store!Work(c)
        BY <1>1, <1>5, <2>1, <2>2, <3>1, <3>2, <3>3 DEF Store!Work, args
      <3> QED
        BY <3>4 DEF Store!Serve
    <2> QED
      BY <2>3, <2>4
  <1>8. CASE at[c] = "flushed"
    <2>1. cmd = "flush"
      BY <1>1, <1>3, <1>8 DEF InStep
    <2>2. Done = {c} /\ Done' = {c}
      BY <1>1, <1>3, <1>8, OnlyCaller, OnlyCallerNext
    <2>3. CASE UNCHANGED <<media, cache>>
      BY <1>1, <1>5, <2>2, <2>3 DEF Stutter, Contents, Seen
    <2>4. CASE media' = [s \in Sectors |-> Seen(s)] /\ cache' = [s \in Sectors |-> NoValue]
      <3>1. Contents' = Contents /\ media' = Contents
        BY <2>4 DEF Contents, Seen
      <3>2. Store!Settle
        <4>1. media' = [s \in Sectors |-> IF s \in Sectors THEN Contents[s] ELSE media[s]]
          BY <2>4 DEF Contents
        <4> QED
          BY <1>1, <1>5, <2>2, <3>1, <4>1 DEF Store!Settle, Store!calls, args
      <3> QED
        BY <3>2 DEF Store!Serve
    <2> QED
      BY <2>1, <2>3, <2>4 DEF Serve
  <1> QED
    BY <1>4, <1>6, <1>7, <1>8

LEMMA DestageStores ==
  ASSUME AtaInv, Destage
  PROVE  Store!Serve
  <1>1. TypeOK /\ UNCHANGED <<dev, err, at, args, result, doubt>>
    BY DEF AtaInv, Destage
  <1>2. Contents' = Contents
    BY <1>1, DestageSeen DEF Contents
  <1>3. PICK s \in Sectors : media' = [media EXCEPT ![s] = cache[s]] /\ cache[s] # NoValue
    BY DEF Destage
  <1>4. media' = [t \in Sectors |-> IF t \in {s} THEN Contents[t] ELSE media[t]]
    BY <1>1, <1>3 DEF Contents, Seen, TypeOK
  <1>5. Open' = Open /\ Done' = Done
    BY <1>1 DEF Open, Done
  <1>6. Store!Settle
    BY <1>1, <1>2, <1>4, <1>5 DEF Store!Settle, Store!calls, args
  <1> QED
    BY <1>6 DEF Store!Serve

(* The steps of a call: it begins, a read works at the transfer, and it    *)
(* ends; all else is nothing to the store.                                 *)
LEMMA CallStores ==
  ASSUME AtaInv, ~doubt, ~doubt', NEW c \in Callers, Call(c) \/ Continue(c)
  PROVE  Stutter \/ Store!Serve
  <1>1. InStep(c) /\ OneCaller /\ TypeOK /\ lba[c] \in Sectors
    BY DEF AtaInv, TypeOK
  <1>2. UNCHANGED <<media, cache, doubt>>
    <2>1. UNCHANGED <<media, cache>>
      BY DEF Call, Continue, AwaitIdle, Select, Command, AwaitAccept, AwaitData,
             Transfer, AwaitStored, Flush, AwaitFlushed, disk
    <2>2. doubt \in BOOLEAN /\ doubt' \in BOOLEAN
      BY <1>1, TypeStep DEF TypeOK, Next
    <2> QED
      BY <2>1, <2>2
  <1>3. Contents' = Contents
    BY <1>2 DEF Contents, Seen
  <1>4. CASE Call(c)
    <2>1. at[c] = "idle" /\ at'[c] = "wait"
      BY <1>1, <1>4 DEF Call, Go, TypeOK
    <2>2. Open = {} /\ Open' = {c} /\ Done = {} /\ Done' = {}
      BY <1>1, <2>1, OnlyCaller, OnlyCallerNext
    <2>3. Store!Begin(c)
      BY <1>2, <1>3, <1>4, <2>2 DEF Call, Store!Begin
    <2> QED
      BY <2>3 DEF Store!Serve
  <1>5. CASE AwaitIdle(c) \/ Select(c) \/ Command(c) \/ AwaitData(c)
    <2>1. at[c] \in {"wait", "select", "command", "data"} /\ UNCHANGED args
      BY <1>5 DEF AwaitIdle, Select, Command, AwaitData
    <2>2. at[c] = "wait" => dev = "ready"
      BY <1>1 DEF InStep
    <2>3. at[c] = "data" => dev = "drq"
      BY <1>1 DEF InStep, TypeOK
    <2>4. at'[c] \in {"select", "command", "accept", "transfer"} /\ UNCHANGED result
      BY <1>1, <1>5, <2>2, <2>3
      DEF AwaitIdle, Select, Command, AwaitData, Go, TypeOK
    <2>5. Open = {c} /\ Open' = {c} /\ Done = {} /\ Done' = {}
      BY <1>1, <2>1, <2>4, OnlyCaller, OnlyCallerNext
    <2> QED
      BY <1>2, <1>3, <2>1, <2>4, <2>5 DEF Stutter
  <1>6. CASE dev # "ready" /\ Turn(c)
                /\ (AwaitAccept(c) \/ AwaitStored(c) \/ AwaitFlushed(c))
    <2>1. UNCHANGED <<at, result>> /\ UNCHANGED disk /\ UNCHANGED args
      BY <1>6, TurnWaits DEF AwaitAccept, AwaitStored, AwaitFlushed
    <2>2. Open' = Open /\ Done' = Done
      BY <2>1 DEF Open, Done, disk
    <2> QED
      BY <1>2, <1>3, <2>1, <2>2 DEF Stutter
  <1>7. CASE AwaitAccept(c) /\ dev # "busy"
    <2>1. at[c] = "accept" /\ UNCHANGED args
      BY <1>7 DEF AwaitAccept
    <2>2. CASE err
      <3>1. at'[c] = "idle" /\ result' = [result EXCEPT ![c] = 1]
        BY <1>1, <1>7, <2>2 DEF AwaitAccept, Return, Go, TypeOK
      <3>2. Open = {c} /\ Open' = {} /\ Done = {} /\ Done' = {}
        BY <1>1, <2>1, <3>1, OnlyCaller, OnlyCallerNext
      <3>3. Store!Fail(c)
        BY <1>2, <1>3, <2>1, <3>1, <3>2 DEF Store!Fail, args
      <3> QED
        BY <3>3 DEF Store!Serve
    <2>3. CASE ~err
      <3>1. at'[c] = "data" /\ UNCHANGED result
        BY <1>1, <1>7, <2>3 DEF AwaitAccept, Go, TypeOK
      <3>2. Open = {c} /\ Open' = {c} /\ Done = {} /\ Done' = {}
        BY <1>1, <2>1, <3>1, OnlyCaller, OnlyCallerNext
      <3> QED
        BY <1>2, <1>3, <2>1, <3>1, <3>2 DEF Stutter
    <2> QED
      BY <2>2, <2>3
  <1>8. CASE Transfer(c)
    <2>1. at[c] = "transfer" /\ at'[c] = "stored" /\ UNCHANGED <<op, lba, result>>
      BY <1>1, <1>8 DEF Transfer, Go, TypeOK
    <2>2. /\ dev = "drq" /\ cmd = op[c] /\ ~err
          /\ op[c] = "read" => port = Seen(lba[c])
      BY <1>1, <2>1 DEF InStep, TypeOK
    <2>3. Open = {c} /\ Open' = {c} /\ Done = {}
      BY <1>1, <2>1, OnlyCaller, OnlyCallerNext
    <2>4. CASE op[c] = "write"
      <3>1. dev' = "busy" /\ UNCHANGED buf
        BY <1>8, <2>2, <2>4 DEF Transfer
      <3>2. Done' = {}
        BY <1>1, <2>1, <3>1, OnlyCallerNext
      <3> QED
        BY <1>2, <1>3, <2>1, <2>3, <3>1, <3>2 DEF Stutter, args
    <2>5. CASE op[c] # "write"
      <3>1. op[c] = "read"
        BY <1>1, <2>5 DEF TypeOK
      <3>2. dev' = "ready" /\ err' = err /\ buf' = [buf EXCEPT ![c] = Contents[lba[c]]]
        BY <1>1, <1>8, <2>2, <3>1 DEF Transfer, Contents
      <3>3. Done' = {c}
        BY <1>1, <2>1, <2>2, <3>2, OnlyCallerNext
      <3>4. Store!Work(c)
        BY <1>2, <1>3, <2>1, <2>3, <2>5, <3>2, <3>3 DEF Store!Work
      <3> QED
        BY <3>4 DEF Store!Serve
    <2> QED
      BY <2>4, <2>5
  <1>9. CASE AwaitStored(c) /\ dev # "busy"
    <2>1. at[c] = "stored" /\ at'[c] = "flush" /\ UNCHANGED result
          /\ UNCHANGED disk /\ UNCHANGED args
      BY <1>1, <1>9 DEF AwaitStored, Go, TypeOK
    <2>2. Open = {c} /\ Open' = {c} /\ Done' = Done
      BY <1>1, <2>1, OnlyCaller, OnlyCallerNext DEF disk
    <2> QED
      BY <1>2, <1>3, <2>1, <2>2 DEF Stutter
  <1>10. CASE Flush(c)
    <2>1. at[c] = "flush" /\ at'[c] = "flushed" /\ ~err /\ UNCHANGED result
          /\ UNCHANGED args
      BY <1>1, <1>10 DEF Flush, Go, TypeOK
    <2>2. dev = "ready"
      BY <1>1, <2>1 DEF InStep, TypeOK
    <2>3. Open = {c} /\ Open' = {c} /\ Done = {c} /\ Done' = {c}
      BY <1>1, <2>1, <2>2, OnlyCaller, OnlyCallerNext
    <2> QED
      BY <1>2, <1>3, <2>1, <2>3 DEF Stutter
  <1>11. CASE AwaitFlushed(c) /\ dev # "busy"
    <2>1. at[c] = "flushed" /\ at'[c] = "idle" /\ UNCHANGED args
          /\ result' = [result EXCEPT ![c] = IF err THEN 1 ELSE 0]
      BY <1>1, <1>11 DEF AwaitFlushed, Return, Go, TypeOK
    <2>2. Open = {c} /\ Open' = {} /\ Done = {c} /\ Done' = {}
      BY <1>1, <2>1, OnlyCaller, OnlyCallerNext
    <2>3. CASE err
      <3>1. Store!Fail(c)
        BY <1>2, <1>3, <2>1, <2>2, <2>3 DEF Store!Fail, args
      <3> QED
        BY <3>1 DEF Store!Serve
    <2>4. CASE ~err
      <3>1. dev = "ready"
        BY <1>1, <1>11, <2>1 DEF InStep, TypeOK
      <3>2. cache[lba[c]] = NoValue
        BY <1>1, <2>1, <2>4, <3>1 DEF InStep
      <3>3. media[lba[c]] = Contents[lba[c]]
        BY <1>1, <3>2 DEF Contents, Seen
      <3>4. Store!Succeed(c)
        BY <1>2, <1>3, <2>1, <2>2, <2>4, <3>3 DEF Store!Succeed, args
      <3> QED
        BY <3>4 DEF Store!Serve
    <2> QED
      BY <2>3, <2>4
  <1> QED
    BY <1>4, <1>5, <1>6, <1>7, <1>8, <1>9, <1>10, <1>11
    DEF Continue, AwaitAccept, AwaitStored, AwaitFlushed

(* With one caller, and until a call gives up on a busy disk or hides an   *)
(* error, ata_sector_read and ata_sector_write are what fs.c takes them    *)
(* for: each works in one moment of its call, or fails and does not.       *)
THEOREM DriverIsStore == OneCaller => (Spec => StoreSpec)
  <1>1. ASSUME OneCaller
        PROVE  Init => AtaInv
    BY <1>1, AtaInit
  <1>2. AtaInv /\ [Next]_vars => AtaInv'
    BY AtaStep
  <1>3. AtaInv /\ [Next]_vars => [Store!Next]_<<Contents, media, Store!calls, doubt>>
    <2> SUFFICES ASSUME AtaInv, [Next]_vars
                 PROVE  Store!Next \/ Stutter
      BY DEF Stutter, Store!calls, args
    <2>1. CASE doubt'
      BY <2>1 DEF Store!Next
    <2>2. CASE ~doubt'
      <3>1. ~doubt
        BY <2>2, DoubtStays DEF AtaInv
      <3>2. Stutter \/ Store!Serve
        <4>1. CASE Serve
          BY <3>1, <4>1, ServeStores
        <4>2. CASE Destage
          BY <4>2, DestageStores
        <4>3. ASSUME NEW c \in Callers, Call(c) \/ Continue(c)
              PROVE  Stutter \/ Store!Serve
          BY <2>2, <3>1, <4>3, CallStores
        <4>4. CASE UNCHANGED vars
          BY <4>4 DEF vars, disk, args, Stutter, Contents, Seen, Open, Done
        <4> QED
          BY <4>1, <4>2, <4>3, <4>4 DEF Next
      <3> QED
        BY <2>2, <3>1, <3>2 DEF Store!Next
    <2> QED
      BY <2>1, <2>2
  <1>4. ASSUME OneCaller
        PROVE  Spec => StoreSpec
    BY <1>1, <1>2, <1>3, <1>4, StoreInit, PTL DEF Spec, StoreSpec, Store!Spec
  <1> QED
    BY <1>4

-----------------------------------------------------------------------------
(* Identification.  Only a disk asks for the transfer of its words: of     *)
(* what passes the check of the signature a bus that floats is excluded,   *)
(* and a packet device, or no device, never raises DRQ.                    *)

IdentifyInv ==
  /\ kind \in {"disk", "packet", "nothing", "floating"}
  /\ kind \notin {"disk", "packet"} => status = "ready"
  /\ kind = "packet" => status # "drq"
  /\ place \in {"data", "read"} => kind # "floating"
  /\ place = "read" => status = "drq"
  /\ answer = 1 => /\ place = "done" /\ kind = "disk"
                   /\ words = "identity" /\ status = "ready"

LEMMA IdentifyInit == Identify!Init => IdentifyInv
  BY DEF Identify!Init, Identify!Present, IdentifyInv

LEMMA IdentifyStep ==
  ASSUME IdentifyInv, Identify!Next
  PROVE  IdentifyInv'
  <1> USE DEF IdentifyInv, Identify!channel, Identify!call, Identify!Go, Identify!Return
  <1>1. CASE Identify!Started \/ Identify!Serve
    BY <1>1 DEF Identify!Started, Identify!Serve
  <1>2. CASE Identify!Select \/ Identify!Command
    BY <1>2 DEF Identify!Select, Identify!Command, Identify!Present
  <1>3. CASE Identify!Status
    BY <1>3 DEF Identify!Status
  <1>4. CASE Identify!AwaitIdle
    BY <1>4 DEF Identify!AwaitIdle, Identify!Turn
  <1>5. CASE Identify!Signature
    BY <1>5 DEF Identify!Signature
  <1>6. CASE Identify!AwaitData
    BY <1>6 DEF Identify!AwaitData, Identify!Turn, Identify!Drq
  <1>7. CASE Identify!Read
    BY <1>7 DEF Identify!Read
  <1> QED
    BY <1>1, <1>2, <1>3, <1>4, <1>5, <1>6, <1>7 DEF Identify!Next, Identify!Code

(* Whatever is on the channel, however long it takes to start and however  *)
(* short the waits: ata_identify returns 1 for a disk only, with the words *)
(* that are the disk's, and leaves it ready.                               *)
THEOREM ChannelFindsDisk == ChannelSpec => []FoundIsDisk
  <1>1. ChannelInit => IdentifyInv
    BY IdentifyInit DEF ChannelInit
  <1>2. IdentifyInv /\ [Identifying \/ Calling]_<<identification, vars>> => IdentifyInv'
    <2>1. ASSUME IdentifyInv, UNCHANGED identification
          PROVE  IdentifyInv'
      BY <2>1 DEF IdentifyInv, identification
    <2> QED
      BY <2>1, IdentifyStep DEF Identifying, Calling
  <1>3. IdentifyInv => FoundIsDisk
    BY DEF IdentifyInv, FoundIsDisk, Identify!FoundIsDisk
  <1> QED
    BY <1>1, <1>2, <1>3, PTL DEF ChannelSpec

(* The calls that kmain makes on the channel are calls of the driver on a  *)
(* disk that waits for nothing: what is proved of AtaDriver holds there.   *)
THEOREM ChannelIsDriver == ChannelSpec => Spec
  <1>1. ChannelInit => Init
    BY DEF ChannelInit
  <1>2. [Identifying \/ Calling]_<<identification, vars>> => [Next]_vars
    BY DEF Identifying, Calling
  <1> QED
    BY <1>1, <1>2, PTL DEF ChannelSpec, Spec

(* In particular a 0 is true and no other sector changes, from boot on,    *)
(* and the calls of the kernel read and write the store.                   *)
THEOREM ChannelCallsAreTrue ==
  ASSUME OneCaller
  PROVE  ChannelSpec => []SuccessIsTrue /\ OthersKept /\ StoreSpec
  <1>1. Spec => []SuccessIsTrue
    BY AtaSuccessIsTrue
  <1>2. Spec => OthersKept
    BY AtaOthersKept
  <1>3. Spec => StoreSpec
    BY DriverIsStore
  <1> QED
    BY <1>1, <1>2, <1>3, ChannelIsDriver, PTL
=============================================================================
