----------------------------- MODULE AtaChannel -----------------------------
(***************************************************************************)
(* The primary channel from boot on: fs_init identifies what is on it, and *)
(* when that is a disk the calls of ata.c read and write it.  AtaIdentify  *)
(* is to leave the disk as AtaDriver finds it: waiting for nothing.        *)
(***************************************************************************)
EXTENDS AtaDriver

VARIABLES kind, status, signature, place, turns, answer, words

identification == <<kind, status, signature, place, turns, answer, words>>

Identify ==
  INSTANCE AtaIdentify WITH dev <- status, sig <- signature, at <- place,
                            left <- turns, result <- answer, buffer <- words

(* fs_init goes on only when a disk was found. *)
Found == answer = 1

ChannelInit == Identify!Init /\ Init

Identifying == Identify!Next /\ UNCHANGED vars
Calling == Found /\ Next /\ UNCHANGED identification

ChannelSpec ==
  /\ ChannelInit /\ [][Identifying \/ Calling]_<<identification, vars>>
  (* The calls run; what is on the channel may never answer. *)
  /\ WF_<<identification, vars>>(Identify!Code /\ UNCHANGED vars)
  /\ \A c \in Callers :
       WF_<<identification, vars>>(Found /\ Continue(c) /\ UNCHANGED identification)

-----------------------------------------------------------------------------
(* 1 is returned for a disk only, with its own words, and the disk waits   *)
(* for nothing then; fs_init takes the size of the disk from them.         *)
FoundIsDisk == Identify!FoundIsDisk

(* Boot does not hang in ata_identify, whatever is on the channel.         *)
IdentifyEnds == Identify!IdentifyEnds
=============================================================================
