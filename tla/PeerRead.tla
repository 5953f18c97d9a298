------------------------------ MODULE PeerRead ------------------------------
(***************************************************************************)
(* KnxPeer::getValueFromDevice and the part of packetReceived that answers *)
(* it: a thread asks the bus for the value of a variable and waits, and a  *)
(* packet thread hands the value over.                                     *)
(*                                                                         *)
(* A peer has one structure, _getValueFromDeviceInfo, for all its reads.   *)
(* The readers exclude each other; a packet thread tests and writes most   *)
(* of the structure without a lock.  There is one packet thread for every  *)
(* interface.  A variable is a channel and a name.                         *)
(***************************************************************************)
EXTENDS Naturals

CONSTANTS
  Readers,        \* threads in getValueFromDevice: the worker and RPC threads
  PacketThreads,  \* threads in packetReceived, one per interface
  Channels, Names,
  None,           \* an absent value, and the void that a timeout returns
  MaxReads        \* bound: reads started

ASSUME NoneAssumption == None \notin Readers /\ None \notin Channels \X Names
ASSUME BoundAssumption == MaxReads \in Nat

Variables == Channels \X Names

VARIABLES
  pc, asked,          \* a reader: where it is and the variable it wants
  result,             \* what a reader is about to return
  guard,              \* the holder of _getValueFromDeviceMutex
  channel, name,      \* _getValueFromDeviceInfo.channel and .variableName
  requested,          \*                        .requested
  value,              \*                        .value: the variable it is a value of
  ready,              \*                        .mutexReady
  ppc, packet,        \* a packet thread: where it is and the variable of its packet
  reads,              \* reads started
  untidy,             \* when the current read began, a request was open or a packet under way
  early               \* the current read was answered before its question was sent

readerVars == <<pc, asked, result, guard, reads>>
infoVars == <<channel, name, requested, value, ready>>
vars == <<readerVars, infoVars, ppc, packet, untidy, early>>

Init ==
  /\ pc = [r \in Readers |-> "idle"] /\ asked = [r \in Readers |-> None]
  /\ result = [r \in Readers |-> None]
  /\ guard = None
  /\ channel = None /\ name = None /\ requested = FALSE /\ value = None /\ ready = FALSE
  /\ ppc = [p \in PacketThreads |-> "idle"] /\ packet = [p \in PacketThreads |-> None]
  /\ reads = 0 /\ untidy = FALSE /\ early = FALSE

Goes(r, from, to) == pc[r] = from /\ pc' = [pc EXCEPT ![r] = to]
PGoes(p, from, to) == ppc[p] = from /\ ppc' = [ppc EXCEPT ![p] = to]

(* The mutex of the structure is held by the reader from the moment it     *)
(* locks it until it waits.                                                *)
Locked == \E r \in Readers : pc[r] = "send"
Busy == \E p \in PacketThreads : ppc[p] # "idle"
Handing == \E p \in PacketThreads : ppc[p] \in {"clear", "store", "lock"}

-----------------------------------------------------------------------------
Ask(r, v) ==
  /\ Goes(r, "idle", "guard")
  /\ reads < MaxReads /\ reads' = reads + 1
  /\ asked' = [asked EXCEPT ![r] = v]
  /\ UNCHANGED <<result, guard, infoVars, ppc, packet, untidy, early>>

(* One reader at a time; it names the channel ...                          *)
TakeGuardUnlocked(r) ==
  /\ Goes(r, "guard", "name")
  /\ guard' = r
  /\ channel' = asked[r][1]
  /\ early' = FALSE /\ untidy' = (requested \/ Busy)
  /\ UNCHANGED <<asked, result, reads, name, requested, value, ready, ppc, packet>>
TakeGuardRequesting(r) ==
  /\ guard = None /\ Goes(r, "guard", "name")
  /\ guard' = r /\ channel' = asked[r][1] /\ requested' = TRUE
  /\ early' = FALSE /\ untidy' = (requested \/ Busy)
  /\ UNCHANGED <<asked, result, reads, name, value, ready, ppc, packet>>
TakeGuard(r) == guard = None /\ TakeGuardUnlocked(r)

(* ... and the variable, ...                                               *)
SetName(r) ==
  /\ Goes(r, "name", "request")
  /\ name' = asked[r][2]
  /\ UNCHANGED <<asked, result, guard, reads, channel, requested, value, ready, ppc, packet, untidy, early>>

(* ... says that it waits for a value ...                                  *)
SetRequested(r) ==
  /\ Goes(r, "request", "reset")
  /\ requested' = TRUE
  /\ UNCHANGED <<asked, result, guard, reads, channel, name, value, ready, ppc, packet, untidy, early>>

(* ... and only then resets mutexReady, under the mutex.                   *)
ResetReady(r) ==
  /\ Goes(r, "reset", "send")
  /\ ready' = FALSE
  /\ early' = (~requested \/ Handing)
  /\ UNCHANGED <<asked, result, guard, reads, channel, name, requested, value, ppc, packet, untidy>>
KeepReady(r) == Goes(r, "reset", "send") /\ UNCHANGED <<asked, result, guard, reads, infoVars, ppc, packet, untidy>>
                /\ early' = (~requested \/ Handing)

(* The question goes out, which may take long; then the reader waits.      *)
SendRead(r) ==
  /\ Goes(r, "send", "wait")
  /\ UNCHANGED <<asked, result, guard, reads, infoVars, ppc, packet, untidy, early>>

(* mutexReady is set: take the value.  Or a second has passed: return      *)
(* void, and leave "requested" as it is.                                   *)
Finish(r, v) ==
  /\ Goes(r, "wait", "done")
  /\ result' = [result EXCEPT ![r] = v]
  /\ UNCHANGED <<asked, guard, reads, infoVars, ppc, packet, untidy, early>>
Answered(r) == ready /\ Finish(r, value)
TimedOutNever(r) == Answered(r)
TimedOut(r) == ~ready /\ Finish(r, None)

Return(r) ==
  /\ Goes(r, "done", "idle")
  /\ guard' = None
  /\ asked' = [asked EXCEPT ![r] = None] /\ result' = [result EXCEPT ![r] = None]
  /\ UNCHANGED <<reads, infoVars, ppc, packet, untidy, early>>

-----------------------------------------------------------------------------
(* A groupValueWrite or groupValueResponse for variable v, asked for or    *)
(* not.  Is there a reader that waits, is it for this channel, and for     *)
(* this variable?  Three fields, read one after the other and without a    *)
(* lock: a reader may end, and the next one begin, between two of them.    *)
Received(p, v) ==
  /\ PGoes(p, "idle", "channel")
  /\ requested
  /\ packet' = [packet EXCEPT ![p] = v]
  /\ UNCHANGED <<readerVars, infoVars, untidy, early>>

SameChannel(p) ==
  /\ PGoes(p, "channel", "name")
  /\ channel = packet[p][1]
  /\ UNCHANGED <<readerVars, infoVars, packet, untidy, early>>

SameName(p) ==
  /\ PGoes(p, "name", "clear")
  /\ name = packet[p][2]
  /\ UNCHANGED <<readerVars, infoVars, packet, untidy, early>>

OtherVariable(p) ==
  /\ \/ PGoes(p, "channel", "idle") /\ channel # packet[p][1]
     \/ PGoes(p, "name", "idle") /\ name # packet[p][2]
  /\ packet' = [packet EXCEPT ![p] = None]
  /\ UNCHANGED <<readerVars, infoVars, untidy, early>>

ClearRequested(p) ==
  /\ PGoes(p, "clear", "store")
  /\ requested' = FALSE
  /\ UNCHANGED <<readerVars, channel, name, value, ready, packet, untidy, early>>

StoreValue(p) ==
  /\ PGoes(p, "store", "lock")
  /\ value' = packet[p]
  /\ UNCHANGED <<readerVars, channel, name, requested, ready, packet, untidy, early>>

(* mutexReady under the mutex, then notify.                                *)
SetReady(p) ==
  /\ PGoes(p, "lock", "idle")
  /\ ~Locked
  /\ ready' = TRUE
  /\ packet' = [packet EXCEPT ![p] = None]
  /\ UNCHANGED <<readerVars, channel, name, requested, value, untidy, early>>

-----------------------------------------------------------------------------
Continue(r) == TakeGuard(r) \/ SetName(r) \/ SetRequested(r) \/ ResetReady(r) \/ SendRead(r)
               \/ Answered(r) \/ TimedOut(r) \/ Return(r)
Read(r) == Continue(r) \/ \E v \in Variables : Ask(r, v)
Compare(p) == SameChannel(p) \/ SameName(p) \/ OtherVariable(p)
HandOver(p) == Compare(p) \/ ClearRequested(p) \/ StoreValue(p) \/ SetReady(p)
Process(p) == HandOver(p) \/ \E v \in Variables : Received(p, v)

Next == (\E r \in Readers : Read(r)) \/ (\E p \in PacketThreads : Process(p))
Spec == Init /\ [][Next]_vars

(* Threads go on, and the wait has a timeout.                              *)
FairSpec == Spec /\ (\A r \in Readers : WF_vars(Continue(r))) /\ (\A p \in PacketThreads : WF_vars(HandOver(p)))

-----------------------------------------------------------------------------
(* A read that begins when no request is open and no packet is being       *)
(* compared or handed over returns a value of the variable it asked for,   *)
(* or nothing, whatever packets come in while it lasts and however the     *)
(* reads before it ended.                                                  *)
ReadsOwnVariable ==
  ~untidy => \A r \in Readers : pc[r] = "done" => result[r] \in {asked[r], None}

(* As long as a reader waits, its request is open to a packet with its     *)
(* value, or a packet is being handed over, unless one was before the      *)
(* question went out: nothing else closes the request, whatever earlier    *)
(* reads left.                                                             *)
WaitIsAnswerable ==
  ~early => \A r \in Readers :
    pc[r] = "wait" /\ ~ready => requested \/ Handing

(* Every read ends, and no packet thread is stuck behind a reader.         *)
ReadsEnd ==
  /\ \A r \in Readers : pc[r] # "idle" ~> pc[r] = "idle"
  /\ \A p \in PacketThreads : ppc[p] # "idle" ~> ppc[p] = "idle"
=============================================================================
