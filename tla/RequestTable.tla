---------------------------- MODULE RequestTable ----------------------------
(***************************************************************************)
(* The request table of MainInterface: how threads that write a packet to  *)
(* the KNXnet/IP gateway (getResponse, sendPacket and the tunnelling path  *)
(* of the forwarder) are matched with the packets the listener thread      *)
(* receives (processPacket).                                               *)
(*                                                                         *)
(* Several threads share one UDP connection.  A caller registers a Request *)
(* under the service type of the answer it expects, writes its packet and  *)
(* sleeps on the Request's condition variable.  The listener looks the     *)
(* service type up, stores the packet in the Request and wakes the caller. *)
(* Nothing but the service type links an answer to a question.             *)
(*                                                                         *)
(* A step of this module is what a thread does between two points where it *)
(* may block or where another thread can see a difference.  The sections   *)
(* under _requestsMutex never block, so each is part of one step.  The     *)
(* module covers one tunnel: once _stopped is set the calls drain, and the *)
(* reconnection is the subject of another module.                          *)
(***************************************************************************)
EXTENDS Naturals, Sequences, FiniteSets

CONSTANTS
  Senders,     \* threads of Homegear that call MainInterface::sendPacket
  Relays,      \* the forwarder's thread, relaying a client's TUNNELING_REQUEST
  Queriers,    \* threads that call getResponse for anything else
  QueryKeys,   \* what Queriers may ask: a set of service types
  Requests,    \* identities of Request objects
  SeqMod,      \* sequence counters are of type uint8_t: 256 in the code
  FailLimit,   \* unanswered calls in a row that force a reconnect: 100 in the code
  MaxCalls,    \* bound: calls started
  MaxEvents,   \* bound: packets the network duplicates, and calls of other interfaces
  None, Torn   \* an absent value; the outcome of a racy read of Request::response

Threads == Senders \cup Relays \cup Queriers
Tunnellers == Senders \cup Relays
Keys == {"ACK", "CON"} \cup QueryKeys
Tickets == 0..MaxCalls    \* 0 for no call

ASSUME ThreadAssumption ==
  /\ Senders \cap Relays = {} /\ Senders \cap Queriers = {} /\ Relays \cap Queriers = {}
  /\ QueryKeys \subseteq {"STATE", "CONNECT", "DISCONNECT", "DESCRIPTION"}
ASSUME NumberAssumption ==
  /\ SeqMod \in Nat \ {0, 1} /\ FailLimit \in Nat \ {0}
  /\ MaxCalls \in Nat /\ MaxEvents \in Nat
ASSUME NoneAssumption ==
  /\ None \notin Threads /\ None \notin Requests /\ Torn # None

(***************************************************************************)
(* A packet of the gateway.  "by" and "of" say which call's packet it      *)
(* answers; a real packet carries at most a sequence number, and the code  *)
(* compares nothing but the service type.  "ok" is the status byte.        *)
(***************************************************************************)
Packet == [key : Keys, by : Threads, of : Tickets, ok : BOOLEAN]
ASSUME PacketAssumption == None \notin Packet /\ Torn \notin Packet

VARIABLES
  pc,          \* where each thread is
  key,         \* the service type each thread passed to getResponse
  con,         \* the Request of sendPacket, for the 0x2E confirmation
  cur,         \* the Request of getResponse
  got,         \* responsePacket, as getResponse returned it
  frame,       \* the sequence number in the thread's TUNNELING_REQUEST
  ticket,      \* number of the thread's call
  sendMutex, respMutex,   \* holders of _sendPacketMutex and _getResponseMutex
  table,       \* _requests
  response, ready,        \* Request::response and Request::mutexReady
  seq,         \* _sequenceCounter
  stopped,     \* _stopped
  mgmt,        \* _managementConnected
  fails,       \* fail_counter, one for all interfaces
  others,      \* how often other interfaces have changed it
  unanswered,  \* history: this interface's calls in a row that timed out
  lpc, lreq, lmsg,        \* the listener: where it is, its Request and packet
  inflight,    \* answers the gateway sent and the listener has not received
  calls, dups, \* calls started and packets duplicated so far
  overdue,     \* answers not received in time: pairs of a service type and a ticket
  copied,      \* answers that were duplicated, likewise
  wire,        \* the sequence numbers written to the gateway, in order
  wasted       \* how many sequence numbers were drawn and never written

threadVars == <<pc, key, con, cur, got, frame, ticket>>
requestVars == <<table, response, ready>>
mutexVars == <<sendMutex, respMutex>>
listenerVars == <<lpc, lreq, lmsg>>
netVars == <<inflight, dups, copied>>
ghostVars == <<overdue, wire, wasted>>
failVars == <<fails, others, unanswered>>
vars == <<threadVars, requestVars, mutexVars, listenerVars, netVars, ghostVars, failVars,
          seq, stopped, mgmt, calls>>

-----------------------------------------------------------------------------
(* Threads in the middle of getResponse with an entry in the table.        *)
InGetResponse == {"g_lock", "g_write", "g_wait", "g_count", "g_awake"}
(* They hold its Request's mutex while they write, and again when they have *)
(* been woken, or the wait has timed out, until they return.               *)
HoldsCur == InGetResponse \ {"g_lock", "g_wait"}
(* A sender holds the mutex of its confirmation Request from the moment it *)
(* locked it until it waits on it: all the time it is in getResponse.      *)
HoldsCon == {"g_mutex", "g_done"} \cup InGetResponse
(* A sender's Request for the confirmation is registered.                  *)
Registered == HoldsCon \cup {"s_lock", "s_wait"}

PcValues == {"idle", "s_mutex", "s_lock", "s_wait", "r_mutex", "r_read", "r_inc"} \cup HoldsCon

Holds(t, r) == \/ pc[t] \in HoldsCur /\ cur[t] = r
               \/ t \in Senders /\ pc[t] \in HoldsCon /\ con[t] = r
Held(r) == \E t \in Threads : Holds(t, r)

(* Requests are shared_ptrs: one is free again when nothing refers to it.  *)
Referenced(r) == \/ \E k \in Keys : table[k] = r
                 \/ \E t \in Threads : con[t] = r \/ cur[t] = r
                 \/ lreq = r
Unreferenced == {r \in Requests : ~Referenced(r)}
NewRequest == CHOOSE r \in Unreferenced : TRUE

Init ==
  /\ pc = [t \in Threads |-> "idle"]
  /\ key = [t \in Threads |-> "ACK"]
  /\ con = [t \in Threads |-> None]
  /\ cur = [t \in Threads |-> None]
  /\ got = [t \in Threads |-> None]
  /\ frame = [t \in Threads |-> 0]
  /\ ticket = [t \in Threads |-> 0]
  /\ sendMutex = None /\ respMutex = None
  /\ table = [k \in Keys |-> None]
  /\ response = [r \in Requests |-> None]
  /\ ready = [r \in Requests |-> FALSE]
  /\ seq = 0 /\ stopped = FALSE /\ mgmt = FALSE
  /\ fails = 0 /\ others = 0 /\ unanswered = 0
  /\ lpc = "idle" /\ lreq = None /\ lmsg = None
  /\ inflight = {} /\ calls = 0 /\ dups = 0
  /\ overdue = {} /\ copied = {} /\ wire = <<>> /\ wasted = 0

-----------------------------------------------------------------------------
(* What a caller finds in Request::response.  The listener writes that     *)
(* vector without the Request's mutex: while it does, a copy of it is any  *)
(* of three things.                                                        *)
Copy(r) == {response[r]} \cup (IF lpc = "write" /\ lreq = r THEN {lmsg, Torn} ELSE {})

(* Bookkeeping: t goes on with v; unless that is the answer of service     *)
(* type k to its own packet, its own answer may still be on its way.       *)
Missed(t, k, v) ==
  IF v \in Packet /\ v.by = t /\ v.of = ticket[t] THEN {} ELSE {<<k, ticket[t]>>}

(* Register a new Request under service type k.                            *)
RegisterWithoutReset(k) ==
  /\ Unreferenced # {}
  /\ table' = [table EXCEPT ![k] = NewRequest]
  /\ response' = [response EXCEPT ![NewRequest] = None]
  /\ UNCHANGED ready

RegisterStale(k) ==
  /\ Unreferenced # {}
  /\ table' = [table EXCEPT ![k] = NewRequest]
  /\ ready' = [ready EXCEPT ![NewRequest] = FALSE]
  /\ UNCHANGED response

RegisterAsAck(k) ==
  /\ Unreferenced # {}
  /\ table' = [table EXCEPT !["ACK"] = NewRequest]
  /\ response' = [response EXCEPT ![NewRequest] = None]
  /\ ready' = [ready EXCEPT ![NewRequest] = FALSE]

Register(k) ==
  /\ Unreferenced # {}
  /\ table' = [table EXCEPT ![k] = NewRequest]
  /\ response' = [response EXCEPT ![NewRequest] = None]
  /\ ready' = [ready EXCEPT ![NewRequest] = FALSE]

(* The call of t begins: it gets a ticket.                                 *)
NewTicket(t) ==
  /\ calls < MaxCalls
  /\ calls' = calls + 1
  /\ ticket' = [ticket EXCEPT ![t] = calls + 1]

(* t leaves its outermost call and forgets its locals.                     *)
Return(t) ==
  /\ pc' = [pc EXCEPT ![t] = "idle"]
  /\ key' = [key EXCEPT ![t] = "ACK"]
  /\ con' = [con EXCEPT ![t] = None]
  /\ cur' = [cur EXCEPT ![t] = None]
  /\ got' = [got EXCEPT ![t] = None]
  /\ frame' = [frame EXCEPT ![t] = 0]
  /\ ticket' = [ticket EXCEPT ![t] = 0]

(* _sequenceCounter++ on a uint8_t.                                        *)
IncrementUnbounded(n) == n + 1
Increment(n) == (n + 1) % SeqMod

(* The first line of getResponse: with _stopped set, it returns at once.   *)
EnterGetResponse(t) ==
  pc' = [pc EXCEPT ![t] = IF stopped THEN "g_done" ELSE "g_mutex"]

-----------------------------------------------------------------------------
(* sendPacket: the early returns, then the wait for both mutexes.          *)
SendStart(t) ==
  /\ pc[t] = "idle" /\ ~stopped /\ ~mgmt
  /\ NewTicket(t)
  /\ pc' = [pc EXCEPT ![t] = "s_mutex"]
  /\ UNCHANGED <<key, con, cur, got, frame, requestVars, mutexVars, listenerVars,
                 netVars, ghostVars, seq, stopped, mgmt, failVars>>

(* std::lock of _sendPacketMutex and _requestsMutex; the confirmation's    *)
(* Request is registered before the packet is built.                       *)
SendRegisterUnlocked(t) ==
  /\ pc[t] = "s_mutex"
  /\ sendMutex' = t
  /\ Register("CON")
  /\ con' = [con EXCEPT ![t] = NewRequest]
  /\ pc' = [pc EXCEPT ![t] = "s_lock"]
  /\ UNCHANGED <<key, cur, got, frame, ticket, respMutex, listenerVars, netVars,
                 ghostVars, seq, stopped, mgmt, failVars, calls>>

SendRegister(t) == sendMutex = None /\ SendRegisterUnlocked(t)

(* The Request's mutex is taken and the packet built with the next         *)
(* sequence number; then getResponse begins.                               *)
SendBuild(t) ==
  /\ pc[t] = "s_lock"
  /\ frame' = [frame EXCEPT ![t] = seq]
  /\ seq' = Increment(seq)
  /\ wasted' = IF stopped THEN wasted + 1 ELSE wasted
  /\ EnterGetResponse(t)
  /\ UNCHANGED <<key, con, cur, got, ticket, requestVars, mutexVars, listenerVars,
                 netVars, overdue, wire, stopped, mgmt, failVars, calls>>

(* A packet of more than 200 bytes is dropped: its number is gone and the  *)
(* confirmation's entry stays in the table.                                *)
SendOversize(t) ==
  /\ pc[t] = "s_lock"
  /\ seq' = Increment(seq)
  /\ wasted' = wasted + 1
  /\ sendMutex' = None
  /\ Return(t)
  /\ UNCHANGED <<requestVars, respMutex, listenerVars, netVars, overdue, wire,
                 stopped, mgmt, failVars, calls>>

(* An acknowledgement without error: wait for the confirmation.            *)
SendAcked(t) ==
  /\ pc[t] = "g_done" /\ t \in Senders
  /\ got[t] # None
  /\ got[t] # Torn => got[t].ok
  /\ pc' = [pc EXCEPT ![t] = "s_wait"]
  /\ got' = [got EXCEPT ![t] = None]
  /\ UNCHANGED <<key, con, cur, frame, ticket, requestVars, mutexVars, listenerVars,
                 netVars, ghostVars, seq, stopped, mgmt, failVars, calls>>

(* No acknowledgement, one that is too small, or one with an error: return *)
(* without removing the entry for the confirmation.                        *)
SendFailed(t) ==
  /\ pc[t] = "g_done" /\ t \in Senders
  /\ got[t] \in Packet => ~got[t].ok
  /\ overdue' = overdue \cup {<<"CON", ticket[t]>>}
  /\ sendMutex' = None
  /\ Return(t)
  /\ UNCHANGED <<requestVars, respMutex, listenerVars, netVars, wire, wasted, seq,
                 stopped, mgmt, failVars, calls>>

(* The confirmation came (and is acknowledged to the gateway): erase the   *)
(* entry, release everything.                                              *)
TakeConfirmation(t) ==
  /\ pc[t] = "s_wait" /\ ready[con[t]]
  /\ \E v \in Copy(con[t]) : overdue' = overdue \cup Missed(t, "CON", v)
  /\ sendMutex' = None
  /\ Return(t)
  /\ UNCHANGED <<response, ready, respMutex, listenerVars, netVars, wire, wasted, seq,
                 stopped, mgmt, failVars, calls>>
SendConfirmedNoErase(t) == TakeConfirmation(t) /\ UNCHANGED table
SendConfirmed(t) == TakeConfirmation(t) /\ table' = [table EXCEPT !["CON"] = None]

(* One second without a confirmation.                                      *)
SendUnconfirmed(t) ==
  /\ pc[t] = "s_wait" /\ ~ready[con[t]]
  /\ table' = [table EXCEPT !["CON"] = None]
  /\ overdue' = overdue \cup {<<"CON", ticket[t]>>}
  /\ sendMutex' = None
  /\ Return(t)
  /\ UNCHANGED <<response, ready, respMutex, listenerVars, netVars, wire, wasted, seq,
                 stopped, mgmt, failVars, calls>>

-----------------------------------------------------------------------------
(* The forwarder relays a TUNNELING_REQUEST of its client.  Nothing is     *)
(* checked first.                                                          *)
RelayStart(t) ==
  /\ pc[t] = "idle"
  /\ NewTicket(t)
  /\ pc' = [pc EXCEPT ![t] = "r_mutex"]
  /\ UNCHANGED <<key, con, cur, got, frame, requestVars, mutexVars, listenerVars,
                 netVars, ghostVars, seq, stopped, mgmt, failVars>>

RelayEnter(t) ==
  /\ pc[t] = "r_mutex"
  /\ sendMutex' = t
  /\ pc' = [pc EXCEPT ![t] = "r_read"]
  /\ UNCHANGED <<key, con, cur, got, frame, ticket, requestVars, respMutex, listenerVars,
                 netVars, ghostVars, seq, stopped, mgmt, failVars, calls>>

RelayLock(t) == sendMutex = None /\ RelayEnter(t)

(* The number is read and incremented in two calls of the interface.       *)
RelayReadSequence(t) ==
  /\ pc[t] = "r_read"
  /\ frame' = [frame EXCEPT ![t] = seq]
  /\ pc' = [pc EXCEPT ![t] = "r_inc"]
  /\ UNCHANGED <<key, con, cur, got, ticket, requestVars, mutexVars, listenerVars,
                 netVars, ghostVars, seq, stopped, mgmt, failVars, calls>>

RelayIncrement(t) ==
  /\ pc[t] = "r_inc"
  /\ seq' = Increment(seq)
  /\ wasted' = IF stopped THEN wasted + 1 ELSE wasted
  /\ EnterGetResponse(t)
  /\ UNCHANGED <<key, con, cur, got, frame, ticket, requestVars, mutexVars, listenerVars,
                 netVars, overdue, wire, stopped, mgmt, failVars, calls>>

(* With or without an acknowledgement for the client, the lock is released.*)
RelayDone(t) ==
  /\ pc[t] = "g_done" /\ t \in Relays
  /\ sendMutex' = None
  /\ Return(t)
  /\ UNCHANGED <<requestVars, respMutex, listenerVars, netVars, ghostVars, seq,
                 stopped, mgmt, failVars, calls>>

-----------------------------------------------------------------------------
(* getConnectionState, connectManagement or disconnectManagement begins.   *)
QueryStart(t) ==
  /\ pc[t] = "idle"
  /\ NewTicket(t)
  /\ \E k \in QueryKeys :
       /\ key' = [key EXCEPT ![t] = k]
       /\ k = "CONNECT" => ~mgmt
       /\ mgmt' = (mgmt /\ k # "DISCONNECT")
  /\ EnterGetResponse(t)
  /\ UNCHANGED <<con, cur, got, frame, requestVars, mutexVars, listenerVars,
                 netVars, ghostVars, seq, stopped, failVars>>

(* What became of it.  A keepalive that is not answered with E_NO_ERROR    *)
(* stops the interface, and so does a management connection the gateway    *)
(* refuses (but not one whose answer is malformed).                        *)
QueryDone(t) ==
  /\ pc[t] = "g_done" /\ t \in Queriers
  /\ \E good \in BOOLEAN :
       /\ got[t] = None => ~good
       /\ got[t] \in Packet => good = got[t].ok
       /\ mgmt' = (mgmt \/ (key[t] = "CONNECT" /\ good))
       /\ \/ stopped' = (stopped \/ (key[t] = "STATE" /\ ~good))
          \/ key[t] = "CONNECT" /\ ~good /\ got[t] # None /\ stopped' = TRUE
  /\ Return(t)
  /\ UNCHANGED <<requestVars, mutexVars, listenerVars, netVars, ghostVars, seq,
                 failVars, calls>>

-----------------------------------------------------------------------------
(* getResponse: both mutexes, and an entry for the answer.                 *)
GetResponseRegisterUnlocked(t) ==
  /\ pc[t] = "g_mutex"
  /\ respMutex' = t
  /\ Register(key[t])
  /\ cur' = [cur EXCEPT ![t] = NewRequest]
  /\ pc' = [pc EXCEPT ![t] = "g_lock"]
  /\ UNCHANGED <<key, con, got, frame, ticket, sendMutex, listenerVars, netVars,
                 ghostVars, seq, stopped, mgmt, failVars, calls>>

GetResponseRegister(t) == respMutex = None /\ GetResponseRegisterUnlocked(t)

(* The Request's own mutex, which nobody else keeps: the listener takes it  *)
(* and lets it go in one step.                                             *)
GetResponseLock(t) ==
  /\ pc[t] = "g_lock"
  /\ pc' = [pc EXCEPT ![t] = "g_write"]
  /\ UNCHANGED <<key, con, cur, got, frame, ticket, requestVars, mutexVars, listenerVars,
                 netVars, ghostVars, seq, stopped, mgmt, failVars, calls>>

(* What the gateway may answer to the packet of t.                         *)
Answers(t) ==
  {[key |-> k, by |-> t, of |-> ticket[t], ok |-> o] :
     k \in {key[t]} \cup (IF t \in Tunnellers THEN {"CON"} ELSE {}), o \in BOOLEAN}

(* The packet is written; then the caller sleeps and lets its Request's    *)
(* mutex go, unless the Request is ready already.                          *)
CountAnswer == fails' = 0 /\ unanswered' = 0 /\ UNCHANGED others
GetResponseWrite(t) ==
  /\ pc[t] = "g_write"
  /\ inflight' = inflight \cup {m \in Answers(t) : m.key = "CON" => m.ok}
  /\ wire' = IF t \in Tunnellers THEN Append(wire, frame[t]) ELSE wire
  /\ \/ ready[cur[t]] /\ pc' = [pc EXCEPT ![t] = "g_awake"] /\ CountAnswer
     \/ ~ready[cur[t]] /\ pc' = [pc EXCEPT ![t] = "g_wait"] /\ UNCHANGED failVars
  /\ UNCHANGED <<key, con, cur, got, frame, ticket, requestVars, mutexVars, listenerVars,
                 dups, copied, overdue, wasted, seq, stopped, mgmt, calls>>

(* The socket throws: return, and leave the entry in the table.            *)
GetResponseWriteFails(t) ==
  /\ pc[t] = "g_write"
  /\ wasted' = IF t \in Tunnellers THEN wasted + 1 ELSE wasted
  /\ overdue' = overdue \cup Missed(t, key[t], None)
  /\ respMutex' = None
  /\ cur' = [cur EXCEPT ![t] = None]
  /\ pc' = [pc EXCEPT ![t] = "g_done"]
  /\ UNCHANGED <<key, con, got, frame, ticket, requestVars, sendMutex, listenerVars,
                 netVars, wire, seq, stopped, mgmt, failVars, calls>>

(* The caller is woken and has its Request's mutex again.                  *)
GetResponseWake(t) ==
  /\ pc[t] = "g_wait" /\ ready[cur[t]]
  /\ pc' = [pc EXCEPT ![t] = "g_awake"]
  /\ CountAnswer
  /\ UNCHANGED <<key, con, cur, got, frame, ticket, requestVars, mutexVars, listenerVars,
                 netVars, ghostVars, seq, stopped, mgmt, calls>>

GetResponseNoTimeout(t) == GetResponseWake(t)

(* The wait times out, which is counted, and looked at in a second step:   *)
(* FailLimit of these in a row stop the interface.                         *)
GetResponseTimeout(t) ==
  /\ pc[t] = "g_wait" /\ ~ready[cur[t]]
  /\ fails' = fails + 1 /\ unanswered' = unanswered + 1 /\ UNCHANGED others
  /\ pc' = [pc EXCEPT ![t] = "g_count"]
  /\ UNCHANGED <<key, con, cur, got, frame, ticket, requestVars, mutexVars, listenerVars,
                 netVars, ghostVars, seq, stopped, mgmt, calls>>

PastLimit(n) == n > FailLimit
AtLimit(n) == n = FailLimit
GetResponseCount(t) ==
  /\ pc[t] = "g_count"
  /\ fails' = IF AtLimit(fails) THEN 0 ELSE fails
  /\ stopped' = (stopped \/ AtLimit(fails))
  /\ pc' = [pc EXCEPT ![t] = "g_awake"]
  /\ UNCHANGED <<key, con, cur, got, frame, ticket, requestVars, mutexVars, listenerVars,
                 netVars, ghostVars, seq, mgmt, others, unanswered, calls>>

(* Copy the answer, erase the entry, release.                              *)
Collect(t) ==
  /\ pc[t] = "g_awake"
  /\ \E v \in Copy(cur[t]) : /\ got' = [got EXCEPT ![t] = v]
                             /\ overdue' = overdue \cup Missed(t, key[t], v)
  /\ table' = [table EXCEPT ![key[t]] = None]
  /\ respMutex' = None
  /\ cur' = [cur EXCEPT ![t] = None]
  /\ pc' = [pc EXCEPT ![t] = "g_done"]
  /\ UNCHANGED <<key, con, frame, ticket, response, ready, sendMutex, listenerVars,
                 netVars, wire, wasted, seq, stopped, mgmt, failVars, calls>>

(* fail_counter is a static variable of the function: the calls of another *)
(* interface, under mutexes of its own, count in the same one.  They set it *)
(* to zero or to one more than what they read, which may be any earlier     *)
(* count; what is past the limit counts on alike.                          *)
OtherInterfaces ==
  /\ dups + others < MaxEvents /\ others' = others + 1
  /\ fails' \in 0..FailLimit+1
  /\ UNCHANGED <<threadVars, requestVars, mutexVars, listenerVars, netVars, ghostVars,
                 unanswered, seq, stopped, mgmt, calls>>

-----------------------------------------------------------------------------
(* The network: an answer is received once, or, as UDP permits, again.  An *)
(* answer that is lost is one that is never received.                      *)
Arrive(m) ==
  \/ /\ inflight' = {n \in inflight : <<n.key, n.of>> # <<m.key, m.of>>}
     /\ UNCHANGED <<dups, copied>>
  \/ /\ dups + others < MaxEvents
     /\ dups' = dups + 1
     /\ copied' = copied \cup {<<m.key, m.of>>}
     /\ UNCHANGED inflight

(* processPacket: a Request is registered for the packet.                  *)
ReadyBeforeResponse(m) ==
  /\ lpc = "idle" /\ ~stopped /\ table[m.key] # None
  /\ ready' = [ready EXCEPT ![table[m.key]] = TRUE]
  /\ Arrive(m)
  /\ lpc' = "write" /\ lreq' = table[m.key] /\ lmsg' = m
  /\ UNCHANGED <<threadVars, table, response, mutexVars, ghostVars, seq, stopped, mgmt,
                 failVars, calls>>

ReceiveMatched(m) ==
  /\ lpc = "idle" /\ ~stopped
  /\ table[m.key] # None
  /\ Arrive(m)
  /\ lpc' = "write" /\ lreq' = table[m.key] /\ lmsg' = m
  /\ UNCHANGED <<threadVars, requestVars, mutexVars, ghostVars, seq, stopped, mgmt,
                 failVars, calls>>

(* Nothing is registered for it: a confirmation is acknowledged here and   *)
(* the packet is passed to the forwarder.                                  *)
ReceiveUnmatched(m) ==
  /\ lpc = "idle" /\ ~stopped
  /\ table[m.key] = None
  /\ Arrive(m)
  /\ UNCHANGED <<threadVars, requestVars, mutexVars, listenerVars, ghostVars, seq, stopped,
                 mgmt, failVars, calls>>

(* request->response = data, under no lock.                                *)
StoreResponse ==
  /\ lpc = "write"
  /\ response' = [response EXCEPT ![lreq] = lmsg]
  /\ lpc' = "lock"
  /\ UNCHANGED <<threadVars, table, ready, mutexVars, lreq, lmsg, netVars, ghostVars, seq,
                 stopped, mgmt, failVars, calls>>

(* Under the Request's mutex: mutexReady = true; then notify_one.          *)
SetReady ==
  /\ lpc = "lock" /\ ~Held(lreq)
  /\ ready' = [ready EXCEPT ![lreq] = TRUE]
  /\ lpc' = "idle" /\ lreq' = None /\ lmsg' = None
  /\ UNCHANGED <<threadVars, table, response, mutexVars, netVars, ghostVars, seq, stopped,
                 mgmt, failVars, calls>>

(* The gateway closes the tunnel, or the socket fails in the listener.     *)
TunnelLost ==
  /\ lpc = "idle" /\ ~stopped
  /\ stopped' = TRUE
  /\ UNCHANGED <<threadVars, requestVars, mutexVars, listenerVars, netVars, ghostVars, seq,
                 mgmt, failVars, calls>>

-----------------------------------------------------------------------------
Send(t) == SendStart(t) \/ SendRegister(t) \/ SendBuild(t) \/ SendOversize(t)
           \/ SendAcked(t) \/ SendFailed(t) \/ SendConfirmed(t) \/ SendUnconfirmed(t)
Relay(t) == RelayStart(t) \/ RelayLock(t) \/ RelayReadSequence(t) \/ RelayIncrement(t)
            \/ RelayDone(t)
Query(t) == QueryStart(t) \/ QueryDone(t)
GetResponse(t) == GetResponseRegister(t) \/ GetResponseLock(t) \/ GetResponseWrite(t)
                  \/ GetResponseWriteFails(t) \/ GetResponseWake(t) \/ GetResponseTimeout(t)
                  \/ GetResponseCount(t) \/ Collect(t)
Receive == \E m \in inflight : ReceiveMatched(m) \/ ReceiveUnmatched(m)

Next == \/ \E t \in Senders : Send(t)
        \/ \E t \in Relays : Relay(t)
        \/ \E t \in Queriers : Query(t)
        \/ \E t \in Threads : GetResponse(t)
        \/ Receive \/ StoreResponse \/ SetReady \/ TunnelLost \/ OtherInterfaces

Spec == Init /\ [][Next]_vars

(* Threads go on once they have started, every wait on a condition         *)
(* variable has a timeout, and the listener finishes the packet it is      *)
(* processing.  Nothing says that a packet is ever received.               *)
Continue(t) ==
  \/ GetResponse(t)
  \/ t \in Senders /\ (SendRegister(t) \/ SendBuild(t) \/ SendAcked(t) \/ SendFailed(t)
                        \/ SendConfirmed(t) \/ SendUnconfirmed(t))
  \/ t \in Relays /\ (RelayLock(t) \/ RelayReadSequence(t) \/ RelayIncrement(t) \/ RelayDone(t))
  \/ t \in Queriers /\ QueryDone(t)
Fairness == /\ \A t \in Threads : WF_vars(Continue(t))
            /\ WF_vars(StoreResponse \/ SetReady)
FairSpec == Spec /\ Fairness

-----------------------------------------------------------------------------
ThreadsTypeOK ==
  /\ pc \in [Threads -> PcValues]
  /\ key \in [Threads -> Keys \ {"CON"}]
  /\ con \in [Threads -> Requests \cup {None}]
  /\ cur \in [Threads -> Requests \cup {None}]
  /\ got \in [Threads -> Packet \cup {None, Torn}]
  /\ frame \in [Threads -> 0..SeqMod-1]
  /\ ticket \in [Threads -> Tickets]
TableTypeOK ==
  /\ sendMutex \in Tunnellers \cup {None} /\ respMutex \in Threads \cup {None}
  /\ table \in [Keys -> Requests \cup {None}]
  /\ response \in [Requests -> Packet \cup {None}]
  /\ ready \in [Requests -> BOOLEAN]
  /\ lpc \in {"idle", "write", "lock"}
  /\ lreq \in Requests \cup {None} /\ lmsg \in Packet \cup {None}
  /\ inflight \subseteq Packet
CountersTypeOK ==
  /\ seq \in 0..SeqMod-1 /\ fails \in Nat /\ others \in 0..MaxEvents /\ unanswered \in Nat
  /\ stopped \in BOOLEAN /\ mgmt \in BOOLEAN
  /\ calls \in Tickets /\ dups \in 0..MaxEvents
  /\ overdue \subseteq Keys \X Tickets /\ copied \subseteq Keys \X Tickets
  /\ wire \in Seq(0..SeqMod-1) /\ wasted \in Nat

(* Types: entries lead to Requests, and the counter that draws sequence     *)
(* numbers wraps as a uint8_t does.                                        *)
TypeOK == ThreadsTypeOK /\ TableTypeOK /\ CountersTypeOK

(* As long as a thread waits for an answer, the table leads to its own     *)
(* Request: no other caller replaces or erases the entry, though the       *)
(* entries are keyed by service type alone and the mutexes that protect    *)
(* them differ from the one that protects the map.                         *)
LiveEntry ==
  \A t \in Threads :
    /\ pc[t] \in InGetResponse => table[key[t]] = cur[t]
    /\ t \in Senders /\ pc[t] \in Registered => table["CON"] = con[t]

(* Who sees mutexReady finds a packet in Request::response, although the   *)
(* two are not written under one lock.                                     *)
ReadyHasResponse == \A r \in Requests : ready[r] => response[r] # None

(* getResponse returns the answer to another call's packet only if that    *)
(* other call gave up before its answer came, or the network duplicated    *)
(* the answer: the mutexes replace the matching that the code leaves out.  *)
NoCrossTalk ==
  \A t \in Threads :
    got[t] \in Packet =>
      \/ got[t].of = ticket[t]
      \/ <<got[t].key, got[t].of>> \in overdue \cup copied

(* Nobody who was woken copies a response while it is written: when the    *)
(* listener writes to a Request that is already ready, one of the two      *)
(* packets is late or a duplicate, or confirms a packet of the forwarder.  *)
(* The handshake through mutexReady makes up for the unlocked write.       *)
Stray(m) == \/ <<m.key, m.of>> \in overdue \cup copied
            \/ m.key = "CON" /\ m.by \in Relays
NoTornRead ==
  lpc = "write" /\ ready[lreq] =>
    response[lreq] # None /\ (Stray(lmsg) \/ Stray(response[lreq]))

(* The confirmation that ends sendPacket belongs to its own packet, or to  *)
(* one that a sender has given up, or is a duplicate, or confirms a packet *)
(* of the forwarder: senders never take each other's.                      *)
ConfirmationBelongs ==
  \A t \in Senders :
    pc[t] = "s_wait" /\ ready[con[t]] =>
      LET m == response[con[t]] IN
        \/ m.of = ticket[t]
        \/ m.by \in Relays
        \/ <<"CON", m.of>> \in overdue \cup copied

(* Who has an entry for service type k and waits for it, or will.           *)
Owners(k) ==
  {t \in Threads : \/ pc[t] \in InGetResponse /\ key[t] = k
                   \/ k = "CON" /\ t \in Senders /\ pc[t] \in Registered}
HasFailed(k) == (\E n \in Tickets : <<k, n>> \in overdue) \/ (k = "CON" /\ wasted # 0)

(* An entry without a waiting caller is the trace of a call that asked for  *)
(* that very service type and failed, or of a packet that was too long: a   *)
(* call that merely times out, or another's failure, leaves none.           *)
NoLeftover ==
  \A k \in Keys : table[k] # None => Owners(k) # {} \/ HasFailed(k)

(* The caller that asked for an answer is the only one that keeps the       *)
(* listener from delivering it, and only while it is awake: who sleeps, or  *)
(* waits for another's mutex, holds the listener up over nothing but a      *)
(* confirmation.  Callers keep mutexes of Requests over their writes and    *)
(* waits, and the listener must not need one to get to the others' answers. *)
OnlyAskerHoldsUp ==
  lpc = "lock" /\ lmsg.key # "CON" =>
    \A t \in Threads : Holds(t, lreq) =>
      pc[t] \in HoldsCur /\ cur[t] = lreq /\ key[t] = lmsg.key

(* FailLimit unanswered calls in a row force a reconnect ("Force            *)
(* reconnect", getResponse), as soon as the last of them has been counted.  *)
FailuresForceReconnect ==
  unanswered >= FailLimit => stopped \/ \E t \in Threads : pc[t] = "g_count"

(* They do as long as no other interface has a call: the counter, compared  *)
(* with ==, never gets past the limit, though many threads count in it.     *)
AloneForcesReconnect == others = 0 => FailuresForceReconnect

(* Sequence numbers reach the gateway in the order drawn, none twice and   *)
(* none skipped except the ones a failed call wasted, though senders and   *)
(* the forwarder draw them in different ways.                              *)
FramesInOrder ==
  [][wire' # wire => wire' = Append(wire, (Len(wire) + wasted) % SeqMod)]_vars

(* Every call returns, whatever the gateway does or fails to do, and the     *)
(* listener gets out of every packet it processes.                          *)
CallsReturn == /\ \A t \in Threads : pc[t] # "idle" ~> pc[t] = "idle"
               /\ lpc # "idle" ~> lpc = "idle"

(* What makes LiveEntry inductive: who holds which mutex where, and that a *)
(* registered Request exists.                                              *)
MutexOwners ==
  \A t \in Threads :
    /\ pc[t] \in InGetResponse => respMutex = t /\ cur[t] \in Requests
    /\ t \in Senders /\ pc[t] \in Registered => sendMutex = t /\ con[t] \in Requests
    /\ t \in Relays /\ pc[t] \in HoldsCon \cup {"r_read", "r_inc"} => sendMutex = t

(* What makes ReadyHasResponse inductive: the listener's own state.        *)
ListenerState ==
  /\ lpc # "idle" => lreq \in Requests /\ lmsg \in Packet
  /\ lpc = "lock" => response[lreq] # None

(* What makes the table a set of slots: two entries never lead to one       *)
(* Request.                                                                *)
OwnRequests ==
  \A k, l \in Keys : table[k] # None /\ table[k] = table[l] => k = l

(* The table implements the slots of ReplySlot: whoever waits for a service *)
(* type is the only one, and never leaves with a packet of another type or  *)
(* with one that came before it asked, though entries are overwritten,      *)
(* leaked by calls that fail, and filled by a listener that takes no lock.  *)
SlotOf(k) ==
  IF Owners(k) = {} THEN [owners |-> {}, packet |-> None, incoming |-> None]
  ELSE [owners |-> Owners(k), packet |-> response[table[k]],
        incoming |-> IF lpc = "write" /\ lreq = table[k] THEN lmsg ELSE None]
Slots == INSTANCE ReplySlot WITH slot <- [k \in Keys |-> SlotOf(k)], outcome <- got
ImplementsSlots == Slots!Spec
=============================================================================
