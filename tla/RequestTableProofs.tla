------------------------- MODULE RequestTableProofs -------------------------
(***************************************************************************)
(* Proofs about RequestTable, for any threads, Requests, number of calls   *)
(* and width of the sequence counter: types, the table's locks and entries, *)
(* the order of the frames; then what a caller of getResponse can get.      *)
(* First for that, the request table implements the slots of ReplySlot.      *)
(* Then, which packet it is: the mutexes and the order of the calls do the  *)
(* matching that the code leaves out.                                      *)
(***************************************************************************)
EXTENDS RequestTable, TLAPS

(* A new Request is one that nothing refers to.                            *)
LEMMA NewRequestIsUnreferenced ==
  Unreferenced # {} => NewRequest \in Requests /\ ~Referenced(NewRequest)
  BY DEF NewRequest, Unreferenced

(* A uint8_t stays one when it is incremented.                             *)
LEMMA IncrementType == \A n \in 0..SeqMod-1 : Increment(n) \in 0..SeqMod-1
  BY NumberAssumption DEF Increment

(* The service types that are always there.                                *)
LEMMA KeyFacts == "ACK" \in Keys \ {"CON"} /\ "CON" \in Keys /\ QueryKeys \subseteq Keys \ {"CON"}
  BY ThreadAssumption DEF Keys

(* Zero is in the range of every counter.                                  *)
LEMMA NumberFacts == 0 \in 0..SeqMod-1 /\ 0 \in Tickets /\ 0 \in 0..MaxEvents
  BY NumberAssumption DEF Tickets

(* The initial state has the right types.                                  *)
LEMMA InitType == Init => TypeOK
  <1> SUFFICES ASSUME Init PROVE TypeOK
    OBVIOUS
  <1> USE NumberAssumption, KeyFacts DEF Init
  <1>1. ThreadsTypeOK
    BY NumberFacts DEF PcValues, ThreadsTypeOK
  <1>2. TableTypeOK
    <2>1. response \in [Requests -> Packet \cup {None}]
      OBVIOUS
    <2>2. table \in [Keys -> Requests \cup {None}] /\ ready \in [Requests -> BOOLEAN]
      OBVIOUS
    <2> QED
      BY <2>1, <2>2 DEF TableTypeOK
  <1>3. CountersTypeOK
    <2>1. wire \in Seq(0..SeqMod-1) /\ wasted \in Nat
      OBVIOUS
    <2> QED
      BY <2>1, NumberFacts DEF CountersTypeOK
  <1> QED
    BY <1>1, <1>2, <1>3 DEF TypeOK

(* A thread that misses its answer misses one of a known kind.             *)
LEMMA MissedType ==
  ASSUME TypeOK, NEW t \in Threads, NEW k \in Keys, NEW v
  PROVE  /\ <<k, ticket[t]>> \in Keys \X Tickets
         /\ Missed(t, k, v) \subseteq Keys \X Tickets
  BY DEF Missed, TypeOK, ThreadsTypeOK

(* Registering a Request keeps the types of the table.                     *)
LEMMA RegisterType ==
  ASSUME TypeOK, NEW k \in Keys, Register(k)
  PROVE  /\ NewRequest \in Requests
         /\ table' \in [Keys -> Requests \cup {None}]
         /\ response' \in [Requests -> Packet \cup {None}]
         /\ ready' \in [Requests -> BOOLEAN]
  BY NewRequestIsUnreferenced DEF Register, TypeOK, TableTypeOK

(* A call that begins gets a number within the bound.                      *)
LEMMA NewTicketType ==
  ASSUME TypeOK, NEW t \in Threads, NewTicket(t)
  PROVE  calls' \in Tickets /\ ticket' \in [Threads -> Tickets]
  BY NumberAssumption DEF NewTicket, TypeOK, ThreadsTypeOK, CountersTypeOK, Tickets

(* A thread that leaves its call has the locals it began with.             *)
LEMMA ReturnType ==
  ASSUME TypeOK, NEW t \in Threads, Return(t)
  PROVE  ThreadsTypeOK'
  BY KeyFacts, NumberFacts DEF Return, TypeOK, ThreadsTypeOK, PcValues

(* Inside getResponse a thread also takes its Request's mutex, wakes up,    *)
(* gives up or counts; it only moves.                                       *)
Inside(t) == GetResponseLock(t) \/ GetResponseWake(t) \/ GetResponseTimeout(t) \/ GetResponseCount(t)
LEMMA InsideMoves ==
  ASSUME NEW t \in Threads, Inside(t)
  PROVE  /\ \/ pc[t] = "g_lock" /\ pc' = [pc EXCEPT ![t] = "g_write"]
            \/ pc[t] = "g_wait" /\ pc' = [pc EXCEPT ![t] = "g_awake"]
            \/ pc[t] = "g_wait" /\ pc' = [pc EXCEPT ![t] = "g_count"]
            \/ pc[t] = "g_count" /\ pc' = [pc EXCEPT ![t] = "g_awake"]
         /\ UNCHANGED <<key, con, cur, got, frame, ticket, table, response, ready, sendMutex, respMutex>>
         /\ UNCHANGED <<lpc, lreq, lmsg, inflight, dups, copied, overdue, wire, wasted, seq, mgmt, calls>>
  BY DEF Inside, GetResponseLock, GetResponseWake, GetResponseTimeout, GetResponseCount, requestVars, mutexVars,
     listenerVars, netVars, ghostVars

(* Every step of sendPacket keeps the types.                               *)
LEMMA SendType ==
  ASSUME TypeOK, NEW t \in Senders, Send(t)
  PROVE  TypeOK'
  <1> t \in Threads /\ t \in Tunnellers
    BY DEF Threads, Tunnellers
  <1> USE DEF ThreadsTypeOK, TableTypeOK, CountersTypeOK, requestVars, mutexVars, listenerVars, netVars, ghostVars, failVars
  <1>1. CASE SendStart(t)
    BY <1>1, NewTicketType DEF SendStart, TypeOK, PcValues
  <1>2. CASE SendRegister(t)
    BY <1>2, RegisterType, KeyFacts DEF SendRegister, SendRegisterUnlocked, TypeOK, PcValues
  <1>3. CASE SendBuild(t)
    <2>1. seq' \in 0..SeqMod-1 /\ wasted' \in Nat
      BY <1>3, IncrementType DEF SendBuild, TypeOK
    <2> QED
      BY <1>3, <2>1 DEF SendBuild, TypeOK, PcValues, HoldsCon, EnterGetResponse
  <1>4. CASE SendOversize(t)
    <2>1. seq' \in 0..SeqMod-1 /\ wasted' \in Nat
      BY <1>4, IncrementType DEF SendOversize, TypeOK
    <2> QED
      BY <1>4, <2>1, ReturnType DEF SendOversize, TypeOK
  <1>5. CASE SendAcked(t)
    BY <1>5 DEF SendAcked, TypeOK, PcValues
  <1>6. CASE SendFailed(t)
    BY <1>6, ReturnType, MissedType, KeyFacts DEF SendFailed, TypeOK
  <1>7. CASE SendConfirmed(t)
    BY <1>7, ReturnType, MissedType, KeyFacts DEF SendConfirmed, TakeConfirmation, TypeOK
  <1>8. CASE SendUnconfirmed(t)
    BY <1>8, ReturnType, MissedType, KeyFacts DEF SendUnconfirmed, TypeOK
  <1> QED
    BY <1>1, <1>2, <1>3, <1>4, <1>5, <1>6, <1>7, <1>8 DEF Send

(* Every step of the forwarder's relay keeps the types.                    *)
LEMMA RelayType ==
  ASSUME TypeOK, NEW t \in Relays, Relay(t)
  PROVE  TypeOK'
  <1> t \in Threads /\ t \in Tunnellers
    BY DEF Threads, Tunnellers
  <1> USE DEF ThreadsTypeOK, TableTypeOK, CountersTypeOK, requestVars, mutexVars, listenerVars, netVars, ghostVars, failVars
  <1>1. CASE RelayStart(t)
    BY <1>1, NewTicketType DEF RelayStart, TypeOK, PcValues
  <1>2. CASE RelayLock(t)
    BY <1>2 DEF RelayLock, RelayEnter, TypeOK, PcValues
  <1>3. CASE RelayReadSequence(t)
    BY <1>3 DEF RelayReadSequence, TypeOK, PcValues
  <1>4. CASE RelayIncrement(t)
    <2>1. seq' \in 0..SeqMod-1 /\ wasted' \in Nat
      BY <1>4, IncrementType DEF RelayIncrement, TypeOK
    <2> QED
      BY <1>4, <2>1 DEF RelayIncrement, TypeOK, PcValues, HoldsCon, EnterGetResponse
  <1>5. CASE RelayDone(t)
    BY <1>5, ReturnType DEF RelayDone, TypeOK
  <1> QED
    BY <1>1, <1>2, <1>3, <1>4, <1>5 DEF Relay

(* Every step of a keepalive or management call keeps the types.           *)
LEMMA QueryType ==
  ASSUME TypeOK, NEW t \in Queriers, Query(t)
  PROVE  TypeOK'
  <1> t \in Threads
    BY DEF Threads
  <1> USE DEF ThreadsTypeOK, TableTypeOK, CountersTypeOK, requestVars, mutexVars, listenerVars, netVars, ghostVars, failVars
  <1>1. CASE QueryStart(t)
    BY <1>1, NewTicketType, KeyFacts DEF QueryStart, TypeOK, PcValues, HoldsCon, EnterGetResponse
  <1>2. CASE QueryDone(t)
    BY <1>2, ReturnType DEF QueryDone, TypeOK
  <1> QED
    BY <1>1, <1>2 DEF Query

(* A frame's number appended to the wire is one of its numbers.            *)
LEMMA AppendType ==
  ASSUME NEW S, NEW s \in Seq(S), NEW e \in S
  PROVE  Append(s, e) \in Seq(S)
  OBVIOUS

(* The gateway's answers are packets.                                      *)
LEMMA AnswersType ==
  ASSUME TypeOK, NEW t \in Threads
  PROVE  Answers(t) \subseteq Packet
  BY KeyFacts DEF Answers, Packet, TypeOK, ThreadsTypeOK

(* Whatever is copied out of a Request, it is a response or nothing.       *)
LEMMA CollectType ==
  ASSUME TypeOK, MutexOwners, NEW t \in Threads, Collect(t)
  PROVE  TypeOK'
  <1>1. cur[t] \in Requests
    BY DEF Collect, MutexOwners, InGetResponse
  <1>2. Copy(cur[t]) \subseteq Packet \cup {None, Torn}
    BY <1>1 DEF Copy, TypeOK, TableTypeOK
  <1>3. key[t] \in Keys
    BY DEF TypeOK, ThreadsTypeOK
  <1>4. got' \in [Threads -> Packet \cup {None, Torn}] /\ overdue' \subseteq Keys \X Tickets
    BY <1>2, <1>3, MissedType, ZenonT(40) DEF Collect, TypeOK, ThreadsTypeOK, CountersTypeOK
  <1> QED
    BY <1>4 DEF Collect, TypeOK, ThreadsTypeOK, TableTypeOK, CountersTypeOK, listenerVars, netVars,
                failVars, PcValues, HoldsCon

(* Every step of getResponse keeps the types.                              *)
LEMMA GetResponseType ==
  ASSUME TypeOK, MutexOwners, NEW t \in Threads, GetResponse(t)
  PROVE  TypeOK'
  <1> USE DEF ThreadsTypeOK, TableTypeOK, CountersTypeOK, requestVars, mutexVars, listenerVars, netVars, ghostVars, failVars
  <1>1. CASE GetResponseRegister(t)
    BY <1>1, RegisterType
       DEF GetResponseRegister, GetResponseRegisterUnlocked, TypeOK, PcValues, HoldsCon, InGetResponse
  <1>2. CASE GetResponseWrite(t)
    <2>1. inflight' \subseteq Packet
      BY <1>2, AnswersType DEF GetResponseWrite, TypeOK
    <2>2. frame[t] \in 0..SeqMod-1 /\ wire \in Seq(0..SeqMod-1)
      BY DEF TypeOK
    <2>3. wire' \in Seq(0..SeqMod-1)
      BY <1>2, <2>2, AppendType DEF GetResponseWrite
    <2>4. fails' \in Nat /\ others' \in 0..MaxEvents /\ unanswered' \in Nat
      BY <1>2 DEF GetResponseWrite, CountAnswer, TypeOK
    <2> QED
      BY <1>2, <2>1, <2>3, <2>4 DEF GetResponseWrite, TypeOK, PcValues, HoldsCon, InGetResponse
  <1>3. CASE GetResponseWriteFails(t)
    <2>1. key[t] \in Keys
      BY DEF TypeOK
    <2>2. Missed(t, key[t], None) \subseteq Keys \X Tickets
      BY <2>1, MissedType
    <2>3. overdue' \subseteq Keys \X Tickets
      BY <1>3, <2>2 DEF GetResponseWriteFails, TypeOK
    <2>4. wasted' \in Nat
      BY <1>3 DEF GetResponseWriteFails, TypeOK
    <2> QED
      BY <1>3, <2>3, <2>4 DEF GetResponseWriteFails, TypeOK, PcValues, HoldsCon
  <1>4. CASE Collect(t)
    BY <1>4, CollectType
  <1>5. CASE Inside(t)
    <2>1. fails' \in Nat /\ others' \in 0..MaxEvents /\ unanswered' \in Nat
      <3>1. fails \in Nat /\ others \in 0..MaxEvents /\ unanswered \in Nat
        BY DEF TypeOK
      <3>2. others' = others /\ fails' \in {0, fails, fails + 1} /\ unanswered' \in {0, unanswered, unanswered + 1}
        BY <1>5 DEF Inside, GetResponseLock, GetResponseWake, CountAnswer, GetResponseTimeout, GetResponseCount,
           failVars
      <3> QED
        BY <3>1, <3>2
    <2>3. stopped' \in BOOLEAN
      <3>1. stopped' = stopped \/ stopped' = (stopped \/ AtLimit(fails))
        BY <1>5 DEF Inside, GetResponseLock, GetResponseWake, GetResponseTimeout, GetResponseCount
      <3>2. stopped \in BOOLEAN /\ (stopped \/ AtLimit(fails)) \in BOOLEAN
        BY DEF TypeOK
      <3>3. CASE stopped' = stopped
        BY <3>2, <3>3
      <3>4. CASE stopped' = (stopped \/ AtLimit(fails))
        BY <3>2, <3>4
      <3> QED
        BY <3>1, <3>3, <3>4
    <2>2. pc' \in [Threads -> PcValues]
      <3>1. \E v \in {"g_write", "g_count", "g_awake"} : pc' = [pc EXCEPT ![t] = v]
        BY <1>5, InsideMoves
      <3>2. {"g_write", "g_count", "g_awake"} \subseteq PcValues
        BY DEF PcValues, HoldsCon, InGetResponse
      <3>3. pc \in [Threads -> PcValues]
        BY DEF TypeOK
      <3> QED
        BY <3>1, <3>2, <3>3
    <2> QED
      BY <1>5, <2>1, <2>2, <2>3, InsideMoves DEF TypeOK
  <1> QED
    BY <1>1, <1>2, <1>3, <1>4, <1>5 DEF GetResponse, Inside

(* Every step of the listener keeps the types.                             *)
LEMMA ListenerType ==
  ASSUME TypeOK, Receive \/ StoreResponse \/ SetReady \/ TunnelLost \/ OtherInterfaces
  PROVE  TypeOK'
  <1> USE DEF ThreadsTypeOK, TableTypeOK, CountersTypeOK, threadVars, requestVars, mutexVars, listenerVars,
              netVars, ghostVars, failVars
  <1>1. ASSUME NEW m \in inflight, ReceiveMatched(m) \/ ReceiveUnmatched(m) PROVE TypeOK'
    <2>1. m \in Packet /\ m.key \in Keys /\ m.of \in Tickets
      BY DEF TypeOK, Packet
    <2>2. inflight' \subseteq Packet /\ dups' \in 0..MaxEvents /\ copied' \subseteq Keys \X Tickets
      BY <1>1, <2>1, NumberAssumption DEF ReceiveMatched, ReceiveUnmatched, Arrive, TypeOK
    <2> QED
      BY <1>1, <2>1, <2>2 DEF ReceiveMatched, ReceiveUnmatched, TypeOK
  <1>2. CASE StoreResponse
    BY <1>2 DEF StoreResponse, TypeOK
  <1>3. CASE SetReady
    BY <1>3 DEF SetReady, TypeOK
  <1>4. CASE TunnelLost
    BY <1>4 DEF TunnelLost, TypeOK
  <1>5. CASE OtherInterfaces
    <2>1. fails' \in Nat /\ others' \in 0..MaxEvents
      BY <1>5, NumberAssumption DEF OtherInterfaces, TypeOK
    <2> QED
      BY <1>5, <2>1 DEF OtherInterfaces, TypeOK
  <1> QED
    BY <1>1, <1>2, <1>3, <1>4, <1>5 DEF Receive

-----------------------------------------------------------------------------
(* Every step keeps the types.                                             *)
LEMMA TypeStep ==
  ASSUME TypeOK, MutexOwners, [Next]_vars
  PROVE  TypeOK'
  <1>1. CASE UNCHANGED vars
    BY <1>1 DEF vars, threadVars, requestVars, mutexVars, listenerVars, netVars, ghostVars, failVars, TypeOK,
                ThreadsTypeOK, TableTypeOK, CountersTypeOK
  <1> QED
    BY <1>1, SendType, RelayType, QueryType, GetResponseType, ListenerType DEF Next

(* Mutual exclusion and the live entries of the table, as one inductive    *)
(* invariant with the types.                                               *)
TableInv == TypeOK /\ MutexOwners /\ LiveEntry

(* In the initial state no thread waits and no mutex is held.              *)
LEMMA InitTable == Init => TableInv
  <1>1. Init => MutexOwners /\ LiveEntry
    BY DEF Init, MutexOwners, LiveEntry, InGetResponse, Registered, HoldsCon
  <1> QED
    BY <1>1, InitType DEF TableInv

(* The three kinds of thread have no member in common.                     *)
LEMMA Kinds ==
  /\ Senders \subseteq Threads /\ Relays \subseteq Threads /\ Queriers \subseteq Threads
  /\ Senders \cap Relays = {} /\ Senders \cap Queriers = {} /\ Relays \cap Queriers = {}
  /\ None \notin Threads
  BY ThreadAssumption, NoneAssumption DEF Threads

(* sendPacket replaces no entry another caller waits on.                   *)
LEMMA SendTable ==
  ASSUME TableInv, NEW u \in Senders, Send(u)
  PROVE  MutexOwners' /\ LiveEntry'
  <1> USE Kinds, KeyFacts DEF TableInv, MutexOwners, LiveEntry, InGetResponse, Registered, HoldsCon, TypeOK,
         ThreadsTypeOK, TableTypeOK, requestVars, mutexVars
  <1>1. CASE SendStart(u)
    BY <1>1 DEF SendStart, NewTicket
  <1>2. CASE SendRegister(u)
    <2>1. NewRequest \in Requests
      BY <1>2, NewRequestIsUnreferenced DEF SendRegister, SendRegisterUnlocked, Register
    <2>2. \A t \in Threads : t \in Senders => pc[t] \notin Registered
      BY <1>2 DEF SendRegister
    <2>3. /\ sendMutex = None /\ sendMutex' = u /\ pc[u] = "s_mutex"
          /\ pc' = [pc EXCEPT ![u] = "s_lock"] /\ con' = [con EXCEPT ![u] = NewRequest]
          /\ table' = [table EXCEPT !["CON"] = NewRequest]
          /\ UNCHANGED <<key, cur, respMutex>>
      BY <1>2 DEF SendRegister, SendRegisterUnlocked, Register
    <2>4. ASSUME NEW t \in Threads
          PROVE  pc'[t] = IF t = u THEN "s_lock" ELSE pc[t]
      BY <2>3
    <2>5. MutexOwners'
      BY <2>1, <2>2, <2>3, <2>4
    <2>6. ASSUME NEW t \in Threads, pc'[t] \in InGetResponse
          PROVE  table'[key'[t]] = cur'[t]
      BY <2>3, <2>4, <2>6
    <2>7. ASSUME NEW t \in Senders, pc'[t] \in Registered
          PROVE  table'["CON"] = con'[t]
      BY <2>2, <2>3, <2>4, <2>7
    <2> QED
      BY <2>5, <2>6, <2>7
  <1>3. CASE SendBuild(u)
    BY <1>3 DEF SendBuild, EnterGetResponse
  <1>4. CASE SendOversize(u)
    BY <1>4 DEF SendOversize, Return
  <1>5. CASE SendAcked(u)
    BY <1>5 DEF SendAcked
  <1>6. CASE SendFailed(u)
    BY <1>6 DEF SendFailed, Return
  <1>7. CASE SendConfirmed(u)
    BY <1>7 DEF SendConfirmed, TakeConfirmation, Return
  <1>8. CASE SendUnconfirmed(u)
    BY <1>8 DEF SendUnconfirmed, Return
  <1> QED
    BY <1>1, <1>2, <1>3, <1>4, <1>5, <1>6, <1>7, <1>8 DEF Send

(* The forwarder's relay leaves the entries alone.                         *)
LEMMA RelayTable ==
  ASSUME TableInv, NEW u \in Relays, Relay(u)
  PROVE  MutexOwners' /\ LiveEntry'
  <1> USE Kinds, KeyFacts DEF TableInv, MutexOwners, LiveEntry, InGetResponse, Registered, HoldsCon, TypeOK,
         ThreadsTypeOK, TableTypeOK, requestVars, mutexVars
  <1>1. CASE RelayStart(u)
    BY <1>1 DEF RelayStart, NewTicket
  <1>2. CASE RelayLock(u)
    BY <1>2 DEF RelayLock, RelayEnter
  <1>3. CASE RelayReadSequence(u)
    BY <1>3 DEF RelayReadSequence
  <1>4. CASE RelayIncrement(u)
    BY <1>4 DEF RelayIncrement, EnterGetResponse
  <1>5. CASE RelayDone(u)
    BY <1>5 DEF RelayDone, Return
  <1> QED
    BY <1>1, <1>2, <1>3, <1>4, <1>5 DEF Relay

(* A keepalive or management call leaves the entries alone outside getResponse. *)
LEMMA QueryTable ==
  ASSUME TableInv, NEW u \in Queriers, Query(u)
  PROVE  MutexOwners' /\ LiveEntry'
  <1> USE Kinds, KeyFacts DEF TableInv, MutexOwners, LiveEntry, InGetResponse, Registered, HoldsCon, TypeOK,
         ThreadsTypeOK, TableTypeOK, requestVars, mutexVars
  <1>1. CASE QueryStart(u)
    BY <1>1 DEF QueryStart, NewTicket, EnterGetResponse
  <1>2. CASE QueryDone(u)
    BY <1>2 DEF QueryDone, Return
  <1> QED
    BY <1>1, <1>2 DEF Query

(* getResponse registers and erases only its own entry, under its mutex.   *)
LEMMA GetResponseTable ==
  ASSUME TableInv, NEW u \in Threads, GetResponse(u)
  PROVE  MutexOwners' /\ LiveEntry'
  <1> USE Kinds, KeyFacts DEF TableInv, MutexOwners, LiveEntry, InGetResponse, Registered, HoldsCon, TypeOK,
         ThreadsTypeOK, TableTypeOK, requestVars, mutexVars
  <1>1. CASE GetResponseRegister(u)
    <2>1. Register(key[u]) /\ key[u] \in Keys
      BY <1>1 DEF GetResponseRegister, GetResponseRegisterUnlocked
    <2>2. NewRequest \in Requests
      BY <2>1, RegisterType
    <2>3. table' = [table EXCEPT ![key[u]] = NewRequest]
      BY <2>1 DEF Register
    <2> QED
      BY <1>1, <2>2, <2>3 DEF GetResponseRegister, GetResponseRegisterUnlocked
  <1>2. CASE GetResponseWrite(u)
    BY <1>2 DEF GetResponseWrite
  <1>3. CASE GetResponseWriteFails(u)
    BY <1>3 DEF GetResponseWriteFails
  <1>4. CASE Collect(u)
    BY <1>4 DEF Collect
  <1>5. CASE Inside(u)
    BY <1>5, InsideMoves
  <1> QED
    BY <1>1, <1>2, <1>3, <1>4, <1>5 DEF GetResponse, Inside

(* Every step keeps the entries of waiting callers.                        *)
LEMMA TableStep ==
  ASSUME TableInv, [Next]_vars
  PROVE  TableInv'
  <1>1. TypeOK'
    BY TypeStep DEF TableInv
  <1>2. CASE Receive \/ StoreResponse \/ SetReady \/ TunnelLost \/ OtherInterfaces \/ UNCHANGED vars
    <2>1. UNCHANGED <<threadVars, mutexVars, table>>
      BY <1>2 DEF Receive, ReceiveMatched, ReceiveUnmatched, StoreResponse, SetReady, TunnelLost, OtherInterfaces, vars, requestVars
    <2> QED
      BY <1>1, <2>1 DEF TableInv, MutexOwners, LiveEntry, threadVars, mutexVars
  <1> QED
    BY <1>1, <1>2, SendTable, RelayTable, QueryTable, GetResponseTable DEF Next, TableInv

(* Whoever waits for an answer has the table lead to its own Request        *)
(* (LiveEntry): no other caller replaces or erases the entry.               *)
THEOREM TableCorrect == Spec => []LiveEntry
  <1>1. TableInv => LiveEntry
    BY DEF TableInv
  <1> QED
    BY <1>1, InitTable, TableStep, PTL DEF Spec

(* Every statement that a mutex guards is executed by the thread that holds *)
(* it: one thread at a time is in getResponse, and one draws a sequence     *)
(* number and writes it.  Counters keep their width, and entries lead to    *)
(* Requests.                                                               *)
THEOREM TypesCorrect == Spec => [](TypeOK /\ MutexOwners)
  <1>1. TableInv => TypeOK /\ MutexOwners
    BY DEF TableInv
  <1> QED
    BY <1>1, InitTable, TableStep, PTL DEF Spec

-----------------------------------------------------------------------------
(* A Request that is marked ready has its response: the listener's packet  *)
(* is stored before the mark, and a new Request is never one the listener  *)
(* still refers to.                                                        *)
ReadyInv == TypeOK /\ ListenerState /\ ReadyHasResponse

(* A new Request is not ready and is not the one the listener works on.    *)
LEMMA RegisterReady ==
  ASSUME ReadyInv, NEW k \in Keys, Register(k), UNCHANGED listenerVars
  PROVE  ListenerState' /\ ReadyHasResponse'
  <1>1. NewRequest \in Requests /\ NewRequest # lreq
    BY NewRequestIsUnreferenced DEF Register, Referenced
  <1> QED
    BY <1>1 DEF Register, ReadyInv, ListenerState, ReadyHasResponse, TypeOK, TableTypeOK, listenerVars

(* Every step keeps mutexReady behind the response.                        *)
LEMMA ReadyStep ==
  ASSUME ReadyInv, TypeOK', [Next]_vars
  PROVE  ReadyInv'
  <1> USE DEF ReadyInv, ListenerState, ReadyHasResponse, TypeOK, TableTypeOK
  <1>1. CASE \E t \in Senders : SendRegister(t)
    BY <1>1, RegisterReady, KeyFacts DEF SendRegister, SendRegisterUnlocked
  <1>2. CASE \E t \in Threads : GetResponseRegister(t)
    BY <1>2, RegisterReady DEF GetResponseRegister, GetResponseRegisterUnlocked, ThreadsTypeOK
  <1>3. CASE \E m \in inflight : ReceiveMatched(m)
    BY <1>3 DEF ReceiveMatched, requestVars
  <1>4. CASE StoreResponse
    BY <1>4, NoneAssumption, PacketAssumption DEF StoreResponse
  <1>5. CASE SetReady
    BY <1>5 DEF SetReady
  <1>6. CASE UNCHANGED <<response, ready, listenerVars>>
    BY <1>6 DEF listenerVars
  <1>7. ASSUME NEW t \in Threads,
               (Send(t) /\ ~SendRegister(t)) \/ Relay(t) \/ Query(t)
        PROVE  UNCHANGED <<response, ready, listenerVars>>
    BY <1>7 DEF Send, SendStart, SendBuild, SendOversize, SendAcked, SendFailed, SendConfirmed, TakeConfirmation,
         SendUnconfirmed, Relay, RelayStart, RelayLock, RelayEnter, RelayReadSequence, RelayIncrement, RelayDone,
         Query, QueryStart, QueryDone, requestVars
  <1>8. ASSUME NEW t \in Threads, GetResponse(t), ~GetResponseRegister(t)
        PROVE  UNCHANGED <<response, ready, listenerVars>>
    BY <1>8 DEF GetResponse, GetResponseWrite, GetResponseWriteFails, GetResponseLock, GetResponseWake, GetResponseTimeout, GetResponseCount,
         Collect, requestVars
  <1>9. CASE TunnelLost \/ OtherInterfaces \/ UNCHANGED vars \/ \E m \in inflight : ReceiveUnmatched(m)
    BY <1>6, <1>9 DEF TunnelLost, OtherInterfaces, ReceiveUnmatched, vars, requestVars
  <1> QED
    BY <1>1, <1>2, <1>3, <1>4, <1>5, <1>6, <1>7, <1>8, <1>9, Kinds DEF Next, Receive

(* ReadyHasResponse holds in every reachable state: whoever finds          *)
(* mutexReady set finds a response, for any number of threads and calls.   *)
THEOREM ReadyCorrect == Spec => []ReadyHasResponse
  <1>1. Init => ReadyInv
    BY InitType DEF Init, ReadyInv, ListenerState, ReadyHasResponse
  <1>2. ReadyInv /\ TypeOK' /\ [Next]_vars => ReadyInv'
    BY ReadyStep
  <1>3. ReadyInv => ReadyHasResponse
    BY DEF ReadyInv
  <1>4. Spec => []TypeOK
    BY TypesCorrect, PTL
  <1> QED
    BY <1>1, <1>2, <1>3, <1>4, PTL DEF Spec

-----------------------------------------------------------------------------
(* Entries stay wanted when those that wait go on, whoever registers waits, *)
(* and a call that goes without erasing its entry is counted.               *)
LEMMA WantedStays ==
  ASSUME TypeOK, NoLeftover, overdue \subseteq overdue', wasted' \in {wasted, wasted + 1},
         NEW k \in Keys,
         \/ table'[k] = None \/ Owners(k)' # {} \/ HasFailed(k)'
         \/ table'[k] = table[k] /\ Owners(k) \subseteq Owners(k)',
         \A l \in Keys \ {k} : table'[l] = table[l] /\ Owners(l) \subseteq Owners(l)'
  PROVE  NoLeftover'
  <1>1. wasted \in Nat
    BY DEF TypeOK, CountersTypeOK
  <1>2. \A l \in Keys : HasFailed(l) => HasFailed(l)'
    BY <1>1 DEF HasFailed
  <1>3. ASSUME NEW l \in Keys, table'[l] # None PROVE Owners(l)' # {} \/ HasFailed(l)'
    BY <1>2, <1>3 DEF NoLeftover
  <1> QED
    BY <1>3 DEF NoLeftover

(* A call that leaves its entry is noted.                                   *)
LEMMA NotedIsExcused ==
  ASSUME TypeOK, NEW k \in Keys, NEW t \in Threads,
         overdue' = overdue \cup {<<k, ticket[t]>>} \/ (k = "CON" /\ wasted' = wasted + 1)
  PROVE  HasFailed(k)'
  <1>1. ticket[t] \in Tickets /\ wasted \in Nat
    BY DEF TypeOK, ThreadsTypeOK, CountersTypeOK
  <1>2. Tickets' = Tickets
    BY DEF Tickets
  <1> QED
    BY <1>1, <1>2 DEF HasFailed

(* So do they in every step of sendPacket ...                               *)
LEMMA SendWanted ==
  ASSUME TableInv, NoLeftover, NEW t \in Senders, Send(t)
  PROVE  NoLeftover'
  <1> USE Kinds, KeyFacts DEF TableInv, TypeOK, ThreadsTypeOK, TableTypeOK
  <1>1. CASE SendStart(t) \/ SendAcked(t) \/ SendBuild(t)
    <2>1. /\ key' = key /\ table' = table /\ overdue' = overdue /\ wasted' \in {wasted, wasted + 1}
          /\ \A u \in Threads \ {t} : pc'[u] = pc[u]
      BY <1>1 DEF SendStart, SendAcked, SendBuild, EnterGetResponse, requestVars, ghostVars
    <2>2. /\ pc[t] \notin InGetResponse
          /\ pc[t] \in Registered => pc'[t] \in Registered
      BY <1>1 DEF SendStart, SendAcked, SendBuild, EnterGetResponse, InGetResponse, Registered, HoldsCon
    <2>3. \A l \in Keys : Owners(l) \subseteq Owners(l)'
      BY <2>1, <2>2 DEF Owners
    <2>4. wasted' = wasted \/ wasted' = wasted + 1
      BY <2>1
    <2> QED
      BY <2>1, <2>3, <2>4, WantedStays
  <1>2. CASE SendOversize(t) \/ SendFailed(t) \/ SendUnconfirmed(t)
    <2>1. /\ overdue \subseteq overdue' /\ wasted' \in {wasted, wasted + 1}
          /\ overdue' = overdue \cup {<<"CON", ticket[t]>>} \/ wasted' = wasted + 1
          /\ \A u \in Threads \ {t} : pc'[u] = pc[u] /\ key'[u] = key[u]
      BY <1>2 DEF SendOversize, SendFailed, SendUnconfirmed, Return
    <2>2. \A l \in Keys \ {"CON"} : table'[l] = table[l] /\ t \notin Owners(l)
      BY <1>2 DEF SendOversize, SendFailed, SendUnconfirmed, Owners, InGetResponse, requestVars
    <2>3. \A l \in Keys \ {"CON"} : Owners(l) \subseteq Owners(l)'
      BY <2>1, <2>2 DEF Owners
    <2> QED
      BY <2>1, <2>2, <2>3, NotedIsExcused, WantedStays
  <1>3. CASE SendConfirmed(t)
    <2>1. /\ overdue \subseteq overdue' /\ wasted' = wasted /\ table' = [table EXCEPT !["CON"] = None]
          /\ \A u \in Threads \ {t} : pc'[u] = pc[u] /\ key'[u] = key[u]
      BY <1>3 DEF SendConfirmed, TakeConfirmation, Return
    <2>2. \A l \in Keys \ {"CON"} : t \notin Owners(l)
      BY <1>3 DEF SendConfirmed, TakeConfirmation, Owners, InGetResponse
    <2>3. \A l \in Keys \ {"CON"} : table'[l] = table[l] /\ Owners(l) \subseteq Owners(l)'
      BY <2>1, <2>2 DEF Owners
    <2> QED
      BY <2>1, <2>3, WantedStays
  <1>4. CASE SendRegister(t)
    <2>1. /\ table' = [table EXCEPT !["CON"] = NewRequest] /\ pc'[t] = "s_lock" /\ pc[t] = "s_mutex"
          /\ UNCHANGED <<overdue, wasted, key>> /\ \A u \in Threads \ {t} : pc'[u] = pc[u]
      BY <1>4 DEF SendRegister, SendRegisterUnlocked, Register, ghostVars
    <2>2. Owners("CON")' # {}
      BY <2>1 DEF Owners, Registered
    <2>3. \A l \in Keys \ {"CON"} : table'[l] = table[l] /\ Owners(l) \subseteq Owners(l)'
      BY <2>1 DEF Owners, InGetResponse
    <2> QED
      BY <2>1, <2>2, <2>3, WantedStays
  <1> QED
    BY <1>1, <1>2, <1>3, <1>4 DEF Send

(* ... of its callers ...                                                   *)
LEMMA CallerWanted ==
  ASSUME TableInv, NoLeftover, NEW t \in Threads, (t \in Relays /\ Relay(t)) \/ (t \in Queriers /\ Query(t))
  PROVE  NoLeftover'
  <1> USE Kinds DEF TableInv, TypeOK, ThreadsTypeOK
  <1>1. /\ table' = table /\ overdue' = overdue /\ wasted' \in {wasted, wasted + 1}
        /\ \A u \in Threads \ {t} : pc'[u] = pc[u] /\ key'[u] = key[u]
    BY DEF Relay, RelayStart, RelayLock, RelayEnter, RelayReadSequence, RelayIncrement, RelayDone, Query, QueryStart,
       QueryDone, EnterGetResponse, Return, requestVars, ghostVars
  <1>2. pc[t] \notin InGetResponse /\ t \notin Senders
    BY DEF Relay, RelayStart, RelayLock, RelayEnter, RelayReadSequence, RelayIncrement, RelayDone, Query, QueryStart,
       QueryDone, InGetResponse
  <1>3. \A l \in Keys : Owners(l) \subseteq Owners(l)'
    BY <1>1, <1>2 DEF Owners
  <1>4. wasted' = wasted \/ wasted' = wasted + 1
    BY <1>1
  <1> QED
    BY <1>1, <1>3, <1>4, WantedStays

(* ... and of getResponse.                                                  *)
LEMMA GetResponseWanted ==
  ASSUME TableInv, NoLeftover, NEW t \in Threads, GetResponse(t)
  PROVE  NoLeftover'
  <1> USE Kinds, KeyFacts DEF TableInv, TypeOK, ThreadsTypeOK, TableTypeOK
  <1> PICK k \in Keys \ {"CON"} : k = key[t]
    OBVIOUS
  <1>1. CASE GetResponseRegister(t)
    <2>1. /\ table' = [table EXCEPT ![k] = NewRequest] /\ pc' = [pc EXCEPT ![t] = "g_lock"] /\ pc[t] = "g_mutex"
          /\ UNCHANGED <<overdue, wasted, key>>
      BY <1>1 DEF GetResponseRegister, GetResponseRegisterUnlocked, Register, ghostVars
    <2>2. Owners(k)' # {}
      BY <2>1 DEF Owners, InGetResponse
    <2>3. \A l \in Keys \ {k} : table'[l] = table[l] /\ Owners(l) \subseteq Owners(l)'
      BY <2>1 DEF Owners, InGetResponse, Registered, HoldsCon
    <2> QED
      BY <2>1, <2>2, <2>3, WantedStays
  <1>2. CASE GetResponseWrite(t) \/ Inside(t)
    <2>1. /\ table' = table /\ UNCHANGED <<overdue, wasted, key>> /\ \A u \in Threads \ {t} : pc'[u] = pc[u]
          /\ pc[t] \in InGetResponse /\ pc'[t] \in InGetResponse
      BY <1>2, InsideMoves DEF GetResponseWrite, requestVars, InGetResponse
    <2>2. \A l \in Keys : Owners(l) \subseteq Owners(l)'
      BY <2>1 DEF Owners, InGetResponse, Registered, HoldsCon
    <2> QED
      BY <2>1, <2>2, WantedStays
  <1>3. CASE GetResponseWriteFails(t)
    <2>1. overdue' = overdue \cup {<<k, ticket[t]>>} /\ wasted' \in {wasted, wasted + 1}
      BY <1>3, PacketAssumption DEF GetResponseWriteFails, Missed
    <2>2. table' = table /\ pc' = [pc EXCEPT ![t] = "g_done"] /\ key' = key
      BY <1>3 DEF GetResponseWriteFails, requestVars
    <2>3. \A l \in Keys \ {k} : table'[l] = table[l] /\ Owners(l) \subseteq Owners(l)'
      BY <1>3, <2>2 DEF GetResponseWriteFails, Owners, InGetResponse, Registered, HoldsCon
    <2> QED
      BY <2>1, <2>3, NotedIsExcused, WantedStays
  <1>4. CASE Collect(t)
    <2>1. /\ overdue \subseteq overdue' /\ wasted' = wasted /\ table' = [table EXCEPT ![k] = None]
          /\ pc' = [pc EXCEPT ![t] = "g_done"] /\ key' = key
      BY <1>4 DEF Collect
    <2>2. \A l \in Keys \ {k} : table'[l] = table[l] /\ Owners(l) \subseteq Owners(l)'
      BY <1>4, <2>1 DEF Owners, InGetResponse, Registered, HoldsCon
    <2> QED
      BY <2>1, <2>2, WantedStays
  <1> QED
    BY <1>1, <1>2, <1>3, <1>4 DEF GetResponse, Inside

(* Every entry has a caller that waits, or a call has failed (NoLeftover).  *)
THEOREM EntriesAreWanted == Spec => []NoLeftover
  <1>1. Init => NoLeftover
    BY DEF Init, NoLeftover
  <1>2. TableInv /\ NoLeftover /\ [Next]_vars => NoLeftover'
    <2> SUFFICES ASSUME TableInv, NoLeftover, [Next]_vars PROVE NoLeftover'
      OBVIOUS
    <2>1. CASE Receive \/ StoreResponse \/ SetReady \/ TunnelLost \/ OtherInterfaces \/ UNCHANGED vars
      <3>1. UNCHANGED <<table, overdue, wasted, pc, key>>
        BY <2>1 DEF Receive, ReceiveMatched, ReceiveUnmatched, StoreResponse, SetReady, TunnelLost, OtherInterfaces, vars, threadVars,
           requestVars, ghostVars
      <3> QED
        BY <3>1 DEF NoLeftover, HasFailed, Owners
    <2> QED
      BY <2>1, Kinds, SendWanted, CallerWanted, GetResponseWanted DEF Next
  <1> QED
    BY <1>1, <1>2, InitTable, TableStep, PTL DEF Spec

-----------------------------------------------------------------------------
(* A sender's Request for a confirmation is registered as one, and as       *)
(* nothing else, and the listener has no other packet for it.               *)
ConOnly ==
  \A t \in Senders : con[t] # None =>
    /\ \A k \in Keys : table[k] = con[t] => k = "CON"
    /\ lpc # "idle" /\ lreq = con[t] => lmsg.key = "CON"

(* A new Request is no sender's, and a new one of a sender is registered    *)
(* once.                                                                   *)
LEMMA RegisterConOnly ==
  ASSUME TypeOK, ConOnly, NEW k \in Keys, Register(k), UNCHANGED listenerVars,
         \/ con' = con
         \/ k = "CON" /\ \E t \in Senders : con' = [con EXCEPT ![t] = NewRequest]
  PROVE  ConOnly'
  <1>1. /\ NewRequest \in Requests /\ NewRequest # lreq
        /\ \A l \in Keys : table[l] # NewRequest /\ \A t \in Threads : con[t] # NewRequest
    BY NewRequestIsUnreferenced, KeyFacts DEF Register, Referenced
  <1>2. table' = [table EXCEPT ![k] = NewRequest] /\ UNCHANGED <<lpc, lreq, lmsg>>
    BY DEF Register, listenerVars
  <1> QED
    BY <1>1, <1>2, Kinds DEF ConOnly, TypeOK, ThreadsTypeOK, TableTypeOK

-----------------------------------------------------------------------------
(* Sequence numbers reach the gateway in the order drawn, for any modulus,  *)
(* any threads and any number of frames.                                    *)

(* A multiple of m that is larger is larger by at least m.                  *)
LEMMA MultiplesApart ==
  ASSUME NEW m \in Nat \ {0}, NEW a \in Nat, NEW b \in Nat, a < b
  PROVE  m * a + m <= m * b
  <1>1. b = (a + 1) + (b - a - 1) /\ b - a - 1 \in Nat
    OBVIOUS
  <1>2. m * b = m * (a + 1) + m * (b - a - 1)
    BY <1>1
  <1>3. m * (b - a - 1) \in Nat
    BY <1>1
  <1> QED
    BY <1>2, <1>3

(* Quotient and remainder are unique.                                       *)
LEMMA RemainderIsUnique ==
  ASSUME NEW x \in Nat, NEW m \in Nat \ {0}, NEW q \in Nat, NEW r \in 0..m-1, x = m * q + r
  PROVE  x % m = r
  <1> DEFINE s == x % m
  <1> DEFINE p == x \div m
  <1>1. x = m * p + s /\ s \in 0..m-1 /\ p \in Nat
    OBVIOUS
  <1> HIDE DEF s, p
  <1>2. m * p \in Nat /\ m * q \in Nat
    BY <1>1
  <1>3. ~(p < q) /\ ~(q < p)
    BY <1>1, <1>2, MultiplesApart
  <1>4. s = r
    BY <1>1, <1>2, <1>3
  <1> QED
    BY <1>4 DEF s

(* Incrementing a uint8_t counts modulo its size.                           *)
LEMMA IncrementCounts ==
  ASSUME NEW n \in Nat
  PROVE  Increment(n % SeqMod) = (n + 1) % SeqMod
  <1> SeqMod \in Nat \ {0}
    BY NumberAssumption
  <1> DEFINE m == SeqMod
  <1> DEFINE r == n % m
  <1> DEFINE q == n \div m
  <1>1. n = m * q + r /\ r \in 0..m-1 /\ q \in Nat
    OBVIOUS
  <1> HIDE DEF r, q
  <1>2. CASE r + 1 = m
    <2>1. n + 1 = m * (q + 1) + 0
      BY <1>1, <1>2
    <2>2. (n + 1) % m = 0
      BY <1>1, <2>1, RemainderIsUnique
    <2>3. (r + 1) % m = 0
      BY <1>2
    <2> QED
      BY <2>2, <2>3 DEF r, Increment
  <1>3. CASE r + 1 < m
    <2>1. n + 1 = m * q + (r + 1)
      BY <1>1
    <2>2. (n + 1) % m = r + 1
      BY <1>1, <1>3, <2>1, RemainderIsUnique
    <2>3. (r + 1) % m = r + 1
      BY <1>1, <1>3
    <2> QED
      BY <2>2, <2>3 DEF r, Increment
  <1> QED
    BY <1>1, <1>2, <1>3

-----------------------------------------------------------------------------
(* How many numbers were drawn and are on the wire or wasted.               *)
Spent == Len(wire) + wasted
(* Who has drawn a number and has not written it; who has read it only.     *)
HasDrawn(t) == t \in Tunnellers /\ pc[t] \in {"g_mutex", "g_lock", "g_write"}
HasRead(t) == t \in Relays /\ pc[t] = "r_inc"

(* The counter is one ahead of what was spent while a number is drawn and   *)
(* not written, and the frame has that number.                              *)
Counted ==
  /\ \A t \in Threads : HasDrawn(t) => frame[t] = Spent % SeqMod
  /\ \A t \in Threads : HasRead(t) => frame[t] = Spent % SeqMod
  /\ seq = (IF \E t \in Threads : HasDrawn(t) THEN Spent + 1 ELSE Spent) % SeqMod

(* Whoever has drawn or read a number holds _sendPacketMutex.               *)
LEMMA DrawnByHolder ==
  ASSUME TableInv, NEW t \in Threads, HasDrawn(t) \/ HasRead(t)
  PROVE  sendMutex = t
  BY Kinds DEF TableInv, MutexOwners, HasDrawn, HasRead, Tunnellers, Registered, HoldsCon, InGetResponse

(* Nothing was drawn or written: the count stays when no thread is in the   *)
(* middle of it that was not before.                                       *)
LEMMA CountStays ==
  ASSUME Counted, UNCHANGED <<seq, wire, wasted>>,
         \A t \in Threads : /\ HasDrawn(t)' <=> HasDrawn(t)
                            /\ HasRead(t)' => frame'[t] = Spent % SeqMod
                            /\ HasDrawn(t) => frame'[t] = frame[t]
  PROVE  Counted'
  BY DEF Counted, Spent

(* A thread draws the next number, and has it in its frame or has wasted it.*)
LEMMA DrawStep ==
  ASSUME TableInv, Counted, NEW t \in Tunnellers, sendMutex = t, ~HasDrawn(t),
         seq' = Increment(seq), wire' = wire,
         \A u \in Threads \ {t} : pc'[u] = pc[u],
         ~HasRead(t)',
         \/ HasDrawn(t)' /\ wasted' = wasted /\ frame'[t] = seq
         \/ ~HasDrawn(t)' /\ wasted' = wasted + 1
  PROVE  Counted'
  <1>1. Spent \in Nat
    BY DEF Spent, TableInv, TypeOK, CountersTypeOK
  <1>2. \A u \in Threads : ~HasDrawn(u)
    BY DrawnByHolder
  <1>3. seq = Spent % SeqMod
    BY <1>2 DEF Counted
  <1>4. seq' = (Spent + 1) % SeqMod
    BY <1>1, <1>3, IncrementCounts
  <1>5. \A u \in Threads \ {t} : ~HasDrawn(u)' /\ ~HasRead(u)'
    BY <1>2, DrawnByHolder DEF HasDrawn, HasRead
  <1>6. t \in Threads
    BY Kinds DEF Tunnellers
  <1>7. CASE HasDrawn(t)' /\ wasted' = wasted /\ frame'[t] = seq
    BY <1>3, <1>4, <1>5, <1>6, <1>7 DEF Counted, Spent
  <1>8. CASE ~HasDrawn(t)' /\ wasted' = wasted + 1
    <2>1. Spent' = Spent + 1
      BY <1>8 DEF Spent, TableInv, TypeOK, CountersTypeOK
    <2> QED
      BY <1>4, <1>5, <1>6, <1>8, <2>1 DEF Counted
  <1> QED
    BY <1>7, <1>8

(* A number that was drawn is written, or wasted because the write fails.   *)
LEMMA SpendStep ==
  ASSUME TableInv, Counted, NEW t \in Threads, HasDrawn(t), ~HasDrawn(t)', ~HasRead(t)',
         seq' = seq, \A u \in Threads \ {t} : pc'[u] = pc[u],
         Spent' = Spent + 1
  PROVE  Counted'
  <1>1. \A u \in Threads \ {t} : ~HasDrawn(u) /\ ~HasRead(u)
    BY DrawnByHolder
  <1>2. \A u \in Threads : ~HasDrawn(u)' /\ ~HasRead(u)'
    BY <1>1 DEF HasDrawn, HasRead
  <1>3. seq = (Spent + 1) % SeqMod
    BY DEF Counted
  <1> QED
    BY <1>2, <1>3 DEF Counted

(* Every step of sendPacket keeps count ...                                 *)
LEMMA SendCounted ==
  ASSUME TableInv, Counted, NEW t \in Senders, Send(t)
  PROVE  Counted'
  <1> t \in Threads /\ t \in Tunnellers /\ t \notin Relays
    BY Kinds DEF Tunnellers
  <1> USE DEF HasDrawn, HasRead
  <1>1. CASE SendBuild(t) \/ SendOversize(t)
    <2>1. sendMutex = t /\ pc[t] = "s_lock"
      BY <1>1 DEF TableInv, MutexOwners, Registered, SendBuild, SendOversize
    <2>2. /\ seq' = Increment(seq) /\ wire' = wire /\ \A u \in Threads \ {t} : pc'[u] = pc[u]
          /\ \/ pc'[t] = "g_mutex" /\ wasted' = wasted /\ frame'[t] = seq
             \/ pc'[t] \in {"g_done", "idle"} /\ wasted' = wasted + 1
      BY <1>1 DEF SendBuild, SendOversize, EnterGetResponse, Return, TableInv, TypeOK, ThreadsTypeOK
    <2> QED
      BY <2>1, <2>2, DrawStep
  <1>2. CASE ~SendBuild(t) /\ ~SendOversize(t)
    <2>1. UNCHANGED <<seq, wire, wasted>> /\ \A u \in Threads \ {t} : pc'[u] = pc[u] /\ frame'[u] = frame[u]
      BY <1>2 DEF Send, SendStart, SendRegister, SendRegisterUnlocked, SendAcked, SendFailed, SendConfirmed,
         TakeConfirmation, SendUnconfirmed, Return, ghostVars, TableInv, TypeOK, ThreadsTypeOK
    <2>2. ~HasDrawn(t) /\ ~HasDrawn(t)'
      BY <1>2 DEF Send, SendStart, SendRegister, SendRegisterUnlocked, SendAcked, SendFailed, SendConfirmed,
         TakeConfirmation, SendUnconfirmed, Return, TableInv, TypeOK, ThreadsTypeOK
    <2> QED
      BY <2>1, <2>2, CountStays DEF Counted
  <1> QED
    BY <1>1, <1>2

(* ... and of the relay, which draws in two steps ...                       *)
LEMMA RelayCounted ==
  ASSUME TableInv, Counted, NEW t \in Relays, Relay(t)
  PROVE  Counted'
  <1> t \in Threads /\ t \in Tunnellers
    BY Kinds DEF Tunnellers
  <1> USE DEF HasDrawn, HasRead
  <1>1. CASE RelayIncrement(t)
    <2>1. sendMutex = t /\ pc[t] = "r_inc"
      BY <1>1 DEF TableInv, MutexOwners, RelayIncrement
    <2>2. frame[t] = seq
      <3>1. \A u \in Threads : ~HasDrawn(u)
        BY <2>1, DrawnByHolder
      <3> QED
        BY <2>1, <3>1 DEF Counted
    <2>3. /\ seq' = Increment(seq) /\ wire' = wire /\ \A u \in Threads \ {t} : pc'[u] = pc[u]
          /\ \/ pc'[t] = "g_mutex" /\ wasted' = wasted /\ frame'[t] = seq
             \/ pc'[t] = "g_done" /\ wasted' = wasted + 1
      BY <1>1, <2>2 DEF RelayIncrement, EnterGetResponse, TableInv, TypeOK, ThreadsTypeOK
    <2> QED
      BY <2>1, <2>3, DrawStep
  <1>2. CASE ~RelayIncrement(t)
    <2>1. UNCHANGED <<seq, wire, wasted>> /\ \A u \in Threads \ {t} : pc'[u] = pc[u] /\ frame'[u] = frame[u]
      BY <1>2 DEF Relay, RelayStart, RelayLock, RelayEnter, RelayReadSequence, RelayDone, Return, ghostVars,
         TableInv, TypeOK, ThreadsTypeOK
    <2>2. ~HasDrawn(t) /\ ~HasDrawn(t)'
      BY <1>2 DEF Relay, RelayStart, RelayLock, RelayEnter, RelayReadSequence, RelayDone, Return, TableInv, TypeOK,
         ThreadsTypeOK
    <2>3. HasRead(t)' => frame'[t] = seq /\ sendMutex = t
      BY <1>2 DEF Relay, RelayStart, RelayLock, RelayEnter, RelayReadSequence, RelayDone, Return, TableInv, TypeOK,
         ThreadsTypeOK, MutexOwners
    <2>4. HasRead(t)' => \A u \in Threads : ~HasDrawn(u)
      BY <2>2, <2>3, DrawnByHolder
    <2>5. HasRead(t)' => frame'[t] = Spent % SeqMod
      BY <2>3, <2>4 DEF Counted
    <2> QED
      BY <2>1, <2>2, <2>5, CountStays DEF Counted
  <1> QED
    BY <1>1, <1>2

(* ... and of getResponse, which writes the frame.                          *)
LEMMA GetResponseCounted ==
  ASSUME TableInv, Counted, NEW t \in Threads, GetResponse(t)
  PROVE  Counted'
  <1> USE Kinds DEF HasDrawn, HasRead
  <1>0. \A u \in Threads \ {t} : pc'[u] = pc[u]
    BY DEF GetResponse, GetResponseRegister, GetResponseRegisterUnlocked, GetResponseWrite, GetResponseWriteFails,
       GetResponseLock, GetResponseWake, GetResponseTimeout, GetResponseCount, Collect, TableInv, TypeOK, ThreadsTypeOK
  <1>1. CASE GetResponseWrite(t) \/ GetResponseWriteFails(t)
    <2>1. seq' = seq /\ frame' = frame /\ pc[t] = "g_write" /\ pc'[t] \in {"g_wait", "g_awake", "g_done"}
      BY <1>1 DEF GetResponseWrite, GetResponseWriteFails, TableInv, TypeOK, ThreadsTypeOK
    <2>2. CASE t \in Tunnellers
      <3>1. \/ wire' = Append(wire, frame[t]) /\ wasted' = wasted
            \/ wire' = wire /\ wasted' = wasted + 1
        BY <1>1, <2>2 DEF GetResponseWrite, GetResponseWriteFails, ghostVars
      <3>2. frame[t] \in 0..SeqMod-1 /\ wire \in Seq(0..SeqMod-1) /\ wasted \in Nat
        BY DEF TableInv, TypeOK, ThreadsTypeOK, CountersTypeOK
      <3>3. Len(Append(wire, frame[t])) = Len(wire) + 1 /\ Len(wire) \in Nat
        BY <3>2
      <3>4. Spent' = Spent + 1
        BY <3>1, <3>2, <3>3, SMTT(40) DEF Spent
      <3> QED
        BY <1>0, <2>1, <2>2, <3>4, SpendStep
    <2>3. CASE t \notin Tunnellers
      <3>1. UNCHANGED <<wire, wasted>>
        BY <1>1, <2>3 DEF GetResponseWrite, GetResponseWriteFails, ghostVars
      <3> QED
        BY <1>0, <2>1, <2>3, <3>1, CountStays DEF Counted, Tunnellers
    <2> QED
      BY <2>2, <2>3
  <1>2. CASE GetResponseRegister(t) \/ Collect(t) \/ Inside(t)
    <2>1. /\ UNCHANGED <<seq, wire, wasted, frame>>
          /\ \/ pc[t] = "g_mutex" /\ pc'[t] = "g_lock"
             \/ pc[t] = "g_lock" /\ pc'[t] = "g_write"
             \/ pc[t] \in {"g_wait", "g_count", "g_awake"} /\ pc'[t] \in {"g_count", "g_awake", "g_done"}
      BY <1>2, InsideMoves DEF GetResponseRegister, GetResponseRegisterUnlocked, Collect, ghostVars, TableInv, TypeOK, ThreadsTypeOK
    <2> QED
      BY <1>0, <2>1, CountStays DEF Counted
  <1> QED
    BY <1>1, <1>2 DEF GetResponse, Inside

(* Sequence numbers are written in the order drawn, none twice and none     *)
(* skipped but the wasted ones (FramesInOrder).                             *)
THEOREM FramesAreInOrder == Spec => FramesInOrder
  <1>1. Init => Counted
    <2>1. Init => Spent = 0 /\ seq = 0
      BY DEF Init, Spent
    <2>2. 0 % SeqMod = 0
      BY NumberAssumption
    <2>3. Init => \A t \in Threads : ~HasDrawn(t) /\ ~HasRead(t)
      BY DEF Init, HasDrawn, HasRead
    <2> QED
      BY <2>1, <2>2, <2>3 DEF Counted
  <1>2. TableInv /\ Counted /\ [Next]_vars => Counted'
    <2> SUFFICES ASSUME TableInv, Counted, [Next]_vars PROVE Counted'
      OBVIOUS
    <2>1. ASSUME NEW t \in Queriers, Query(t) PROVE Counted'
      <3>1. UNCHANGED <<seq, wire, wasted>> /\ t \notin Tunnellers /\ t \notin Relays
            /\ \A u \in Threads \ {t} : pc'[u] = pc[u] /\ frame'[u] = frame[u]
        BY <2>1, Kinds DEF Query, QueryStart, QueryDone, EnterGetResponse, Return, ghostVars, Tunnellers,
           TableInv, TypeOK, ThreadsTypeOK
      <3> QED
        BY <3>1, CountStays DEF Counted, HasDrawn, HasRead
    <2>2. CASE Receive \/ StoreResponse \/ SetReady \/ TunnelLost \/ OtherInterfaces \/ UNCHANGED vars
      <3>1. UNCHANGED <<seq, wire, wasted, pc, frame>>
        BY <2>2 DEF Receive, ReceiveMatched, ReceiveUnmatched, StoreResponse, SetReady, TunnelLost, OtherInterfaces, vars, threadVars,
           ghostVars
      <3> QED
        BY <3>1, CountStays DEF Counted, HasDrawn, HasRead
    <2> QED
      BY <2>1, <2>2, SendCounted, RelayCounted, GetResponseCounted DEF Next
  <1>3. TableInv /\ Counted /\ [Next]_vars =>
          [wire' # wire => wire' = Append(wire, (Len(wire) + wasted) % SeqMod)]_vars
    <2> SUFFICES ASSUME TableInv, Counted, Next, wire' # wire
                 PROVE  wire' = Append(wire, (Len(wire) + wasted) % SeqMod)
      OBVIOUS
    <2>1. PICK t \in Threads : GetResponseWrite(t)
      BY DEF Next, Send, SendStart, SendRegister, SendRegisterUnlocked, SendBuild, SendOversize, SendAcked,
         SendFailed, SendConfirmed, TakeConfirmation, SendUnconfirmed, Relay, RelayStart, RelayLock, RelayEnter,
         RelayReadSequence, RelayIncrement, RelayDone, Query, QueryStart, QueryDone, GetResponse,
         GetResponseRegister, GetResponseRegisterUnlocked, GetResponseWriteFails, GetResponseLock, GetResponseWake,
         GetResponseTimeout, GetResponseCount, Collect, Receive, ReceiveMatched, ReceiveUnmatched, StoreResponse, SetReady,
         TunnelLost, OtherInterfaces, ghostVars
    <2>2. HasDrawn(t) /\ wire' = Append(wire, frame[t])
      BY <2>1 DEF GetResponseWrite, HasDrawn
    <2> QED
      BY <2>2 DEF Counted, Spent
  <1> QED
    BY <1>1, <1>2, <1>3, InitTable, TableStep, PTL DEF Spec, FramesInOrder

-----------------------------------------------------------------------------
(* A thread has an outcome only between getResponse and its caller.         *)
OutcomeIsFresh == \A t \in Threads : got[t] # None => pc[t] = "g_done"

SlotInv == TableInv /\ ReadyInv /\ OwnRequests /\ OutcomeIsFresh

(* What the table is seen as.                                              *)
SlotsNow == [k \in Keys |-> SlotOf(k)]

-----------------------------------------------------------------------------
(* A thread that waits for a service type is alone with it, and the entry   *)
(* leads to a Request.                                                     *)
LEMMA OwnerAlone ==
  ASSUME TableInv, NEW k \in Keys, NEW t \in Owners(k)
  PROVE  Owners(k) = {t} /\ table[k] \in Requests /\ table[k] # None
  <1> USE Kinds, KeyFacts DEF TableInv, MutexOwners, LiveEntry, TypeOK, ThreadsTypeOK, Owners
  <1>1. CASE k = "CON"
    <2>1. \A u \in Owners(k) : u \in Senders /\ sendMutex = u /\ pc[u] \in Registered
      BY <1>1
    <2> QED
      BY <1>1, <2>1, NoneAssumption
  <1>2. CASE k # "CON"
    <2>1. \A u \in Owners(k) : u \in Threads /\ respMutex = u /\ pc[u] \in InGetResponse /\ key[u] = k
      BY <1>2
    <2> QED
      BY <1>2, <2>1, NoneAssumption
  <1> QED
    BY <1>1, <1>2

(* A slot stays as it is when its owners, its entry, its packet and what    *)
(* the listener has for it do.                                             *)
LEMMA SameSlot ==
  ASSUME NEW k \in Keys, Owners(k)' = Owners(k),
         \/ Owners(k) = {}
         \/ /\ table'[k] = table[k] /\ response'[table[k]] = response[table[k]]
            /\ lpc' = "write" /\ lreq' = table[k] <=> lpc = "write" /\ lreq = table[k]
            /\ lpc = "write" /\ lreq = table[k] => lmsg' = lmsg
  PROVE  SlotOf(k)' = SlotOf(k)
  BY DEF SlotOf

LEMMA SameSlots ==
  ASSUME \A k \in Keys : SlotOf(k)' = SlotOf(k)
  PROVE  SlotsNow' = SlotsNow
  BY DEF SlotsNow

(* A slot without owners is empty.                                         *)
LEMMA VacantSlot ==
  ASSUME NEW k \in Keys
  PROVE  /\ Owners(k) = {} => SlotOf(k) = Slots!Empty
         /\ SlotOf(k).owners = Owners(k)
  BY DEF SlotOf, Slots!Empty, Slots!Slot

-----------------------------------------------------------------------------
(* Steps that only move a thread, without an entry or an outcome, leave the  *)
(* slots as they are.                                                      *)
LEMMA QuietOwners ==
  ASSUME SlotInv, NEW t \in Threads, \/ t \in Senders /\ (SendStart(t) \/ SendBuild(t))
                                     \/ t \in Relays /\ Relay(t) /\ ~RelayDone(t)
                                     \/ t \in Queriers /\ QueryStart(t)
                                     \/ GetResponseWrite(t) \/ Inside(t)
  PROVE  /\ \A k \in Keys : Owners(k)' = Owners(k)
         /\ UNCHANGED <<table, response, lpc, lreq, lmsg, got>>
  <1>1. UNCHANGED <<table, response, lpc, lreq, lmsg, got>>
    BY InsideMoves DEF SendStart, SendBuild, Relay, RelayStart, RelayLock, RelayEnter, RelayReadSequence,
           RelayIncrement, QueryStart, GetResponseWrite, requestVars, listenerVars
  <1>2. /\ \A u \in Threads \ {t} : pc'[u] = pc[u] /\ key'[u] = key[u]
        /\ pc'[t] \in InGetResponse <=> pc[t] \in InGetResponse
        /\ pc[t] \in InGetResponse => key'[t] = key[t]
        /\ t \in Senders => (pc'[t] \in Registered <=> pc[t] \in Registered)
    BY Kinds, InsideMoves DEF SendStart, SendBuild, Relay, RelayStart, RelayLock, RelayEnter, RelayReadSequence, RelayIncrement,
           QueryStart, GetResponseWrite, EnterGetResponse, SlotInv, TableInv, TypeOK, ThreadsTypeOK,
           InGetResponse, Registered, HoldsCon
  <1> QED
    BY <1>1, <1>2, Kinds DEF Owners

LEMMA QuietStep ==
  ASSUME \A k \in Keys : Owners(k)' = Owners(k), UNCHANGED <<table, response, lpc, lreq, lmsg, got>>
  PROVE  UNCHANGED <<SlotsNow, got>>
  BY SameSlot, SameSlots

-----------------------------------------------------------------------------
(* Registering a Request under k, by a thread t that then is the only one   *)
(* that waits for k, claims the slot.                                      *)
LEMMA ClaimStep ==
  ASSUME SlotInv, NEW t \in Threads, NEW k \in Keys, Register(k),
         Owners(k) = {}, Owners(k)' = {t}, \A l \in Keys \ {k} : Owners(l)' = Owners(l),
         UNCHANGED <<listenerVars, got>>
  PROVE  Slots!Claim(t, k)
  <1>1. NewRequest \in Requests /\ \A l \in Keys : table[l] # NewRequest
    BY NewRequestIsUnreferenced DEF Register, Referenced
  <1>2. NewRequest # lreq
    BY NewRequestIsUnreferenced DEF Register, Referenced
  <1>3. ASSUME NEW l \in Keys \ {k} PROVE SlotOf(l)' = SlotOf(l)
    <2>1. Owners(l)' = Owners(l) /\ table'[l] = table[l] /\ UNCHANGED <<lpc, lreq, lmsg>>
      BY DEF Register, SlotInv, TableInv, TypeOK, TableTypeOK, listenerVars
    <2>2. response'[table[l]] = response[table[l]] \/ Owners(l) = {}
      BY <1>1, OwnerAlone DEF Register, SlotInv, TableInv, TypeOK, TableTypeOK
    <2> QED
      BY <2>1, <2>2, SameSlot
  <1>4. SlotOf(k)' = [owners |-> {t}, packet |-> None, incoming |-> None]
    <2>1. table'[k] = NewRequest /\ response'[NewRequest] = None /\ lreq' # NewRequest
      BY <1>1, <1>2 DEF Register, SlotInv, TableInv, TypeOK, TableTypeOK, listenerVars
    <2>2. SlotOf(k)' = [owners |-> {t}, packet |-> None, incoming |-> None]
      BY <2>1 DEF SlotOf
    <2> QED
      BY <2>2
  <1>5. SlotsNow[k] = Slots!Empty
    BY VacantSlot DEF SlotsNow
  <1>6. SlotsNow' = [SlotsNow EXCEPT ![k] = [owners |-> {t}, packet |-> None, incoming |-> None]]
    BY <1>3, <1>4 DEF SlotsNow
  <1> QED
    BY <1>5, <1>6 DEF Slots!Claim, Slots!Slot, SlotsNow

LEMMA SendRegisterStep ==
  ASSUME SlotInv, NEW t \in Senders, SendRegister(t)
  PROVE  Slots!Claim(t, "CON")
  <1> USE Kinds, KeyFacts DEF SlotInv, TableInv, MutexOwners, TypeOK, ThreadsTypeOK
  <1>1. Register("CON") /\ UNCHANGED <<listenerVars, got>>
    BY DEF SendRegister, SendRegisterUnlocked
  <1>2. \A u \in Senders : pc[u] \notin Registered
    BY DEF SendRegister
  <1>3. /\ \A u \in Threads : key'[u] = key[u] /\ (u # t => pc'[u] = pc[u])
        /\ pc[t] = "s_mutex" /\ pc'[t] = "s_lock"
    BY DEF SendRegister, SendRegisterUnlocked
  <1>4. Owners("CON") = {} /\ Owners("CON")' = {t}
    BY <1>2, <1>3 DEF Owners, InGetResponse, Registered, HoldsCon
  <1>5. \A l \in Keys \ {"CON"} : Owners(l)' = Owners(l)
    BY <1>3 DEF Owners, InGetResponse
  <1> QED
    BY <1>1, <1>4, <1>5, ClaimStep

LEMMA GetResponseRegisterStep ==
  ASSUME SlotInv, NEW t \in Threads, GetResponseRegister(t)
  PROVE  \E k \in Keys : Slots!Claim(t, k)
  <1> USE Kinds, KeyFacts DEF SlotInv, TableInv, MutexOwners, TypeOK, ThreadsTypeOK
  <1> PICK k \in Keys \ {"CON"} : k = key[t]
    OBVIOUS
  <1>1. Register(k) /\ UNCHANGED <<listenerVars, got>>
    BY DEF GetResponseRegister, GetResponseRegisterUnlocked, Register
  <1>2. \A u \in Threads : pc[u] \notin InGetResponse
    BY DEF GetResponseRegister
  <1>3. /\ \A u \in Threads : key'[u] = key[u] /\ (u # t => pc'[u] = pc[u])
        /\ pc[t] = "g_mutex" /\ pc'[t] = "g_lock"
    BY DEF GetResponseRegister, GetResponseRegisterUnlocked
  <1>4. Owners(k) = {} /\ Owners(k)' = {t}
    BY <1>2, <1>3 DEF Owners, InGetResponse
  <1>5. \A l \in Keys \ {k} : Owners(l)' = Owners(l)
    BY <1>2, <1>3 DEF Owners, InGetResponse, Registered, HoldsCon
  <1> QED
    BY <1>1, <1>4, <1>5, ClaimStep

-----------------------------------------------------------------------------
(* A thread that waits for k stops waiting, with one of the things it can   *)
(* find in the slot.                                                       *)
LEMMA LeaveStep ==
  ASSUME SlotInv, NEW t \in Threads, NEW k \in Keys, Owners(k) = {t}, Owners(k)' = {},
         \A l \in Keys \ {k} : Owners(l)' = Owners(l) /\ table'[l] = table[l],
         UNCHANGED <<response, lpc, lreq, lmsg>>,
         NEW v \in {None} \cup Copy(table[k]), got' = [got EXCEPT ![t] = v]
  PROVE  Slots!Leave(t, k)
  <1>1. ASSUME NEW l \in Keys \ {k} PROVE SlotOf(l)' = SlotOf(l)
    BY <1>1, SameSlot
  <1>2. SlotOf(k)' = Slots!Empty
    BY DEF SlotOf, Slots!Empty, Slots!Slot
  <1>3. SlotsNow' = [SlotsNow EXCEPT ![k] = Slots!Empty]
    BY <1>1, <1>2 DEF SlotsNow
  <1>4. SlotOf(k).owners = {t} /\ v \in {None, SlotOf(k).packet}
          \cup (IF SlotOf(k).incoming = None THEN {} ELSE {SlotOf(k).incoming, Torn})
    <2>1. lpc = "write" => lmsg # None
      BY PacketAssumption DEF SlotInv, ReadyInv, ListenerState
    <2> QED
      BY <2>1 DEF SlotOf, Copy
  <1> QED
    BY <1>3, <1>4 DEF Slots!Leave, Slots!Found, SlotsNow

LEMMA CollectStep ==
  ASSUME SlotInv, NEW t \in Threads, Collect(t) \/ GetResponseWriteFails(t)
  PROVE  \E k \in Keys : Slots!Leave(t, k)
  <1> USE Kinds, KeyFacts DEF SlotInv, TableInv, TypeOK, ThreadsTypeOK, TableTypeOK
  <1> PICK k \in Keys \ {"CON"} : k = key[t]
    OBVIOUS
  <1>1. pc[t] \in InGetResponse /\ Owners(k) = {t} /\ table[k] = cur[t]
    <2>1. pc[t] \in InGetResponse
      BY DEF Collect, GetResponseWriteFails, InGetResponse
    <2>2. t \in Owners(k)
      BY <2>1 DEF Owners
    <2> QED
      BY <2>1, <2>2, OwnerAlone DEF LiveEntry
  <1>2. /\ \A u \in Threads : key'[u] = key[u] /\ (u # t => pc'[u] = pc[u])
        /\ pc'[t] = "g_done"
    BY DEF Collect, GetResponseWriteFails
  <1>3. Owners(k)' = {}
    BY <1>1, <1>2 DEF Owners, InGetResponse
  <1>4. \A l \in Keys \ {k} : Owners(l)' = Owners(l) /\ table'[l] = table[l]
    BY <1>1, <1>2 DEF Owners, InGetResponse, Registered, HoldsCon, Collect, GetResponseWriteFails, requestVars
  <1>5. UNCHANGED <<response, lpc, lreq, lmsg>>
    BY DEF Collect, GetResponseWriteFails, requestVars, listenerVars
  <1>6. \E v \in {None} \cup Copy(table[k]) : got' = [got EXCEPT ![t] = v]
    <2>1. CASE Collect(t)
      BY <1>1, <2>1 DEF Collect
    <2>2. CASE GetResponseWriteFails(t)
      BY <2>2 DEF GetResponseWriteFails, OutcomeIsFresh
    <2> QED
      BY <2>1, <2>2
  <1> QED
    BY <1>1, <1>3, <1>4, <1>5, <1>6, LeaveStep

(* A call that returns forgets the outcome and leaves the slot of its       *)
(* confirmation, if it has one.                                            *)
LEMMA ReturnStep ==
  ASSUME SlotInv, NEW t \in Threads, Return(t), pc[t] \notin InGetResponse,
         table' \in {table, [table EXCEPT !["CON"] = None]},
         table' = table \/ (t \in Senders /\ pc[t] \in Registered),
         UNCHANGED <<response, lpc, lreq, lmsg>>
  PROVE  Slots!Forget(t)
  <1> USE Kinds, KeyFacts DEF SlotInv, TableInv, TypeOK, ThreadsTypeOK, TableTypeOK
  <1>1. /\ \A u \in Threads \ {t} : key'[u] = key[u] /\ pc'[u] = pc[u]
        /\ pc'[t] = "idle" /\ got' = [got EXCEPT ![t] = None]
    BY DEF Return
  <1>2. \A k \in Keys : Owners(k)' = Owners(k) \ {t}
    BY <1>1 DEF Owners, InGetResponse, Registered, HoldsCon
  <1>3. \A k \in Keys \ {"CON"} : t \notin Owners(k)
    BY DEF Owners
  <1>4. ASSUME NEW k \in Keys, t \notin Owners(k)
        PROVE  SlotOf(k)' = SlotOf(k)
    <2>1. Owners(k)' = Owners(k)
      <3>1. Owners(k)' = Owners(k) \ {t}
        BY <1>2
      <3>2. Owners(k) \ {t} = Owners(k)
        BY <1>4
      <3> QED
        BY <3>1, <3>2
    <2>2. table'[k] = table[k]
      BY <1>4 DEF Owners
    <2> QED
      BY <2>1, <2>2, SameSlot
  <1>5. ASSUME NEW k \in Keys, t \in Owners(k)
        PROVE  SlotOf(k)' = Slots!Empty /\ Owners(k) = {t}
    <2>1. Owners(k) = {t} /\ Owners(k)' = {}
      BY <1>2, <1>5, OwnerAlone
    <2> QED
      BY <2>1 DEF SlotOf, Slots!Empty, Slots!Slot
  <1>6. \A k \in Keys : SlotOf(k)' = IF SlotOf(k).owners = {t} THEN Slots!Empty ELSE SlotOf(k)
    BY <1>4, <1>5, VacantSlot
  <1>7. SlotsNow' = [k \in Keys |-> IF SlotsNow[k].owners = {t} THEN Slots!Empty ELSE SlotsNow[k]]
    BY <1>6 DEF SlotsNow
  <1> QED
    BY <1>1, <1>7 DEF Slots!Forget, SlotsNow

(* The acknowledgement has been looked at.                                  *)
LEMMA AckedStep ==
  ASSUME SlotInv, NEW t \in Senders, SendAcked(t)
  PROVE  Slots!Forget(t)
  <1> USE Kinds, KeyFacts DEF SlotInv, TableInv, TypeOK, ThreadsTypeOK
  <1>1. /\ \A u \in Threads : key'[u] = key[u] /\ (u # t => pc'[u] = pc[u])
        /\ pc[t] = "g_done" /\ pc'[t] = "s_wait" /\ got' = [got EXCEPT ![t] = None]
        /\ UNCHANGED <<table, response, lpc, lreq, lmsg>>
    BY DEF SendAcked, requestVars, listenerVars
  <1>2. \A k \in Keys : Owners(k)' = Owners(k)
    BY <1>1 DEF Owners, InGetResponse, Registered, HoldsCon
  <1>3. SlotsNow' = SlotsNow
    BY <1>1, <1>2, SameSlot, SameSlots
  <1> QED
    BY <1>1, <1>3 DEF Slots!Forget, SlotsNow

(* The listener takes a packet for a Request: it comes into the slot whose  *)
(* entry leads there, if somebody still waits.                             *)
LEMMA ReceiveStep ==
  ASSUME SlotInv, NEW m \in inflight, ReceiveMatched(m)
  PROVE  Slots!Receive(m.key) \/ UNCHANGED <<SlotsNow, got>>
  <1> DEFINE k == m.key
  <1> USE DEF SlotInv, TableInv, TypeOK, TableTypeOK
  <1>1. m \in Packet /\ k \in Keys
    BY DEF Packet
  <1>2. /\ UNCHANGED <<table, response, got>> /\ \A l \in Keys : Owners(l)' = Owners(l)
        /\ lpc = "idle" /\ lpc' = "write" /\ lreq' = table[k] /\ lmsg' = m /\ table[k] # None
    BY DEF ReceiveMatched, threadVars, requestVars, Owners
  <1>3. ASSUME NEW l \in Keys, l # k \/ Owners(l) = {} PROVE SlotOf(l)' = SlotOf(l)
    <2>1. CASE Owners(l) = {}
      BY <1>2, <2>1, SameSlot
    <2>2. CASE Owners(l) # {}
      <3>1. table[l] # None
        BY <2>2, OwnerAlone
      <3>2. table[l] # table[k]
        BY <1>1, <1>3, <2>2, <3>1 DEF OwnRequests
      <3> QED
        BY <1>2, <3>2, SameSlot
    <2> QED
      BY <2>1, <2>2
  <1>4. CASE Owners(k) = {}
    <2>1. \A l \in Keys : SlotOf(l)' = SlotOf(l)
      BY <1>3, <1>4
    <2> QED
      BY <1>2, <2>1, SameSlots
  <1>5. CASE Owners(k) # {}
    <2>1. SlotOf(k)' = Slots!Slot(SlotOf(k).owners, SlotOf(k).packet, m)
      BY <1>1, <1>2, <1>5 DEF SlotOf, Slots!Slot
    <2>2. SlotsNow' = [SlotsNow EXCEPT ![k] = Slots!Slot(SlotsNow[k].owners, SlotsNow[k].packet, m)]
      BY <1>1, <1>3, <2>1 DEF SlotsNow
    <2>3. SlotsNow'[k].incoming = m
      BY <1>1, <2>1 DEF SlotsNow, Slots!Slot
    <2>4. SlotsNow[k].owners # {}
      BY <1>1, <1>5, VacantSlot DEF SlotsNow
    <2> QED
      BY <1>1, <1>2, <2>2, <2>3, <2>4 DEF Slots!Receive, SlotsNow
  <1> QED
    BY <1>4, <1>5

(* It stores the packet, which by then may be nobody's.                     *)
LEMMA StoreStep ==
  ASSUME SlotInv, StoreResponse
  PROVE  (\E k \in Keys : Slots!Store(k)) \/ UNCHANGED <<SlotsNow, got>>
  <1> USE DEF SlotInv, TableInv, TypeOK, TableTypeOK
  <1>1. /\ UNCHANGED <<table, got>> /\ \A l \in Keys : Owners(l)' = Owners(l)
        /\ lpc = "write" /\ lpc' = "lock" /\ response' = [response EXCEPT ![lreq] = lmsg]
        /\ UNCHANGED <<lreq, lmsg>>
    BY DEF StoreResponse, threadVars, Owners
  <1>2. lmsg # None /\ lreq \in Requests
    BY <1>1, PacketAssumption DEF ReadyInv, ListenerState
  <1>3. ASSUME NEW l \in Keys, Owners(l) = {} \/ table[l] # lreq PROVE SlotOf(l)' = SlotOf(l)
    <2>1. CASE Owners(l) = {}
      BY <1>1, <2>1, SameSlot
    <2>2. CASE Owners(l) # {}
      <3>1. table[l] \in Requests /\ table[l] # lreq
        BY <1>3, <2>2, OwnerAlone
      <3> QED
        BY <1>1, <1>2, <3>1, SameSlot
    <2> QED
      BY <2>1, <2>2
  <1>4. CASE \A l \in Keys : Owners(l) = {} \/ table[l] # lreq
    BY <1>1, <1>3, <1>4, SameSlots
  <1>5. ASSUME NEW k \in Keys, Owners(k) # {}, table[k] = lreq PROVE Slots!Store(k)
    <2>1. \A l \in Keys \ {k} : SlotOf(l)' = SlotOf(l)
      BY <1>2, <1>3, <1>5, NoneAssumption DEF OwnRequests
    <2>2. SlotOf(k).incoming = lmsg /\ SlotOf(k)' = Slots!Slot(SlotOf(k).owners, lmsg, None)
      BY <1>1, <1>2, <1>5 DEF SlotOf, Slots!Slot
    <2>3. SlotsNow' = [SlotsNow EXCEPT ![k] = Slots!Slot(SlotsNow[k].owners, SlotsNow[k].incoming, None)]
      BY <2>1, <2>2 DEF SlotsNow
    <2> QED
      BY <1>1, <1>2, <2>2, <2>3 DEF Slots!Store, SlotsNow
  <1> QED
    BY <1>4, <1>5

(* It marks the Request as ready; what else happens to the tunnel.          *)
LEMMA OtherStep ==
  ASSUME SlotInv, SetReady \/ TunnelLost \/ OtherInterfaces \/ UNCHANGED vars \/ \E m \in inflight : ReceiveUnmatched(m)
  PROVE  UNCHANGED <<SlotsNow, got>>
  <1>1. /\ UNCHANGED <<table, response, got>> /\ \A l \in Keys : Owners(l)' = Owners(l)
        /\ UNCHANGED <<lpc, lreq, lmsg>> \/ (lpc # "write" /\ lpc' # "write")
    BY DEF SetReady, TunnelLost, OtherInterfaces, ReceiveUnmatched, vars, threadVars, requestVars, listenerVars, Owners
  <1> QED
    BY <1>1, SameSlot, SameSlots

-----------------------------------------------------------------------------
(* Every step of the table is one of the slots, or none.                    *)
LEMMA SlotStep ==
  ASSUME SlotInv, [Next]_vars
  PROVE  Slots!Next \/ UNCHANGED <<SlotsNow, got>>
  <1> USE Kinds, KeyFacts
  <1> DEFINE Step == Slots!Next \/ UNCHANGED <<SlotsNow, got>>
  <1>1. ASSUME NEW t \in Senders, Send(t) PROVE Step
    <2>1. CASE SendStart(t) \/ SendBuild(t)
      BY <2>1, QuietOwners, QuietStep
    <2>2. CASE SendRegister(t)
      BY <2>2, SendRegisterStep DEF Slots!Next
    <2>3. CASE SendAcked(t)
      BY <2>3, AckedStep DEF Slots!Next
    <2>4. CASE SendOversize(t) \/ SendFailed(t) \/ SendConfirmed(t) \/ SendUnconfirmed(t)
      <3>1. /\ Return(t) /\ pc[t] \notin InGetResponse /\ pc[t] \in Registered
            /\ table' \in {table, [table EXCEPT !["CON"] = None]}
            /\ UNCHANGED <<response, lpc, lreq, lmsg>>
        BY <2>4 DEF SendOversize, SendFailed, SendConfirmed, SendUnconfirmed, TakeConfirmation, InGetResponse,
                    Registered, HoldsCon, requestVars, listenerVars
      <3> QED
        BY <3>1, ReturnStep DEF Slots!Next
    <2> QED
      BY <1>1, <2>1, <2>2, <2>3, <2>4 DEF Send
  <1>2. ASSUME NEW t \in Relays, Relay(t) PROVE Step
    <2>1. CASE RelayDone(t)
      <3>1. Return(t) /\ pc[t] \notin InGetResponse /\ UNCHANGED <<table, response, lpc, lreq, lmsg>>
        BY <2>1 DEF RelayDone, InGetResponse, requestVars, listenerVars
      <3> QED
        BY <3>1, ReturnStep DEF Slots!Next
    <2> QED
      BY <1>2, <2>1, QuietOwners, QuietStep
  <1>3. ASSUME NEW t \in Queriers, Query(t) PROVE Step
    <2>1. CASE QueryDone(t)
      <3>1. Return(t) /\ pc[t] \notin InGetResponse /\ UNCHANGED <<table, response, lpc, lreq, lmsg>>
        BY <2>1 DEF QueryDone, InGetResponse, requestVars, listenerVars
      <3> QED
        BY <3>1, ReturnStep DEF Slots!Next
    <2> QED
      BY <1>3, <2>1, QuietOwners, QuietStep DEF Query
  <1>4. ASSUME NEW t \in Threads, GetResponse(t) PROVE Step
    <2>1. CASE GetResponseRegister(t)
      BY <2>1, GetResponseRegisterStep DEF Slots!Next
    <2>2. CASE GetResponseWrite(t) \/ Inside(t)
      BY <2>2, QuietOwners, QuietStep
    <2>3. CASE GetResponseWriteFails(t) \/ Collect(t)
      BY <2>3, CollectStep DEF Slots!Next
    <2> QED
      BY <1>4, <2>1, <2>2, <2>3 DEF GetResponse, Inside
  <1>5. CASE \E m \in inflight : ReceiveMatched(m)
    <2>1. \A m \in inflight : m.key \in Keys
      BY DEF SlotInv, TableInv, TypeOK, TableTypeOK, Packet
    <2> QED
      BY <1>5, <2>1, ReceiveStep DEF Slots!Next
  <1>6. CASE StoreResponse
    BY <1>6, StoreStep DEF Slots!Next
  <1>7. CASE SetReady \/ TunnelLost \/ OtherInterfaces \/ UNCHANGED vars \/ \E m \in inflight : ReceiveUnmatched(m)
    BY <1>7, OtherStep
  <1> QED
    BY <1>1, <1>2, <1>3, <1>4, <1>5, <1>6, <1>7 DEF Next, Receive

(* Two entries never lead to one Request: a new one is nobody's.            *)
LEMMA OwnRequestsStep ==
  ASSUME SlotInv, [Next]_vars
  PROVE  OwnRequests'
  <1> USE KeyFacts, Kinds DEF SlotInv, TableInv, TypeOK, TableTypeOK, ThreadsTypeOK, OwnRequests
  <1>1. ASSUME NEW k \in Keys, Register(k) PROVE OwnRequests'
    <2>1. NewRequest \in Requests /\ \A l \in Keys : table[l] # NewRequest
      BY <1>1, NewRequestIsUnreferenced DEF Register, Referenced
    <2> QED
      BY <1>1, <2>1 DEF Register
  <1>2. ASSUME NEW k \in Keys, table' = [table EXCEPT ![k] = None] PROVE OwnRequests'
    BY <1>2
  <1>3. CASE UNCHANGED table
    BY <1>3
  <1>4. CASE \E t \in Senders : Send(t)
    BY <1>1, <1>2, <1>3, <1>4 DEF Send, SendStart, SendRegister, SendRegisterUnlocked, SendBuild, SendOversize,
       SendAcked, SendFailed, SendConfirmed, SendUnconfirmed, requestVars
  <1>5. ASSUME NEW t \in Threads, GetResponse(t) PROVE OwnRequests'
    <2> PICK k \in Keys : k = key[t]
      OBVIOUS
    <2>1. CASE GetResponseRegister(t)
      <3>1. Register(k)
        BY <2>1 DEF GetResponseRegister, GetResponseRegisterUnlocked, Register
      <3> QED
        BY <3>1, <1>1
    <2>2. CASE ~GetResponseRegister(t)
      <3>1. UNCHANGED table \/ table' = [table EXCEPT ![k] = None]
        BY <1>5, <2>2 DEF GetResponse, GetResponseWrite, GetResponseWriteFails, GetResponseLock, GetResponseWake, GetResponseTimeout, GetResponseCount,
           Collect, requestVars
      <3> QED
        BY <3>1, <1>2, <1>3
    <2> QED
      BY <2>1, <2>2
  <1>6. ASSUME NEW t \in Threads, Relay(t) \/ Query(t) PROVE UNCHANGED table
    BY <1>6 DEF Relay, RelayStart, RelayLock, RelayEnter, RelayReadSequence, RelayIncrement, RelayDone,
       Query, QueryStart, QueryDone, requestVars
  <1>7. CASE Receive \/ StoreResponse \/ SetReady \/ TunnelLost \/ OtherInterfaces \/ UNCHANGED vars
    <2>1. UNCHANGED table
      BY <1>7 DEF Receive, ReceiveMatched, ReceiveUnmatched, StoreResponse, SetReady, TunnelLost, OtherInterfaces, vars, requestVars
    <2> QED
      BY <1>3, <2>1
  <1> QED
    BY <1>3, <1>4, <1>5, <1>6, <1>7 DEF Next

(* Only getResponse leaves an outcome, and the caller takes it at once.     *)
LEMMA OutcomeStep ==
  ASSUME SlotInv, [Next]_vars
  PROVE  OutcomeIsFresh'
  <1> USE Kinds DEF SlotInv, TableInv, TypeOK, ThreadsTypeOK, OutcomeIsFresh
  <1>1. ASSUME NEW t \in Senders, Send(t) PROVE OutcomeIsFresh'
    BY <1>1 DEF Send, SendStart, SendRegister, SendRegisterUnlocked, SendBuild, SendOversize, EnterGetResponse,
       SendAcked, SendFailed, SendConfirmed, TakeConfirmation, SendUnconfirmed, Return
  <1>2. ASSUME NEW t \in Relays, Relay(t) PROVE OutcomeIsFresh'
    BY <1>2 DEF Relay, RelayStart, RelayLock, RelayEnter, RelayReadSequence, RelayIncrement, RelayDone,
       EnterGetResponse, Return
  <1>3. ASSUME NEW t \in Queriers, Query(t) PROVE OutcomeIsFresh'
    BY <1>3 DEF Query, QueryStart, QueryDone, EnterGetResponse, Return
  <1>4. ASSUME NEW t \in Threads, GetResponse(t) PROVE OutcomeIsFresh'
    BY <1>4 DEF GetResponse, GetResponseRegister, GetResponseRegisterUnlocked, GetResponseWrite,
       GetResponseWriteFails, GetResponseLock, GetResponseWake, GetResponseTimeout, GetResponseCount, Collect
  <1>5. CASE Receive \/ StoreResponse \/ SetReady \/ TunnelLost \/ OtherInterfaces \/ UNCHANGED vars
    BY <1>5 DEF Receive, ReceiveMatched, ReceiveUnmatched, StoreResponse, SetReady, TunnelLost, OtherInterfaces, vars, threadVars
  <1> QED
    BY <1>1, <1>2, <1>3, <1>4, <1>5 DEF Next

(* All of the invariant holds in every reachable state.                     *)
LEMMA InitSlots == Init => SlotInv
  <1>1. Init => OwnRequests /\ OutcomeIsFresh
    BY DEF Init, OwnRequests, OutcomeIsFresh
  <1>2. Init => ReadyInv
    BY InitType DEF Init, ReadyInv, ListenerState, ReadyHasResponse
  <1> QED
    BY <1>1, <1>2, InitTable DEF SlotInv

LEMMA SlotsStay ==
  ASSUME SlotInv, [Next]_vars
  PROVE  SlotInv'
  <1>1. TableInv'
    BY TableStep DEF SlotInv
  <1>2. ReadyInv'
    BY <1>1, ReadyStep DEF SlotInv, TableInv
  <1> QED
    BY <1>1, <1>2, OwnRequestsStep, OutcomeStep DEF SlotInv

(* The table implements the slots (ImplementsSlots): one owner for each     *)
(* service type, who leaves with a packet of that type which came while it  *)
(* waited, or with nothing.                                                *)
THEOREM TableImplementsSlots == Spec => ImplementsSlots
  <1>1. Init => Slots!Init
    <2>1. ASSUME Init, NEW k \in Keys PROVE SlotOf(k) = Slots!Empty
      BY <2>1, VacantSlot DEF Init, Owners, InGetResponse, Registered, HoldsCon
    <2> QED
      BY <2>1 DEF Init, Slots!Init
  <1>2. SlotInv /\ [Next]_vars => [Slots!Next]_(Slots!vars)
    BY SlotStep DEF Slots!vars, SlotsNow
  <1>3. SlotInv /\ [Next]_vars => SlotInv'
    BY SlotsStay
  <1> QED
    BY <1>1, <1>2, <1>3, InitSlots, PTL DEF Spec, ImplementsSlots, Slots!Spec

-----------------------------------------------------------------------------
(* What identifies the packet a caller waits for.                           *)
Pair(m) == <<m.key, m.of>>
(* The call's packet may have been written.                                 *)
Written == {"g_wait", "g_count", "g_awake", "g_done", "s_wait"}
(* A packet that is still waited for by the call it answers ...             *)
Awaited(m) == m.by \in Owners(m.key) /\ m.of = ticket[m.by] /\ pc[m.by] \in Written
(* ... and one of which no other copy will be received.                     *)
Last(m) == \A n \in inflight : Pair(n) # Pair(m)
(* No call can write the packet again that m answers.                       *)
Answered(m) ==
  /\ m.of # 0 /\ m.of <= calls
  /\ \A u \in Threads : ticket[u] = m.of => pc[u] \in Written

(* A call has its own ticket.                                              *)
TicketsDiffer ==
  \A t \in Threads : /\ ticket[t] <= calls
                     /\ pc[t] # "idle" => ticket[t] # 0
                     /\ \A u \in Threads : ticket[u] = ticket[t] /\ ticket[t] # 0 => u = t

(* A packet that was not received answers a call that waits for it, unless  *)
(* it is a stray.                                                          *)
InflightAwaited == \A m \in inflight : Stray(m) \/ Awaited(m)

(* So does the packet the listener is about to store, unless its Request    *)
(* was left with it: nobody looks there any more.                           *)
Orphaned(m) ==
  /\ Answered(m) /\ \A k \in Keys : Owners(k) # {} => table[k] # lreq
  /\ \A p \in Packet : response[lreq] = p => Stray(p)
ReceivedAwaited ==
  \A m \in Packet : lpc = "write" /\ lmsg = m =>
    Stray(m) \/ (Last(m) /\ ((Awaited(m) /\ lreq = table[m.key]) \/ Orphaned(m)))

(* And the packet in a Request somebody waits with.                         *)
StoredAwaited ==
  \A k \in Keys, p \in Packet : Owners(k) # {} /\ response[table[k]] = p =>
    /\ p.key = k
    /\ Stray(p) \/ (Awaited(p) /\ Last(p) /\ (lpc = "write" => Pair(lmsg) # Pair(p)))

(* The listener has a packet of the service type that is waited for.        *)
RightKey ==
  \A k \in Keys, m \in Packet :
    Owners(k) # {} /\ lpc # "idle" /\ lreq = table[k] /\ lmsg = m => m.key = k

MatchInv ==
  SlotInv /\ TicketsDiffer /\ InflightAwaited /\ ReceivedAwaited /\ StoredAwaited /\ RightKey

-----------------------------------------------------------------------------
(* A stray remains one.                                                    *)
LEMMA StrayStays ==
  ASSUME overdue \subseteq overdue', copied \subseteq copied', NEW m, Stray(m)
  PROVE  Stray(m)'
  BY DEF Stray

(* Calls draw tickets one after the other.                                  *)
LEMMA TicketsStep ==
  ASSUME MatchInv, [Next]_vars
  PROVE  TicketsDiffer'
  <1> USE Kinds, NumberAssumption DEF MatchInv, SlotInv, TableInv, TypeOK, ThreadsTypeOK, CountersTypeOK, TicketsDiffer, Tickets
  <1>1. ASSUME NEW t \in Threads, NewTicket(t), pc' = [pc EXCEPT ![t] = pc'[t]]
        PROVE  TicketsDiffer'
    BY <1>1 DEF NewTicket
  <1>2. ASSUME NEW t \in Threads, Return(t), UNCHANGED calls
        PROVE  TicketsDiffer'
    BY <1>2 DEF Return
  <1>3. ASSUME NEW t \in Threads, pc[t] # "idle", pc' = [pc EXCEPT ![t] = pc'[t]], UNCHANGED <<ticket, calls>>
        PROVE  TicketsDiffer'
    BY <1>3
  <1>4. ASSUME NEW t \in Senders, Send(t) PROVE TicketsDiffer'
    <2>1. CASE SendStart(t)
      BY <1>1, <2>1 DEF SendStart
    <2>2. CASE SendRegister(t) \/ SendBuild(t) \/ SendAcked(t)
      BY <1>3, <2>2 DEF SendRegister, SendRegisterUnlocked, SendBuild, EnterGetResponse, SendAcked
    <2>3. CASE SendOversize(t) \/ SendFailed(t) \/ SendConfirmed(t) \/ SendUnconfirmed(t)
      BY <1>2, <2>3 DEF SendOversize, SendFailed, SendConfirmed, TakeConfirmation, SendUnconfirmed
    <2> QED
      BY <1>4, <2>1, <2>2, <2>3 DEF Send
  <1>5. ASSUME NEW t \in Relays, Relay(t) PROVE TicketsDiffer'
    <2>1. CASE RelayStart(t)
      BY <1>1, <2>1 DEF RelayStart
    <2>2. CASE RelayLock(t) \/ RelayReadSequence(t) \/ RelayIncrement(t)
      BY <1>3, <2>2 DEF RelayLock, RelayEnter, RelayReadSequence, RelayIncrement, EnterGetResponse
    <2>3. CASE RelayDone(t)
      BY <1>2, <2>3 DEF RelayDone
    <2> QED
      BY <1>5, <2>1, <2>2, <2>3 DEF Relay
  <1>6. ASSUME NEW t \in Queriers, Query(t) PROVE TicketsDiffer'
    BY <1>1, <1>2, <1>6 DEF Query, QueryStart, EnterGetResponse, QueryDone
  <1>7. ASSUME NEW t \in Threads, GetResponse(t) PROVE TicketsDiffer'
    BY <1>3, <1>7 DEF GetResponse, GetResponseRegister, GetResponseRegisterUnlocked, GetResponseWrite,
       GetResponseWriteFails, GetResponseLock, GetResponseWake, GetResponseTimeout, GetResponseCount, Collect
  <1>8. CASE Receive \/ StoreResponse \/ SetReady \/ TunnelLost \/ OtherInterfaces \/ UNCHANGED vars
    <2>1. UNCHANGED <<pc, ticket, calls>>
      BY <1>8 DEF Receive, ReceiveMatched, ReceiveUnmatched, StoreResponse, SetReady, TunnelLost, OtherInterfaces, vars, threadVars
    <2> QED
      BY <2>1
  <1> QED
    BY <1>4, <1>5, <1>6, <1>7, <1>8 DEF Next
-----------------------------------------------------------------------------
(* The parts of the invariant that are about packets.                       *)
PacketsMatch == InflightAwaited /\ ReceivedAwaited /\ StoredAwaited /\ RightKey

(* What an awaited packet says of who waits.                                *)
LEMMA AwaitedByOwner ==
  ASSUME MatchInv, NEW k \in Keys, NEW t \in Owners(k), NEW m, m.key = k, Awaited(m)
  PROVE  m.by = t /\ m.of = ticket[t] /\ pc[t] \in Written
  <1>1. Owners(k) = {t}
    BY OwnerAlone DEF MatchInv, SlotInv
  <1> QED
    BY <1>1 DEF Awaited

(* A packet that is answered stays so when every call keeps its ticket and  *)
(* stays past its write, returns, or is new.                                *)
LEMMA AnsweredStays ==
  ASSUME NEW m, Answered(m), m.of \in Nat, calls \in Nat, calls' \in Nat, calls <= calls',
         \A u \in Threads : \/ ticket'[u] = ticket[u] /\ (pc[u] \in Written => pc'[u] \in Written)
                            \/ ticket'[u] = 0 \/ ticket'[u] = calls + 1
  PROVE  Answered(m)'
  BY DEF Answered, Written

(* Steps that only move a thread, and let nobody go who waits for a packet  *)
(* that was written.                                                       *)
LEMMA QuietMatch ==
  ASSUME MatchInv, UNCHANGED <<inflight, response, lpc, lreq, lmsg, overdue, copied>>,
         calls' \in Nat, calls <= calls',
         \A k \in Keys : /\ Owners(k)' \subseteq Owners(k)
                         /\ Owners(k)' # {} => table'[k] = table[k]
                         /\ \A t \in Owners(k) : pc[t] \in Written =>
                              t \in Owners(k)' /\ ticket'[t] = ticket[t] /\ pc'[t] \in Written,
         \A u \in Threads : \/ ticket'[u] = ticket[u] /\ (pc[u] \in Written => pc'[u] \in Written)
                            \/ ticket'[u] = 0 \/ ticket'[u] = calls + 1
  PROVE  PacketsMatch'
  <1> USE DEF MatchInv
  <1>1. \A m \in Packet : m.key \in Keys /\ m.of \in Nat
    BY DEF Packet, Tickets
  <1>2. inflight \subseteq Packet /\ calls \in Nat
    BY NumberAssumption DEF SlotInv, TableInv, TypeOK, TableTypeOK, CountersTypeOK, Tickets
  <1>3. ASSUME NEW m \in Packet, Awaited(m)
        PROVE  Awaited(m)'
    BY <1>1, <1>3 DEF Awaited, Written
  <1>4. \A m : (Stray(m) => Stray(m)') /\ (Last(m) => Last(m)')
    BY DEF Stray, Last, Pair
  <1>5. InflightAwaited'
    BY <1>2, <1>3, <1>4 DEF InflightAwaited
  <1>6. ReceivedAwaited'
    <2> SUFFICES ASSUME NEW m \in Packet, lpc = "write", lmsg = m
                 PROVE  (Stray(m) \/ (Last(m) /\ ((Awaited(m) /\ lreq = table[m.key]) \/ Orphaned(m))))'
      BY DEF ReceivedAwaited
    <2>1. CASE Stray(m)
      BY <1>4, <2>1
    <2>2. CASE Last(m) /\ Awaited(m) /\ lreq = table[m.key]
      <3>1. Awaited(m)' /\ Last(m)'
        BY <1>3, <1>4, <2>2
      <3>2. table'[m.key] = table[m.key]
        BY <1>1, <3>1 DEF Awaited
      <3> QED
        BY <2>2, <3>1, <3>2
    <2>3. CASE Last(m) /\ Orphaned(m)
      <3>1. Answered(m)' /\ Last(m)'
        BY <1>1, <1>2, <1>4, <2>3, AnsweredStays DEF Orphaned
      <3>2. \A k \in Keys : Owners(k)' # {} => table'[k] # lreq'
        BY <2>3 DEF Orphaned
      <3>3. \A p \in Packet : response'[lreq'] = p => Stray(p)'
        BY <1>4, <2>3 DEF Orphaned
      <3> QED
        BY <3>1, <3>2, <3>3 DEF Orphaned
    <2> QED
      BY <2>1, <2>2, <2>3 DEF ReceivedAwaited
  <1>7. StoredAwaited'
    BY <1>3, <1>4 DEF StoredAwaited, Pair
  <1>8. RightKey'
    BY DEF RightKey
  <1> QED
    BY <1>5, <1>6, <1>7, <1>8 DEF PacketsMatch

(* A new Request holds no packet, and the listener has none for it.         *)
LEMMA RegisterMatch ==
  ASSUME MatchInv, NEW t \in Threads, NEW k \in Keys, Register(k),
         Owners(k) = {}, \A l \in Keys \ {k} : Owners(l)' = Owners(l),
         pc[t] \notin Written, pc' = [pc EXCEPT ![t] = pc'[t]],
         UNCHANGED <<inflight, lpc, lreq, lmsg, overdue, copied, ticket, calls>>
  PROVE  PacketsMatch'
  <1> USE DEF MatchInv
  <1>1. NewRequest \in Requests /\ NewRequest # lreq /\ \A l \in Keys : table[l] # NewRequest
    BY NewRequestIsUnreferenced DEF Register, Referenced
  <1>2. /\ table'[k] = NewRequest /\ response'[NewRequest] = None
        /\ \A l \in Keys \ {k} : table'[l] = table[l]
        /\ \A r \in Requests \ {NewRequest} : response'[r] = response[r]
    BY <1>1 DEF Register, SlotInv, TableInv, TypeOK, TableTypeOK
  <1>3. \A m \in Packet : m.key \in Keys
    BY DEF Packet
  <1>4. \A u \in Threads : pc[u] \in Written => pc'[u] = pc[u]
    BY DEF SlotInv, TableInv, TypeOK, ThreadsTypeOK
  <1>5. ASSUME NEW m \in Packet, Awaited(m)
        PROVE  Awaited(m)' /\ m.key # k
    BY <1>3, <1>4, <1>5 DEF Awaited, Written, Owners
  <1>6. \A m : (Stray(m) => Stray(m)') /\ (Last(m) => Last(m)')
    BY DEF Stray, Last, Pair
  <1>7. InflightAwaited'
    BY <1>5, <1>6 DEF InflightAwaited, SlotInv, TableInv, TypeOK, TableTypeOK
  <1>8. ReceivedAwaited'
    <2> SUFFICES ASSUME NEW m \in Packet, lpc = "write", lmsg = m
                 PROVE  (Stray(m) \/ (Last(m) /\ ((Awaited(m) /\ lreq = table[m.key]) \/ Orphaned(m))))'
      BY DEF ReceivedAwaited
    <2>1. CASE Stray(m)
      BY <1>6, <2>1
    <2>2. CASE Last(m) /\ Awaited(m) /\ lreq = table[m.key]
      <3>1. table'[m.key] = table[m.key]
        BY <1>2, <1>3, <1>5, <2>2
      <3> QED
        BY <1>5, <1>6, <2>2, <3>1
    <2>3. CASE Last(m) /\ Orphaned(m)
      <3>1. Answered(m)'
        BY <1>4, <2>3 DEF Orphaned, Answered, Written
      <3>2. \A l \in Keys : Owners(l)' # {} => table'[l] # lreq'
        BY <1>1, <1>2, <2>3 DEF Orphaned
      <3>3. lreq \in Requests
        BY DEF SlotInv, ReadyInv, ListenerState
      <3>4. \A p \in Packet : response'[lreq'] = p => Stray(p)'
        BY <1>1, <1>2, <1>6, <2>3, <3>3 DEF Orphaned
      <3> QED
        BY <1>6, <2>3, <3>1, <3>2, <3>4 DEF Orphaned
    <2> QED
      BY <2>1, <2>2, <2>3 DEF ReceivedAwaited
  <1>9. StoredAwaited'
    <2> SUFFICES ASSUME NEW l \in Keys, NEW p \in Packet, Owners(l)' # {}, response'[table'[l]] = p
                 PROVE  /\ p.key = l
                        /\ (Stray(p) \/ (Awaited(p) /\ Last(p) /\ (lpc = "write" => Pair(lmsg) # Pair(p))))'
      BY DEF StoredAwaited
    <2>1. l # k
      BY <1>2, PacketAssumption
    <2>2. Owners(l) # {} /\ table[l] \in Requests
      BY <2>1, OwnerAlone DEF SlotInv
    <2>3. response[table[l]] = p
      BY <1>1, <1>2, <2>1, <2>2
    <2> QED
      BY <1>5, <1>6, <2>2, <2>3 DEF StoredAwaited, Pair
  <1>10. RightKey'
    BY <1>1, <1>2 DEF RightKey
  <1> QED
    BY <1>7, <1>8, <1>9, <1>10 DEF PacketsMatch

(* A caller leaves, with the packet it waited for or with a note that it    *)
(* may still come.                                                         *)
LEMMA LeaveMatch ==
  ASSUME MatchInv, NEW t \in Threads, NEW k \in Keys, Owners(k) = {t}, Owners(k)' = {},
         \A l \in Keys \ {k} : Owners(l)' = Owners(l) /\ table'[l] = table[l],
         NEW v \in {None} \cup Copy(table[k]), overdue' = overdue \cup Missed(t, k, v),
         \A u \in Threads \ {t} : pc'[u] = pc[u] /\ ticket'[u] = ticket[u],
         \/ ticket'[t] = ticket[t] /\ pc'[t] \in Written
         \/ ticket'[t] = 0 /\ \A l \in Keys \ {k} : t \notin Owners(l),
         UNCHANGED <<inflight, response, lpc, lreq, lmsg, copied, calls>>
  PROVE  PacketsMatch'
  <1> USE DEF MatchInv
  <1>1. \A m \in Packet : m.key \in Keys /\ m.of \in Nat
    BY DEF Packet, Tickets
  <1>2. inflight \subseteq Packet /\ calls \in Nat /\ table[k] \in Requests /\ table[k] # None
    <2>1. inflight \subseteq Packet /\ calls \in Nat
      BY NumberAssumption DEF SlotInv, TableInv, TypeOK, TableTypeOK, CountersTypeOK, Tickets
    <2>2. t \in Owners(k) /\ TableInv
      BY DEF SlotInv
    <2> QED
      BY <2>1, <2>2, OwnerAlone
  <1>3. \A m : (Stray(m) => Stray(m)') /\ (Last(m) => Last(m)')
    BY DEF Stray, Last, Pair
  <1>4. ASSUME NEW m \in Packet, Awaited(m), m.key # k
        PROVE  Awaited(m)'
    <2> DEFINE l == m.key
    <2>1. l \in Keys \ {k} /\ m.by \in Owners(l) /\ Owners(l) \subseteq Threads
      BY <1>1, <1>4 DEF Awaited, Owners
    <2>2. m.by \in Owners(l)' /\ ticket'[m.by] = ticket[m.by] /\ pc'[m.by] \in Written
      BY <1>4, <2>1 DEF Awaited
    <2> QED
      BY <1>4, <2>2 DEF Awaited
  <1>5. ASSUME NEW m \in Packet, Awaited(m), m.key = k
        PROVE  /\ m.by = t /\ m.of = ticket[t] /\ pc[t] \in Written
               /\ \/ Stray(m)'
                  \/ v \in Packet /\ v.by = t /\ v.of = ticket[t]
    <2>1. m.by = t /\ m.of = ticket[t] /\ pc[t] \in Written
      BY <1>5, AwaitedByOwner
    <2> QED
      BY <1>5, <2>1 DEF Missed, Stray
  <1>6. ASSUME v \in Packet, v.by = t, v.of = ticket[t], NEW m \in Packet, Awaited(m), m.key = k
        PROVE  \/ Stray(m)'
               \/ v = response[table[k]] /\ Last(m) /\ (lpc = "write" => Pair(lmsg) # Pair(m))
               \/ v = lmsg /\ Last(m) /\ lpc = "write" /\ lreq = table[k]
    <2>1. m.by = t /\ m.of = ticket[t]
      BY <1>5, <1>6
    <2>2. CASE v = response[table[k]]
      <3>1. v.key = k /\ (Stray(v) \/ (Last(v) /\ (lpc = "write" => Pair(lmsg) # Pair(v))))
        BY <1>6, <2>2 DEF StoredAwaited
      <3>2. Pair(v) = Pair(m) /\ m.by = v.by
        BY <1>6, <2>1, <3>1 DEF Pair
      <3> QED
        BY <1>3, <1>6, <2>2, <3>1, <3>2 DEF Stray, Last, Pair
    <2>3. CASE v = lmsg /\ lpc = "write" /\ lreq = table[k]
      <3>1. v.key = k
        BY <1>6, <2>3 DEF RightKey
      <3>2. Stray(v) \/ Last(v)
        BY <1>6, <2>3 DEF ReceivedAwaited
      <3>3. Pair(v) = Pair(m) /\ m.by = v.by
        BY <1>6, <2>1, <3>1 DEF Pair
      <3> QED
        BY <1>3, <1>6, <2>3, <3>2, <3>3 DEF Stray, Last, Pair
    <2> QED
      BY <1>6, <2>2, <2>3, PacketAssumption DEF Copy
  <1>7. InflightAwaited'
    <2> SUFFICES ASSUME NEW m \in inflight PROVE Stray(m)' \/ Awaited(m)'
      BY DEF InflightAwaited
    <2>1. m \in Packet /\ (Stray(m) \/ Awaited(m))
      BY <1>2 DEF InflightAwaited
    <2>2. CASE Stray(m)
      BY <1>3, <2>2
    <2>3. CASE Awaited(m) /\ m.key # k
      BY <1>4, <2>1, <2>3
    <2>4. CASE Awaited(m) /\ m.key = k
      BY <1>5, <1>6, <2>1, <2>4 DEF Last, Pair
    <2> QED
      BY <2>1, <2>2, <2>3, <2>4
  <1>8. ASSUME NEW m \in Packet, Answered(m) PROVE Answered(m)'
    BY <1>1, <1>8 DEF Answered
  <1>9. ReceivedAwaited'
    <2> SUFFICES ASSUME NEW m \in Packet, lpc = "write", lmsg = m, ~Stray(m)', ~Stray(m)
                 PROVE  (Last(m) /\ ((Awaited(m) /\ lreq = table[m.key]) \/ Orphaned(m)))'
      BY <1>3 DEF ReceivedAwaited
    <2>1. Last(m)'
      BY <1>3 DEF ReceivedAwaited
    <2>2. CASE Awaited(m) /\ lreq = table[m.key] /\ m.key # k
      <3>1. table'[m.key] = table[m.key]
        BY <1>1, <2>2
      <3> QED
        BY <1>4, <2>1, <2>2, <3>1
    <2>3. CASE Awaited(m) /\ lreq = table[m.key] /\ m.key = k
      <3>1. m.by = t /\ m.of = ticket[t] /\ pc[t] \in Written
        BY <1>5, <2>3
      <3>2. Answered(m)
        BY <1>1, <3>1 DEF Answered, TicketsDiffer, Written
      <3>3. \A l \in Keys : Owners(l)' # {} => table'[l] # lreq'
        <4>1. \A l \in Keys \ {k} : table[l] # table[k]
          BY <1>2 DEF SlotInv, OwnRequests
        <4> QED
          BY <2>3, <4>1
      <3>4. ASSUME NEW p \in Packet, response[lreq] = p PROVE Stray(p)'
        <4>1. p.key = k /\ (Stray(p) \/ (Awaited(p) /\ Pair(lmsg) # Pair(p)))
          BY <2>3, <3>4 DEF StoredAwaited
        <4>2. Awaited(p) => Pair(p) = Pair(m)
          BY <1>5, <2>3, <3>1, <4>1 DEF Pair
        <4> QED
          BY <1>3, <4>1, <4>2
      <3> QED
        BY <1>8, <2>1, <3>2, <3>3, <3>4 DEF Orphaned
    <2>4. CASE Orphaned(m)
      <3>1. \A l \in Keys : Owners(l)' # {} => table'[l] # lreq'
        BY <2>4 DEF Orphaned
      <3>2. \A p \in Packet : response'[lreq'] = p => Stray(p)'
        BY <1>3, <2>4 DEF Orphaned
      <3> QED
        BY <1>8, <2>1, <2>4, <3>1, <3>2 DEF Orphaned
    <2> QED
      BY <2>2, <2>3, <2>4 DEF ReceivedAwaited
  <1>10. StoredAwaited'
    <2> SUFFICES ASSUME NEW l \in Keys \ {k}, NEW p \in Packet, Owners(l) # {}, response[table[l]] = p
                 PROVE  /\ p.key = l
                        /\ (Stray(p) \/ (Awaited(p) /\ Last(p) /\ (lpc = "write" => Pair(lmsg) # Pair(p))))'
      BY DEF StoredAwaited
    <2>1. p.key = l /\ (Stray(p) \/ (Awaited(p) /\ Last(p) /\ (lpc = "write" => Pair(lmsg) # Pair(p))))
      BY DEF StoredAwaited
    <2> QED
      BY <1>3, <1>4, <2>1 DEF Pair
  <1>11. RightKey'
    BY DEF RightKey
  <1> QED
    BY <1>7, <1>9, <1>10, <1>11 DEF PacketsMatch

-----------------------------------------------------------------------------
(* The packets a write brings about are all awaited, or confirm a frame of  *)
(* the forwarder; none like them is there yet.                             *)
LEMMA WriteMatch ==
  ASSUME MatchInv, NEW t \in Threads, GetResponseWrite(t)
  PROVE  PacketsMatch'
  <1> USE DEF MatchInv
  <1>1. /\ pc[t] = "g_write" /\ pc'[t] \in {"g_wait", "g_awake"} /\ \A u \in Threads \ {t} : pc'[u] = pc[u]
        /\ inflight \subseteq inflight' /\ inflight' \subseteq inflight \cup Answers(t)
        /\ UNCHANGED <<table, response, lpc, lreq, lmsg, overdue, copied, ticket, calls, key, con>>
    BY DEF GetResponseWrite, requestVars, listenerVars, SlotInv, TableInv, TypeOK, ThreadsTypeOK
  <1>2. \A k \in Keys : Owners(k)' = Owners(k)
    BY <1>1 DEF Owners, InGetResponse, Registered, HoldsCon
  <1>3. inflight \subseteq Packet /\ ticket[t] # 0
    BY <1>1 DEF SlotInv, TableInv, TypeOK, TableTypeOK, TicketsDiffer
  <1>4. \A m \in Packet : Awaited(m) => Awaited(m)'
    BY <1>1, <1>2 DEF Awaited, Written, Packet
  <1>5. ASSUME NEW m \in Packet, Awaited(m) \/ Orphaned(m) PROVE m.of # ticket[t]
    BY <1>1, <1>3, <1>5 DEF Awaited, Orphaned, Answered, Written, TicketsDiffer, Owners
  <1>6. \A n \in Answers(t) : n.of = ticket[t]
    BY DEF Answers
  <1>7. ASSUME NEW m \in Packet, Awaited(m) \/ Orphaned(m), Last(m) PROVE Last(m)'
    BY <1>1, <1>5, <1>6, <1>7 DEF Last, Pair
  <1>8. ASSUME NEW n \in Answers(t) PROVE Stray(n)' \/ Awaited(n)'
    <2>1. /\ n.by = t /\ n.of = ticket[t]
          /\ n.key = key[t] \/ (n.key = "CON" /\ (t \in Senders \/ t \in Relays))
      BY DEF Answers, Tunnellers
    <2>2. CASE n.key = "CON" /\ t \in Relays
      BY <2>1, <2>2 DEF Stray
    <2>3. CASE n.key = key[t] \/ (n.key = "CON" /\ t \in Senders)
      <3>1. t \in Owners(n.key)'
        BY <1>1, <2>1, <2>3 DEF Owners, InGetResponse, Registered, HoldsCon
      <3> QED
        BY <1>1, <2>1, <3>1 DEF Awaited, Written
    <2> QED
      BY <2>1, <2>2, <2>3
  <1>9. InflightAwaited'
    BY <1>1, <1>3, <1>4, <1>8 DEF InflightAwaited, Stray
  <1>10. \A m \in Packet : Orphaned(m) => Orphaned(m)'
    BY <1>1, <1>2 DEF Orphaned, Answered, Written, Stray
  <1>11. ReceivedAwaited'
    BY <1>1, <1>4, <1>7, <1>10 DEF ReceivedAwaited, Stray
  <1>12. StoredAwaited'
    BY <1>1, <1>2, <1>4, <1>7 DEF StoredAwaited, Stray, Pair
  <1>13. RightKey'
    BY <1>1, <1>2 DEF RightKey
  <1> QED
    BY <1>9, <1>11, <1>12, <1>13 DEF PacketsMatch

(* A packet that is received is the last of its kind, unless the network    *)
(* duplicated it.                                                          *)
LEMMA ReceiveMatch ==
  ASSUME MatchInv, NEW m \in inflight, ReceiveMatched(m) \/ ReceiveUnmatched(m)
  PROVE  PacketsMatch'
  <1> USE DEF MatchInv
  <1>1. /\ lpc = "idle" /\ inflight' \subseteq inflight /\ copied \subseteq copied'
        /\ UNCHANGED <<pc, key, con, ticket, table, response, overdue, calls>>
        /\ \A k \in Keys : Owners(k)' = Owners(k)
    BY DEF ReceiveMatched, ReceiveUnmatched, Arrive, threadVars, requestVars, ghostVars, Owners
  <1>2. inflight \subseteq Packet
    BY DEF SlotInv, TableInv, TypeOK, TableTypeOK
  <1>3. \A n : (Stray(n) => Stray(n)') /\ (Last(n) => Last(n)')
    BY <1>1 DEF Stray, Last, Pair
  <1>4. \A n \in Packet : Awaited(n) => Awaited(n)'
    BY <1>1 DEF Awaited, Packet
  <1>5. InflightAwaited'
    BY <1>1, <1>2, <1>3, <1>4 DEF InflightAwaited
  <1>6. CASE ReceiveUnmatched(m)
    <2>1. lpc' = "idle"
      BY <1>1, <1>6 DEF ReceiveUnmatched, listenerVars
    <2>2. ReceivedAwaited' /\ RightKey'
      BY <2>1 DEF ReceivedAwaited, RightKey
    <2>3. StoredAwaited'
      BY <1>1, <1>3, <1>4, <2>1 DEF StoredAwaited
    <2> QED
      BY <1>5, <2>2, <2>3 DEF PacketsMatch
  <1>7. CASE ReceiveMatched(m)
    <2>1. lpc' = "write" /\ lreq' = table[m.key] /\ lmsg' = m /\ table[m.key] # None
      BY <1>7 DEF ReceiveMatched
    <2>2. Stray(m)' \/ Last(m)'
      BY <1>7 DEF ReceiveMatched, Arrive, Stray, Last, Pair
    <2>3. Stray(m)' \/ Awaited(m)'
      BY <1>2, <1>3, <1>4 DEF InflightAwaited
    <2>4. ReceivedAwaited'
      BY <1>1, <2>1, <2>2, <2>3 DEF ReceivedAwaited
    <2>5. \A n : Last(n) => Pair(m) # Pair(n)
      BY DEF Last
    <2>6. StoredAwaited'
      BY <1>1, <1>3, <1>4, <2>1, <2>5 DEF StoredAwaited, Pair
    <2>7. RightKey'
      BY <1>1, <1>2, <2>1 DEF RightKey, SlotInv, OwnRequests, Packet
    <2> QED
      BY <1>5, <2>4, <2>6, <2>7 DEF PacketsMatch
  <1> QED
    BY <1>6, <1>7

(* What is stored where somebody waits is what he waits for.                *)
LEMMA StoreMatch ==
  ASSUME MatchInv, StoreResponse
  PROVE  PacketsMatch'
  <1> USE DEF MatchInv
  <1>1. /\ lpc = "write" /\ lpc' = "lock" /\ response' = [response EXCEPT ![lreq] = lmsg]
        /\ UNCHANGED <<pc, key, con, ticket, table, lreq, lmsg, inflight, overdue, copied, calls>>
        /\ \A k \in Keys : Owners(k)' = Owners(k)
    BY DEF StoreResponse, threadVars, netVars, ghostVars, Owners
  <1>2. \A n : (Stray(n) <=> Stray(n)') /\ (Last(n) <=> Last(n)')
    BY <1>1 DEF Stray, Last, Pair
  <1>3. \A n \in Packet : Awaited(n) => Awaited(n)'
    BY <1>1 DEF Awaited, Packet
  <1>4. InflightAwaited'
    BY <1>1, <1>2, <1>3 DEF InflightAwaited, SlotInv, TableInv, TypeOK, TableTypeOK
  <1>5. ReceivedAwaited' /\ RightKey'
    BY <1>1 DEF ReceivedAwaited, RightKey
  <1>6. StoredAwaited'
    <2> SUFFICES ASSUME NEW k \in Keys, NEW p \in Packet, Owners(k) # {}, response'[table[k]] = p
                 PROVE  p.key = k /\ (Stray(p) \/ (Awaited(p) /\ Last(p)))'
      BY <1>1 DEF StoredAwaited
    <2>1. table[k] \in Requests /\ response \in [Requests -> Packet \cup {None}]
      BY OwnerAlone DEF SlotInv, TableInv, TypeOK, TableTypeOK
    <2>2. CASE table[k] = lreq
      <3>1. p = lmsg /\ p.key = k
        BY <1>1, <2>1, <2>2 DEF RightKey
      <3>2. Stray(p) \/ (Last(p) /\ Awaited(p))
        BY <1>1, <2>2, <3>1 DEF ReceivedAwaited, Orphaned
      <3> QED
        BY <1>2, <1>3, <3>1, <3>2
    <2>3. CASE table[k] # lreq
      <3>1. response[table[k]] = p
        BY <1>1, <2>1, <2>3
      <3> QED
        BY <1>2, <1>3, <3>1 DEF StoredAwaited
    <2> QED
      BY <2>2, <2>3
  <1> QED
    BY <1>4, <1>5, <1>6 DEF PacketsMatch

(* Then the listener has done with it.                                      *)
LEMMA SetReadyMatch ==
  ASSUME MatchInv, SetReady
  PROVE  PacketsMatch'
  <1> USE DEF MatchInv
  <1>1. /\ lpc' = "idle"
        /\ UNCHANGED <<pc, key, con, ticket, table, response, inflight, overdue, copied, calls>>
        /\ \A k \in Keys : Owners(k)' = Owners(k)
    BY DEF SetReady, threadVars, netVars, ghostVars, Owners
  <1>2. \A n \in Packet : Awaited(n) => Awaited(n)'
    BY <1>1 DEF Awaited, Packet
  <1>3. \A n : (Stray(n) => Stray(n)') /\ (Last(n) => Last(n)')
    BY <1>1 DEF Stray, Last, Pair
  <1>4. InflightAwaited'
    BY <1>1, <1>2, <1>3 DEF InflightAwaited, SlotInv, TableInv, TypeOK, TableTypeOK
  <1>5. ReceivedAwaited' /\ RightKey'
    BY <1>1 DEF ReceivedAwaited, RightKey
  <1>6. StoredAwaited'
    BY <1>1, <1>2, <1>3 DEF StoredAwaited
  <1> QED
    BY <1>4, <1>5, <1>6 DEF PacketsMatch

-----------------------------------------------------------------------------
(* A step that moves the thread t and leaves the table alone: t waits for    *)
(* nothing new, and for what it had written as before.                      *)
LEMMA MoveMatch ==
  ASSUME MatchInv, NEW t \in Threads,
         UNCHANGED <<inflight, response, table, lpc, lreq, lmsg, overdue, copied>>,
         calls' \in {calls, calls + 1},
         \A u \in Threads \ {t} : pc'[u] = pc[u] /\ key'[u] = key[u] /\ ticket'[u] = ticket[u],
         pc'[t] \in InGetResponse => pc[t] \in InGetResponse /\ key'[t] = key[t],
         t \in Senders /\ pc'[t] \in Registered => pc[t] \in Registered,
         \/ /\ ticket'[t] = ticket[t] /\ (pc[t] \in Written => pc'[t] \in Written)
            /\ pc[t] \in InGetResponse => pc'[t] \in InGetResponse
            /\ t \in Senders /\ pc[t] \in Registered => pc'[t] \in Registered
         \/ /\ ticket'[t] \in {0, calls + 1} /\ pc[t] \notin InGetResponse
            /\ pc[t] \notin Written \/ t \notin Senders
  PROVE  PacketsMatch'
  <1>1. calls \in Nat
    BY NumberAssumption DEF MatchInv, SlotInv, TableInv, TypeOK, CountersTypeOK, Tickets
  <1>2. \A k \in Keys : Owners(k)' \subseteq Owners(k)
    BY DEF Owners
  <1>3. ASSUME NEW k \in Keys, NEW u \in Owners(k), pc[u] \in Written
        PROVE  u \in Owners(k)' /\ ticket'[u] = ticket[u] /\ pc'[u] \in Written
    <2>1. CASE u # t
      BY <1>3, <2>1 DEF Owners
    <2>2. CASE u = t
      <3>1. pc[t] \in InGetResponse \/ (t \in Senders /\ pc[t] \in Registered)
        BY <2>2 DEF Owners
      <3>2. ticket'[t] = ticket[t] /\ pc'[t] \in Written
        BY <1>3, <2>2, <3>1
      <3>3. /\ pc[t] \in InGetResponse => pc'[t] \in InGetResponse
            /\ t \in Senders /\ pc[t] \in Registered => pc'[t] \in Registered
        BY <1>3, <2>2, <3>1
      <3> QED
        BY <2>2, <3>2, <3>3 DEF Owners
    <2> QED
      BY <2>1, <2>2
  <1>4. \A u \in Threads : \/ ticket'[u] = ticket[u] /\ (pc[u] \in Written => pc'[u] \in Written)
                           \/ ticket'[u] = 0 \/ ticket'[u] = calls + 1
    OBVIOUS
  <1> QED
    BY <1>1, <1>2, <1>3, <1>4, QuietMatch

(* Every step of sendPacket keeps the packets matched.                      *)
LEMMA SendMatch ==
  ASSUME MatchInv, NEW t \in Senders, Send(t)
  PROVE  PacketsMatch'
  <1> USE Kinds, KeyFacts DEF MatchInv, SlotInv, TableInv, TypeOK, ThreadsTypeOK, TableTypeOK
  <1>1. CASE SendStart(t) \/ SendBuild(t) \/ SendAcked(t) \/ SendOversize(t)
    <2>1. /\ UNCHANGED <<inflight, response, table, lpc, lreq, lmsg, overdue, copied>>
          /\ calls' \in {calls, calls + 1}
          /\ \A u \in Threads \ {t} : pc'[u] = pc[u] /\ key'[u] = key[u] /\ ticket'[u] = ticket[u]
      BY <1>1 DEF SendStart, NewTicket, SendBuild, EnterGetResponse, SendAcked, SendOversize, Return, requestVars,
         listenerVars, netVars, ghostVars, failVars
    <2>2. CASE SendStart(t)
      <3>1. pc[t] = "idle" /\ pc'[t] = "s_mutex" /\ ticket'[t] = calls + 1
        BY <2>2 DEF SendStart, NewTicket
      <3> QED
        BY <2>1, <3>1, MoveMatch DEF InGetResponse, Registered, HoldsCon, Written
    <2>3. CASE SendBuild(t) \/ SendAcked(t)
      <3>1. /\ \/ pc[t] = "s_lock" /\ pc'[t] \in {"g_mutex", "g_done"}
               \/ pc[t] = "g_done" /\ pc'[t] = "s_wait"
            /\ ticket' = ticket
        BY <2>3 DEF SendBuild, EnterGetResponse, SendAcked
      <3> QED
        BY <2>1, <3>1, MoveMatch DEF InGetResponse, Registered, HoldsCon, Written
    <2>4. CASE SendOversize(t)
      <3>1. pc[t] = "s_lock" /\ pc'[t] = "idle" /\ ticket'[t] = 0
        BY <2>4 DEF SendOversize, Return
      <3> QED
        BY <2>1, <3>1, MoveMatch DEF InGetResponse, Registered, HoldsCon, Written
    <2> QED
      BY <1>1, <2>2, <2>3, <2>4
  <1>2. CASE SendRegister(t)
    <2>1. /\ Register("CON") /\ pc[t] = "s_mutex" /\ pc' = [pc EXCEPT ![t] = "s_lock"]
          /\ UNCHANGED <<inflight, lpc, lreq, lmsg, overdue, copied, ticket, calls, key>>
      BY <1>2 DEF SendRegister, SendRegisterUnlocked, listenerVars, netVars, ghostVars, failVars
    <2>2. Owners("CON") = {}
      BY <1>2 DEF SendRegister, Owners, MutexOwners
    <2>3. \A l \in Keys \ {"CON"} : Owners(l)' = Owners(l)
      BY <2>1 DEF Owners, InGetResponse
    <2> QED
      BY <2>1, <2>2, <2>3, RegisterMatch DEF Written
  <1>3. CASE SendFailed(t) \/ SendConfirmed(t) \/ SendUnconfirmed(t)
    <2>1. /\ Return(t) /\ pc[t] \in Registered \ InGetResponse
          /\ \A l \in Keys \ {"CON"} : table'[l] = table[l]
          /\ UNCHANGED <<inflight, response, lpc, lreq, lmsg, copied, calls>>
      BY <1>3 DEF SendFailed, SendConfirmed, TakeConfirmation, SendUnconfirmed, requestVars, listenerVars, netVars,
         Registered, HoldsCon, InGetResponse
    <2>2. /\ pc'[t] = "idle" /\ ticket'[t] = 0
          /\ \A u \in Threads \ {t} : pc'[u] = pc[u] /\ key'[u] = key[u] /\ ticket'[u] = ticket[u]
      BY <2>1 DEF Return
    <2>3. t \in Owners("CON") /\ \A l \in Keys \ {"CON"} : t \notin Owners(l)
      BY <2>1 DEF Owners
    <2>4. Owners("CON") = {t}
      BY <2>3, OwnerAlone
    <2>5. Owners("CON")' = {} /\ \A l \in Keys \ {"CON"} : Owners(l)' = Owners(l)
      BY <2>2, <2>3, <2>4 DEF Owners, InGetResponse, Registered, HoldsCon
    <2>6. con[t] = table["CON"]
      BY <2>1 DEF LiveEntry
    <2>7. \E v \in {None} \cup Copy(table["CON"]) : overdue' = overdue \cup Missed(t, "CON", v)
      <3>1. CASE SendConfirmed(t)
        BY <2>6, <3>1 DEF SendConfirmed, TakeConfirmation
      <3>2. CASE SendFailed(t) \/ SendUnconfirmed(t)
        BY <3>2, PacketAssumption DEF SendFailed, SendUnconfirmed, Missed
      <3> QED
        BY <1>3, <3>1, <3>2
    <2> HIDE DEF MatchInv, SlotInv, TableInv, TypeOK, ThreadsTypeOK, TableTypeOK
    <2> QED
      BY <2>1, <2>2, <2>3, <2>4, <2>5, <2>7, LeaveMatch
  <1> QED
    BY <1>1, <1>2, <1>3 DEF Send

(* The relay and the callers of getResponse register nothing themselves.    *)
LEMMA CallerMatch ==
  ASSUME MatchInv, NEW t \in Threads, (t \in Relays /\ Relay(t)) \/ (t \in Queriers /\ Query(t))
  PROVE  PacketsMatch'
  <1> USE Kinds, KeyFacts DEF MatchInv, SlotInv, TableInv, TypeOK, ThreadsTypeOK, TableTypeOK
  <1>1. /\ UNCHANGED <<inflight, response, table, lpc, lreq, lmsg, overdue, copied>>
        /\ calls' \in {calls, calls + 1} /\ t \notin Senders
        /\ \A u \in Threads \ {t} : pc'[u] = pc[u] /\ key'[u] = key[u] /\ ticket'[u] = ticket[u]
    BY DEF Relay, RelayStart, RelayLock, RelayEnter, RelayReadSequence, RelayIncrement, RelayDone, Query, QueryStart,
       QueryDone, NewTicket, EnterGetResponse, Return, requestVars, listenerVars, netVars, ghostVars, failVars
  <1>2. /\ pc[t] \notin InGetResponse /\ pc'[t] \notin InGetResponse
        /\ \/ ticket'[t] = ticket[t] /\ pc[t] \notin Written
           \/ ticket'[t] \in {0, calls + 1}
    BY DEF Relay, RelayStart, RelayLock, RelayEnter, RelayReadSequence, RelayIncrement, RelayDone, Query, QueryStart,
       QueryDone, NewTicket, EnterGetResponse, Return, InGetResponse, Written
  <1> QED
    BY <1>1, <1>2, MoveMatch

(* Every step of getResponse keeps the packets matched.                     *)
LEMMA GetResponseMatch ==
  ASSUME MatchInv, NEW t \in Threads, GetResponse(t)
  PROVE  PacketsMatch'
  <1> USE Kinds, KeyFacts DEF MatchInv, SlotInv, TableInv, TypeOK, ThreadsTypeOK, TableTypeOK
  <1> PICK k \in Keys \ {"CON"} : k = key[t]
    OBVIOUS
  <1>1. CASE GetResponseRegister(t)
    <2>1. /\ Register(k) /\ pc[t] = "g_mutex" /\ pc' = [pc EXCEPT ![t] = "g_lock"]
          /\ UNCHANGED <<inflight, lpc, lreq, lmsg, overdue, copied, ticket, calls, key>>
      BY <1>1 DEF GetResponseRegister, GetResponseRegisterUnlocked, Register, listenerVars, netVars, ghostVars, failVars
    <2>2. \A u \in Threads : pc[u] \notin InGetResponse
      BY <1>1 DEF GetResponseRegister, MutexOwners
    <2>3. Owners(k) = {}
      BY <2>2 DEF Owners
    <2>4. \A l \in Keys \ {k} : Owners(l)' = Owners(l)
      BY <2>1, <2>2 DEF Owners, InGetResponse, Registered, HoldsCon
    <2> QED
      BY <2>1, <2>3, <2>4, RegisterMatch DEF Written
  <1>2. CASE GetResponseWriteFails(t) \/ Collect(t)
    <2>1. /\ pc[t] \in InGetResponse /\ pc' = [pc EXCEPT ![t] = "g_done"]
          /\ \A l \in Keys \ {k} : table'[l] = table[l]
          /\ UNCHANGED <<inflight, response, lpc, lreq, lmsg, copied, calls, key, ticket>>
      BY <1>2 DEF GetResponseWriteFails, Collect, InGetResponse,
         requestVars, listenerVars, netVars
    <2>2. t \in Owners(k)
      BY <2>1 DEF Owners
    <2>3. Owners(k) = {t}
      BY <2>2, OwnerAlone
    <2>4. Owners(k)' = {}
      BY <2>1, <2>3 DEF Owners, InGetResponse
    <2>5. \A l \in Keys \ {k} : Owners(l)' = Owners(l)
      BY <2>1 DEF Owners, InGetResponse, Registered, HoldsCon
    <2>6. cur[t] = table[k]
      BY <2>1 DEF LiveEntry
    <2>7. \E v \in {None} \cup Copy(table[k]) : overdue' = overdue \cup Missed(t, k, v)
      BY <1>2, <2>6 DEF GetResponseWriteFails, Collect
    <2>8. ticket'[t] = ticket[t] /\ pc'[t] \in Written
      BY <2>1 DEF Written
    <2> QED
      BY <2>1, <2>3, <2>4, <2>5, <2>7, <2>8, LeaveMatch, ZenonT(40)
  <1>3. CASE GetResponseWrite(t)
    BY <1>3, WriteMatch
  <1>4. CASE Inside(t)
    <2>1. /\ UNCHANGED <<inflight, response, table, lpc, lreq, lmsg, overdue, copied, calls, key, ticket>>
          /\ \A u \in Threads \ {t} : pc'[u] = pc[u]
          /\ \/ pc[t] = "g_lock" /\ pc'[t] = "g_write"
             \/ pc[t] \in {"g_wait", "g_count"} /\ pc'[t] \in {"g_count", "g_awake"}
      BY <1>4, InsideMoves
    <2> QED
      BY <2>1, MoveMatch DEF InGetResponse, Registered, HoldsCon, Written
  <1> QED
    BY <1>1, <1>2, <1>3, <1>4 DEF GetResponse, Inside

(* Every step keeps the packets matched.                                    *)
LEMMA MatchStep ==
  ASSUME MatchInv, [Next]_vars
  PROVE  PacketsMatch'
  <1>1. CASE TunnelLost \/ OtherInterfaces \/ UNCHANGED vars
    <2>1. /\ UNCHANGED <<inflight, response, lpc, lreq, lmsg, overdue, copied, pc, key, con, ticket, table, calls>>
          /\ \A k \in Keys : Owners(k)' = Owners(k)
      BY <1>1 DEF TunnelLost, OtherInterfaces, vars, threadVars, requestVars, listenerVars, netVars, ghostVars, Owners
    <2>2. calls \in Nat
      BY NumberAssumption DEF MatchInv, SlotInv, TableInv, TypeOK, CountersTypeOK, Tickets
    <2> QED
      BY <2>1, <2>2, QuietMatch
  <1> QED
    BY <1>1, Kinds, SendMatch, CallerMatch, GetResponseMatch, ReceiveMatch, StoreMatch, SetReadyMatch
       DEF Next, Receive

(* The matching holds in every reachable state.                             *)
LEMMA MatchInvariant == Spec => []MatchInv
  <1>1. Init => MatchInv
    <2>1. Init => PacketsMatch /\ TicketsDiffer
      BY NumberAssumption DEF Init, PacketsMatch, InflightAwaited, ReceivedAwaited, StoredAwaited, RightKey, TicketsDiffer,
         Owners, InGetResponse, Registered, HoldsCon
    <2> QED
      BY <2>1, InitSlots DEF MatchInv, PacketsMatch
  <1>2. MatchInv /\ [Next]_vars => MatchInv'
    <2> SUFFICES ASSUME MatchInv, [Next]_vars PROVE MatchInv'
      OBVIOUS
    <2>1. SlotInv'
      BY SlotsStay DEF MatchInv
    <2> QED
      BY <2>1, TicketsStep, MatchStep DEF MatchInv, PacketsMatch
  <1> QED
    BY <1>1, <1>2, PTL DEF Spec

-----------------------------------------------------------------------------
(* The confirmation that ends sendPacket belongs to its own packet, unless  *)
(* it is a stray (ConfirmationBelongs).                                     *)
THEOREM ConfirmationCorrect == Spec => []ConfirmationBelongs
  <1>1. MatchInv => ConfirmationBelongs
    <2> SUFFICES ASSUME MatchInv, NEW t \in Senders, pc[t] = "s_wait", ready[con[t]]
                 PROVE  LET m == response[con[t]] IN
                          \/ m.of = ticket[t]
                          \/ m.by \in Relays
                          \/ <<"CON", m.of>> \in overdue \cup copied
      BY DEF ConfirmationBelongs
    <2> USE Kinds, KeyFacts DEF MatchInv, SlotInv
    <2>1. t \in Owners("CON") /\ con[t] = table["CON"]
      BY DEF Owners, Registered, TableInv, LiveEntry
    <2>2. con[t] \in Requests
      BY <2>1, OwnerAlone
    <2>3. response[con[t]] \in Packet
      BY <2>2 DEF ReadyInv, ReadyHasResponse, TypeOK, TableTypeOK
    <2> DEFINE m == response[con[t]]
    <2>4. m.key = "CON" /\ (Stray(m) \/ Awaited(m))
      BY <2>1, <2>3 DEF StoredAwaited
    <2>5. Awaited(m) => m.of = ticket[t]
      BY <2>1, <2>4, AwaitedByOwner
    <2> QED
      BY <2>4, <2>5 DEF Stray
  <1> QED
    BY <1>1, MatchInvariant, PTL

(* Nobody copies a response while it is written, unless one of the two      *)
(* packets is a stray (NoTornRead).                                         *)
THEOREM WritesAlone == Spec => []NoTornRead
  <1>1. MatchInv => NoTornRead
    <2> SUFFICES ASSUME MatchInv, lpc = "write", ready[lreq]
                 PROVE  response[lreq] # None /\ (Stray(lmsg) \/ Stray(response[lreq]))
      BY DEF NoTornRead
    <2> USE DEF MatchInv, SlotInv
    <2>1. lreq \in Requests /\ lmsg \in Packet
      BY DEF ReadyInv, ListenerState
    <2>2. response[lreq] \in Packet /\ response[lreq] # None
      BY <2>1, PacketAssumption DEF ReadyInv, ReadyHasResponse, TypeOK, TableTypeOK
    <2> DEFINE p == response[lreq]
    <2>3. CASE Awaited(lmsg) /\ lreq = table[lmsg.key]
      <3> PICK k \in Keys : k = lmsg.key
        BY <2>1 DEF Packet
      <3> PICK t \in Threads : t \in Owners(k) /\ t = lmsg.by
        BY <2>3 DEF Awaited, Owners
      <3>1. p.key = k /\ (Stray(p) \/ (Awaited(p) /\ Pair(lmsg) # Pair(p)))
        BY <2>2, <2>3 DEF StoredAwaited
      <3>2. Awaited(p) => p.of = lmsg.of
        BY <2>3, <3>1, AwaitedByOwner
      <3> QED
        BY <2>2, <3>1, <3>2 DEF Pair
    <2>4. CASE Orphaned(lmsg)
      BY <2>2, <2>4 DEF Orphaned
    <2> QED
      BY <2>1, <2>2, <2>3, <2>4 DEF ReceivedAwaited
  <1> QED
    BY <1>1, MatchInvariant, PTL

(* getResponse returns the answer to its own call's packet, unless it is    *)
(* one that another call gave up or that was duplicated (NoCrossTalk).      *)
THEOREM AnswersMatch == Spec => []NoCrossTalk
  <1>1. Init => NoCrossTalk
    BY PacketAssumption DEF Init, NoCrossTalk
  <1>2. MatchInv /\ NoCrossTalk /\ [Next]_vars => NoCrossTalk'
    <2> SUFFICES ASSUME MatchInv, NoCrossTalk, [Next]_vars PROVE NoCrossTalk'
      OBVIOUS
    <2> USE Kinds, PacketAssumption DEF MatchInv, SlotInv, TableInv, TypeOK, ThreadsTypeOK
    <2> DEFINE Same == /\ overdue \subseteq overdue' /\ copied \subseteq copied'
                       /\ \A u \in Threads : \/ got'[u] = None
                                             \/ got'[u] = got[u] /\ ticket'[u] = ticket[u]
    <2>1. CASE Same
      BY <2>1 DEF NoCrossTalk
    <2>2. ASSUME NEW t \in Senders, Send(t) PROVE Same
      BY <2>2 DEF Send, SendStart, NewTicket, SendRegister, SendRegisterUnlocked, SendBuild, SendOversize, SendAcked,
         SendFailed, SendConfirmed, TakeConfirmation, SendUnconfirmed, Return, OutcomeIsFresh, netVars, ghostVars
    <2>3. ASSUME NEW t \in Threads, (t \in Relays /\ Relay(t)) \/ (t \in Queriers /\ Query(t)) PROVE Same
      BY <2>3 DEF Relay, RelayStart, RelayLock, RelayEnter, RelayReadSequence, RelayIncrement, RelayDone, Query,
         QueryStart, QueryDone, NewTicket, Return, OutcomeIsFresh, netVars, ghostVars
    <2>4. CASE Receive \/ StoreResponse \/ SetReady \/ TunnelLost \/ OtherInterfaces \/ UNCHANGED vars
      <3>1. Same
        BY <2>4 DEF Receive, ReceiveMatched, ReceiveUnmatched, Arrive, StoreResponse, SetReady, TunnelLost, OtherInterfaces, vars,
           threadVars, netVars, ghostVars
      <3> QED
        BY <2>1, <3>1
    <2>5. ASSUME NEW t \in Threads, \/ GetResponseRegister(t) \/ GetResponseWrite(t)
                                        \/ GetResponseWriteFails(t) \/ Inside(t)
          PROVE  Same
      BY <2>5, InsideMoves DEF GetResponseRegister, GetResponseRegisterUnlocked, GetResponseWrite, GetResponseWriteFails,
         netVars, ghostVars
    <2>6. ASSUME NEW t \in Threads, Collect(t) PROVE NoCrossTalk'
      <3> PICK k \in Keys \ {"CON"} : k = key[t]
        OBVIOUS
      <3>1. t \in Owners(k) /\ cur[t] = table[k]
        BY <2>6 DEF Collect, Owners, InGetResponse, LiveEntry
      <3>2. PICK v \in Copy(table[k]) : got' = [got EXCEPT ![t] = v]
        BY <2>6, <3>1 DEF Collect
      <3>3. /\ overdue \subseteq overdue' /\ copied' = copied /\ ticket' = ticket
            /\ \A u \in Threads \ {t} : got'[u] = got[u]
        BY <2>6, <3>2 DEF Collect, netVars
      <3>4. ASSUME v \in Packet
            PROVE  v.of = ticket[t] \/ <<v.key, v.of>> \in overdue \cup copied
        <4>1. CASE v = response[table[k]]
          <5>1. v.key = k /\ (Stray(v) \/ Awaited(v))
            BY <3>1, <3>4, <4>1 DEF StoredAwaited
          <5>2. Awaited(v) => v.of = ticket[t]
            BY <3>1, <5>1, AwaitedByOwner
          <5> QED
            BY <5>1, <5>2 DEF Stray
        <4>2. CASE lpc = "write" /\ lreq = table[k] /\ v = lmsg
          <5>1. v.key = k
            BY <3>1, <3>4, <4>2 DEF RightKey
          <5>2. Stray(v) \/ Awaited(v)
            BY <3>1, <3>4, <4>2 DEF ReceivedAwaited, Orphaned
          <5>3. Awaited(v) => v.of = ticket[t]
            BY <3>1, <5>1, AwaitedByOwner
          <5> QED
            BY <5>1, <5>2, <5>3 DEF Stray
        <4> QED
          BY <3>4, <4>1, <4>2 DEF Copy
      <3> QED
        BY <3>2, <3>3, <3>4 DEF NoCrossTalk
    <2> QED
      BY <2>1, <2>2, <2>3, <2>4, <2>5, <2>6 DEF Next, GetResponse, Inside
  <1> QED
    BY <1>1, <1>2, MatchInvariant, PTL DEF Spec

-----------------------------------------------------------------------------
(* Nobody but the caller that asked keeps the listener from delivering an    *)
(* answer, and that only while it is awake; every other wait of the listener *)
(* is for a confirmation (OnlyAskerHoldsUp).                                *)
THEOREM ListenerCorrect == Spec => []OnlyAskerHoldsUp
  <1>1. Init => ConOnly
    BY Kinds DEF Init, ConOnly
  <1>2. TypeOK /\ ConOnly /\ [Next]_vars => ConOnly'
    <2> SUFFICES ASSUME TypeOK, ConOnly, [Next]_vars PROVE ConOnly'
      OBVIOUS
    <2> USE Kinds, KeyFacts DEF TypeOK, ThreadsTypeOK, TableTypeOK
    <2>1. ASSUME \A k \in Keys : table'[k] \in {table[k], None}, UNCHANGED listenerVars,
                 \A t \in Senders : con'[t] \in {con[t], None}
          PROVE  ConOnly'
      BY <2>1 DEF ConOnly, listenerVars
    <2>2. ASSUME NEW t \in Senders, Send(t) PROVE ConOnly'
      <3>1. CASE SendRegister(t)
        <4>1. Register("CON") /\ UNCHANGED listenerVars /\ con' = [con EXCEPT ![t] = NewRequest]
          BY <3>1 DEF SendRegister, SendRegisterUnlocked
        <4> QED
          BY <4>1, RegisterConOnly
      <3>2. CASE ~SendRegister(t)
        BY <2>1, <2>2, <3>2 DEF Send, SendStart, SendBuild, SendOversize, SendAcked, SendFailed, SendConfirmed,
           TakeConfirmation, SendUnconfirmed, Return, requestVars
      <3> QED
        BY <3>1, <3>2
    <2>3. ASSUME NEW t \in Threads, (t \in Relays /\ Relay(t)) \/ (t \in Queriers /\ Query(t)) PROVE ConOnly'
      BY <2>1, <2>3 DEF Relay, RelayStart, RelayLock, RelayEnter, RelayReadSequence, RelayIncrement, RelayDone,
         Query, QueryStart, QueryDone, Return, requestVars
    <2>4. ASSUME NEW t \in Threads, GetResponse(t) PROVE ConOnly'
      <3> PICK k \in Keys : k = key[t]
        OBVIOUS
      <3>1. CASE GetResponseRegister(t)
        <4>1. Register(k) /\ UNCHANGED <<listenerVars, con>>
          BY <3>1 DEF GetResponseRegister, GetResponseRegisterUnlocked, Register
        <4> QED
          BY <4>1, RegisterConOnly
      <3>2. CASE ~GetResponseRegister(t)
        BY <2>1, <2>4, <3>2 DEF GetResponse, GetResponseWrite, GetResponseWriteFails, GetResponseLock, GetResponseWake,
           GetResponseTimeout, GetResponseCount, Collect, requestVars
      <3> QED
        BY <3>1, <3>2
    <2>5. ASSUME NEW m \in inflight, ReceiveMatched(m) PROVE ConOnly'
      BY <2>5 DEF ReceiveMatched, ConOnly, threadVars, requestVars, Packet
    <2>6. CASE SetReady \/ StoreResponse
      BY <2>6 DEF SetReady, StoreResponse, ConOnly, threadVars
    <2>7. CASE TunnelLost \/ OtherInterfaces \/ UNCHANGED vars \/ \E m \in inflight : ReceiveUnmatched(m)
      BY <2>1, <2>7 DEF TunnelLost, OtherInterfaces, ReceiveUnmatched, vars, threadVars, requestVars
    <2> QED
      BY <2>2, <2>3, <2>4, <2>5, <2>6, <2>7 DEF Next, Receive
  <1>3. MatchInv /\ ConOnly => OnlyAskerHoldsUp
    <2> SUFFICES ASSUME MatchInv, ConOnly, lpc = "lock", lmsg.key # "CON", NEW t \in Threads, Holds(t, lreq)
                 PROVE  pc[t] \in HoldsCur /\ cur[t] = lreq /\ key[t] = lmsg.key
      BY DEF OnlyAskerHoldsUp
    <2>1. lreq \in Requests /\ lmsg \in Packet
      BY DEF MatchInv, SlotInv, ReadyInv, ListenerState
    <2>2. ~(t \in Senders /\ con[t] = lreq)
      BY <2>1, NoneAssumption DEF ConOnly
    <2>3. pc[t] \in HoldsCur /\ cur[t] = lreq
      BY <2>2 DEF Holds
    <2>4. pc[t] \in InGetResponse /\ key[t] \in Keys
      BY <2>3 DEF HoldsCur, MatchInv, SlotInv, TableInv, TypeOK, ThreadsTypeOK
    <2>5. t \in Owners(key[t]) /\ table[key[t]] = lreq
      BY <2>3, <2>4 DEF Owners, MatchInv, SlotInv, TableInv, LiveEntry
    <2>6. lmsg.key = key[t]
      BY <2>1, <2>4, <2>5 DEF MatchInv, RightKey
    <2> QED
      BY <2>3, <2>6
  <1>4. MatchInv => TypeOK
    BY DEF MatchInv, SlotInv, TableInv
  <1> QED
    BY <1>1, <1>2, <1>3, <1>4, MatchInvariant, PTL DEF Spec

-----------------------------------------------------------------------------
(* As long as no other interface has a call, the shared counter counts this *)
(* one's unanswered calls, and it does not get past the limit: one thread at *)
(* a time counts and compares.                                              *)
CountsInARow ==
  others = 0 /\ ~stopped =>
    /\ fails = unanswered
    /\ fails < FailLimit \/ (fails = FailLimit /\ \E t \in Threads : pc[t] = "g_count")

(* Unanswered calls in a row force a reconnect (AloneForcesReconnect).       *)
THEOREM FailuresStop == Spec => []AloneForcesReconnect
  <1>1. Init => CountsInARow
    BY NumberAssumption DEF Init, CountsInARow
  <1>2. TableInv /\ CountsInARow /\ [Next]_vars => CountsInARow'
    <2> SUFFICES ASSUME TableInv, CountsInARow, [Next]_vars PROVE CountsInARow'
      OBVIOUS
    <2> USE NumberAssumption, Kinds DEF TableInv, TypeOK, ThreadsTypeOK
    <2> DEFINE Kept == /\ UNCHANGED failVars /\ (stopped => stopped')
                       /\ \A u \in Threads : pc[u] = "g_count" => pc'[u] = "g_count"
    <2>1. CASE Kept
      BY <2>1 DEF CountsInARow, failVars
    <2>2. ASSUME NEW t \in Senders, Send(t) PROVE Kept
      BY <2>2 DEF Send, SendStart, SendRegister, SendRegisterUnlocked, SendBuild, SendOversize, EnterGetResponse,
         SendAcked, SendFailed, SendConfirmed, TakeConfirmation, SendUnconfirmed, Return, failVars
    <2>3. ASSUME NEW t \in Threads, (t \in Relays /\ Relay(t)) \/ (t \in Queriers /\ Query(t)) PROVE Kept
      <3>1. UNCHANGED failVars /\ \A u \in Threads : pc[u] = "g_count" => pc'[u] = "g_count"
        BY <2>3 DEF Relay, RelayStart, RelayLock, RelayEnter, RelayReadSequence, RelayIncrement, RelayDone, Query,
           QueryStart, QueryDone, EnterGetResponse, Return
      <3>2. stopped => stopped'
        BY <2>3, Zenon DEF Relay, RelayStart, RelayLock, RelayEnter, RelayReadSequence, RelayIncrement, RelayDone,
           Query, QueryStart, QueryDone
      <3> QED
        BY <3>1, <3>2
    <2>4. ASSUME NEW t \in Threads, GetResponseRegister(t) \/ GetResponseLock(t) \/ GetResponseWriteFails(t) \/ Collect(t)
          PROVE  Kept
      BY <2>4 DEF GetResponseRegister, GetResponseRegisterUnlocked, GetResponseLock, GetResponseWriteFails, Collect,
         failVars
    <2>5. CASE Receive \/ StoreResponse \/ SetReady \/ TunnelLost \/ UNCHANGED vars
      <3>1. Kept
        BY <2>5 DEF Receive, ReceiveMatched, ReceiveUnmatched, StoreResponse, SetReady, TunnelLost, vars, threadVars,
           failVars
      <3> QED
        BY <2>1, <3>1
    <2>6. CASE OtherInterfaces
      BY <2>6 DEF OtherInterfaces, CountsInARow, CountersTypeOK
    <2>7. ASSUME NEW t \in Threads, pc[t] \in InGetResponse
          PROVE  \A u \in Threads : pc[u] = "g_count" => u = t
      BY <2>7 DEF MutexOwners, InGetResponse
    <2>8. ASSUME NEW t \in Threads, GetResponseWrite(t) \/ GetResponseWake(t) PROVE CountsInARow'
      <3>1. CASE CountAnswer
        BY <2>8, <3>1 DEF GetResponseWrite, GetResponseWake, CountAnswer, CountsInARow
      <3>2. CASE UNCHANGED failVars
        <4>1. Kept
          BY <2>8, <3>2 DEF GetResponseWrite, GetResponseWake
        <4> QED
          BY <2>1, <4>1
      <3> QED
        BY <2>8, <3>1, <3>2 DEF GetResponseWrite, GetResponseWake
    <2>9. ASSUME NEW t \in Threads, GetResponseTimeout(t) PROVE CountsInARow'
      <3>1. pc[t] = "g_wait" /\ pc'[t] = "g_count" /\ UNCHANGED <<stopped, others>>
            /\ fails' = fails + 1 /\ unanswered' = unanswered + 1
        BY <2>9 DEF GetResponseTimeout
      <3>2. \A u \in Threads : pc[u] # "g_count"
        BY <2>7, <3>1 DEF InGetResponse
      <3>3. fails \in Nat /\ unanswered \in Nat
        BY DEF CountersTypeOK
      <3> QED
        BY <3>1, <3>2, <3>3 DEF CountsInARow
    <2>10. ASSUME NEW t \in Threads, GetResponseCount(t) PROVE CountsInARow'
      <3>1. /\ fails' = (IF AtLimit(fails) THEN 0 ELSE fails) /\ stopped' = (stopped \/ AtLimit(fails))
            /\ UNCHANGED <<others, unanswered>>
        BY <2>10 DEF GetResponseCount
      <3> QED
        BY <3>1 DEF CountsInARow, AtLimit
    <2> QED
      BY <2>1, <2>2, <2>3, <2>4, <2>5, <2>6, <2>8, <2>9, <2>10 DEF Next, GetResponse
  <1>3. TypeOK /\ CountsInARow => AloneForcesReconnect
    BY NumberAssumption DEF CountsInARow, AloneForcesReconnect, FailuresForceReconnect, TypeOK, CountersTypeOK
  <1>4. TableInv => TypeOK
    BY DEF TableInv
  <1> QED
    BY <1>1, <1>2, <1>3, <1>4, InitTable, TableStep, PTL DEF Spec
=============================================================================
