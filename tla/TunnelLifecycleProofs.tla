------------------------ MODULE TunnelLifecycleProofs ------------------------
(***************************************************************************)
(* Proofs about TunnelLifecycle, for any channels and moduli, and any       *)
(* number of starts and failures.                                          *)
(***************************************************************************)
EXTENDS TunnelLifecycle, TLAPS

InInit == {"disconnect", "ask", "await", "complete"}

TypeInv ==
  /\ ipc \in [Initers -> {"idle", "begin"} \cup InInit]
  /\ overlapped \in BOOLEAN /\ straggler \in BOOLEAN /\ initComplete \in BOOLEAN
  /\ escaped \in BOOLEAN

(* From the join of the listener to the new socket there is no listener;    *)
(* and no init() that was not started too late to be waited for.  The       *)
(* exception that skips the joins is remembered.                           *)
ThreadsGone ==
  /\ mpc = "close" => lpc = "off"
  /\ mpc \in {"join_listen", "close"} => ipc["init"] = "idle" \/ straggler
  /\ SocketUnused

(* Past its beginning, an init() is told when another one runs, and as long *)
(* as it is alone the interface is not open.                               *)
AloneOrTold ==
  /\ \A i, j \in Initers : i # j /\ ipc[i] \in InInit /\ ipc[j] \in InInit => overlapped
  /\ \A i \in Initers : ipc[i] \in InInit => ~initComplete \/ overlapped

LifeInv == TypeInv /\ ThreadsGone /\ AloneOrTold

-----------------------------------------------------------------------------
LEMMA InitLife == Init => LifeInv
  BY DEF Init, LifeInv, TypeInv, ThreadsGone, SocketUnused, AloneOrTold, Initers, InInit

(* The steps that leave init() where it is.                                *)
LEMMA StepElsewhere ==
  ASSUME LifeInv, UNCHANGED <<ipc, overlapped, straggler, escaped>>,
         initComplete' = initComplete \/ initComplete' = FALSE,
         lpc = "off" => lpc' = "off",
         mpc' = mpc \/ mpc' \notin {"join_listen", "close", "open"} \/ (mpc = "close" /\ mpc' = "open")
  PROVE  LifeInv'
<1>1. initComplete' \in BOOLEAN /\ (initComplete' => initComplete)
  <2>1. initComplete \in BOOLEAN
    BY DEF LifeInv, TypeInv
  <2>2. CASE initComplete' = initComplete
    BY <2>1, <2>2
  <2>3. CASE initComplete' = FALSE
    BY <2>3
  <2> QED BY <2>2, <2>3
<1> QED BY <1>1 DEF LifeInv, TypeInv, ThreadsGone, SocketUnused, AloneOrTold

LEMMA StepLife ==
  ASSUME LifeInv, [Next]_vars
  PROVE  LifeInv'
<1> USE DEF vars, threadVars, flagVars, tunnelVars, gatewayVars, ghostVars, Step
<1>1. CASE StartListening \/ StopListening
  BY <1>1, StepElsewhere DEF StartListening, StopListening, Begin
<1>2. CASE Main
  <2>1. CASE StopDisconnect \/ StopThreads \/ CloseSocket \/ OpenSocketUnderListener \/ OpenSocketFails \/ Started
    BY <2>1, StepElsewhere
    DEF StopDisconnect, StopThreads, CloseSocket, OpenSocketUnderListener, OpenSocketFails, Started
  <2>2. CASE JoinListenThread
    BY <2>2 DEF JoinListenThread, JoinListenThreadNever, LifeInv, TypeInv, ThreadsGone, SocketUnused, AloneOrTold
  <2>3. CASE JoinInitThread
    BY <2>3 DEF JoinInitThread, LifeInv, TypeInv, ThreadsGone, SocketUnused, AloneOrTold
  <2>4. CASE OpenSocket
    BY <2>4 DEF OpenSocket, LifeInv, TypeInv, ThreadsGone, SocketUnused, AloneOrTold, Initers, InInit
  <2>5. CASE StopWriteFails
    BY <2>5 DEF StopWriteFails, LifeInv, TypeInv, ThreadsGone, SocketUnused, AloneOrTold
  <2> QED BY <1>2, <2>1, <2>2, <2>3, <2>4, <2>5 DEF Main
<1>3. ASSUME NEW i \in Initers, Handshake(i) PROVE LifeInv'
  <2> USE DEF LifeInv, TypeInv, ThreadsGone, SocketUnused, AloneOrTold, InInit, InitStep, Initers
  <2>1. CASE InitBegin(i)
    BY <2>1 DEF InitBegin, Begins
  <2>2. CASE InitDisconnect(i) \/ InitAsk(i) \/ InitAnswered(i)
    BY <2>2 DEF InitDisconnect, InitAsk, InitAnswered
  <2>3. CASE InitNotAsked(i) \/ InitUnanswered(i)
    BY <2>3 DEF InitNotAsked, InitUnanswered, InitFail
  <2>4. CASE InitComplete(i)
    BY <2>4 DEF InitComplete
  <2> QED BY <1>3, <2>1, <2>2, <2>3, <2>4 DEF Handshake
<1>4. CASE Loop
  <2>1. CASE ListenEnd \/ ListenStopped \/ ListenAwake \/ Reconnect \/ ReconnectFails
    BY <2>1, StepElsewhere DEF ListenEnd, ListenStopped, ListenAwake, Reconnect, ReconnectFails
  <2>2. CASE StartInitThread
    BY <2>2 DEF StartInitThread, LifeInv, TypeInv, ThreadsGone, SocketUnused, AloneOrTold, InInit, Initers
  <2> QED BY <1>4, <2>1, <2>2 DEF Loop
<1>5. CASE Receive \/ StartKeepAlive \/ KeepAlive
  BY <1>5, StepElsewhere
  DEF Receive, ReceiveDisconnect, ReceiveLateOffer, SocketError, StartKeepAlive, KeepAlive,
      KeepAliveAsk, KeepAliveGood, KeepAliveBad
<1>6. CASE Draw \/ ManagementConnect \/ ManagementRefused \/ ManagementUnanswered
            \/ ManagementDisconnect \/ GatewayCloses \/ GatewayExpires
  BY <1>6, StepElsewhere
  DEF Draw, ManagementConnect, ManagementRefused, ManagementUnanswered, ManagementDisconnect,
      GatewayCloses, GatewayExpires
<1>7. CASE UNCHANGED vars
  BY <1>7, StepElsewhere
<1> QED BY <1>1, <1>2, <1>3, <1>4, <1>5, <1>6, <1>7 DEF Next

(* No thread of the last session receives on a socket that is replaced, nor *)
(* is one in init() that stopListening could have waited for, unless an      *)
(* exception has left stopListening before the joins: for any number of      *)
(* starts, stops and failures (startListening, stopListening).              *)
THEOREM SocketIsUnused == Spec => []SocketUnused
<1>1. LifeInv => SocketUnused
  BY DEF LifeInv, ThreadsGone
<1> QED BY <1>1, InitLife, StepLife, PTL DEF Spec

-----------------------------------------------------------------------------
(* Only an init() that has its answer changes the channel.                  *)
LEMMA ChannelStep ==
  ASSUME LifeInv, [Next]_vars, channel' # channel
  PROVE  ~initComplete \/ overlapped
<1> USE DEF vars, threadVars, flagVars, tunnelVars, gatewayVars, ghostVars
<1>1. \E i \in Initers : InitAnswered(i)
  <2>1. CASE StartListening \/ StopListening \/ Main
    BY <2>1 DEF StartListening, StopListening, Begin, Main, StopDisconnect, StopWriteFails, StopThreads,
      JoinInitThread, JoinListenThread, JoinListenThreadNever, CloseSocket, OpenSocket,
      OpenSocketUnderListener, OpenSocketFails, Started
  <2>2. ASSUME NEW i \in Initers, Handshake(i) PROVE InitAnswered(i)
    BY <2>2 DEF Handshake, InitBegin, Begins, InitDisconnect, InitAsk, InitNotAsked,
      InitUnanswered, InitFail, InitComplete
  <2>3. CASE Loop
    BY <2>3 DEF Loop, ListenEnd, ListenStopped, ListenAwake, Reconnect, ReconnectFails,
      StartInitThread
  <2>4. CASE Receive \/ StartKeepAlive \/ KeepAlive
    BY <2>4 DEF Receive, ReceiveDisconnect, ReceiveLateOffer, SocketError, StartKeepAlive,
      KeepAlive, KeepAliveAsk, KeepAliveGood, KeepAliveBad
  <2>5. CASE Draw \/ ManagementConnect \/ ManagementRefused \/ ManagementUnanswered
              \/ ManagementDisconnect \/ GatewayCloses \/ GatewayExpires
    BY <2>5 DEF Draw, ManagementConnect, ManagementRefused, ManagementUnanswered,
      ManagementDisconnect, GatewayCloses, GatewayExpires
  <2> QED BY <2>1, <2>2, <2>3, <2>4, <2>5 DEF Next
<1>2. PICK i \in Initers : ipc[i] = "await"
  BY <1>1 DEF InitAnswered, InitStep
<1> QED BY <1>2 DEF LifeInv, AloneOrTold, InInit

(* The channel senders use does not change under them: while the interface  *)
(* is open only an init() that overlaps another sets it (init).             *)
THEOREM ChannelIsKept == Spec => ChannelKept
<1>1. LifeInv /\ [Next]_vars => [channel' # channel => ~initComplete \/ overlapped]_vars
  BY ChannelStep
<1> QED BY <1>1, InitLife, StepLife, PTL DEF Spec, ChannelKept

-----------------------------------------------------------------------------
(* One handshake, which met no answer but its own.                          *)
Clear == ~missed /\ ~overlapped

GatewayTypes ==
  /\ open \subseteq Channels /\ offers \subseteq Channels
  /\ expected \in [Channels -> Nat] /\ seq \in Nat

(* What is offered is open and begins at 0; so is and does what was taken.  *)
Offered ==
  \A i \in Initers : ipc[i] = "await" /\ Clear =>
    /\ ~closed => offers \subseteq open
    /\ ~skewed => \A c \in offers : expected[c] = 0
Taken ==
  \A i \in Initers : ipc[i] = "complete" /\ Clear =>
    /\ ~closed => channel \in open
    /\ ~skewed => channel \in Channels /\ expected[channel] = 0
CounterReset == \A i \in Initers : ipc[i] \in InInit /\ ~overlapped /\ ~skewed => seq = 0

GatewayInv == GatewayTypes /\ Offered /\ Taken /\ CounterReset /\ OpenHasTunnel /\ InSequence

LEMMA InitGateway == Init => GatewayInv
  BY DEF Init, GatewayInv, GatewayTypes, Offered, Taken, CounterReset, OpenHasTunnel, InSequence,
         InInit, Up

LEMMA NextNumber == ASSUME NEW n \in Nat PROVE Increment(n) \in Nat
  BY BoundAssumption DEF Increment

(* The steps that concern neither the gateway nor an init() under way, and   *)
(* open no interface without one.                                          *)
LEMMA GatewayElsewhere ==
  ASSUME LifeInv, GatewayInv,
         UNCHANGED <<channel, seq, open, expected, offers, missed, overlapped, closed, skewed>>,
         ipc' = ipc \/ \E i \in Initers : ipc' = [ipc EXCEPT ![i] = "begin"],
         Up' /\ mpc' # "hung" => (Up /\ mpc # "hung") \/ Handshaking'
  PROVE  GatewayInv'
<1> USE DEF GatewayInv, GatewayTypes, Offered, Taken, CounterReset, OpenHasTunnel, InSequence, Clear
<1>1. CASE ipc' = ipc
  BY <1>1 DEF Handshaking
<1>2. ASSUME NEW i \in Initers, ipc' = [ipc EXCEPT ![i] = "begin"] PROVE GatewayInv'
  <2>1. \A j \in Initers : ipc'[j] = "begin" \/ ipc'[j] = ipc[j]
    BY <1>2 DEF LifeInv, TypeInv
  <2>2. Handshaking'
    BY <1>2 DEF LifeInv, TypeInv, Handshaking
  <2> QED BY <2>1, <2>2 DEF InInit
<1> QED BY <1>1, <1>2

LEMMA StepGateway ==
  ASSUME LifeInv, GatewayInv, [Next]_vars
  PROVE  GatewayInv'
<1> USE DEF vars, threadVars, flagVars, tunnelVars, gatewayVars, ghostVars, Step
<1>1. CASE StartListening \/ StopListening
  BY <1>1, GatewayElsewhere DEF StartListening, StopListening, Begin, Up
<1>2. CASE Main
  <2>1. CASE StopWriteFails \/ StopThreads \/ CloseSocket \/ OpenSocketUnderListener \/ OpenSocketFails \/ Started \/ JoinListenThread \/ JoinInitThread
    BY <2>1, GatewayElsewhere DEF StopWriteFails, StopThreads, CloseSocket, OpenSocketUnderListener, OpenSocketFails, Started,
      JoinListenThread, JoinListenThreadNever, JoinInitThread, Up
  <2>2. CASE OpenSocket
    <3>1. Handshaking'
      BY <2>2 DEF OpenSocket, LifeInv, TypeInv, Handshaking, Initers
    <3> QED BY <2>2, <3>1, GatewayElsewhere DEF OpenSocket, Initers
  <2>3. CASE StopDisconnect
    <3>1. CASE UNCHANGED <<open, expected>>
      BY <2>3, <3>1, GatewayElsewhere DEF StopDisconnect, Up
    <3>2. CASE ~stopped /\ initComplete /\ Close(channel)
      BY <2>3, <3>2
      DEF StopDisconnect, Close, GatewayInv, GatewayTypes, Offered, Taken, CounterReset, Clear,
          OpenHasTunnel, InSequence, Up, LifeInv, AloneOrTold, InInit
    <3> QED BY <2>3, <3>1, <3>2 DEF StopDisconnect, MayClose
  <2> QED BY <1>2, <2>1, <2>2, <2>3 DEF Main
<1>3. ASSUME NEW i \in Initers, Handshake(i) PROVE GatewayInv'
  <2> USE DEF LifeInv, TypeInv, AloneOrTold, InInit, InitStep, GatewayInv, GatewayTypes, Clear
  <2>1. CASE InitBegin(i)
    <3>1. Handshaking' /\ \A j \in Initers : ipc'[j] = IF j = i THEN "disconnect" ELSE ipc[j]
      BY <2>1 DEF InitBegin, Begins, Handshaking
    <3>2. GatewayTypes'
      BY <2>1 DEF InitBegin, Begins, MayClose, Close
    <3>3. Offered' /\ Taken'
      BY <2>1, <3>1 DEF InitBegin, Begins, Offered, Taken
    <3> QED BY <2>1, <3>1, <3>2, <3>3 DEF InitBegin, Begins, CounterReset, OpenHasTunnel, InSequence
  <2>2. CASE InitDisconnect(i)
    <3>1. Handshaking' /\ \A j \in Initers : ipc'[j] = IF j = i THEN "ask" ELSE ipc[j]
      BY <2>2 DEF InitDisconnect, Handshaking
    <3>2. GatewayTypes'
      BY <2>2 DEF InitDisconnect, MayClose, Close
    <3>3. Offered' /\ Taken'
      BY <2>2, <3>1 DEF InitDisconnect, Offered, Taken
    <3> QED BY <2>2, <3>1, <3>2, <3>3 DEF InitDisconnect, CounterReset, OpenHasTunnel, InSequence
  <2>3. CASE InitAsk(i)
    <3>1. Handshaking' /\ \A j \in Initers : ipc'[j] = IF j = i THEN "await" ELSE ipc[j]
      BY <2>3 DEF InitAsk, Handshaking
    <3>2. GatewayTypes'
      BY <2>3 DEF InitAsk, Opens
    <3>3. Offered'
      <4> SUFFICES ASSUME NEW j \in Initers, ipc'[j] = "await", Clear'
                   PROVE  offers' \subseteq open' /\ \A c \in offers' : expected'[c] = 0
        BY DEF Offered
      <4>1. offers = {}
        BY <2>3, <3>1 DEF InitAsk
      <4>2. CASE UNCHANGED <<open, offers, expected>>
        BY <4>1, <4>2
      <4>3. ASSUME NEW c \in Channels \ open, open' = open \cup {c}, offers' = offers \cup {c},
                   expected' = [expected EXCEPT ![c] = 0]
            PROVE  offers' \subseteq open' /\ \A d \in offers' : expected'[d] = 0
        BY <4>1, <4>3
      <4> QED BY <2>3, <4>2, <4>3 DEF InitAsk, Opens
    <3>4. Taken'
      BY <2>3, <3>1 DEF InitAsk, Taken
    <3> QED BY <2>3, <3>1, <3>2, <3>3, <3>4 DEF InitAsk, CounterReset, OpenHasTunnel, InSequence
  <2>4. CASE InitNotAsked(i) \/ InitUnanswered(i)
    <3>1. ~Up' /\ \A j \in Initers : ipc'[j] = IF j = i THEN "idle" ELSE ipc[j]
      BY <2>4 DEF InitNotAsked, InitUnanswered, InitFail, Up
    <3>2. UNCHANGED <<channel, seq, open, expected, offers, missed, overlapped, closed, skewed>>
      BY <2>4 DEF InitNotAsked, InitUnanswered, InitFail
    <3> QED BY <3>1, <3>2 DEF Offered, Taken, CounterReset, OpenHasTunnel, InSequence
  <2>5. CASE InitAnswered(i)
    <3>1. Handshaking' /\ \A j \in Initers : ipc'[j] = IF j = i THEN "complete" ELSE ipc[j]
      BY <2>5 DEF InitAnswered, Handshaking
    <3>2. Offered' /\ Taken'
      BY <2>5, <3>1 DEF InitAnswered, Offered, Taken
    <3> QED BY <2>5, <3>1, <3>2 DEF InitAnswered, CounterReset, OpenHasTunnel, InSequence
  <2>6. CASE InitComplete(i)
    <3>1. \A j \in Initers : ipc'[j] = IF j = i THEN "idle" ELSE ipc[j]
      BY <2>6 DEF InitComplete
    <3>2. Offered' /\ Taken' /\ CounterReset'
      BY <2>6, <3>1 DEF InitComplete, Offered, Taken, CounterReset
    <3>3. OpenHasTunnel' /\ InSequence'
      BY <2>6 DEF InitComplete, OpenHasTunnel, InSequence, Taken, CounterReset
    <3> QED BY <2>6, <3>2, <3>3 DEF InitComplete
  <2> QED BY <1>3, <2>1, <2>2, <2>3, <2>4, <2>5, <2>6 DEF Handshake
<1>4. CASE Loop
  <2>1. CASE ListenEnd \/ ListenStopped \/ ListenAwake \/ Reconnect \/ ReconnectFails
    BY <2>1, GatewayElsewhere DEF ListenEnd, ListenStopped, ListenAwake, Reconnect, ReconnectFails, Up
  <2>2. CASE StartInitThread
    BY <2>2, GatewayElsewhere DEF StartInitThread, Up, Initers
  <2> QED BY <1>4, <2>1, <2>2 DEF Loop
<1>5. CASE Receive \/ StartKeepAlive \/ KeepAlive
  <2>1. CASE ReceiveLateOffer
    BY <2>1 DEF ReceiveLateOffer, GatewayInv, GatewayTypes, Offered, Taken, CounterReset, Clear,
      OpenHasTunnel, InSequence, Up, Handshaking
  <2>2. CASE ReceiveDisconnect \/ SocketError \/ StartKeepAlive \/ KeepAlive
    BY <2>2, GatewayElsewhere DEF ReceiveDisconnect, SocketError, StartKeepAlive,
      KeepAlive, KeepAliveAsk, KeepAliveGood, KeepAliveBad, Up
  <2> QED BY <1>5, <2>1, <2>2 DEF Receive
<1>6. CASE Draw
  <2> USE DEF GatewayInv, GatewayTypes, Clear
  <2>1. UNCHANGED <<mpc, ipc, stopped, initComplete, channel, open, offers, missed, overlapped, closed>>
    BY <1>6 DEF Draw
  <2>2. seq' = Increment(seq) /\ seq' \in Nat
    BY <1>6, NextNumber DEF Draw
  <2>3. expected' \in [Channels -> Nat]
    BY <1>6, <2>2 DEF Draw
  <2>4. Handshaking => skewed'
    BY <1>6 DEF Draw
  <2>5. CASE Handshaking
    BY <2>1, <2>2, <2>3, <2>4, <2>5
    DEF Offered, Taken, CounterReset, OpenHasTunnel, InSequence, Handshaking, Up
  <2>6. CASE ~Handshaking
    <3>1. \A i \in Initers : ipc[i] = "idle"
      BY <2>6 DEF Handshaking
    <3>2. OpenHasTunnel'
      BY <2>1 DEF OpenHasTunnel, Handshaking, Up
    <3>3. InSequence'
      <4> SUFFICES ASSUME Up', mpc' # "hung", ~missed, ~overlapped, ~closed, ~skewed'
                   PROVE  expected'[channel] = seq'
        BY <2>1 DEF InSequence
      <4>1. Up /\ channel \in open
        BY <2>1, <2>6 DEF OpenHasTunnel, Up
      <4>2. ~skewed /\ expected' = [expected EXCEPT ![channel] = IF @ = seq THEN Increment(seq) ELSE @]
        BY <1>6, <4>1 DEF Draw, Up
      <4>3. expected[channel] = seq
        BY <2>1, <2>6, <4>1, <4>2 DEF InSequence
      <4> QED BY <2>2, <4>1, <4>2, <4>3
    <3> QED BY <2>1, <2>2, <2>3, <3>1, <3>2, <3>3 DEF Offered, Taken, CounterReset, InInit
  <2> QED BY <2>5, <2>6
<1>7. CASE ManagementConnect \/ ManagementUnanswered
  BY <1>7 DEF ManagementConnect, ManagementUnanswered, GatewayInv, GatewayTypes, Offered, Taken,
    CounterReset, Clear, OpenHasTunnel, InSequence, Up, Handshaking
<1>8. CASE ManagementRefused
  BY <1>8, GatewayElsewhere DEF ManagementRefused, Up
<1>9. CASE ManagementDisconnect \/ GatewayCloses \/ GatewayExpires
  <2>1. PICK c :
          /\ open' \in {open, open \ {c}}
          /\ expected' \in {expected, [d \in Channels |-> IF d = c THEN 0 ELSE expected[d]]}
          /\ closed' \/ (~closed /\ c \notin offers /\ (c = channel => ~Handshaking /\ ~Up))
    <3>1. CASE ManagementDisconnect
      <4>1. closed' \/ (~closed /\ mgmtChannel \notin offers /\ mgmtChannel # channel)
        BY <3>1 DEF ManagementDisconnect
      <4>2. MayClose(mgmtChannel)
        BY <3>1 DEF ManagementDisconnect
      <4>3. CASE UNCHANGED <<open, expected>>
        BY <4>1, <4>3
      <4>4. CASE Close(mgmtChannel)
        BY <4>1, <4>4 DEF Close
      <4> QED BY <4>2, <4>3, <4>4 DEF MayClose
    <3>2. CASE GatewayCloses
      <4>1. PICK d \in open : Close(d)
        BY <3>2 DEF GatewayCloses
      <4>2. closed'
        BY <3>2 DEF GatewayCloses
      <4> QED BY <4>1, <4>2 DEF Close
    <3>3. CASE GatewayExpires
      <4>1. PICK d \in open \ offers : (d = channel => ~Handshaking /\ ~Up) /\ Close(d)
        BY <3>3 DEF GatewayExpires
      <4>2. closed' = closed
        BY <3>3 DEF GatewayExpires
      <4>3. closed' \/ ~closed
        BY <4>2
      <4>4. d \notin offers
        BY <4>1
      <4> QED BY <4>1, <4>3, <4>4 DEF Close
    <3> QED BY <1>9, <3>1, <3>2, <3>3
  <2>2. UNCHANGED <<mpc, ipc, stopped, initComplete, channel, seq, offers, missed, overlapped, skewed>>
    BY <1>9 DEF ManagementDisconnect, GatewayCloses, GatewayExpires
  <2> USE DEF GatewayInv, GatewayTypes, Clear
  <2>3. GatewayTypes' /\ \A d \in Channels : expected'[d] = expected[d] \/ expected'[d] = 0
    BY <2>1, <2>2
  <2>4. Offered' /\ Taken' /\ CounterReset'
    BY <2>1, <2>2, <2>3 DEF Offered, Taken, CounterReset, Handshaking
  <2>5. OpenHasTunnel' /\ InSequence'
    BY <2>1, <2>2, <2>3 DEF OpenHasTunnel, InSequence, Handshaking, Up
  <2> QED BY <2>3, <2>4, <2>5
<1>10. CASE UNCHANGED vars
  BY <1>10, GatewayElsewhere DEF Up
<1> QED BY <1>1, <1>2, <1>3, <1>4, <1>5, <1>6, <1>7, <1>8, <1>9, <1>10 DEF Next

(* An open interface has a tunnel of the gateway's, after any failures and  *)
(* restarts (init, listen), ...                                             *)
THEOREM TunnelIsThere == Spec => []OpenHasTunnel
<1>1. GatewayInv => OpenHasTunnel
  BY DEF GatewayInv
<1>2. LifeInv /\ GatewayInv /\ [Next]_vars => LifeInv' /\ GatewayInv'
  BY StepLife, StepGateway
<1> QED BY <1>1, <1>2, InitLife, InitGateway, PTL DEF Spec

(* ... and its counter is where the gateway's is: the next frame has the    *)
(* number that the gateway expects, however often the tunnel was set up.    *)
THEOREM CountersMeet == Spec => []InSequence
<1>1. GatewayInv => InSequence
  BY DEF GatewayInv
<1>2. LifeInv /\ GatewayInv /\ [Next]_vars => LifeInv' /\ GatewayInv'
  BY StepLife, StepGateway
<1> QED BY <1>1, <1>2, InitLife, InitGateway, PTL DEF Spec
=============================================================================
