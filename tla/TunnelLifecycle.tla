--------------------------- MODULE TunnelLifecycle ---------------------------
(***************************************************************************)
(* The life of MainInterface's tunnel: startListening, stopListening,      *)
(* listen with reconnect, init and the keepalive.                          *)
(*                                                                         *)
(* Four threads take part.  The main thread starts and stops the           *)
(* interface, and runs init() itself when it starts.  The listener thread  *)
(* receives packets, opens the socket again after a failure and starts a   *)
(* thread that runs init() once more; it also starts the keepalive thread. *)
(* They share the flags below, each of which is atomic, and no lock.       *)
(*                                                                         *)
(* What getResponse does in between is the subject of RequestTable; here   *)
(* it returns an answer, perhaps a late one, or nothing.  The gateway is   *)
(* the set of channels it has open for Homegear.                           *)
(***************************************************************************)
EXTENDS Naturals, FiniteSets

CONSTANTS
  Channels,     \* channel numbers of the gateway, of tunnels and of management connections
  SeqMod,       \* sequence counters are of type uint8_t: 256 in the code
  MaxEvents,    \* bound: failures of network and gateway, and management connections
  MaxStarts,    \* bound: calls of startListening
  Timely        \* the listener's 10 seconds of sleep outlast handshakes and keepalives

ASSUME ChannelAssumption == Channels # {} /\ IsFiniteSet(Channels) /\ 0 \notin Channels
ASSUME BoundAssumption ==
  SeqMod \in Nat \ {0} /\ MaxEvents \in Nat /\ MaxStarts \in Nat /\ Timely \in BOOLEAN

VARIABLES
  mpc, goal,       \* the main thread: where it is; "start" or "stop"
  ipc,             \* init(), run by the main thread and by _initThread
  lpc,             \* the listener thread
  kpc,             \* the keepalive thread; "good" and "bad" are the gateway's answers
  stopped,         \* _stopped
  stopThread,      \* _stopCallbackThread
  initComplete,    \* _initComplete
  channel,         \* _channelId
  mgmt, mgmtChannel,   \* _managementConnected and _managementChannelId
  seq,             \* _sequenceCounter
  open,            \* the channels the gateway has open
  expected,        \* the sequence number the gateway expects next on each channel
  offers,          \* channels in answers to CONNECT_REQUESTs that have not been received
  notices,         \* channels in DISCONNECT_REQUESTs of the gateway, likewise
  starts, events,  \* counters of what is bounded
  missed,          \* a handshake was given up before its answer was received
  overlapped,      \* the two threads were in init() at the same time
  closed,          \* since the last CONNECT_REQUEST the gateway closed a channel, or was
                   \* told to close the tunnel in the name of a lost management connection
  skewed,          \* a frame was lost or drew its number during a handshake
  straggler,       \* _initThread was started after the main thread had waited for it
  escaped          \* stopListening was left by an exception, before it stopped the threads

threadVars == <<mpc, goal, ipc, lpc, kpc>>
flagVars == <<stopped, stopThread, initComplete>>
tunnelVars == <<channel, mgmt, mgmtChannel, seq>>
gatewayVars == <<open, expected, offers, notices>>
ghostVars == <<missed, overlapped, closed, skewed, straggler, escaped>>
vars == <<threadVars, flagVars, tunnelVars, gatewayVars, starts, events, ghostVars>>

Initers == {"main", "init"}
Up == initComplete /\ ~stopped
Handshaking == \E i \in Initers : ipc[i] # "idle"

(* _managementChannelId is not initialised: it may be any number.          *)
Init ==
  /\ mpc = "idle" /\ goal = "stop"
  /\ ipc = [i \in Initers |-> "idle"] /\ lpc = "off" /\ kpc = "off"
  /\ stopped = TRUE /\ stopThread = FALSE /\ initComplete = FALSE
  /\ channel = 0 /\ mgmt = FALSE /\ mgmtChannel \in Channels \cup {0} /\ seq = 0
  /\ open = {} /\ expected = [c \in Channels |-> 0] /\ offers = {} /\ notices = {}
  /\ starts = 0 /\ events = 0
  /\ missed = FALSE /\ overlapped = FALSE /\ closed = FALSE /\ skewed = FALSE /\ straggler = FALSE
  /\ escaped = FALSE

(* Something happens that is bounded.                                      *)
Event == events < MaxEvents /\ events' = events + 1

Increment(n) == (n + 1) % SeqMod

Step(pc, from, to) == pc = from /\ pc' = to
InitStep(i, from, to) == ipc[i] = from /\ ipc' = [ipc EXCEPT ![i] = to]

(* The gateway closes a channel, or does not get the packet that says so.  *)
Close(c) == /\ open' = open \ {c}
            /\ expected' = [d \in Channels |-> IF d = c THEN 0 ELSE expected[d]]
MayClose(c) == Close(c) \/ UNCHANGED <<open, expected>>

-----------------------------------------------------------------------------
(* startListening and stopListening begin with stopListening.              *)
Begin(g) ==
  /\ goal' = g
  /\ mpc' = "disconnect"
  /\ UNCHANGED <<ipc, lpc, kpc, flagVars, tunnelVars, gatewayVars, events, ghostVars>>
StartListening == /\ mpc \in {"idle", "running"}
                  /\ starts < MaxStarts /\ starts' = starts + 1
                  /\ Begin("start")
StopListening == mpc = "running" /\ Begin("stop") /\ UNCHANGED starts

(* An open tunnel is closed; the packet may not arrive.                    *)
StopDisconnect ==
  /\ Step(mpc, "disconnect", "stop")
  /\ IF ~stopped /\ initComplete
     THEN initComplete' = FALSE /\ MayClose(channel)
     ELSE UNCHANGED <<initComplete, open, expected>>
  /\ UNCHANGED <<goal, ipc, lpc, kpc, stopped, stopThread, tunnelVars, offers, notices,
                 starts, events, ghostVars>>

(* It cannot be written: the exception leaves stopListening, and its       *)
(* caller goes on as if the threads had ended.                             *)
StopWriteFails ==
  /\ Step(mpc, "disconnect", IF goal = "start" THEN "open" ELSE "idle")
  /\ ~stopped /\ initComplete
  /\ Event
  /\ escaped' = TRUE
  /\ UNCHANGED <<goal, ipc, lpc, kpc, flagVars, tunnelVars, gatewayVars, starts,
                 missed, overlapped, closed, skewed, straggler>>

StopThreads ==
  /\ Step(mpc, "stop", "join_init")
  /\ stopThread' = TRUE
  /\ UNCHANGED <<goal, ipc, lpc, kpc, stopped, initComplete, tunnelVars, gatewayVars, starts, events,
                 ghostVars>>

JoinInitThread ==
  /\ Step(mpc, "join_init", "join_listen")
  /\ ipc["init"] = "idle"
  /\ straggler' = FALSE
  /\ UNCHANGED <<goal, ipc, lpc, kpc, flagVars, tunnelVars, gatewayVars, starts, events,
                 missed, overlapped, closed, skewed, escaped>>

JoinListenThreadNever ==
  /\ Step(mpc, "join_listen", "close")
  /\ escaped' = FALSE
  /\ UNCHANGED <<goal, ipc, lpc, kpc, flagVars, tunnelVars, gatewayVars, starts, events,
                 missed, overlapped, closed, skewed, straggler>>
JoinListenThread == lpc = "off" /\ JoinListenThreadNever

CloseSocket ==
  /\ Step(mpc, "close", IF goal = "start" THEN "open" ELSE "idle")
  /\ stopThread' = FALSE /\ stopped' = TRUE
  /\ UNCHANGED <<goal, ipc, lpc, kpc, initComplete, tunnelVars, gatewayVars, starts, events, ghostVars>>

(* A new socket, the listener thread, and init() in this thread, ...       *)
OpenSocket ==
  /\ Step(mpc, "open", "init") /\ lpc = "off"
  /\ stopped' = FALSE
  /\ lpc' = "run"
  /\ ipc' = [ipc EXCEPT !["main"] = "begin"]
  /\ UNCHANGED <<goal, kpc, stopThread, initComplete, tunnelVars, gatewayVars, starts, events, ghostVars>>

(* ... if the last listener has ended.  Otherwise the start of the new one *)
(* waits for it, for ever, while it receives on the new socket ...         *)
OpenSocketUnderListener ==
  /\ Step(mpc, "open", "hung") /\ lpc # "off"
  /\ stopped' = FALSE
  /\ UNCHANGED <<goal, ipc, lpc, kpc, stopThread, initComplete, tunnelVars, gatewayVars, starts, events,
                 ghostVars>>

(* ... unless it cannot be opened.                                         *)
OpenSocketFails ==
  /\ Step(mpc, "open", "idle")
  /\ Event
  /\ UNCHANGED <<goal, ipc, lpc, kpc, flagVars, tunnelVars, gatewayVars, starts, ghostVars>>

Started ==
  /\ Step(mpc, "init", "running")
  /\ ipc["main"] = "idle"
  /\ UNCHANGED <<goal, ipc, lpc, kpc, flagVars, tunnelVars, gatewayVars, starts, events, ghostVars>>

-----------------------------------------------------------------------------
(* init(): reset the counter; a management connection is given up.         *)
Begins(i) ==
  /\ InitStep(i, "begin", "disconnect")
  /\ mgmt' = FALSE
  /\ IF mgmt THEN MayClose(mgmtChannel) ELSE UNCHANGED <<open, expected>>
  /\ missed' = FALSE /\ closed' = FALSE /\ skewed' = FALSE
  /\ overlapped' = (\E j \in Initers \ {i} : ipc[j] # "idle")
  /\ UNCHANGED <<mpc, goal, lpc, kpc, stopped, stopThread, channel, mgmtChannel,
                 offers, notices, starts, events, straggler, escaped>>
InitBeginOpen(i) == Begins(i) /\ seq' = 0 /\ UNCHANGED initComplete
InitBeginKeepSequence(i) == Begins(i) /\ initComplete' = FALSE /\ UNCHANGED seq
InitBegin(i) == Begins(i) /\ seq' = 0 /\ initComplete' = FALSE

(* A DISCONNECT_REQUEST for the previous tunnel, whether or not there was  *)
(* one; nobody waits for the answer.                                       *)
InitDisconnect(i) ==
  /\ InitStep(i, "disconnect", "ask")
  /\ MayClose(channel)
  /\ UNCHANGED <<mpc, goal, lpc, kpc, flagVars, tunnelVars, offers, notices, starts, events, ghostVars>>

(* The gateway hands out a free channel, if it has one: clients we do not  *)
(* know of may have taken the rest.                                        *)
Opens ==
  \/ /\ (Channels \subseteq open /\ UNCHANGED events) \/ Event
     /\ UNCHANGED <<open, offers, expected>>
  \/ \E c \in Channels \ open :
       /\ UNCHANGED events
       /\ open' = open \cup {c} /\ offers' = offers \cup {c}
       /\ expected' = [expected EXCEPT ![c] = 0]

(* The CONNECT_REQUEST is written and awaited.                             *)
InitAsk(i) ==
  /\ InitStep(i, "ask", "await") /\ ~stopped
  /\ Opens
  /\ missed' = (offers # {})
  /\ closed' = FALSE
  /\ UNCHANGED <<mpc, goal, lpc, kpc, flagVars, tunnelVars, notices, starts, overlapped, skewed,
                 straggler, escaped>>

(* init() fails: the listener will connect again.                          *)
InitFail(i, from) ==
  /\ InitStep(i, from, "idle")
  /\ stopped' = TRUE
  /\ UNCHANGED <<mpc, goal, lpc, kpc, stopThread, initComplete, tunnelVars, gatewayVars, starts,
                 overlapped, closed, skewed, straggler, escaped>>
(* It failed before it asked: the socket throws, or getResponse finds      *)
(* _stopped set.                                                           *)
InitNotAsked(i) == \/ InitFail(i, "disconnect") /\ Event /\ UNCHANGED missed
                   \/ stopped /\ InitFail(i, "ask") /\ UNCHANGED <<missed, events>>

(* The answer comes, this handshake's or an earlier one's.  The listener   *)
(* has to be there to receive it.                                          *)
InitAnswered(i) ==
  /\ InitStep(i, "await", "complete")
  /\ lpc = "run"
  /\ \E c \in offers : channel' = c /\ offers' = offers \ {c}
  /\ UNCHANGED <<mpc, goal, lpc, kpc, flagVars, mgmt, mgmtChannel, seq, open, expected, notices,
                 starts, events, ghostVars>>

InitRefusedIgnored(i) ==
  /\ InitStep(i, "await", "complete")
  /\ offers = {}
  /\ UNCHANGED <<mpc, goal, lpc, kpc, flagVars, tunnelVars, gatewayVars, starts, events, ghostVars>>
InitUnansweredNever(i) == InitAnswered(i)

(* It does not come in time, or it is an error.                            *)
InitUnanswered(i) ==
  /\ \/ lpc # "run" /\ UNCHANGED events
     \/ offers = {} /\ UNCHANGED events
     \/ Event
  /\ UNCHANGED missed
  /\ InitFail(i, "await")

(* getConnectionState returns at once while _initComplete is not set; only *)
(* if another init() has just set it, the gateway is asked.                *)
InitComplete(i) ==
  /\ InitStep(i, "complete", "idle")
  /\ \/ initComplete' = TRUE /\ UNCHANGED <<stopped, events>>
     \/ initComplete /\ stopped' = TRUE /\ UNCHANGED <<initComplete, events>>
  /\ UNCHANGED <<mpc, goal, lpc, kpc, stopThread, tunnelVars, gatewayVars, starts, ghostVars>>

-----------------------------------------------------------------------------
(* The listener leaves its loop.                                           *)
ListenEnd ==
  /\ lpc \in {"run", "sleep"} /\ stopThread
  /\ lpc' = "off"
  /\ UNCHANGED <<mpc, goal, ipc, kpc, flagVars, tunnelVars, gatewayVars, starts, events, ghostVars>>

(* The connection is down: close the socket and sleep for ten seconds.     *)
ListenStopped ==
  /\ Step(lpc, "run", "sleep")
  /\ ~stopThread /\ stopped
  /\ UNCHANGED <<mpc, goal, ipc, kpc, flagVars, tunnelVars, gatewayVars, starts, events, ghostVars>>

(* Awake again: stopThread is looked at, then reconnect() begins.          *)
ListenAwake ==
  /\ Step(lpc, "sleep", "reconnect")
  /\ ~stopThread
  /\ Timely => ~Handshaking /\ kpc = "off"
  /\ UNCHANGED <<mpc, goal, ipc, kpc, flagVars, tunnelVars, gatewayVars, starts, events, ghostVars>>

Reconnect ==
  /\ Step(lpc, "reconnect", "join_init")
  /\ initComplete' = FALSE /\ stopped' = FALSE
  /\ UNCHANGED <<mpc, goal, ipc, kpc, stopThread, tunnelVars, gatewayVars, starts, events, ghostVars>>
ReconnectFails ==
  /\ Step(lpc, "reconnect", "run")
  /\ initComplete' = FALSE
  /\ UNCHANGED <<mpc, goal, ipc, kpc, stopped, stopThread, tunnelVars, gatewayVars, starts, events, ghostVars>>

(* _initThread is joined and started.                                      *)
StartInitThread ==
  /\ Step(lpc, "join_init", "run")
  /\ ipc["init"] = "idle"
  /\ ipc' = [ipc EXCEPT !["init"] = "begin"]
  /\ straggler' = (mpc = "join_listen")
  /\ UNCHANGED <<mpc, goal, kpc, flagVars, tunnelVars, gatewayVars, starts, events,
                 missed, overlapped, closed, skewed, escaped>>

(* Five seconds of silence, and sixty since the last time: the keepalive.  *)
(* It never takes so long that the previous one is still running.          *)
StartKeepAlive ==
  /\ lpc = "run" /\ ~stopThread /\ ~stopped
  /\ kpc = "off" /\ kpc' = "ask"
  /\ UNCHANGED <<mpc, goal, ipc, lpc, flagVars, tunnelVars, gatewayVars, starts, events, ghostVars>>

(* A DISCONNECT_REQUEST of the gateway.  One for a channel that has the    *)
(* number of the management channel is only acknowledged.                  *)
ReceiveDisconnect ==
  /\ lpc = "run" /\ ~stopThread /\ ~stopped
  /\ \E c \in notices : notices' = notices \ {c} /\ stopped' = (c # mgmtChannel)
  /\ UNCHANGED <<threadVars, stopThread, initComplete, tunnelVars, open, expected, offers, starts,
                 events, ghostVars>>

(* The socket fails in the listener, which sleeps as in ListenStopped.     *)
SocketError ==
  /\ Step(lpc, "run", "sleep") /\ ~stopThread /\ ~stopped
  /\ Event
  /\ stopped' = TRUE
  /\ UNCHANGED <<mpc, goal, ipc, kpc, stopThread, initComplete, tunnelVars, gatewayVars, starts, ghostVars>>

(* An answer to a CONNECT_REQUEST nobody waits for any more is dropped.    *)
ReceiveLateOffer ==
  /\ lpc = "run" /\ ~stopThread /\ ~stopped
  /\ \A i \in Initers : ipc[i] # "await"
  /\ \E c \in offers : offers' = offers \ {c}
  /\ UNCHANGED <<threadVars, flagVars, tunnelVars, open, expected, notices, starts, events, ghostVars>>

-----------------------------------------------------------------------------
(* getConnectionState of the keepalive thread: nothing is asked before     *)
(* init() is complete, and there is no answer while _stopped is set.       *)
KeepAliveAsk ==
  /\ Step(kpc, "ask", IF ~initComplete THEN "off" ELSE IF ~stopped /\ channel \in open THEN "good" ELSE "bad")
  /\ UNCHANGED <<mpc, goal, ipc, lpc, flagVars, tunnelVars, gatewayVars, starts, events, ghostVars>>

(* E_NO_ERROR is the only good answer: with an error, or none, the         *)
(* listener connects again.                                                *)
KeepAliveGood ==
  /\ Step(kpc, "good", "off") /\ lpc = "run"
  /\ UNCHANGED <<mpc, goal, ipc, lpc, flagVars, tunnelVars, gatewayVars, starts, events, ghostVars>>
KeepAliveIgnored ==
  /\ kpc \in {"good", "bad"} /\ kpc' = "off"
  /\ UNCHANGED <<mpc, goal, ipc, lpc, flagVars, tunnelVars, gatewayVars, starts, events, ghostVars>>
KeepAliveBad ==
  /\ kpc \in {"good", "bad"} /\ kpc' = "off"
  /\ \/ (kpc = "bad" \/ lpc # "run") /\ UNCHANGED events
     \/ Event
  /\ stopped' = TRUE
  /\ UNCHANGED <<mpc, goal, ipc, lpc, stopThread, initComplete, tunnelVars, gatewayVars, starts, ghostVars>>

-----------------------------------------------------------------------------
(* A frame draws a sequence number: sendPacket if the tunnel is open, the  *)
(* forwarder at any time.  Frames may be lost, and the gateway drops what  *)
(* is out of sequence.                                                     *)
Draw ==
  /\ seq' = Increment(seq)
  /\ IF ~stopped /\ channel \in open
     THEN \/ /\ expected' = [expected EXCEPT ![channel] = IF @ = seq THEN Increment(seq) ELSE @]
             /\ skewed' = (skewed \/ Handshaking)
             /\ UNCHANGED events
          \/ Event /\ skewed' = TRUE /\ UNCHANGED expected
     ELSE skewed' = TRUE /\ UNCHANGED <<expected, events>>
  /\ UNCHANGED <<threadVars, flagVars, channel, mgmt, mgmtChannel, open, offers, notices, starts,
                 missed, overlapped, closed, straggler, escaped>>

(* The forwarder opens a management connection.  Refused, it has the       *)
(* listener connect again; unanswered, the gateway's channel is left open. *)
ManagementConnect ==
  /\ ~mgmt /\ ~stopped /\ lpc = "run" /\ Event
  /\ \E c \in Channels \ open :
       mgmt' = TRUE /\ mgmtChannel' = c /\ open' = open \cup {c}
  /\ UNCHANGED <<threadVars, flagVars, channel, seq, expected, offers, notices, starts, ghostVars>>
ManagementRefused ==
  /\ ~mgmt /\ ~stopped /\ lpc = "run" /\ Event
  /\ stopped' = TRUE
  /\ UNCHANGED <<threadVars, stopThread, initComplete, tunnelVars, gatewayVars, starts, ghostVars>>
ManagementUnanswered ==
  /\ ~mgmt /\ ~stopped /\ Event
  /\ \E c \in Channels \ open : open' = open \cup {c}
  /\ UNCHANGED <<threadVars, flagVars, tunnelVars, expected, offers, notices, starts, ghostVars>>
(* It closes it; the packet may not arrive.                                *)
ManagementDisconnect ==
  /\ mgmt /\ mgmt' = FALSE
  /\ MayClose(mgmtChannel)
  /\ closed' = (closed \/ mgmtChannel \in offers \cup {channel})
  /\ UNCHANGED <<threadVars, flagVars, channel, mgmtChannel, seq, offers, notices, starts,
                 events, missed, overlapped, skewed, straggler, escaped>>

(* The gateway closes a channel, and says so or not.                       *)
GatewayCloses ==
  /\ \E c \in open : Close(c) /\ notices' \in {notices, notices \cup {c}}
  /\ Event
  /\ closed' = TRUE
  /\ UNCHANGED <<threadVars, flagVars, tunnelVars, offers, starts, missed, overlapped, skewed, straggler, escaped>>
(* It drops a channel nobody keeps alive.                                  *)
GatewayExpires ==
  /\ \E c \in open \ offers : (c = channel => ~Handshaking /\ ~Up) /\ Close(c)
  /\ UNCHANGED <<threadVars, flagVars, tunnelVars, offers, notices, starts, events, ghostVars>>

-----------------------------------------------------------------------------
Main == StopDisconnect \/ StopWriteFails \/ StopThreads \/ JoinInitThread \/ JoinListenThread \/ CloseSocket
        \/ OpenSocket \/ OpenSocketUnderListener \/ OpenSocketFails \/ Started
Handshake(i) == InitBegin(i) \/ InitDisconnect(i) \/ InitAsk(i) \/ InitNotAsked(i)
                \/ InitAnswered(i) \/ InitUnanswered(i) \/ InitComplete(i)
Loop == ListenEnd \/ ListenStopped \/ ListenAwake \/ Reconnect \/ ReconnectFails \/ StartInitThread
Receive == ReceiveDisconnect \/ ReceiveLateOffer \/ SocketError
KeepAlive == KeepAliveAsk \/ KeepAliveGood \/ KeepAliveBad
Next == \/ StartListening \/ StopListening \/ Main
        \/ \E i \in Initers : Handshake(i)
        \/ Loop \/ Receive \/ StartKeepAlive \/ KeepAlive
        \/ Draw \/ ManagementConnect \/ ManagementRefused \/ ManagementUnanswered \/ ManagementDisconnect
        \/ GatewayCloses \/ GatewayExpires

Spec == Init /\ [][Next]_vars

(* Threads go on, waits time out, a line on which nothing comes is probed, *)
(* the gateway drops channels that nobody keeps alive, and a socket that   *)
(* is opened again and again is open at last.                              *)
FairSpec ==
  /\ Spec
  /\ WF_vars(Main) /\ \A i \in Initers : WF_vars(Handshake(i))
  /\ WF_vars(Loop) /\ SF_vars(Reconnect) /\ WF_vars(StartKeepAlive) /\ WF_vars(KeepAlive) /\ WF_vars(GatewayExpires)

-----------------------------------------------------------------------------
(* An interface that is open has a tunnel: the channel it uses is one the  *)
(* gateway holds, unless the gateway closed it since, the handshake met    *)
(* another one's answer, or a start hangs on the last session's listener.  *)
OpenHasTunnel ==
  Up /\ mpc # "hung" /\ ~Handshaking /\ ~missed /\ ~overlapped /\ ~closed => channel \in open

(* Frames go out on a new tunnel in the sequence the gateway expects, from *)
(* the first, unless one was lost or drew its number during the handshake, *)
(* or the gateway closed the tunnel since.                                 *)
InSequence ==
  Up /\ mpc # "hung" /\ ~Handshaking /\ ~missed /\ ~overlapped /\ ~closed /\ ~skewed =>
    expected[channel] = seq

(* When startListening replaces the socket, no thread of the last session  *)
(* receives on it, and none is in init() unless the listener started it    *)
(* after stopListening had waited for it; but if the DISCONNECT_REQUEST    *)
(* could not be written (escaped), nothing was stopped, until a later      *)
(* stopListening has waited for the listener.                              *)
SocketUnused ==
  mpc = "open" /\ ~escaped => lpc = "off" /\ (ipc["init"] = "idle" \/ straggler)

(* The channel of an open interface does not change under its senders: it  *)
(* is closed before a new tunnel is set up, but for overlapping init()s.   *)
ChannelKept == [][channel' # channel => ~initComplete \/ overlapped]_vars

(* Stopping and starting ends, whatever the other threads are doing, but   *)
(* for the start that found the last session's listener running.           *)
StopEnds == mpc \notin {"idle", "running"} ~> mpc \in {"idle", "running", "hung"}

(* A running interface gets its tunnel back, however it was lost: closed   *)
(* by the gateway with or without notice, or with the socket.              *)
Recovers == mpc = "running" ~> (Up /\ channel \in open) \/ mpc # "running"
=============================================================================
