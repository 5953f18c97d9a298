------------------------------ MODULE Forwarder ------------------------------
(***************************************************************************)
(* KnxIpForwarder: the server that lets one client at a time (ETS, say)    *)
(* share the connection of MainInterface to the gateway.                   *)
(*                                                                         *)
(* Two threads run here.  The forwarder's own thread processes the         *)
(* packets of the clients one after the other (processRawPacket), and      *)
(* waits for the gateway in connectManagement and disconnectManagement.    *)
(* The listener thread of the interface calls packetReceivedCallback for   *)
(* every packet of the gateway.  They share the forwarder's fields, most   *)
(* of which are neither atomic nor locked.                                 *)
(*                                                                         *)
(* Clients are their IP addresses; a client only uses channel numbers it   *)
(* was given.  Time is the age of _lastPacketReceived, in the three        *)
(* classes the code distinguishes.  The relaying of tunnelling requests is *)
(* part of RequestTable.                                                   *)
(***************************************************************************)
EXTENDS Naturals

CONSTANTS
  Clients,     \* IP addresses of clients
  None,        \* an absent value: the empty address, no channel
  ChanMod,     \* channel numbers are of type uint8_t: 256 in the code
  SeqMod,      \* sequence counters are of type uint8_t: 256 in the code
  MaxConnects  \* bound: connect requests

ASSUME ClientAssumption == None \notin Clients /\ None \notin Nat
ASSUME BoundAssumption ==
  ChanMod \in Nat \ {0} /\ SeqMod \in Nat \ {0} /\ MaxConnects \in Nat

VARIABLES
  connected, mgmtConnected,    \* _connected, _managementConnected
  lastSender,                  \* _lastSenderIp
  age,                         \* of _lastPacketReceived: below 60 s, up to 300 s, above
  channel, mgmtChannel,        \* _channelId, _managementChannelId
  seqOut,                      \* _sequenceCounterOut
  ifaceMgmt,                   \* _managementConnected of the interface
  fpc, req,                    \* the forwarder's thread: where it is, its packet
  ipc, ind,                    \* the listener's thread: where it is, the indication's header
  tunnel, mgmt,                \* what clients were told: the channels of each
  expected,                    \* the sequence number each client expects
  connects,                    \* connect requests so far
  raced,       \* an indication was on its way while the tunnel was set up
  dropped,     \* an indication did not go to a client that has the tunnel
  misopened    \* a connect with wrong addresses opened the management connection

fwVars == <<connected, mgmtConnected, lastSender, channel, mgmtChannel>>
clientVars == <<tunnel, mgmt, expected>>
ghostVars == <<raced, dropped, misopened>>
vars == <<fwVars, age, seqOut, ifaceMgmt, fpc, req, ipc, ind, clientVars, connects, ghostVars>>

Fresh == 0      \* less than 60 seconds old
Quiet == 1      \* 60 to 300 seconds old
Silent == 2     \* more than 300 seconds old, or never set

Channels == 0..ChanMod-1
Kinds == {"tunnel", "mgmt"}   \* connection type codes 4 and 3

Init ==
  /\ connected = FALSE /\ mgmtConnected = FALSE /\ lastSender = None /\ age = Silent
  /\ channel = 0 /\ mgmtChannel = 0 /\ seqOut = 0 /\ ifaceMgmt = FALSE
  /\ fpc = "idle" /\ req = None
  /\ ipc = "idle" /\ ind = None
  /\ tunnel = [c \in Clients |-> None] /\ mgmt = [c \in Clients |-> None]
  /\ expected = [c \in Clients |-> 0]
  /\ connects = 0
  /\ raced = FALSE /\ dropped = FALSE /\ misopened = FALSE

(* _sequenceCounterOut + 1 in a uint8_t.                                   *)
Increment(n) == (n + 1) % SeqMod

-----------------------------------------------------------------------------
(* A CONNECT_REQUEST of client c arrives; "good" says whether the          *)
(* addresses in it are the sender's.                                       *)
Arrives(c, kind, good) ==
  /\ fpc = "idle"
  /\ connects < MaxConnects
  /\ connects' = connects + 1
  /\ req' = [client |-> c, kind |-> kind, good |-> good]

(* Another client was heard of in the last 60 seconds.                     *)
Busy(c) == c # lastSender /\ age = Fresh

ConnectRefused(c, kind, good) ==
  /\ Arrives(c, kind, good)
  /\ Busy(c)
  /\ fpc' = "refuse"
  /\ UNCHANGED <<fwVars, age, seqOut, ifaceMgmt, ipc, ind, clientVars, ghostVars>>

(* Wrong addresses: E_CONNECTION_OPTION.  The management connection to the *)
(* gateway is opened all the same.                                         *)
ConnectMisaddressed(c, kind) ==
  /\ Arrives(c, kind, FALSE)
  /\ ~Busy(c)
  /\ fpc' = IF kind = "mgmt" /\ ~ifaceMgmt THEN "open" ELSE "reply"
  /\ misopened' = (misopened \/ (kind = "mgmt" /\ ~ifaceMgmt))
  /\ UNCHANGED <<fwVars, age, seqOut, ifaceMgmt, ipc, ind, clientVars, raced, dropped>>

(* The client takes the slot.  An open management connection is closed     *)
(* before a new one is set up, and the connection gets the next number.    *)
ConnectAccepted(c, kind) ==
  /\ Arrives(c, kind, TRUE)
  /\ ~Busy(c)
  /\ ifaceMgmt' = (ifaceMgmt /\ kind # "mgmt")
  /\ lastSender' = c /\ age' = Fresh
  /\ IF kind = "tunnel"
     THEN channel' = (channel + 1) % ChanMod /\ UNCHANGED mgmtChannel
     ELSE mgmtChannel' = (mgmtChannel + 1) % ChanMod /\ UNCHANGED channel
  /\ raced' = IF kind = "tunnel" THEN ipc # "idle" ELSE raced
  /\ dropped' = (dropped /\ kind # "tunnel")
  /\ fpc' = "reset"
  /\ UNCHANGED <<connected, mgmtConnected, seqOut, ipc, ind, clientVars, misopened>>

(* The counter starts again and the connection counts as open.             *)
Connected(kind) ==
  /\ connected' = (connected \/ kind = "tunnel")
  /\ mgmtConnected' = (mgmtConnected \/ kind = "mgmt")

ConnectWithoutReset ==
  /\ fpc = "reset"
  /\ Connected(req.kind)
  /\ fpc' = IF req.kind = "mgmt" /\ ~ifaceMgmt THEN "open" ELSE "reply"
  /\ UNCHANGED <<lastSender, channel, mgmtChannel, age, seqOut, ifaceMgmt, req, ipc, ind, clientVars,
                 connects, ghostVars>>

ResetConnection ==
  /\ fpc = "reset"
  /\ seqOut' = IF req.kind = "tunnel" THEN 0 ELSE seqOut
  /\ Connected(req.kind)
  /\ misopened' = (misopened /\ req.kind # "mgmt")
  /\ fpc' = IF req.kind = "mgmt" /\ ~ifaceMgmt THEN "open" ELSE "reply"
  /\ UNCHANGED <<lastSender, channel, mgmtChannel, age, ifaceMgmt, req, ipc, ind, clientVars,
                 connects, raced, dropped>>

(* connectManagement succeeds or fails; the client is not told which.      *)
OpenManagement ==
  /\ fpc = "open"
  /\ ifaceMgmt' \in BOOLEAN
  /\ fpc' = "reply"
  /\ UNCHANGED <<fwVars, age, seqOut, req, ipc, ind, clientVars, connects, ghostVars>>

(* The CONNECT_RESPONSE: a channel, or an error and no channel.            *)
ConnectReply ==
  /\ fpc \in {"reply", "refuse"}
  /\ fpc' = "idle" /\ req' = None
  /\ IF fpc = "refuse" \/ ~req.good THEN UNCHANGED clientVars
     ELSE IF req.kind = "tunnel"
     THEN /\ tunnel' = [tunnel EXCEPT ![req.client] = channel]
          /\ expected' = [expected EXCEPT ![req.client] = 0]
          /\ UNCHANGED mgmt
     ELSE /\ mgmt' = [mgmt EXCEPT ![req.client] = mgmtChannel]
          /\ UNCHANGED <<tunnel, expected>>
  /\ UNCHANGED <<fwVars, age, seqOut, ifaceMgmt, ipc, ind, connects, ghostVars>>

-----------------------------------------------------------------------------
Known(ch) == ch = channel \/ ch = mgmtChannel

(* CONNECTIONSTATE_REQUEST: the client's heartbeat for a channel of its.   *)
ConnectionState(c) ==
  /\ fpc = "idle"
  /\ \E ch \in {tunnel[c], mgmt[c]} \ {None} : Known(ch)
  /\ age' = Fresh
  /\ UNCHANGED <<fwVars, seqOut, ifaceMgmt, fpc, req, ipc, ind, clientVars, connects, ghostVars>>

(* DISCONNECT_REQUEST for the channel ch: what becomes of the connections. *)
CloseClientOnly(ch) ==
  IF ch = mgmtChannel
  THEN mgmtConnected' = FALSE /\ UNCHANGED <<connected, ifaceMgmt>>
  ELSE /\ connected' = (connected /\ ch = channel)
       /\ UNCHANGED <<mgmtConnected, ifaceMgmt>>

CloseConnection(ch) ==
  IF ch = mgmtChannel
  THEN mgmtConnected' = FALSE /\ ifaceMgmt' = FALSE /\ UNCHANGED connected
  ELSE /\ connected' = (connected /\ ch = channel)
       /\ UNCHANGED <<mgmtConnected, ifaceMgmt>>

(* With both connections closed, the slot is free.                         *)
FreeSlot(ch) ==
  IF Known(ch) /\ ~mgmtConnected' /\ ~connected'
  THEN age' = Silent /\ lastSender' = None
  ELSE UNCHANGED <<age, lastSender>>

Disconnect(ch) ==
  /\ fpc = "idle"
  /\ CloseConnection(ch)
  /\ FreeSlot(ch)
  /\ UNCHANGED <<channel, mgmtChannel, seqOut, fpc, req, ipc, ind, expected, connects, ghostVars>>
DisconnectTunnel(c) ==
  /\ tunnel[c] # None /\ tunnel' = [tunnel EXCEPT ![c] = None] /\ UNCHANGED mgmt
  /\ Disconnect(tunnel[c])
DisconnectManagement(c) ==
  /\ mgmt[c] # None /\ mgmt' = [mgmt EXCEPT ![c] = None] /\ UNCHANGED tunnel
  /\ Disconnect(mgmt[c])

(* A second without packets: a management connection nobody refreshed for  *)
(* 300 seconds is closed.                                                  *)
IdleCloseOfClient ==
  /\ fpc = "idle"
  /\ ifaceMgmt /\ mgmtConnected /\ age = Silent
  /\ ifaceMgmt' = FALSE
  /\ UNCHANGED <<fwVars, age, seqOut, fpc, req, ipc, ind, clientVars, connects, ghostVars>>

IdleClose ==
  /\ fpc = "idle"
  /\ ifaceMgmt /\ age = Silent
  /\ ifaceMgmt' = FALSE
  /\ UNCHANGED <<fwVars, age, seqOut, fpc, req, ipc, ind, clientVars, connects, ghostVars>>

-----------------------------------------------------------------------------
(* packetReceivedCallback for a TUNNELING_REQUEST of the gateway.  The     *)
(* counter is read and written back without a lock.                        *)
IndicationRead ==
  /\ ipc = "idle"
  /\ ind' = [ch |-> channel, seq |-> seqOut]
  /\ ipc' = "send"
  /\ raced' = (raced \/ fpc # "idle")
  /\ UNCHANGED <<fwVars, age, seqOut, ifaceMgmt, fpc, req, clientVars, connects, dropped, misopened>>

(* It is sent to the last client, unless there is no connection or the     *)
(* client has been silent for too long.                                    *)
IndicationSend ==
  /\ ipc = "send"
  /\ seqOut' = Increment(ind.seq)
  /\ ipc' = "idle" /\ ind' = None
  /\ raced' = (raced \/ fpc # "idle")
  /\ IF /\ (connected \/ mgmtConnected) /\ age # Silent
        /\ lastSender # None /\ tunnel[lastSender] = ind.ch
     THEN /\ expected' = IF expected[lastSender] = ind.seq
                         THEN [expected EXCEPT ![lastSender] = Increment(ind.seq)] ELSE expected
          /\ UNCHANGED dropped
     ELSE dropped' = TRUE /\ UNCHANGED expected
  /\ UNCHANGED <<fwVars, age, ifaceMgmt, fpc, req, tunnel, mgmt, connects, misopened>>

(* init() of the interface closes the management connection when it        *)
(* connects again.                                                         *)
InterfaceReinit ==
  /\ ifaceMgmt /\ ifaceMgmt' = FALSE
  /\ UNCHANGED <<fwVars, age, seqOut, fpc, req, ipc, ind, clientVars, connects, ghostVars>>

TimePasses ==
  /\ age < Silent /\ age' = age + 1
  /\ UNCHANGED <<fwVars, seqOut, ifaceMgmt, fpc, req, ipc, ind, clientVars, connects, ghostVars>>

-----------------------------------------------------------------------------
Connect == \E c \in Clients, kind \in Kinds :
  ConnectAccepted(c, kind) \/ ConnectMisaddressed(c, kind)
  \/ \E good \in BOOLEAN : ConnectRefused(c, kind, good)
Process == ResetConnection \/ OpenManagement \/ ConnectReply
Next == \/ Connect \/ Process \/ IdleClose \/ TimePasses
        \/ \E c \in Clients : ConnectionState(c) \/ DisconnectTunnel(c) \/ DisconnectManagement(c)
        \/ IndicationRead \/ IndicationSend
        \/ InterfaceReinit

Spec == Init /\ [][Next]_vars

(* The forwarder's thread goes on with a packet once it has begun, polls   *)
(* every second for silence, and time passes.  No client has to act.       *)
FairSpec == Spec /\ WF_vars(Process) /\ WF_vars(IdleClose) /\ WF_vars(TimePasses)

-----------------------------------------------------------------------------
(* The client with the tunnel expects the number the next indication will  *)
(* carry, whatever connects, disconnects and takes the slot in between;    *)
(* but for indications on their way while the tunnel was set up, or sent   *)
(* when nobody was there.                                                  *)
InStep ==
  fpc = "idle" /\ ipc = "idle" /\ ~raced /\ ~dropped =>
    \A c \in Clients : c = lastSender /\ tunnel[c] = channel => expected[c] = seqOut

(* The management connection to the gateway, which keeps Homegear from     *)
(* sending, is open only for a client that has one, or because a refused   *)
(* connect opened it.                                                      *)
ManagementHasClient == ifaceMgmt => mgmtConnected \/ misopened

(* A management connection nobody keeps alive is closed, or somebody comes *)
(* back, whoever opened it.                                                *)
ManagementReleased == ifaceMgmt /\ age = Silent ~> ~ifaceMgmt \/ age = Fresh
=============================================================================
