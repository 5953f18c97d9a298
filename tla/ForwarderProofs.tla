--------------------------- MODULE ForwarderProofs ---------------------------
(***************************************************************************)
(* Proofs about Forwarder, for any clients, counters and number of          *)
(* connects.                                                               *)
(***************************************************************************)
EXTENDS Forwarder, TLAPS

Steps == {"idle", "reset", "open", "reply", "refuse"}
Request == [client : Clients, kind : Kinds, good : BOOLEAN]

TypeInv ==
  /\ connected \in BOOLEAN /\ mgmtConnected \in BOOLEAN /\ ifaceMgmt \in BOOLEAN
  /\ channel \in Nat /\ channel <= connects /\ connects \in 0..MaxConnects
  /\ fpc \in Steps /\ (fpc # "idle" => req \in Request)
  /\ ipc \in {"idle", "send"}
  /\ lastSender \in Clients \cup {None}
  /\ tunnel \in [Clients -> Nat \cup {None}]
  /\ expected \in [Clients -> Nat]
  /\ seqOut \in Nat /\ (ipc = "send" => ind.seq \in Nat)
  /\ raced \in BOOLEAN /\ dropped \in BOOLEAN /\ misopened \in BOOLEAN

-----------------------------------------------------------------------------
(* The management connection belongs to somebody, also before it is open.   *)
Justified == ifaceMgmt \/ fpc = "open" => mgmtConnected \/ misopened
OpensManagement ==
  /\ fpc \in {"reset", "open"} => req.kind \in Kinds
  /\ fpc = "open" => req.kind = "mgmt"
ManagementInv == Justified /\ OpensManagement

-----------------------------------------------------------------------------
(* A tunnel is being set up: it has a number no client has been told.       *)
SettingUp == fpc \in {"reset", "reply"} /\ req.kind = "tunnel" /\ req.good
(* Numbers of tunnels are given once: the last one leads to one client.     *)
TunnelsDiffer ==
  /\ \A c \in Clients : tunnel[c] # None => tunnel[c] <= channel
  /\ \A c, d \in Clients : tunnel[c] # None /\ tunnel[c] = tunnel[d] => c = d
  /\ SettingUp => \A c \in Clients : tunnel[c] # channel
Accepting ==
  /\ fpc = "reset" => req.good
  /\ fpc = "open" => req.kind = "mgmt"

(* While nothing raced: an indication on its way has the number that is     *)
(* next, no tunnel is being set up meanwhile, and a new tunnel begins at 0.  *)
Clean ==
  ~raced /\ ~dropped =>
    /\ ipc = "send" => ind.ch = channel /\ ind.seq = seqOut /\ ~SettingUp
    /\ SettingUp /\ fpc = "reply" => seqOut = 0
    /\ \A c \in Clients : tunnel[c] = channel => expected[c] = seqOut
StepInv == TypeInv /\ TunnelsDiffer /\ Accepting /\ Clean

-----------------------------------------------------------------------------
LEMMA InitManagement == Init => ManagementInv
  BY DEF Init, ManagementInv, Justified, OpensManagement

LEMMA StepManagement ==
  ASSUME ManagementInv, [Next]_vars
  PROVE  ManagementInv'
<1> USE DEF ManagementInv, Justified, OpensManagement, fwVars, clientVars, ghostVars
<1>1. ASSUME NEW c \in Clients, NEW k \in Kinds, NEW good \in BOOLEAN, ConnectRefused(c, k, good)
      PROVE  ManagementInv'
  BY <1>1 DEF ConnectRefused, Arrives
<1>2. ASSUME NEW c \in Clients, NEW k \in Kinds, ConnectMisaddressed(c, k) PROVE ManagementInv'
  BY <1>2 DEF ConnectMisaddressed, Arrives
<1>3. ASSUME NEW c \in Clients, NEW k \in Kinds, ConnectAccepted(c, k) PROVE ManagementInv'
  BY <1>3 DEF ConnectAccepted, Arrives
<1>4. CASE ResetConnection
  BY <1>4 DEF ResetConnection, Connected
<1>5. CASE OpenManagement \/ ConnectReply
  BY <1>5 DEF OpenManagement, ConnectReply
<1>6. ASSUME NEW c \in Clients, DisconnectTunnel(c) \/ DisconnectManagement(c) PROVE ManagementInv'
  BY <1>6 DEF DisconnectTunnel, DisconnectManagement, Disconnect, CloseConnection
<1>7. ASSUME NEW c \in Clients, ConnectionState(c) PROVE ManagementInv'
  BY <1>7 DEF ConnectionState
<1>8. CASE IdleClose \/ TimePasses \/ InterfaceReinit
  BY <1>8 DEF IdleClose, TimePasses, InterfaceReinit
<1>9. CASE IndicationRead \/ IndicationSend
  BY <1>9 DEF IndicationRead, IndicationSend
<1>10. CASE UNCHANGED vars
  BY <1>10 DEF vars
<1> QED
  BY <1>1, <1>2, <1>3, <1>4, <1>5, <1>6, <1>7, <1>8, <1>9, <1>10 DEF Next, Connect, Process

(* The management connection, which keeps Homegear from sending, is never    *)
(* open for nobody but after a refused connect that opened it, whatever      *)
(* clients connect, disconnect or fall silent (processRawPacket, listen).    *)
THEOREM ManagementIsWanted == Spec => []ManagementHasClient
<1>1. ManagementInv => ManagementHasClient
  BY DEF ManagementInv, Justified, ManagementHasClient
<1> QED BY <1>1, InitManagement, StepManagement, PTL DEF Spec

-----------------------------------------------------------------------------
LEMMA InitStep == Init => StepInv
<1> SUFFICES ASSUME Init PROVE StepInv
  OBVIOUS
<1>1. TypeInv
  <2>1. connects \in 0..MaxConnects
    BY BoundAssumption DEF Init
  <2>2. connected \in BOOLEAN /\ mgmtConnected \in BOOLEAN /\ ifaceMgmt \in BOOLEAN
    BY DEF Init
  <2>3. raced \in BOOLEAN /\ dropped \in BOOLEAN /\ misopened \in BOOLEAN
    BY DEF Init
  <2>4. tunnel \in [Clients -> Nat \cup {None}] /\ expected \in [Clients -> Nat]
    BY DEF Init
  <2>5. channel \in Nat /\ channel <= connects /\ fpc = "idle" /\ ipc = "idle" /\ seqOut \in Nat /\ lastSender = None
    BY DEF Init
  <2> QED BY <2>1, <2>2, <2>3, <2>4, <2>5 DEF TypeInv, Steps
<1>2. TunnelsDiffer /\ Accepting /\ Clean
  BY ClientAssumption DEF Init, TunnelsDiffer, Accepting, Clean, SettingUp
<1> QED BY <1>1, <1>2 DEF StepInv

(* Fewer connects than channel numbers: they do not wrap.                    *)
LEMMA NextChannel ==
  ASSUME MaxConnects < ChanMod, TypeInv, connects < MaxConnects
  PROVE  (channel + 1) % ChanMod = channel + 1
<1> DEFINE m == ChanMod
<1> DEFINE x == channel + 1
<1>1. m \in Nat \ {0} /\ x \in Nat /\ x < m
  BY BoundAssumption DEF TypeInv
<1> HIDE DEF m, x
<1>2. x % m = x
  BY <1>1
<1> QED
  BY <1>2 DEF m, x

LEMMA NextCounter == ASSUME NEW n \in Nat PROVE Increment(n) \in Nat
  BY BoundAssumption DEF Increment

LEMMA StepTypes ==
  ASSUME MaxConnects < ChanMod, TypeInv, [Next]_vars
  PROVE  TypeInv'
<1> USE ClientAssumption, BoundAssumption
    DEF TypeInv, Steps, Request, Kinds, fwVars, clientVars, ghostVars, Arrives
<1>1. ASSUME NEW c \in Clients, NEW k \in Kinds, NEW good \in BOOLEAN, ConnectRefused(c, k, good)
      PROVE  TypeInv'
  BY <1>1 DEF ConnectRefused
<1>2. ASSUME NEW c \in Clients, NEW k \in Kinds, ConnectMisaddressed(c, k) PROVE TypeInv'
  BY <1>2 DEF ConnectMisaddressed
<1>3. ASSUME NEW c \in Clients, NEW k \in Kinds, ConnectAccepted(c, k) PROVE TypeInv'
  <2>1. (channel + 1) % ChanMod = channel + 1
    BY <1>3, NextChannel DEF ConnectAccepted
  <2>2. channel' \in {channel, channel + 1}
    BY <1>3, <2>1 DEF ConnectAccepted
  <2>3. connects' = connects + 1 /\ connects' \in 0..MaxConnects
    BY <1>3 DEF ConnectAccepted
  <2>4. channel' \in Nat /\ channel' <= connects'
    BY <2>2, <2>3
  <2>5. raced' \in BOOLEAN /\ dropped' \in BOOLEAN /\ ifaceMgmt' \in BOOLEAN
    BY <1>3 DEF ConnectAccepted
  <2>6. req' \in Request /\ lastSender' \in Clients /\ fpc' = "reset"
    BY <1>3 DEF ConnectAccepted
  <2> QED BY <1>3, <2>3, <2>4, <2>5, <2>6 DEF ConnectAccepted
<1>4. CASE ResetConnection
  BY <1>4 DEF ResetConnection, Connected
<1>5. CASE OpenManagement \/ ConnectReply
  BY <1>5 DEF OpenManagement, ConnectReply
<1>6. ASSUME NEW c \in Clients, DisconnectTunnel(c) \/ DisconnectManagement(c) PROVE TypeInv'
  <2>1. connected' \in BOOLEAN /\ mgmtConnected' \in BOOLEAN /\ ifaceMgmt' \in BOOLEAN
    BY <1>6 DEF DisconnectTunnel, DisconnectManagement, Disconnect, CloseConnection
  <2>2. lastSender' \in Clients \cup {None}
    BY <1>6 DEF DisconnectTunnel, DisconnectManagement, Disconnect, FreeSlot
  <2>3. tunnel' \in [Clients -> Nat \cup {None}]
    BY <1>6 DEF DisconnectTunnel, DisconnectManagement
  <2>4. UNCHANGED <<channel, seqOut, fpc, req, ipc, ind, expected, connects, ghostVars>>
    BY <1>6 DEF DisconnectTunnel, DisconnectManagement, Disconnect
  <2> QED BY <2>1, <2>2, <2>3, <2>4
<1>7. ASSUME NEW c \in Clients, ConnectionState(c) PROVE TypeInv'
  BY <1>7 DEF ConnectionState
<1>8. CASE IdleClose \/ TimePasses \/ InterfaceReinit
  BY <1>8, ZenonT(40) DEF IdleClose, TimePasses, InterfaceReinit
<1>9. CASE IndicationRead
  BY <1>9 DEF IndicationRead
<1>10. CASE IndicationSend
  <2>1. Increment(ind.seq) \in Nat
    BY <1>10, NextCounter DEF IndicationSend
  <2> QED BY <1>10, <2>1, ZenonT(40) DEF IndicationSend
<1>11. CASE UNCHANGED vars
  BY <1>11 DEF vars
<1> QED
  BY <1>1, <1>2, <1>3, <1>4, <1>5, <1>6, <1>7, <1>8, <1>9, <1>10, <1>11 DEF Next, Connect, Process

LEMMA StepClean ==
  ASSUME MaxConnects < ChanMod, StepInv, [Next]_vars
  PROVE  StepInv'
<1> TypeInv /\ TypeInv'
  BY StepTypes DEF StepInv
<1> USE ClientAssumption, BoundAssumption
    DEF StepInv, TypeInv, Steps, Request, Kinds, fwVars, clientVars, ghostVars, Arrives,
        TunnelsDiffer, Accepting, Clean, SettingUp
<1>1. ASSUME NEW c \in Clients, NEW k \in Kinds, NEW good \in BOOLEAN, ConnectRefused(c, k, good)
      PROVE  StepInv'
  BY <1>1 DEF ConnectRefused
<1>2. ASSUME NEW c \in Clients, NEW k \in Kinds, ConnectMisaddressed(c, k) PROVE StepInv'
  BY <1>2 DEF ConnectMisaddressed
<1>3. ASSUME NEW c \in Clients, NEW k \in Kinds, ConnectAccepted(c, k) PROVE StepInv'
  <2>1. (channel + 1) % ChanMod = channel + 1
    BY <1>3, NextChannel DEF ConnectAccepted
  <2> QED BY <1>3, <2>1 DEF ConnectAccepted
<1>4. CASE ResetConnection
  BY <1>4 DEF ResetConnection, Connected
<1>5. CASE OpenManagement
  BY <1>5 DEF OpenManagement
<1>6. CASE ConnectReply
  BY <1>6 DEF ConnectReply
<1>7. ASSUME NEW c \in Clients, DisconnectTunnel(c) \/ DisconnectManagement(c) PROVE StepInv'
  BY <1>7 DEF DisconnectTunnel, DisconnectManagement, Disconnect, CloseConnection
<1>8. ASSUME NEW c \in Clients, ConnectionState(c) PROVE StepInv'
  BY <1>8 DEF ConnectionState
<1>9. CASE IdleClose \/ TimePasses \/ InterfaceReinit
  BY <1>9 DEF IdleClose, TimePasses, InterfaceReinit
<1>10. CASE IndicationRead
  BY <1>10 DEF IndicationRead
<1>11. CASE IndicationSend
  BY <1>11 DEF IndicationSend
<1>12. CASE UNCHANGED vars
  BY <1>12 DEF vars
<1> QED
  BY <1>1, <1>2, <1>3, <1>4, <1>5, <1>6, <1>7, <1>8, <1>9, <1>10, <1>11, <1>12
  DEF Next, Connect, Process

(* The client of the tunnel expects the number that comes next, for any      *)
(* clients and counters, as long as channel numbers are not given twice: the *)
(* code counts them in a uint8_t (processRawPacket, packetReceivedCallback). *)
THEOREM ClientsAreInStep ==
  ASSUME MaxConnects < ChanMod
  PROVE  Spec => []InStep
<1>1. StepInv => InStep
  BY DEF StepInv, Clean, InStep
<1>2. StepInv /\ [Next]_vars => StepInv'
  BY StepClean
<1> QED BY <1>1, <1>2, InitStep, PTL DEF Spec
=============================================================================
