--------------------------- MODULE PeerReadProofs ----------------------------
(***************************************************************************)
(* Proofs about PeerRead, for any threads, variables and number of reads.   *)
(*                                                                         *)
(* The packet threads hold no lock while they compare, clear and store.     *)
(* What keeps the values apart is the order of the writes: the request is    *)
(* opened when channel and name are there, so that in a read that began with *)
(* nobody under way, whoever is under way has begun after it was opened and  *)
(* has compared with the one channel and the one name of this read.         *)
(***************************************************************************)
EXTENDS PeerRead, TLAPS

ReaderSteps == {"idle", "guard", "name", "request", "reset", "send", "wait", "done"}
PacketSteps == {"idle", "channel", "name", "clear", "store", "lock"}
Values == Variables \cup {None}

TypeInv ==
  /\ pc \in [Readers -> ReaderSteps] /\ asked \in [Readers -> Values]
  /\ result \in [Readers -> Values]
  /\ guard \in Readers \cup {None}
  /\ requested \in BOOLEAN /\ value \in Values /\ ready \in BOOLEAN
  /\ ppc \in [PacketThreads -> PacketSteps] /\ packet \in [PacketThreads -> Values]
  /\ untidy \in BOOLEAN /\ early \in BOOLEAN

(* The reader that has the mutex of the readers, and its open request.      *)
Reading(r) == pc[r] \in {"name", "request", "reset", "send", "wait", "done"}
Open(r) == pc[r] \in {"reset", "send", "wait"}
OnItsWay(p) == ppc[p] \in {"clear", "store", "lock"}

GuardHeld == \A r \in Readers : Reading(r) => guard = r
Asking == \A r \in Readers : pc[r] # "idle" => asked[r] \in Variables
Named ==
  \A r \in Readers :
    /\ pc[r] \in {"name", "request"} \/ Open(r) => channel = asked[r][1]
    /\ pc[r] = "request" \/ Open(r) => name = asked[r][2]

(* In a tidy read nothing is under way before its request is open; ...      *)
Closed ==
  \A r \in Readers : pc[r] \in {"name", "request"} => ~requested /\ (\A p \in PacketThreads : ppc[p] = "idle")
(* ... then it has passed some of the comparisons with this request.         *)
OwnPackets ==
  \A r \in Readers : Open(r) => \A p \in PacketThreads :
    /\ ppc[p] = "name" => packet[p][1] = asked[r][1]
    /\ OnItsWay(p) => packet[p] = asked[r]
    /\ ppc[p] = "lock" => value = asked[r]
OwnValue == \A r \in Readers : pc[r] \in {"send", "wait"} /\ ready => value = asked[r]
OwnResult == \A r \in Readers : pc[r] = "done" => result[r] \in {asked[r], None}
Tidy == ~untidy => Closed /\ OwnPackets /\ OwnValue /\ OwnResult
Packets == \A p \in PacketThreads : ppc[p] # "idle" => packet[p] \in Variables

ReadInv == TypeInv /\ GuardHeld /\ Asking /\ Named /\ Packets /\ Tidy

Answerable ==
  ~early => \A r \in Readers : pc[r] \in {"send", "wait"} /\ ~ready => requested \/ Handing
AnswerInv == TypeInv /\ GuardHeld /\ Answerable
-----------------------------------------------------------------------------
(* What a handler leaves is of its type.                                    *)
LEMMA InitTypes == Init => TypeInv
BY DEF Init, TypeInv, ReaderSteps, PacketSteps, Values

LEMMA StepTypes ==
  ASSUME TypeInv, [Next]_vars
  PROVE  TypeInv'
<1> USE DEF TypeInv, ReaderSteps, PacketSteps, Values, Goes, PGoes, readerVars, infoVars
<1>1. ASSUME NEW r \in Readers, NEW v \in Variables, Ask(r, v) PROVE TypeInv'
  BY <1>1 DEF Ask
<1>2. ASSUME NEW r \in Readers, Continue(r) PROVE TypeInv'
  <2>1. CASE TakeGuard(r)
    BY <2>1, ZenonT(40) DEF TakeGuard, TakeGuardUnlocked, Busy
  <2>2. CASE SetName(r) \/ SetRequested(r) \/ SendRead(r) \/ Return(r)
    BY <2>2 DEF SetName, SetRequested, SendRead, Return
  <2>3. CASE ResetReady(r)
    BY <2>3 DEF ResetReady, Handing
  <2>4. CASE Answered(r) \/ TimedOut(r)
    BY <2>4 DEF Answered, TimedOut, Finish
  <2> QED BY <1>2, <2>1, <2>2, <2>3, <2>4 DEF Continue
<1>3. ASSUME NEW p \in PacketThreads, NEW v \in Variables, Received(p, v) PROVE TypeInv'
  BY <1>3 DEF Received
<1>4. ASSUME NEW p \in PacketThreads, HandOver(p) PROVE TypeInv'
  BY <1>4 DEF HandOver, Compare, SameChannel, SameName, OtherVariable, ClearRequested, StoreValue, SetReady
<1>5. CASE UNCHANGED vars
  BY <1>5 DEF vars
<1> QED BY <1>1, <1>2, <1>3, <1>4, <1>5 DEF Next, Read, Process

LEMMA InitRead == Init => ReadInv
  BY InitTypes DEF Init, ReadInv, GuardHeld, Asking, Named, Packets, Tidy, Closed, OwnPackets,
  OwnValue, OwnResult, Reading, Open, OnItsWay

LEMMA StepRead ==
  ASSUME ReadInv, [Next]_vars
  PROVE  ReadInv'
<1> TypeInv /\ TypeInv'
  BY StepTypes DEF ReadInv
<1> USE NoneAssumption DEF ReadInv, TypeInv, ReaderSteps, PacketSteps, Values, Goes, PGoes, readerVars, infoVars,
      GuardHeld, Asking, Named, Packets, Reading, Open, OnItsWay, Handing, Busy
<1>1. ASSUME NEW r \in Readers, NEW v \in Variables, Ask(r, v) PROVE ReadInv'
  BY <1>1 DEF Ask, Tidy, Closed, OwnPackets, OwnValue, OwnResult
<1>2. ASSUME NEW r \in Readers, TakeGuard(r) PROVE ReadInv'
  <2>1. \A q \in Readers : pc'[q] = (IF q = r THEN "name" ELSE pc[q]) /\ ~Reading(q)
    BY <1>2 DEF TakeGuard, TakeGuardUnlocked
  <2>2. TypeInv' /\ GuardHeld' /\ Asking' /\ Named' /\ Packets'
    BY <1>2, <2>1 DEF TakeGuard, TakeGuardUnlocked
  <2>3. ~untidy' => ~requested /\ \A p \in PacketThreads : ppc[p] = "idle"
    BY <1>2 DEF TakeGuard, TakeGuardUnlocked
  <2>4. Tidy'
    BY <1>2, <2>1, <2>3 DEF TakeGuard, TakeGuardUnlocked, Tidy, Closed, OwnPackets, OwnValue, OwnResult
  <2> QED BY <2>2, <2>4
<1>3. ASSUME NEW r \in Readers, SetName(r) PROVE ReadInv'
  BY <1>3 DEF SetName, Tidy, Closed, OwnPackets, OwnValue, OwnResult
<1>4. ASSUME NEW r \in Readers, SetRequested(r) PROVE ReadInv'
  BY <1>4 DEF SetRequested, Tidy, Closed, OwnPackets, OwnValue, OwnResult
<1>5. ASSUME NEW r \in Readers, ResetReady(r) PROVE ReadInv'
  BY <1>5 DEF ResetReady, Tidy, Closed, OwnPackets, OwnValue, OwnResult
<1>6. ASSUME NEW r \in Readers, SendRead(r) PROVE ReadInv'
  BY <1>6 DEF SendRead, Tidy, Closed, OwnPackets, OwnValue, OwnResult
<1>7. ASSUME NEW r \in Readers, Answered(r) \/ TimedOut(r) PROVE ReadInv'
  BY <1>7 DEF Answered, TimedOut, Finish, Tidy, Closed, OwnPackets, OwnValue, OwnResult
<1>8. ASSUME NEW r \in Readers, Return(r) PROVE ReadInv'
  BY <1>8 DEF Return, Tidy, Closed, OwnPackets, OwnValue, OwnResult
<1>9. ASSUME NEW p \in PacketThreads, NEW v \in Variables, Received(p, v) PROVE ReadInv'
  BY <1>9 DEF Received, Tidy, Closed, OwnPackets, OwnValue, OwnResult
<1>10. ASSUME NEW p \in PacketThreads, SameChannel(p) PROVE ReadInv'
  BY <1>10 DEF SameChannel, Tidy, Closed, OwnPackets, OwnValue, OwnResult
<1>11. ASSUME NEW p \in PacketThreads, SameName(p) PROVE ReadInv'
  <2>1. TypeInv' /\ GuardHeld' /\ Asking' /\ Named' /\ Packets'
    BY <1>11 DEF SameName
  <2>2. ASSUME ~untidy, NEW r \in Readers, Open(r) PROVE packet[p] = asked[r]
    <3>1. asked[r] \in Channels \X Names /\ packet[p] \in Channels \X Names
      BY <1>11, <2>2 DEF SameName, Variables
    <3>2. packet[p][1] = asked[r][1] /\ packet[p][2] = asked[r][2]
      BY <1>11, <2>2 DEF SameName, Tidy, OwnPackets
    <3> QED BY <3>1, <3>2
  <2>3. Tidy'
    BY <1>11, <2>2 DEF SameName, Tidy, Closed, OwnPackets, OwnValue, OwnResult
  <2> QED BY <2>1, <2>3
<1>12. ASSUME NEW p \in PacketThreads, OtherVariable(p) PROVE ReadInv'
  BY <1>12 DEF OtherVariable, Tidy, Closed, OwnPackets, OwnValue, OwnResult
<1>13. ASSUME NEW p \in PacketThreads, ClearRequested(p) \/ StoreValue(p) \/ SetReady(p) PROVE ReadInv'
  BY <1>13 DEF ClearRequested, StoreValue, SetReady, Tidy, Closed, OwnPackets, OwnValue, OwnResult
<1>14. CASE UNCHANGED vars
  BY <1>14 DEF vars, Tidy, Closed, OwnPackets, OwnValue, OwnResult
<1> QED BY <1>1, <1>2, <1>3, <1>4, <1>5, <1>6, <1>7, <1>8, <1>9, <1>10, <1>11, <1>12, <1>13, <1>14
       DEF Next, Read, Continue, Process, HandOver, Compare

(* A read that begins when nothing is under way returns a value of its own   *)
(* variable, or nothing, for any number of readers, packet threads and       *)
(* variables: ReadsOwnVariable of every state of getValueFromDevice and       *)
(* packetReceived.                                                          *)
THEOREM ReadsAreOwn == Spec => []ReadsOwnVariable
<1>1. ReadInv => ReadsOwnVariable
  BY DEF ReadInv, Tidy, OwnResult, ReadsOwnVariable
<1> QED BY <1>1, InitRead, StepRead, PTL DEF Spec

-----------------------------------------------------------------------------
LEMMA InitAnswer == Init => AnswerInv
  BY InitTypes DEF Init, AnswerInv, GuardHeld, Answerable, Reading

LEMMA StepAnswer ==
  ASSUME AnswerInv, [Next]_vars
  PROVE  AnswerInv'
<1> TypeInv /\ TypeInv'
  BY StepTypes DEF AnswerInv
<1> USE NoneAssumption DEF AnswerInv, TypeInv, ReaderSteps, PacketSteps, Goes, PGoes, readerVars, infoVars,
      GuardHeld, Reading, Answerable, Handing
<1>1. ASSUME NEW r \in Readers, NEW v \in Variables, Ask(r, v) PROVE AnswerInv'
  BY <1>1 DEF Ask
<1>2. ASSUME NEW r \in Readers, TakeGuard(r) PROVE AnswerInv'
  BY <1>2 DEF TakeGuard, TakeGuardUnlocked
<1>3. ASSUME NEW r \in Readers, SetName(r) \/ SendRead(r) \/ Return(r) PROVE AnswerInv'
  BY <1>3 DEF SetName, SendRead, Return
<1>4. ASSUME NEW r \in Readers, SetRequested(r) PROVE AnswerInv'
  BY <1>4 DEF SetRequested
<1>5. ASSUME NEW r \in Readers, ResetReady(r) PROVE AnswerInv'
  BY <1>5 DEF ResetReady
<1>6. ASSUME NEW r \in Readers, Answered(r) \/ TimedOut(r) PROVE AnswerInv'
  BY <1>6 DEF Answered, TimedOut, Finish
<1>7. ASSUME NEW p \in PacketThreads, Compare(p) \/ \E v \in Variables : Received(p, v) PROVE AnswerInv'
  BY <1>7 DEF Received, Compare, SameChannel, SameName, OtherVariable
<1>8. ASSUME NEW p \in PacketThreads, ClearRequested(p) \/ StoreValue(p) PROVE AnswerInv'
  BY <1>8 DEF ClearRequested, StoreValue
<1>9. ASSUME NEW p \in PacketThreads, SetReady(p) PROVE AnswerInv'
  BY <1>9 DEF SetReady
<1>10. CASE UNCHANGED vars
  BY <1>10 DEF vars
<1> QED BY <1>1, <1>2, <1>3, <1>4, <1>5, <1>6, <1>7, <1>8, <1>9, <1>10
       DEF Next, Read, Continue, Process, HandOver

(* A reader that waits can be answered, or is being answered: no             *)
(* interleaving of the unlocked writes of getValueFromDevice and            *)
(* packetReceived loses its request, but a packet that came before the       *)
(* question.                                                               *)
THEOREM WaitsAreAnswerable == Spec => []WaitIsAnswerable
<1>1. AnswerInv => WaitIsAnswerable
  BY DEF AnswerInv, Answerable, WaitIsAnswerable
<1> QED BY <1>1, InitAnswer, StepAnswer, PTL DEF Spec
=============================================================================
