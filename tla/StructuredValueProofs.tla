------------------------ MODULE StructuredValueProofs ------------------------
(***************************************************************************)
(* Proofs about StructuredValue, for any layouts, threads and calls.  Those *)
(* about the fields assume of the layouts what Fit says, which TLC checks   *)
(* of the layouts of the source.                                           *)
(***************************************************************************)
EXTENDS StructuredValue, TLAPS

IsFunction(f) == f = [x \in DOMAIN f |-> f[x]]
JobFields == {"kind", "step", "field", "data", "bits"}
JobsAreRecords ==
  /\ IsFunction(job) /\ DOMAIN job = Threads
  /\ \A t \in Threads : IsFunction(job[t]) /\ DOMAIN job[t] = JobFields
FieldsAreFunctions == IsFunction(field) /\ IsFunction(dbField)

(* Calls that never overlapped: one thread at a time is doing something.    *)
Solo == ~mixed => \A t, u \in Threads : Working(t) /\ Working(u) => t = u

SavesRaw(t) == At(t, {"field", "received"}, "saveRaw") \/ At(t, {"raw"}, "saveSet")
SavesField(t) == At(t, {"field", "foreign"}, "save")
(* What the database lacks is what a thread is about to save, or a .RAW      *)
(* whose setting was refused.                                              *)
AboutToSave ==
  ~mixed =>
    /\ \A t \in Threads : SavesRaw(t) => job[t].bits = raw
    /\ (\A t \in Threads : ~SavesRaw(t)) => raw = dbRaw \/ refused
    /\ \A t \in Threads : SavesField(t) => field = [dbField EXCEPT ![job[t].field] = job[t].data]
    /\ (\A t \in Threads : ~SavesField(t)) => field = dbField

SaveInv == JobsAreRecords /\ FieldsAreFunctions /\ Solo /\ AboutToSave

-----------------------------------------------------------------------------
LEMMA InitSave == Init => SaveInv
  BY DEF Init, SaveInv, JobsAreRecords, FieldsAreFunctions, IsFunction, JobFields, Solo,
         AboutToSave, SavesRaw, SavesField, At, Working, Idle

(* A thread that begins is the only one, or calls have overlapped.          *)
LEMMA CallJobs ==
  ASSUME SaveInv, NEW t \in Threads, NEW work, Call(t, work),
         IsFunction(work), DOMAIN work = JobFields
  PROVE  /\ JobsAreRecords' /\ Solo'
         /\ job'[t] = work
         /\ ~mixed' => ~mixed /\ (raw = dbRaw \/ refused) /\ field = dbField
                       /\ \A u \in Threads : u # t => job'[u].kind = "idle"
<1> USE DEF SaveInv, Call, JobsAreRecords, IsFunction
<1>1. job'[t] = work /\ \A u \in Threads : u # t => job'[u] = job[u]
  OBVIOUS
<1>2. JobsAreRecords'
  BY <1>1, ZenonT(40)
<1>3. ASSUME ~mixed' PROVE ~mixed /\ \A u \in Threads : job[u].kind = "idle"
  BY <1>3 DEF Busy, Working
<1>4. ASSUME ~mixed' PROVE (raw = dbRaw \/ refused) /\ field = dbField
  BY <1>3, <1>4 DEF AboutToSave, SavesRaw, SavesField, At
<1>5. Solo'
  BY <1>1, <1>3 DEF Solo, Working
<1> QED BY <1>1, <1>2, <1>3, <1>4, <1>5

(* A thread that goes on, or is done, and overlaps with nobody.             *)
LEMMA StepJobs ==
  ASSUME SaveInv, NEW t \in Threads, Working(t), NEW work,
         job' = [job EXCEPT ![t] = work], UNCHANGED mixed,
         IsFunction(work), DOMAIN work = JobFields
  PROVE  /\ JobsAreRecords' /\ Solo'
         /\ job'[t] = work
         /\ ~mixed => \A u \in Threads : u # t => job'[u].kind = "idle" /\ job[u].kind = "idle"
<1> USE DEF SaveInv, JobsAreRecords, IsFunction
<1>1. job'[t] = work /\ \A u \in Threads : u # t => job'[u] = job[u]
  OBVIOUS
<1>2. JobsAreRecords'
  BY <1>1, ZenonT(40)
<1>3. ASSUME ~mixed PROVE \A u \in Threads : u # t => job[u].kind = "idle"
  BY <1>3 DEF Solo, Working
<1>4. Solo'
  BY <1>1, <1>3 DEF Solo, Working
<1> QED BY <1>1, <1>2, <1>3, <1>4

LEMMA StepCalls ==
  ASSUME SaveInv, NEW t \in Threads,
         \/ \E f \in Reachable : \E n \in Values(Fields[f]) : SetField(t, f, n)
         \/ \E bits \in RawValues : Receive(t, bits) \/ SetRaw(t, bits)
         \/ \E f \in Reachable : ReceiveField(t, f)
         \/ Submit(t)
  PROVE  SaveInv'
<1> USE DEF memory, database, history
<1>1. ASSUME NEW f, NEW data, NEW kind \in {"field", "foreign"},
             Call(t, [Idle EXCEPT !.kind = kind, !.step = "save", !.field = f, !.data = data]),
             field' = [field EXCEPT ![f] = data], UNCHANGED <<raw, dbRaw, dbField, refused>>
      PROVE  SaveInv'
  <2> DEFINE work == [Idle EXCEPT !.kind = kind, !.step = "save", !.field = f, !.data = data]
  <2>1. /\ Call(t, work) /\ field' = [field EXCEPT ![f] = data]
        /\ UNCHANGED <<raw, dbRaw, dbField, refused>>
    BY <1>1
  <2>2. /\ IsFunction(work) /\ DOMAIN work = JobFields
        /\ work.kind = kind /\ work.step = "save" /\ work.field = f /\ work.data = data
    BY DEF IsFunction, JobFields, Idle
  <2> HIDE DEF work
  <2>3. /\ JobsAreRecords' /\ Solo' /\ job'[t] = work
        /\ ~mixed' => (raw = dbRaw \/ refused) /\ field = dbField /\ \A u \in Threads : u # t => job'[u].kind = "idle"
    BY <2>1, <2>2, CallJobs
  <2>4. FieldsAreFunctions'
    BY <2>1 DEF SaveInv, FieldsAreFunctions, IsFunction
  <2>5. AboutToSave'
    BY <2>1, <2>2, <2>3 DEF AboutToSave, SavesRaw, SavesField, At
  <2> QED BY <2>3, <2>4, <2>5 DEF SaveInv
<1>2. ASSUME NEW bits, NEW kind, NEW step, TakeRaw(t, bits, kind, step),
             \/ kind = "received" /\ step = "saveRaw"
             \/ kind = "raw" /\ step \in {"saveSet", "refuse"}
      PROVE  SaveInv'
  <2> DEFINE work == [Idle EXCEPT !.kind = kind, !.step = step, !.bits = bits]
  <2>1. /\ Call(t, work) /\ raw' = bits /\ UNCHANGED <<dbRaw, dbField>>
        /\ step = "refuse" => refused'
        /\ field' = [f \in DOMAIN field |-> field[f]]
    BY <1>2 DEF TakeRaw, Grouped
  <2>2. IsFunction(work) /\ DOMAIN work = JobFields
        /\ work.kind = kind /\ work.step = step /\ work.bits = bits
    BY DEF IsFunction, JobFields, Idle
  <2> HIDE DEF work
  <2>3. /\ JobsAreRecords' /\ Solo' /\ job'[t] = work
        /\ ~mixed' => (raw = dbRaw \/ refused) /\ field = dbField /\ \A u \in Threads : u # t => job'[u].kind = "idle"
    BY <2>1, <2>2, CallJobs
  <2>4. UNCHANGED field /\ FieldsAreFunctions'
    BY <2>1 DEF SaveInv, FieldsAreFunctions, IsFunction
  <2>5. AboutToSave'
    BY <1>2, <2>1, <2>2, <2>3, <2>4 DEF AboutToSave, SavesRaw, SavesField, At
  <2> QED BY <2>3, <2>4, <2>5 DEF SaveInv
<1>3. CASE Submit(t)
  <2> DEFINE work == [Idle EXCEPT !.kind = "submit", !.step = "send", !.bits = raw]
  <2>1. Call(t, work) /\ UNCHANGED <<raw, field, dbRaw, dbField, refused>>
    BY <1>3 DEF Submit
  <2>2. IsFunction(work) /\ DOMAIN work = JobFields /\ work.kind = "submit" /\ work.step = "send"
    BY DEF IsFunction, JobFields, Idle
  <2> HIDE DEF work
  <2>3. /\ JobsAreRecords' /\ Solo' /\ job'[t] = work
        /\ ~mixed' => (raw = dbRaw \/ refused) /\ field = dbField /\ \A u \in Threads : u # t => job'[u].kind = "idle"
    BY <2>1, <2>2, CallJobs
  <2> QED BY <2>1, <2>2, <2>3
          DEF SaveInv, FieldsAreFunctions, IsFunction, AboutToSave, SavesRaw, SavesField, At
<1>4. ASSUME NEW f, NEW n, SetField(t, f, n) PROVE SaveInv'
  BY <1>1, <1>4 DEF SetField
<1>5. ASSUME NEW f, ReceiveField(t, f) PROVE SaveInv'
  BY <1>1, <1>5 DEF ReceiveField
<1>6. ASSUME NEW bits, Receive(t, bits) \/ SetRaw(t, bits) PROVE SaveInv'
  BY <1>2, <1>6 DEF Receive, SetRaw
<1> QED BY <1>3, <1>4, <1>5, <1>6

LEMMA StepWork ==
  ASSUME SaveInv, NEW t \in Threads,
         \/ SaveField(t) \/ ReadRaw(t) \/ WriteRaw(t) \/ SaveRaw(t)
         \/ SaveSet(t) \/ Send(t) \/ SaveForeign(t) \/ Refuse(t)
  PROVE  SaveInv'
<1> USE DEF memory, database, history, At
<1>1. Working(t) /\ UNCHANGED mixed
  BY DEF SaveField, ReadRaw, WriteRaw, SaveRaw, SaveSet, Send, SaveForeign, Refuse, Working
<1>2. IsFunction(job[t]) /\ DOMAIN job[t] = JobFields
  BY DEF SaveInv, JobsAreRecords
<1>3. ASSUME NEW step, Goto(t, step) \/ job' = [job EXCEPT ![t] = [job[t] EXCEPT !.step = step]]
      PROVE  /\ JobsAreRecords' /\ Solo'
             /\ job'[t].step = step /\ \A x \in {"kind", "field", "data", "bits"} : job'[t][x] = job[t][x]
             /\ ~mixed => \A u \in Threads : u # t => job'[u].kind = "idle" /\ job[u].kind = "idle"
  <2> DEFINE work == [job[t] EXCEPT !.step = step]
  <2>1. job' = [job EXCEPT ![t] = work]
    BY <1>3 DEF Goto, SaveInv, JobsAreRecords, IsFunction
  <2>2. IsFunction(work) /\ DOMAIN work = JobFields
    BY <1>2 DEF IsFunction, JobFields
  <2>3. work.step = step /\ \A x \in {"kind", "field", "data", "bits"} : work[x] = job[t][x]
    BY <1>2 DEF JobFields
  <2> HIDE DEF work
  <2> QED BY <1>1, <2>1, <2>2, <2>3, StepJobs
<1>4. ASSUME Done(t)
      PROVE  /\ JobsAreRecords' /\ Solo' /\ job'[t].kind = "idle"
             /\ ~mixed => \A u \in Threads : u # t => job'[u].kind = "idle" /\ job[u].kind = "idle"
  <2>1. IsFunction(Idle) /\ DOMAIN Idle = JobFields /\ Idle.kind = "idle"
    BY DEF Idle, IsFunction, JobFields
  <2> QED BY <1>1, <1>4, <2>1, StepJobs DEF Done
<1>5. CASE SaveField(t)
  <2>1. FieldsAreFunctions'
    BY <1>5 DEF SaveField, SaveInv, FieldsAreFunctions, IsFunction
  <2>2. AboutToSave'
    BY <1>3, <1>5 DEF SaveField, SaveInv, AboutToSave, SavesRaw, SavesField
  <2> QED BY <1>3, <1>5, <2>1, <2>2 DEF SaveInv, SaveField
<1>6. CASE ReadRaw(t)
  <2> DEFINE bits == SetPosition(Fields[job[t].field], raw, job[t].data)
  <2> DEFINE work == [job[t] EXCEPT !.step = "write", !.bits = bits]
  <2> HIDE DEF bits
  <2>1. /\ job' = [job EXCEPT ![t] = work] /\ UNCHANGED <<raw, field, dbRaw, dbField, refused>>
        /\ job[t].step = "read"
    BY <1>6 DEF ReadRaw, SaveInv, JobsAreRecords, IsFunction, bits
  <2>2. IsFunction(work) /\ DOMAIN work = JobFields /\ work.step = "write"
    BY <1>2 DEF IsFunction, JobFields
  <2> HIDE DEF work
  <2>3. /\ JobsAreRecords' /\ Solo' /\ job'[t].step = "write"
        /\ ~mixed => \A u \in Threads : u # t => job'[u].kind = "idle" /\ job[u].kind = "idle"
    BY <1>1, <2>1, <2>2, StepJobs
  <2> QED BY <1>1, <2>1, <2>3
          DEF SaveInv, FieldsAreFunctions, IsFunction, AboutToSave, SavesRaw, SavesField
<1>7. CASE WriteRaw(t)
  <2>1. /\ Goto(t, "saveRaw") /\ raw' = job[t].bits /\ UNCHANGED <<field, dbRaw, dbField, refused>>
        /\ job[t].kind = "field" /\ job[t].step = "write"
    BY <1>7 DEF WriteRaw
  <2>2. AboutToSave'
    BY <1>1, <1>3, <2>1 DEF SaveInv, AboutToSave, SavesRaw, SavesField
  <2> QED BY <1>3, <2>1, <2>2 DEF SaveInv, FieldsAreFunctions, IsFunction
<1>8. CASE SaveRaw(t)
  <2>1. AboutToSave'
    BY <1>1, <1>4, <1>8 DEF SaveRaw, SaveInv, AboutToSave, SavesRaw, SavesField
  <2> QED BY <1>4, <1>8, <2>1 DEF SaveRaw, SaveInv, FieldsAreFunctions, IsFunction
<1>9. CASE SaveSet(t)
  <2>1. AboutToSave'
    BY <1>1, <1>3, <1>9 DEF SaveSet, SaveInv, AboutToSave, SavesRaw, SavesField
  <2> QED BY <1>3, <1>9, <2>1 DEF SaveSet, SaveInv, FieldsAreFunctions, IsFunction
<1>10. CASE Send(t)
  <2>1. AboutToSave'
    BY <1>1, <1>4, <1>10 DEF Send, SaveInv, AboutToSave, SavesRaw, SavesField
  <2> QED BY <1>4, <1>10, <2>1 DEF Send, SaveInv, FieldsAreFunctions, IsFunction
<1>11. CASE SaveForeign(t)
  <2>1. FieldsAreFunctions'
    BY <1>11 DEF SaveForeign, SaveInv, FieldsAreFunctions, IsFunction
  <2>2. AboutToSave'
    BY <1>1, <1>4, <1>11 DEF SaveForeign, SaveInv, AboutToSave, SavesRaw, SavesField
  <2> QED BY <1>4, <1>11, <2>1, <2>2 DEF SaveInv, SaveForeign
<1>12. CASE Refuse(t)
  <2>1. AboutToSave'
    BY <1>1, <1>4, <1>12 DEF Refuse, SaveInv, AboutToSave, SavesRaw, SavesField
  <2> QED BY <1>4, <1>12, <2>1 DEF Refuse, SaveInv, FieldsAreFunctions, IsFunction
<1> QED BY <1>5, <1>6, <1>7, <1>8, <1>9, <1>10, <1>11, <1>12

LEMMA StepSave ==
  ASSUME SaveInv, [Next]_vars
  PROVE  SaveInv'
<1>1. CASE Restart
  BY <1>1 DEF Restart, SaveInv, JobsAreRecords, FieldsAreFunctions, IsFunction, JobFields, Solo,
              AboutToSave, SavesRaw, SavesField, At, Working, Idle, database
<1>2. CASE InterfaceReconnected \/ WriteOnInit \/ UNCHANGED vars
  BY <1>2 DEF InterfaceReconnected, WriteOnInit, vars, memory, database, history, SaveInv,
              JobsAreRecords, FieldsAreFunctions, IsFunction, Solo, AboutToSave, SavesRaw,
              SavesField, At, Working
<1> QED BY <1>1, <1>2, StepCalls, StepWork DEF Next

(* While nothing is being done the database has what the memory has, after  *)
(* any calls that did not overlap and any restarts between their steps, for *)
(* every type of variable (setValue, packetReceived, saveParameter, load).  *)
THEOREM NothingIsLost == Spec => []RestartLosesNothing
<1>1. SaveInv => RestartLosesNothing
  BY DEF SaveInv, AboutToSave, SavesRaw, SavesField, At, RestartLosesNothing, Busy, Working
<1> QED BY <1>1, InitSave, StepSave, PTL DEF Spec

-----------------------------------------------------------------------------
(* A value that fits the variable: .RAW, its copy in the database, and what *)
(* threads carry between their steps.                                      *)
JobFieldsExist ==
  \A t \in Threads : job[t].kind = "field" => job[t].field \in Reachable
SizeInv ==
  /\ layout \in DOMAIN Types /\ JobsAreRecords /\ JobFieldsExist
  /\ raw \subseteq Bits(Types[layout]) /\ dbRaw \subseteq Bits(Types[layout])
  /\ \A t \in Threads : job[t].bits \subseteq Bits(Types[layout])

(* A field whose bits in a value are somebody's.  This has to be known of   *)
(* the copies too: SetPosition makes the next .RAW of them.                *)
Exact(f) == ~Clash(f) /\ ~TooWide(f)
WholeIn(f, bits) ==
  \/ \E b \in given : bits \cap Positions(Fields[f]) = b \cap Positions(Fields[f])
  \/ \E w \in written : w[1] = f /\ GetPosition(Fields[f], bits) = w[2]
JobData(t) ==
  job[t].kind = "field" =>
    /\ <<job[t].field, job[t].data>> \in written
    /\ TooWide(job[t].field) \/ job[t].data \subseteq 0..Fields[job[t].field].size - 1
WholeInv ==
  /\ layout \in DOMAIN Types /\ JobsAreRecords /\ JobFieldsExist
  /\ {} \in given
  /\ \A t \in Threads : JobData(t)
  /\ \A f \in Reachable : Exact(f) =>
       /\ WholeIn(f, raw) /\ WholeIn(f, dbRaw)
       /\ \A t \in Threads : WholeIn(f, job[t].bits)

(* While calls do not overlap: of the field that is being set memory has    *)
(* the new octets at once, .RAW in memory and in the database follow.      *)
FieldDomains == DOMAIN field = DOMAIN Fields /\ DOMAIN dbField = DOMAIN Fields
FieldStep(t) ==
  job[t].kind = "field" =>
    /\ job[t].step \in {"save", "read", "write", "saveRaw"}
    /\ field[job[t].field] = job[t].data
    /\ job[t].step = "write" =>
         job[t].bits = SetPosition(Fields[job[t].field], raw, job[t].data)
    /\ job[t].step = "saveRaw" /\ ~refused =>
         job[t].bits = SetPosition(Fields[job[t].field], dbRaw, job[t].data)
OtherStep(t) ==
  /\ job[t].kind # "field" /\ SavesRaw(t) => fresh = {}
  /\ job[t].kind = "foreign" => job[t].field \notin fresh
(* After a .RAW that was refused only a field that is being set is fresh.   *)
RefusedFresh ==
  refused => \A f \in fresh : \E t \in Threads :
               job[t].kind = "field" /\ job[t].step = "saveRaw" /\ job[t].field = f
Core ==
  /\ fresh \subseteq Reachable /\ \A f \in fresh : Agrees(f)
  /\ RefusedFresh
  /\ \A t \in Threads : FieldStep(t) /\ OtherStep(t)
AgreeInv == SaveInv /\ WholeInv /\ FieldDomains /\ (~mixed => Core)

-----------------------------------------------------------------------------
(* Putting a field's octets into a value, and getting them out again.       *)
LEMMA SetWithin ==
  ASSUME NEW f, f.pos \in Nat, f.size \in Nat \ {0}, NEW data
  PROVE  {f.pos + f.size - 1 - k : k \in data \cap (0..f.size - 1)} \subseteq Positions(f)
<1> SUFFICES ASSUME NEW k \in 0..f.size - 1
             PROVE  f.pos + f.size - 1 - k \in Positions(f)
  OBVIOUS
<1> QED BY DEF Positions

LEMMA SetKeepsSize ==
  ASSUME NEW l, NEW f, Inside(l, f), NEW bits, bits \subseteq Bits(l), NEW data
  PROVE  SetPosition(f, bits, data) \subseteq Bits(l)
<1>1. f.pos \in Nat /\ f.size \in Nat \ {0} /\ Positions(f) \subseteq Bits(l)
  BY DEF Inside
<1> QED BY <1>1, SetWithin DEF SetPosition

LEMMA SetApart ==
  ASSUME NEW f, NEW g, Apart(f, g), g.pos \in Nat, g.size \in Nat \ {0}, NEW bits, NEW data
  PROVE  SetPosition(g, bits, data) \cap Positions(f) = bits \cap Positions(f)
<1>1. Positions(f) \cap Positions(g) = {}
  BY DEF Apart
<1> QED BY <1>1, SetWithin DEF SetPosition

LEMMA GetOfSet ==
  ASSUME NEW f, f.pos \in Nat, f.size \in Nat \ {0}, NEW bits,
         NEW data, data \subseteq 0..f.size - 1
  PROVE  GetPosition(f, SetPosition(f, bits, data)) = data
<1> DEFINE there == {f.pos + f.size - 1 - k : k \in data \cap (0..f.size - 1)}
<1>1. SetPosition(f, bits, data) \cap Positions(f) = there
  BY SetWithin DEF SetPosition
<1>2. GetPosition(f, SetPosition(f, bits, data)) = {f.pos + f.size - 1 - i : i \in there}
  BY <1>1 DEF GetPosition
<1>3. ASSUME NEW k \in data
      PROVE  k \in {f.pos + f.size - 1 - i : i \in there}
  <2>1. k \in 0..f.size - 1 /\ f.pos + f.size - 1 - k \in there
    OBVIOUS
  <2>2. k = f.pos + f.size - 1 - (f.pos + f.size - 1 - k)
    BY <2>1
  <2> QED BY <2>1, <2>2
<1>4. ASSUME NEW k \in {f.pos + f.size - 1 - i : i \in there}
      PROVE  k \in data
  <2>1. PICK i \in there : k = f.pos + f.size - 1 - i
    OBVIOUS
  <2>2. PICK j \in data : j \in 0..f.size - 1 /\ i = f.pos + f.size - 1 - j
    OBVIOUS
  <2>3. k = j
    BY <2>1, <2>2
  <2> QED BY <2>2, <2>3
<1> QED BY <1>2, <1>3, <1>4

(* What the layouts give for the fields of the variable.                    *)
LEMMA FieldsFit ==
  ASSUME Fit(Types), layout \in DOMAIN Types, NEW f \in Reachable
  PROVE  /\ Fields[f].pos \in Nat /\ Fields[f].size \in Nat \ {0} /\ f \in DOMAIN Fields
         /\ Inside(Types[layout], Fields[f])
         /\ TooWide(f) \/ \A n \in Values(Fields[f]) : Data(Fields[f], n) \subseteq 0..Fields[f].size - 1
         /\ \A g \in Reachable : f # g => Clash(f) \/ Apart(Fields[f], Fields[g])
<1>1. Reachable = Named(Types[layout].fields)
  BY DEF Reachable, ReachableFields
<1>2. /\ Inside(Types[layout], Fields[f]) /\ Holds(Types[layout], Fields[f])
      /\ \A g \in Reachable :
           f # g => Clashes(Types[layout], Fields[f]) \/ Apart(Fields[f], Fields[g])
  BY <1>1 DEF Fit, Fields
<1> QED BY <1>1, <1>2 DEF Inside, Holds, Clash, TooWide, Named, Fields

-----------------------------------------------------------------------------
(* What each step makes of a thread's work; the other threads keep theirs.  *)
Becomes(t, kind, step, f, data, bits) ==
  /\ job'[t].kind = kind /\ job'[t].step = step /\ job'[t].field = f
  /\ job'[t].data = data /\ job'[t].bits = bits
  /\ \A u \in Threads \ {t} : job'[u] = job[u]
  /\ JobsAreRecords'

LEMMA NewWork ==
  ASSUME JobsAreRecords, NEW t \in Threads, NEW work, job' = [job EXCEPT ![t] = work],
         IsFunction(work), DOMAIN work = JobFields
  PROVE  Becomes(t, work.kind, work.step, work.field, work.data, work.bits)
BY DEF JobsAreRecords, IsFunction, Becomes

LEMMA FieldCallWork ==
  ASSUME JobsAreRecords, NEW t \in Threads, NEW kind, NEW f, NEW data,
         Call(t, [Idle EXCEPT !.kind = kind, !.step = "save", !.field = f, !.data = data])
  PROVE  Becomes(t, kind, "save", f, data, {})
<1> DEFINE work == [Idle EXCEPT !.kind = kind, !.step = "save", !.field = f, !.data = data]
<1>1. job' = [job EXCEPT ![t] = work]
  BY DEF Call
<1>2. /\ IsFunction(work) /\ DOMAIN work = JobFields
      /\ work.kind = kind /\ work.step = "save" /\ work.field = f
      /\ work.data = data /\ work.bits = {}
  BY DEF IsFunction, JobFields, Idle
<1> HIDE DEF work
<1>3. Becomes(t, work.kind, work.step, work.field, work.data, work.bits)
  BY <1>1, <1>2, NewWork
<1> QED BY <1>2, <1>3

LEMMA SetFieldWork ==
  ASSUME JobsAreRecords, NEW t \in Threads, NEW f, NEW n, SetField(t, f, n)
  PROVE  Becomes(t, "field", "save", f, Data(Fields[f], n), {})
BY FieldCallWork DEF SetField

LEMMA ReceiveFieldWork ==
  ASSUME JobsAreRecords, NEW t \in Threads, NEW f, ReceiveField(t, f)
  PROVE  Becomes(t, "foreign", "save", f, Foreign, {})
BY FieldCallWork DEF ReceiveField

LEMMA TakeRawWork ==
  ASSUME JobsAreRecords, NEW t \in Threads, NEW bits, NEW kind, NEW step,
         TakeRaw(t, bits, kind, step)
  PROVE  Becomes(t, kind, step, 0, {}, bits)
<1> DEFINE work == [Idle EXCEPT !.kind = kind, !.step = step, !.bits = bits]
<1>1. job' = [job EXCEPT ![t] = work]
  BY DEF TakeRaw, Call
<1>2. /\ IsFunction(work) /\ DOMAIN work = JobFields
      /\ work.kind = kind /\ work.step = step /\ work.field = 0
      /\ work.data = {} /\ work.bits = bits
  BY DEF IsFunction, JobFields, Idle
<1> HIDE DEF work
<1>3. Becomes(t, work.kind, work.step, work.field, work.data, work.bits)
  BY <1>1, <1>2, NewWork
<1> QED BY <1>2, <1>3

LEMMA SubmitWork ==
  ASSUME JobsAreRecords, NEW t \in Threads, Submit(t)
  PROVE  Becomes(t, "submit", "send", 0, {}, raw)
<1> DEFINE work == [Idle EXCEPT !.kind = "submit", !.step = "send", !.bits = raw]
<1>1. job' = [job EXCEPT ![t] = work]
  BY DEF Submit, Call
<1>2. /\ IsFunction(work) /\ DOMAIN work = JobFields
      /\ work.kind = "submit" /\ work.step = "send" /\ work.field = 0
      /\ work.data = {} /\ work.bits = raw
  BY DEF IsFunction, JobFields, Idle
<1> HIDE DEF work
<1>3. Becomes(t, work.kind, work.step, work.field, work.data, work.bits)
  BY <1>1, <1>2, NewWork
<1> QED BY <1>2, <1>3

LEMMA ReadRawWork ==
  ASSUME JobsAreRecords, NEW t \in Threads, ReadRaw(t)
  PROVE  Becomes(t, "field", "write", job[t].field, job[t].data,
                 SetPosition(Fields[job[t].field], raw, job[t].data))
<1> DEFINE bits == SetPosition(Fields[job[t].field], raw, job[t].data)
           work == [job[t] EXCEPT !.step = "write", !.bits = bits]
<1>1. job' = [job EXCEPT ![t] = work] /\ job[t].kind = "field"
  BY DEF ReadRaw, At, JobsAreRecords, IsFunction
<1> HIDE DEF bits
<1>2. /\ IsFunction(work) /\ DOMAIN work = JobFields
      /\ work.kind = job[t].kind /\ work.step = "write" /\ work.field = job[t].field
      /\ work.data = job[t].data /\ work.bits = bits
  BY DEF JobsAreRecords, IsFunction, JobFields
<1> HIDE DEF work
<1>3. Becomes(t, work.kind, work.step, work.field, work.data, work.bits)
  BY <1>1, <1>2, NewWork
<1> QED BY <1>1, <1>2, <1>3 DEF bits

LEMMA GotoWork ==
  ASSUME JobsAreRecords, NEW t \in Threads, NEW step, Goto(t, step)
  PROVE  Becomes(t, job[t].kind, step, job[t].field, job[t].data, job[t].bits)
<1> DEFINE work == [job[t] EXCEPT !.step = step]
<1>1. job' = [job EXCEPT ![t] = work]
  BY DEF Goto, JobsAreRecords, IsFunction
<1>2. /\ IsFunction(work) /\ DOMAIN work = JobFields
      /\ work.kind = job[t].kind /\ work.step = step /\ work.field = job[t].field
      /\ work.data = job[t].data /\ work.bits = job[t].bits
  BY DEF JobsAreRecords, IsFunction, JobFields
<1> HIDE DEF work
<1>3. Becomes(t, work.kind, work.step, work.field, work.data, work.bits)
  BY <1>1, <1>2, NewWork
<1> QED BY <1>2, <1>3

LEMMA DoneWork ==
  ASSUME JobsAreRecords, NEW t \in Threads, Done(t)
  PROVE  Becomes(t, "idle", "none", 0, {}, {})
<1>1. /\ IsFunction(Idle) /\ DOMAIN Idle = JobFields
      /\ Idle.kind = "idle" /\ Idle.step = "none" /\ Idle.field = 0
      /\ Idle.data = {} /\ Idle.bits = {}
  BY DEF Idle, IsFunction, JobFields
<1>2. Becomes(t, Idle.kind, Idle.step, Idle.field, Idle.data, Idle.bits)
  BY <1>1, NewWork DEF Done
<1> QED BY <1>1, <1>2

(* The threads' work after a restart.                                       *)
LEMMA NoWork ==
  ASSUME job' = [t \in Threads |-> Idle]
  PROVE  /\ JobsAreRecords'
         /\ \A t \in Threads : job'[t].kind = "idle" /\ job'[t].bits = {}
BY DEF JobsAreRecords, IsFunction, JobFields, Idle

LEMMA SameLayout == [Next]_vars => layout' = layout /\ Reachable' = Reachable /\ Fields' = Fields
<1> SUFFICES ASSUME [Next]_vars PROVE layout' = layout
  BY DEF Reachable, Fields
<1> QED BY DEF Next, vars, variable, SetField, Receive, SetRaw, TakeRaw, ReceiveField, Submit,
               SaveField, ReadRaw, WriteRaw, SaveRaw, SaveSet, Send, SaveForeign, Refuse, Restart, InterfaceReconnected, WriteOnInit

-----------------------------------------------------------------------------
LEMMA InitSize == Init => SizeInv
<1> SUFFICES ASSUME Init PROVE SizeInv
  OBVIOUS
<1>1. JobsAreRecords
  BY InitSave DEF SaveInv
<1> QED BY <1>1 DEF Init, SizeInv, JobFieldsExist, Idle

LEMMA StepSize ==
  ASSUME Fit(Types), SizeInv, [Next]_vars
  PROVE  SizeInv'
<1> USE DEF SizeInv, JobFieldsExist
<1>1. layout' = layout /\ Reachable' = Reachable
  BY SameLayout
<1>2. ASSUME NEW t \in Threads, NEW kind, NEW step, NEW f, NEW data, NEW bits,
             Becomes(t, kind, step, f, data, bits), kind = "field" => f \in Reachable,
             \A b \in {bits, raw', dbRaw'} : b \subseteq Bits(Types[layout])
      PROVE  SizeInv'
  BY <1>1, <1>2 DEF Becomes
<1>3. ASSUME NEW t \in Threads, NEW f \in Reachable, NEW n, SetField(t, f, n)
      PROVE  SizeInv'
  <2>1. Becomes(t, "field", "save", f, Data(Fields[f], n), {})
    BY <1>3, SetFieldWork
  <2>2. raw' = raw /\ dbRaw' = dbRaw
    BY <1>3 DEF SetField, database
  <2> QED BY <1>2, <2>1, <2>2
<1>4. ASSUME NEW t \in Threads, NEW bits \in RawValues, Receive(t, bits) \/ SetRaw(t, bits)
      PROVE  SizeInv'
  <2>1. PICK kind, step : TakeRaw(t, bits, kind, step) /\ kind \in {"received", "raw"}
    BY <1>4 DEF Receive, SetRaw
  <2>2. bits \subseteq Bits(Types[layout])
    BY DEF RawValues
  <2>3. Becomes(t, kind, step, 0, {}, bits)
    BY <2>1, TakeRawWork
  <2>4. raw' = bits /\ dbRaw' = dbRaw
    BY <2>1 DEF TakeRaw, database
  <2> QED BY <1>2, <2>1, <2>2, <2>3, <2>4
<1>5. ASSUME NEW t \in Threads, Submit(t)
      PROVE  SizeInv'
  BY <1>2, <1>5, SubmitWork DEF Submit, memory, database
<1>6. ASSUME NEW t \in Threads, ReadRaw(t)
      PROVE  SizeInv'
  <2> DEFINE bits == SetPosition(Fields[job[t].field], raw, job[t].data)
  <2>1. job[t].field \in Reachable
    BY <1>6 DEF ReadRaw, At
  <2>2. bits \subseteq Bits(Types[layout])
    BY <2>1, FieldsFit, SetKeepsSize
  <2>3. Becomes(t, "field", "write", job[t].field, job[t].data, bits)
    BY <1>6, ReadRawWork
  <2>4. raw' = raw /\ dbRaw' = dbRaw
    BY <1>6 DEF ReadRaw, memory, database
  <2> HIDE DEF bits
  <2> QED BY <1>2, <2>1, <2>2, <2>3, <2>4
<1>7. ASSUME NEW t \in Threads, NEW f, ReceiveField(t, f)
      PROVE  SizeInv'
  <2>1. Becomes(t, "foreign", "save", f, Foreign, {})
    BY <1>7, ReceiveFieldWork
  <2>2. raw' = raw /\ dbRaw' = dbRaw
    BY <1>7 DEF ReceiveField, database
  <2> QED BY <1>2, <2>1, <2>2
<1>8. ASSUME NEW t \in Threads, SaveField(t) \/ WriteRaw(t) \/ SaveSet(t)
      PROVE  SizeInv'
  <2>1. PICK step : Goto(t, step)
    BY <1>8 DEF SaveField, WriteRaw, SaveSet
  <2>2. raw' \in {raw, job[t].bits} /\ dbRaw' \in {dbRaw, job[t].bits}
    BY <1>8 DEF SaveField, WriteRaw, SaveSet, memory, database
  <2> QED BY <1>2, <2>1, <2>2, GotoWork
<1>9. ASSUME NEW t \in Threads, SaveRaw(t) \/ Send(t) \/ SaveForeign(t) \/ Refuse(t)
      PROVE  SizeInv'
  <2>1. Done(t) /\ raw' = raw /\ dbRaw' \in {dbRaw, job[t].bits}
    BY <1>9 DEF SaveRaw, Send, SaveForeign, Refuse, memory, database
  <2> QED BY <1>2, <2>1, DoneWork
<1>10. CASE Restart
  BY <1>1, <1>10, NoWork DEF Restart, database
<1>11. CASE InterfaceReconnected \/ WriteOnInit \/ UNCHANGED vars
  BY <1>1, <1>11
     DEF InterfaceReconnected, WriteOnInit, vars, variable, memory, database, JobsAreRecords, IsFunction
<1> QED BY <1>3, <1>4, <1>5, <1>6, <1>8, <1>9, <1>10, <1>11, <1>7 DEF Next

(* Whatever fields are set, by however many threads, and wherever the       *)
(* program ends, .RAW keeps the size of its type, in memory and in the      *)
(* database, if the parsers put every field inside it (setValue, load).     *)
THEOREM RawAlwaysKeepsSize ==
  ASSUME Fit(Types)
  PROVE  Spec => []RawKeepsSize
<1>1. SizeInv => RawKeepsSize
  BY DEF SizeInv, RawKeepsSize
<1> QED BY <1>1, InitSize, StepSize, PTL DEF Spec

-----------------------------------------------------------------------------
(* A field's bits in a value: they only depend on the bits at its positions,*)
(* and stay somebody's when the value gets another field.                  *)
LEMMA SameBits ==
  ASSUME NEW f, NEW bits, NEW other, bits \cap Positions(f) = other \cap Positions(f)
  PROVE  GetPosition(f, bits) = GetPosition(f, other)
BY DEF GetPosition

(* Of a value that comes to be in a step.                                   *)
WholeNext(f, bits) ==
  \/ \E b \in given' : bits \cap Positions(Fields[f]) = b \cap Positions(Fields[f])
  \/ \E w \in written' : w[1] = f /\ GetPosition(Fields[f], bits) = w[2]

LEMMA WholeSet ==
  ASSUME Fit(Types), WholeInv, NEW t \in Threads, job[t].kind = "field",
         NEW f \in Reachable, Exact(f), given' = given, written' = written
  PROVE  WholeNext(f, SetPosition(Fields[job[t].field], raw, job[t].data))
<1> DEFINE g == job[t].field
<1>1. /\ g \in Reachable /\ <<g, job[t].data>> \in written
      /\ TooWide(g) \/ job[t].data \subseteq 0..Fields[g].size - 1
      /\ layout \in DOMAIN Types /\ WholeIn(f, raw)
  BY DEF WholeInv, JobFieldsExist, JobData
<1>2. /\ Fields[g].pos \in Nat /\ Fields[g].size \in Nat \ {0}
      /\ f # g => Apart(Fields[f], Fields[g])
  BY <1>1, FieldsFit DEF Exact
<1> HIDE DEF g
<1>3. CASE f = g
  <2>1. GetPosition(Fields[g], SetPosition(Fields[g], raw, job[t].data)) = job[t].data
    BY <1>1, <1>2, <1>3, GetOfSet DEF Exact
  <2> QED BY <1>1, <1>3, <2>1 DEF WholeNext, g
<1>4. CASE f # g
  <2>1. SetPosition(Fields[g], raw, job[t].data) \cap Positions(Fields[f])
          = raw \cap Positions(Fields[f])
    BY <1>2, <1>4, SetApart
  <2>2. GetPosition(Fields[f], SetPosition(Fields[g], raw, job[t].data)) = GetPosition(Fields[f], raw)
    BY <2>1, SameBits
  <2> QED BY <1>1, <2>1, <2>2 DEF WholeIn, WholeNext, g
<1> QED BY <1>3, <1>4

LEMMA InitWhole == Init => WholeInv
<1> SUFFICES ASSUME Init PROVE WholeInv
  OBVIOUS
<1>1. /\ raw = {} /\ dbRaw = {} /\ given = {{}} /\ layout \in DOMAIN Types
      /\ \A t \in Threads : job[t] = Idle
  BY DEF Init
<1>2. JobsAreRecords
  BY InitSave DEF SaveInv
<1>3. \A t \in Threads : job[t].kind = "idle" /\ job[t].bits = {}
  BY <1>1 DEF Idle
<1>4. \A f : WholeIn(f, {})
  BY <1>1 DEF WholeIn
<1> QED BY <1>1, <1>2, <1>3, <1>4 DEF WholeInv, JobFieldsExist, JobData

LEMMA StepWhole ==
  ASSUME Fit(Types), WholeInv, [Next]_vars
  PROVE  WholeInv'
<1>1. layout' = layout /\ Reachable' = Reachable /\ Fields' = Fields
  BY SameLayout
<1>2. /\ layout \in DOMAIN Types /\ JobsAreRecords /\ JobFieldsExist /\ {} \in given
      /\ \A t \in Threads : JobData(t)
      /\ \A f \in Reachable : Exact(f) =>
           WholeIn(f, raw) /\ WholeIn(f, dbRaw) /\ \A t \in Threads : WholeIn(f, job[t].bits)
  BY DEF WholeInv
<1>3. \A f : (Exact(f) <=> Exact(f)') /\ (TooWide(f) <=> TooWide(f)')
  BY <1>1 DEF Exact, Clash, TooWide
<1>4. \A f : \A bits : WholeNext(f, bits) <=> WholeIn(f, bits)'
  BY <1>1 DEF WholeNext, WholeIn
<1>5. given \subseteq given' /\ written \subseteq written'
  BY DEF Next, vars, memory, database, history, SetField, Receive, SetRaw, TakeRaw, ReceiveField,
         Submit, SaveField, ReadRaw, WriteRaw, SaveRaw, SaveSet, Send, SaveForeign, Refuse, Restart,
         InterfaceReconnected, WriteOnInit
<1>6. \A f : \A bits : WholeIn(f, bits) => WholeNext(f, bits)
  BY <1>5 DEF WholeNext, WholeIn
<1>7. ASSUME NEW t \in Threads, NEW kind, NEW step, NEW f, NEW data, NEW bits,
             Becomes(t, kind, step, f, data, bits),
             kind = "field" => f \in Reachable /\ <<f, data>> \in written'
                               /\ (TooWide(f) \/ data \subseteq 0..Fields[f].size - 1),
             \A g \in Reachable : Exact(g) =>
               WholeNext(g, bits) /\ WholeNext(g, raw') /\ WholeNext(g, dbRaw')
      PROVE  WholeInv'
  <2>1. JobsAreRecords' /\ JobFieldsExist'
    BY <1>1, <1>2, <1>7 DEF Becomes, JobFieldsExist
  <2>2. ASSUME NEW u \in Threads PROVE JobData(u)'
    <3>1. CASE u = t
      BY <1>1, <1>3, <1>7, <3>1 DEF Becomes, JobData
    <3>2. CASE u # t
      BY <1>1, <1>2, <1>3, <1>5, <1>7, <3>2 DEF Becomes, JobData
    <3> QED BY <3>1, <3>2
  <2>3. ASSUME NEW g \in Reachable, Exact(g)
        PROVE  WholeIn(g, raw)' /\ WholeIn(g, dbRaw)' /\ \A u \in Threads : WholeIn(g, job[u].bits)'
    <3>1. WholeNext(g, raw') /\ WholeNext(g, dbRaw') /\ WholeNext(g, bits)
      BY <1>7, <2>3
    <3>2. \A u \in Threads : WholeNext(g, job'[u].bits)
      BY <1>2, <1>6, <1>7, <2>3, <3>1 DEF Becomes
    <3> QED BY <1>1, <3>1, <3>2 DEF WholeNext, WholeIn
  <2> QED BY <1>1, <1>2, <1>3, <1>5, <2>1, <2>2, <2>3 DEF WholeInv
<1>8. ASSUME NEW t \in Threads, NEW f \in Reachable, NEW n, n \in Values(Fields[f]), SetField(t, f, n)
      PROVE  WholeInv'
  <2> DEFINE data == Data(Fields[f], n)
  <2>1. Becomes(t, "field", "save", f, data, {})
    BY <1>2, <1>8, SetFieldWork
  <2>2. raw' = raw /\ dbRaw' = dbRaw /\ <<f, data>> \in written'
    BY <1>8 DEF SetField, database
  <2>3. TooWide(f) \/ data \subseteq 0..Fields[f].size - 1
    BY <1>2, <1>8, FieldsFit
  <2>4. \A g : WholeNext(g, {})
    BY <1>2, <1>5 DEF WholeNext
  <2> HIDE DEF data
  <2> QED BY <1>2, <1>6, <1>7, <2>1, <2>2, <2>3, <2>4
<1>9. ASSUME NEW t \in Threads, NEW bits \in RawValues, Receive(t, bits) \/ SetRaw(t, bits)
      PROVE  WholeInv'
  <2>1. PICK kind, step : TakeRaw(t, bits, kind, step) /\ kind \in {"received", "raw"}
    BY <1>9 DEF Receive, SetRaw
  <2>2. Becomes(t, kind, step, 0, {}, bits)
    BY <1>2, <2>1, TakeRawWork
  <2>3. raw' = bits /\ dbRaw' = dbRaw /\ bits \in given'
    BY <2>1 DEF TakeRaw, database
  <2>4. \A g : WholeNext(g, bits)
    BY <2>3 DEF WholeNext
  <2> QED BY <1>2, <1>6, <1>7, <2>1, <2>2, <2>3, <2>4
<1>10. ASSUME NEW t \in Threads, Submit(t)
      PROVE  WholeInv'
  <2>1. Becomes(t, "submit", "send", 0, {}, raw)
    BY <1>2, <1>10, SubmitWork
  <2>2. raw' = raw /\ dbRaw' = dbRaw
    BY <1>10 DEF Submit, memory, database
  <2> QED BY <1>2, <1>6, <1>7, <2>1, <2>2
<1>11. ASSUME NEW t \in Threads, ReadRaw(t)
      PROVE  WholeInv'
  <2> DEFINE bits == SetPosition(Fields[job[t].field], raw, job[t].data)
  <2>1. Becomes(t, "field", "write", job[t].field, job[t].data, bits)
    BY <1>2, <1>11, ReadRawWork
  <2>2. /\ raw' = raw /\ dbRaw' = dbRaw /\ job[t].kind = "field"
        /\ given' = given /\ written' = written
    BY <1>11 DEF ReadRaw, At, memory, database, history
  <2>3. \A g \in Reachable : Exact(g) => WholeNext(g, bits)
    BY <2>2, WholeSet
  <2>4. job[t].field \in Reachable /\ <<job[t].field, job[t].data>> \in written'
        /\ (TooWide(job[t].field) \/ job[t].data \subseteq 0..Fields[job[t].field].size - 1)
    BY <1>2, <2>2 DEF JobFieldsExist, JobData
  <2> HIDE DEF bits
  <2> QED BY <1>2, <1>6, <1>7, <2>1, <2>2, <2>3, <2>4
<1>12. ASSUME NEW t \in Threads, SaveField(t) \/ WriteRaw(t) \/ SaveSet(t)
      PROVE  WholeInv'
  <2>1. PICK step : Goto(t, step)
    BY <1>12 DEF SaveField, WriteRaw, SaveSet
  <2>2. raw' \in {raw, job[t].bits} /\ dbRaw' \in {dbRaw, job[t].bits}
    BY <1>12 DEF SaveField, WriteRaw, SaveSet, memory, database
  <2>3. Becomes(t, job[t].kind, step, job[t].field, job[t].data, job[t].bits)
    BY <1>2, <2>1, GotoWork
  <2>4. job[t].kind = "field" =>
          job[t].field \in Reachable /\ <<job[t].field, job[t].data>> \in written'
          /\ (TooWide(job[t].field) \/ job[t].data \subseteq 0..Fields[job[t].field].size - 1)
    BY <1>2, <1>5 DEF JobFieldsExist, JobData
  <2>5. \A g \in Reachable : Exact(g) =>
          WholeNext(g, job[t].bits) /\ WholeNext(g, raw') /\ WholeNext(g, dbRaw')
    BY <1>2, <1>6, <2>2
  <2> QED BY <1>7, <2>3, <2>4, <2>5
<1>13. ASSUME NEW t \in Threads, SaveRaw(t) \/ Send(t) \/ SaveForeign(t) \/ Refuse(t)
      PROVE  WholeInv'
  <2>1. Done(t) /\ raw' = raw /\ dbRaw' \in {dbRaw, job[t].bits}
    BY <1>13 DEF SaveRaw, Send, SaveForeign, Refuse, memory, database
  <2>2. Becomes(t, "idle", "none", 0, {}, {})
    BY <1>2, <2>1, DoneWork
  <2>3. \A g : WholeNext(g, {})
    BY <1>2, <1>5 DEF WholeNext
  <2>4. \A g \in Reachable : Exact(g) => WholeNext(g, raw') /\ WholeNext(g, dbRaw')
    BY <1>2, <1>6, <2>1
  <2> QED BY <1>7, <2>2, <2>3, <2>4
<1>14. CASE Restart
  <2>1. JobsAreRecords' /\ \A t \in Threads : job'[t].kind = "idle" /\ job'[t].bits = {}
    BY <1>14, NoWork DEF Restart
  <2>2. raw' = dbRaw /\ dbRaw' = dbRaw
    BY <1>14 DEF Restart, database
  <2>3. \A g : WholeNext(g, {})
    BY <1>2, <1>5 DEF WholeNext
  <2>4. \A g \in Reachable : Exact(g) =>
          /\ WholeIn(g, raw)' /\ WholeIn(g, dbRaw)'
          /\ \A t \in Threads : WholeIn(g, job[t].bits)'
    <3> SUFFICES ASSUME NEW g \in Reachable, Exact(g)
                 PROVE  /\ WholeIn(g, raw)' /\ WholeIn(g, dbRaw)'
                        /\ \A t \in Threads : WholeIn(g, job[t].bits)'
      OBVIOUS
    <3>1. WholeNext(g, raw') /\ WholeNext(g, dbRaw')
      BY <1>2, <1>6, <2>2
    <3>2. \A t \in Threads : WholeNext(g, job'[t].bits)
      BY <2>1, <2>3
    <3> QED BY <1>1, <3>1, <3>2 DEF WholeNext, WholeIn
  <2> QED BY <1>1, <1>2, <1>3, <1>5, <2>1, <2>4 DEF WholeInv, JobFieldsExist, JobData
<1>15. CASE InterfaceReconnected \/ WriteOnInit \/ UNCHANGED vars
  <2>1. UNCHANGED <<layout, raw, dbRaw, job, given, written>>
    BY <1>15 DEF InterfaceReconnected, WriteOnInit, vars, variable, memory, database, history
  <2> QED BY <1>1, <2>1 DEF WholeInv, JobsAreRecords, IsFunction, JobFieldsExist, JobData, WholeIn, Exact,
                            Clash, TooWide
<1>16. ASSUME NEW t \in Threads, NEW f, ReceiveField(t, f)
       PROVE  WholeInv'
  <2>1. Becomes(t, "foreign", "save", f, Foreign, {})
    BY <1>2, <1>16, ReceiveFieldWork
  <2>2. raw' = raw /\ dbRaw' = dbRaw
    BY <1>16 DEF ReceiveField, database
  <2>3. \A g : WholeNext(g, {})
    BY <1>2, <1>5 DEF WholeNext
  <2>4. \A g \in Reachable : Exact(g) => WholeNext(g, raw') /\ WholeNext(g, dbRaw')
    BY <1>2, <1>6, <2>2
  <2> QED BY <1>7, <2>1, <2>3, <2>4
<1> QED BY <1>8, <1>9, <1>10, <1>11, <1>12, <1>13, <1>14, <1>15, <1>16 DEF Next

(* However calls overlap, each field in .RAW has a value that somebody gave *)
(* it, for all types whose fields lie apart: two calls may undo each other,  *)
(* but not by halves (setValue works on a copy of all of .RAW).             *)
THEOREM FieldsAlwaysWhole ==
  ASSUME Fit(Types)
  PROVE  Spec => []FieldsWhole
<1>1. WholeInv => FieldsWhole
  BY DEF WholeInv, WholeIn, Exact, FieldsWhole
<1> QED BY <1>1, InitWhole, StepWhole, PTL DEF Spec

-----------------------------------------------------------------------------
(* Setting one field leaves another as it was, unless they clash, and gives *)
(* the field its value, unless it is too wide.                             *)
LEMMA OtherFieldStays ==
  ASSUME Fit(Types), layout \in DOMAIN Types, NEW f \in Reachable, NEW g \in Reachable, f # g,
         ~Clash(f), NEW bits, NEW data
  PROVE  GetPosition(Fields[f], SetPosition(Fields[g], bits, data)) = GetPosition(Fields[f], bits)
<1>1. /\ Fields[g].pos \in Nat /\ Fields[g].size \in Nat \ {0}
      /\ Apart(Fields[f], Fields[g])
  BY FieldsFit
<1> QED BY <1>1, SetApart, SameBits

LEMMA FieldGetsValue ==
  ASSUME Fit(Types), WholeInv, NEW t \in Threads, job[t].kind = "field",
         ~TooWide(job[t].field), NEW bits
  PROVE  GetPosition(Fields[job[t].field], SetPosition(Fields[job[t].field], bits, job[t].data))
           = job[t].data
<1>1. /\ job[t].field \in Reachable /\ job[t].data \subseteq 0..Fields[job[t].field].size - 1
      /\ layout \in DOMAIN Types
  BY DEF WholeInv, JobFieldsExist, JobData
<1> QED BY <1>1, FieldsFit, GetOfSet

LEMMA OthersIdle ==
  ASSUME SaveInv, NEW t \in Threads, ~mixed,
         Working(t) \/ ~Busy
  PROVE  \A u \in Threads \ {t} : job[u].kind = "idle"
BY DEF SaveInv, Solo, Working, Busy

(* What holds of the threads once one of them, which is alone, has changed. *)
LEMMA AloneAgrees ==
  ASSUME NEW t \in Threads, NEW kind, NEW step, NEW f, NEW data, NEW bits,
         Becomes(t, kind, step, f, data, bits), Fields' = Fields,
         \A u \in Threads \ {t} : job[u].kind = "idle",
         kind = "field" =>
           /\ step \in {"save", "read", "write", "saveRaw"} /\ field'[f] = data
           /\ step = "write" => bits = SetPosition(Fields[f], raw', data)
           /\ step = "saveRaw" /\ ~refused' => bits = SetPosition(Fields[f], dbRaw', data),
         kind \in {"received", "raw"} /\ step \in {"saveRaw", "saveSet"} => fresh' = {},
         kind = "foreign" => f \notin fresh'
  PROVE  \A u \in Threads : FieldStep(u)' /\ OtherStep(u)'
<1>1. FieldStep(t)' /\ OtherStep(t)'
  BY DEF Becomes, FieldStep, OtherStep, SavesRaw, At
<1>2. ASSUME NEW u \in Threads, u # t PROVE FieldStep(u)' /\ OtherStep(u)'
  BY <1>2 DEF Becomes, FieldStep, OtherStep, SavesRaw, At
<1> QED BY <1>1, <1>2

LEMMA InitAgree == Init => AgreeInv
<1> SUFFICES ASSUME Init PROVE AgreeInv
  OBVIOUS
<1>1. SaveInv /\ WholeInv
  BY InitSave, InitWhole
<1>2. /\ raw = {} /\ field = [f \in DOMAIN Fields |-> {}] /\ dbField = field /\ fresh = Reachable
      /\ layout \in DOMAIN Types /\ job = [t \in Threads |-> Idle] /\ ~refused
  BY DEF Init
<1>3. Reachable \subseteq DOMAIN Fields
  BY <1>2 DEF Reachable, ReachableFields, Named, Fields
<1>4. \A f \in fresh : Agrees(f)
  BY <1>2, <1>3 DEF Agrees, GetPosition
<1>5. \A t \in Threads : FieldStep(t) /\ OtherStep(t)
  BY <1>2 DEF FieldStep, OtherStep, SavesRaw, At, Idle
<1> QED BY <1>1, <1>2, <1>4, <1>5 DEF AgreeInv, FieldDomains, Core, RefusedFresh

LEMMA StepAgree ==
  ASSUME Fit(Types), AgreeInv, [Next]_vars
  PROVE  AgreeInv'
<1>1. layout' = layout /\ Reachable' = Reachable /\ Fields' = Fields
  BY SameLayout
<1>2. SaveInv' /\ WholeInv'
  BY StepSave, StepWhole DEF AgreeInv
<1>3. SaveInv /\ WholeInv /\ JobsAreRecords /\ FieldDomains /\ layout \in DOMAIN Types
  BY DEF AgreeInv, SaveInv, WholeInv
<1>4. FieldDomains'
  BY <1>1, <1>3
     DEF Next, vars, memory, database, history, SetField, Receive, SetRaw, TakeRaw, ReceiveField, Submit,
         SaveField, ReadRaw, WriteRaw, SaveRaw, SaveSet, Send, SaveForeign, Refuse, Restart,
         InterfaceReconnected, WriteOnInit, FieldDomains
<1>5. ~mixed' => ~mixed
  BY DEF Next, vars, memory, database, history, Call, SetField, Receive, SetRaw, TakeRaw, ReceiveField,
         Submit, SaveField, ReadRaw, WriteRaw, SaveRaw, SaveSet, Send, SaveForeign, Refuse, Restart,
         InterfaceReconnected, WriteOnInit
<1> SUFFICES ASSUME ~mixed' PROVE Core'
  BY <1>2, <1>4 DEF AgreeInv, Core
<1>6. ~mixed /\ Core
  BY <1>5 DEF AgreeInv, Core
<1>7. /\ \A f : (Clash(f) <=> Clash(f)') /\ (TooWide(f) <=> TooWide(f)')
      /\ \A f : Agrees(f)' <=> \/ GetPosition(Fields[f], raw') = field'[f]
                               \/ Clash(f) \/ TooWide(f)
  BY <1>1 DEF Clash, TooWide, Agrees
<1>8. Reachable \subseteq DOMAIN Fields
  BY <1>3, FieldsFit
(* A .RAW that was refused leaves no field fresh, unless one is being set.   *)
<1>9. ASSUME refused, \A t \in Threads : ~(job[t].kind = "field" /\ job[t].step = "saveRaw")
       PROVE  fresh = {}
  BY <1>6, <1>9 DEF Core, RefusedFresh
<1>10. ASSUME ~Busy PROVE refused => fresh = {}
  BY <1>9, <1>10 DEF Busy, Working
<1>11. ASSUME NEW t \in Threads, NEW f \in Reachable, NEW data, NEW kind \in {"field", "foreign"},
             Becomes(t, kind, "save", f, data, {}), raw' = raw, refused' = refused,
             field' = [field EXCEPT ![f] = data], fresh' = fresh \ {f}, ~Busy
      PROVE  Core'
  <2>1. \A u \in Threads \ {t} : job[u].kind = "idle"
    BY <1>3, <1>6, <1>11, OthersIdle
  <2>2. field'[f] = data /\ \A g \in Reachable : g # f => field'[g] = field[g]
    BY <1>3, <1>8, <1>11 DEF FieldDomains
  <2>3. \A u \in Threads : FieldStep(u)' /\ OtherStep(u)'
    BY <1>1, <1>11, <2>1, <2>2, AloneAgrees
  <2>4. \A g \in fresh' : Agrees(g)'
    BY <1>6, <1>7, <1>11, <2>2 DEF Core, Agrees
  <2>5. RefusedFresh'
    BY <1>11, <1>10 DEF RefusedFresh
  <2> QED BY <1>1, <1>6, <1>11, <2>3, <2>4, <2>5 DEF Core
<1>12. ASSUME NEW t \in Threads, NEW f \in Reachable, NEW n, SetField(t, f, n)
       PROVE  Core'
  <2> DEFINE data == Data(Fields[f], n)
  <2>1. Becomes(t, "field", "save", f, data, {})
    BY <1>3, <1>12, SetFieldWork
  <2>2. /\ raw' = raw /\ field' = [field EXCEPT ![f] = data] /\ fresh' = fresh \ {f} /\ ~Busy
        /\ refused' = refused
    BY <1>6, <1>12 DEF SetField, Call
  <2> HIDE DEF data
  <2> QED BY <1>11, <2>1, <2>2
<1>13. ASSUME NEW t \in Threads, NEW f \in Reachable, ReceiveField(t, f)
       PROVE  Core'
  <2>1. Becomes(t, "foreign", "save", f, Foreign, {})
    BY <1>3, <1>13, ReceiveFieldWork
  <2>2. /\ raw' = raw /\ field' = [field EXCEPT ![f] = Foreign] /\ fresh' = fresh \ {f} /\ ~Busy
        /\ refused' = refused
    BY <1>6, <1>13 DEF ReceiveField, Call
  <2> QED BY <1>11, <2>1, <2>2
<1>14. ASSUME NEW t \in Threads, NEW bits \in RawValues, Receive(t, bits) \/ SetRaw(t, bits)
       PROVE  Core'
  <2>1. PICK kind, step : TakeRaw(t, bits, kind, step) /\ kind \in {"received", "raw"}
    BY <1>14 DEF Receive, SetRaw
  <2>2. Becomes(t, kind, step, 0, {}, bits)
    BY <1>3, <2>1, TakeRawWork
  <2>3. fresh' = {} /\ ~Busy
    BY <1>6, <2>1 DEF TakeRaw, Call, Grouped
  <2>4. \A u \in Threads \ {t} : job[u].kind = "idle"
    BY <1>3, <1>6, <2>3, OthersIdle
  <2>5. \A u \in Threads : FieldStep(u)' /\ OtherStep(u)'
    BY <1>1, <2>1, <2>2, <2>3, <2>4, AloneAgrees
  <2> QED BY <2>3, <2>5 DEF Core, RefusedFresh
<1>15. ASSUME NEW t \in Threads, Submit(t)
       PROVE  Core'
  <2>1. Becomes(t, "submit", "send", 0, {}, raw)
    BY <1>3, <1>15, SubmitWork
  <2>2. raw' = raw /\ field' = field /\ fresh' = fresh /\ ~Busy /\ refused' = refused
    BY <1>6, <1>15 DEF Submit, Call, memory
  <2>3. \A u \in Threads \ {t} : job[u].kind = "idle"
    BY <1>3, <1>6, <2>2, OthersIdle
  <2>4. \A u \in Threads : FieldStep(u)' /\ OtherStep(u)'
    BY <1>1, <2>1, <2>3, AloneAgrees
  <2>5. \A g \in fresh' : Agrees(g)'
    BY <1>6, <1>7, <2>2 DEF Core, Agrees
  <2>6. RefusedFresh'
    BY <1>10, <2>2 DEF RefusedFresh
  <2> QED BY <1>1, <1>6, <2>2, <2>4, <2>5, <2>6 DEF Core
<1>16. ASSUME NEW t \in Threads, job[t].kind = "field"
       PROVE  /\ job[t].field \in Reachable
              /\ job[t].step \in {"save", "read", "write", "saveRaw"}
              /\ field[job[t].field] = job[t].data
              /\ job[t].step = "write" =>
                   job[t].bits = SetPosition(Fields[job[t].field], raw, job[t].data)
              /\ job[t].step = "saveRaw" /\ ~refused =>
                   job[t].bits = SetPosition(Fields[job[t].field], dbRaw, job[t].data)
              /\ job[t].step \in {"read", "write"} => raw = dbRaw \/ refused
              /\ refused /\ job[t].step # "saveRaw" => fresh = {}
              /\ \A u \in Threads \ {t} : job[u].kind = "idle"
  <2>1. \A u \in Threads \ {t} : job[u].kind = "idle"
    BY <1>3, <1>6, <1>16, OthersIdle DEF Working
  <2>2. job[t].step \in {"read", "write"} => raw = dbRaw \/ refused
    BY <1>3, <1>6, <1>16, <2>1 DEF SaveInv, AboutToSave, SavesRaw, At
  <2>3. refused /\ job[t].step # "saveRaw" => fresh = {}
    BY <1>9, <2>1
  <2> QED BY <1>3, <1>6, <1>16, <2>1, <2>2, <2>3 DEF Core, FieldStep, WholeInv, JobFieldsExist
<1>17. ASSUME NEW t \in Threads, SaveField(t) \/ ReadRaw(t)
       PROVE  Core'
  <2>1. /\ job[t].kind = "field" /\ UNCHANGED <<raw, field, dbRaw, fresh, refused>>
        /\ job[t].step \in {"save", "read"}
    BY <1>17 DEF SaveField, ReadRaw, At, memory, database, history
  <2> DEFINE bits == SetPosition(Fields[job[t].field], raw, job[t].data)
  <2>2. \/ Becomes(t, "field", "read", job[t].field, job[t].data, job[t].bits)
        \/ Becomes(t, "field", "write", job[t].field, job[t].data, bits)
    <3>1. CASE SaveField(t)
      BY <1>3, <2>1, <3>1, GotoWork DEF SaveField
    <3>2. CASE ReadRaw(t)
      BY <1>3, <1>16, <2>1, <3>2, ReadRawWork
    <3> QED BY <1>17, <3>1, <3>2
  <2>3. field'[job[t].field] = job[t].data /\ \A u \in Threads \ {t} : job[u].kind = "idle"
    BY <1>16, <2>1
  <2>4. \A u \in Threads : FieldStep(u)' /\ OtherStep(u)'
    <3>1. CASE Becomes(t, "field", "read", job[t].field, job[t].data, job[t].bits)
      BY <1>1, <2>3, <3>1, AloneAgrees
    <3>2. CASE Becomes(t, "field", "write", job[t].field, job[t].data, bits)
      BY <1>1, <2>1, <2>3, <3>2, AloneAgrees
    <3> QED BY <2>2, <3>1, <3>2
  <2>5. \A g \in fresh' : Agrees(g)'
    BY <1>6, <1>7, <2>1 DEF Core, Agrees
  <2>6. RefusedFresh'
    BY <1>16, <2>1 DEF RefusedFresh
  <2> QED BY <1>1, <1>6, <2>1, <2>4, <2>5, <2>6 DEF Core
<1>18. ASSUME NEW t \in Threads, WriteRaw(t)
       PROVE  Core'
  <2> DEFINE f == job[t].field
  <2>1. /\ job[t].kind = "field" /\ job[t].step = "write" /\ Goto(t, "saveRaw")
        /\ raw' = job[t].bits /\ UNCHANGED <<field, dbRaw, refused>> /\ fresh' = fresh \cup {f}
    BY <1>18 DEF WriteRaw, At, database
  <2>2. /\ f \in Reachable /\ field[f] = job[t].data /\ (raw = dbRaw \/ refused)
        /\ job[t].bits = SetPosition(Fields[f], raw, job[t].data)
        /\ \A u \in Threads \ {t} : job[u].kind = "idle"
        /\ refused => fresh = {}
    BY <1>16, <2>1
  <2>3. Becomes(t, "field", "saveRaw", f, job[t].data, job[t].bits)
    BY <1>3, <2>1, GotoWork
  <2>4. \A u \in Threads : FieldStep(u)' /\ OtherStep(u)'
    BY <1>1, <2>1, <2>2, <2>3, AloneAgrees
  <2>5. TooWide(f) \/ GetPosition(Fields[f], raw') = field'[f]
    BY <1>3, <2>1, <2>2, FieldGetsValue
  <2>6. ASSUME NEW g \in fresh, g # f PROVE Agrees(g)'
    <3>1. g \in Reachable /\ Agrees(g)
      BY <1>6 DEF Core
    <3>2. Clash(g) \/ GetPosition(Fields[g], raw') = GetPosition(Fields[g], raw)
      BY <1>3, <2>1, <2>2, <2>6, <3>1, OtherFieldStays
    <3> QED BY <1>7, <2>1, <3>1, <3>2 DEF Agrees
  <2>7. \A g \in fresh' : Agrees(g)'
    BY <1>7, <2>1, <2>5, <2>6
  <2>8. RefusedFresh'
    BY <2>1, <2>2, <2>3 DEF RefusedFresh, Becomes
  <2> QED BY <1>1, <1>6, <2>1, <2>2, <2>4, <2>7, <2>8 DEF Core
<1>19. ASSUME NEW t \in Threads, SaveRaw(t) \/ SaveSet(t) \/ Send(t) \/ SaveForeign(t) \/ Refuse(t)
       PROVE  Core'
  <2>1. /\ UNCHANGED <<raw, field, fresh>> /\ Working(t)
        /\ Done(t) \/ (job[t].kind = "raw" /\ Goto(t, "send"))
    BY <1>19 DEF SaveRaw, SaveSet, Send, SaveForeign, Refuse, At, Working, memory, history
  <2>2. \A u \in Threads \ {t} : job[u].kind = "idle"
    BY <1>3, <1>6, <2>1, OthersIdle
  <2>3. \/ Becomes(t, "idle", "none", 0, {}, {})
        \/ Becomes(t, "raw", "send", job[t].field, job[t].data, job[t].bits)
    BY <1>3, <2>1, DoneWork, GotoWork
  <2>4. \A u \in Threads : FieldStep(u)' /\ OtherStep(u)'
    BY <1>1, <2>2, <2>3, AloneAgrees
  <2>5. \A g \in fresh' : Agrees(g)'
    BY <1>6, <1>7, <2>1 DEF Core, Agrees
  <2>6. RefusedFresh'
    <3>1. CASE SaveRaw(t) \/ SaveSet(t)
      BY <3>1 DEF SaveRaw, SaveSet, RefusedFresh
    <3>2. CASE Send(t) \/ SaveForeign(t) \/ Refuse(t)
      <4>1. job[t].kind # "field" /\ UNCHANGED refused
        BY <3>2 DEF Send, SaveForeign, Refuse, At, history
      <4> QED BY <1>9, <2>1, <2>2, <4>1 DEF RefusedFresh
    <3> QED BY <1>19, <3>1, <3>2
  <2> QED BY <1>1, <1>6, <2>1, <2>4, <2>5, <2>6 DEF Core
(* After a restart memory is what the database was.  It lacks no more than  *)
(* the field whose call was interrupted, or .RAW, after which no field is   *)
(* fresh.                                                                  *)
<1>20. CASE Restart
  <2>1. /\ raw' = dbRaw /\ field' = dbField /\ job' = [t \in Threads |-> Idle] /\ ~refused'
        /\ fresh' = fresh \ {job[t].field : t \in {u \in Threads : job[u].kind = "field"}}
    BY <1>20 DEF Restart
  <2>2. \A u \in Threads : FieldStep(u)' /\ OtherStep(u)'
    BY <2>1, NoWork DEF FieldStep, OtherStep, SavesRaw, At
  <2>3. ASSUME NEW g \in fresh' PROVE Agrees(g)'
    <3>1. /\ g \in Reachable /\ Agrees(g) /\ g \in fresh
          /\ \A t \in Threads : job[t].kind = "field" => job[t].field # g
          /\ \A t \in Threads : job[t].kind = "foreign" => job[t].field # g
      BY <1>6, <2>1 DEF Core, OtherStep
    <3>2. ~refused
      BY <1>6, <3>1 DEF Core, RefusedFresh
    <3>3. dbField[g] = field[g]
      <4>1. CASE \E t \in Threads : SavesField(t)
        <5>1. PICK t \in Threads : SavesField(t)
          BY <4>1
        <5>2. field = [dbField EXCEPT ![job[t].field] = job[t].data] /\ job[t].field # g
          BY <1>3, <1>6, <3>1, <5>1 DEF SaveInv, AboutToSave, SavesField, At
        <5> QED BY <1>3, <1>8, <3>1, <5>2 DEF FieldDomains
      <4>2. CASE ~\E t \in Threads : SavesField(t)
        BY <1>3, <1>6, <4>2 DEF SaveInv, AboutToSave
      <4> QED BY <4>1, <4>2
    <3>4. Clash(g) \/ GetPosition(Fields[g], dbRaw) = GetPosition(Fields[g], raw)
      <4>1. CASE \E t \in Threads : SavesRaw(t)
        <5>1. PICK t \in Threads : SavesRaw(t)
          BY <4>1
        <5>2. job[t].kind = "field" /\ job[t].step = "saveRaw" /\ job[t].bits = raw
          BY <1>3, <1>6, <3>1, <5>1 DEF Core, OtherStep, SaveInv, AboutToSave, SavesRaw, At
        <5>3. /\ job[t].field \in Reachable /\ job[t].field # g
              /\ raw = SetPosition(Fields[job[t].field], dbRaw, job[t].data)
          BY <1>16, <3>1, <3>2, <5>2
        <5> QED BY <1>3, <3>1, <5>3, OtherFieldStays
      <4>2. CASE ~\E t \in Threads : SavesRaw(t)
        BY <1>3, <1>6, <3>2, <4>2 DEF SaveInv, AboutToSave
      <4> QED BY <4>1, <4>2
    <3> QED BY <1>7, <2>1, <3>1, <3>3, <3>4 DEF Agrees
  <2> QED BY <1>1, <1>6, <2>1, <2>2, <2>3 DEF Core, RefusedFresh
<1>21. CASE InterfaceReconnected \/ WriteOnInit \/ UNCHANGED vars
  <2>1. UNCHANGED <<raw, field, dbRaw, job, fresh, refused>>
    BY <1>21 DEF InterfaceReconnected, WriteOnInit, vars, memory, database, history
  <2> QED BY <1>1, <1>6, <1>7, <2>1 DEF Core, RefusedFresh, Agrees, FieldStep, OtherStep, SavesRaw, At
<1> QED BY <1>14, <1>15, <1>17, <1>18, <1>19, <1>20, <1>21, <1>12, <1>13 DEF Next

(* As long as calls do not overlap, a field that was set since .RAW was has *)
(* its value in .RAW too, whatever other fields were set and wherever the   *)
(* program ended in between, for all types whose fields lie apart and hold  *)
(* the values they declare (setValue, saveParameter, load).                 *)
THEOREM FieldsAlwaysAgree ==
  ASSUME Fit(Types)
  PROVE  Spec => []FieldsAgree
<1>1. AgreeInv => FieldsAgree
  BY DEF AgreeInv, Core, FieldsAgree
<1> QED BY <1>1, InitAgree, StepAgree, PTL DEF Spec
=============================================================================
