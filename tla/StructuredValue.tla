-------------------------- MODULE StructuredValue ---------------------------
(***************************************************************************)
(* The values of one structured group variable of a peer: the parameter    *)
(* .RAW, whose value is what the bus carries, one parameter for each of    *)
(* its fields, which setValue copies into .RAW, and .SUBMIT, which sends   *)
(* it.  RPC threads and the threads that bring packets run these handlers   *)
(* without a lock around them; each parameter's octets and each save are    *)
(* atomic by themselves.  The program may end between any two steps.        *)
(*                                                                         *)
(* .RAW is the set of its bits that are one (StructuredFields).             *)
(***************************************************************************)
EXTENDS StructuredFields, FiniteSets

CONSTANTS Types,      \* the layouts, a sequence
          Threads,
          Overlapping, \* a bound: with other layouts there is one call at a time and
                       \* nothing starts again, and they may be set
          MaxCalls,   \* calls to all threads
          MaxCrashes, \* restarts and reconnections
          GroupAddress

ASSUME StructuredValueAssumption ==
  /\ Overlapping \subseteq DOMAIN Types /\ MaxCalls \in Nat /\ MaxCrashes \in Nat
  /\ IsFiniteSet(Threads) /\ Threads # {}
  /\ GroupAddress > 64

VARIABLES layout,    \* the variable's type, an index of Types
          writeable, \* the device description says that the variable may be set
          raw, field,      \* .RAW and the fields in memory ...
          dbRaw, dbField,  \* ... and in the database
          job,       \* what each thread is doing
          starting,  \* the worker has not written the values to the bus yet
          sent,      \* the telegrams of the last step
          calls, crashes,
          fresh,     \* history: the fields set after .RAW was and after telegrams of their own
          refused,   \* history: setValue of .RAW was refused since .RAW was saved
          mixed,     \* history: calls have overlapped
          given,     \* history: the values .RAW was given as a whole
          written    \* history: the values fields were given
memory == <<raw, field>>
database == <<dbRaw, dbField>>
variable == <<layout, writeable>>
history == <<fresh, refused, mixed, given, written>>
vars == <<variable, memory, database, job, starting, sent, calls, crashes, history>>

-----------------------------------------------------------------------------
ReachableFields == [i \in DOMAIN Types |-> Named(Types[i].fields)]

(* initParametersByGroupAddress enters .RAW and .SUBMIT in                   *)
(* _groupedParameters, and the fields where .RAW is too, in the index by     *)
(* group address, each under the number that is its position.  The fields that packetReceived and setValue bring up *)
(* to date from a new .RAW would be its list parameters, which stays empty. *)
Grouped == {}

-----------------------------------------------------------------------------
Idle == [kind |-> "idle", step |-> "none", field |-> 0, data |-> {}, bits |-> {}]
Working(t) == job[t].kind # "idle"
Fields == Types[layout].fields
Reachable == ReachableFields[layout]
Busy == \E t \in Threads : Working(t)
Telegram(address, bits) == [address |-> address, payload |-> bits]

Init ==
  /\ layout \in DOMAIN Types /\ writeable \in (IF layout \in Overlapping THEN BOOLEAN ELSE {TRUE})
  /\ raw = {} /\ field = [f \in DOMAIN Fields |-> {}]
  /\ dbRaw = raw /\ dbField = field
  /\ job = [t \in Threads |-> Idle]
  /\ starting = TRUE /\ sent = {} /\ calls = 0 /\ crashes = 0
  /\ fresh = Reachable /\ refused = FALSE /\ mixed = FALSE
  /\ given = {raw} /\ written = {}

(* A call comes in.  Two that overlap are remembered.                      *)
Call(t, work) ==
  /\ ~Working(t) /\ calls < MaxCalls
  /\ layout \in Overlapping \/ (~Busy /\ ~starting)
  /\ calls' = calls + 1
  /\ job' = [job EXCEPT ![t] = work]
  /\ mixed' = (mixed \/ Busy)
Goto(t, step) == job' = [job EXCEPT ![t].step = step]
Done(t) == job' = [job EXCEPT ![t] = Idle]
At(t, kinds, step) == job[t].kind \in kinds /\ job[t].step = step

(* setValue of a field: its own octets first, ...                          *)
SetField(t, f, n) ==
  LET data == Data(Fields[f], n)
  IN  /\ n \in Values(Fields[f])
      /\ Call(t, [Idle EXCEPT !.kind = "field", !.step = "save", !.field = f, !.data = data])
      /\ field' = [field EXCEPT ![f] = data]
      /\ fresh' = fresh \ {f}
      /\ written' = written \cup {<<f, data>>}
      /\ sent' = {} /\ UNCHANGED <<variable, starting, raw, database, crashes, refused, given>>
SaveField(t) ==
  /\ At(t, {"field"}, "save") /\ Goto(t, "read")
  /\ dbField' = [dbField EXCEPT ![job[t].field] = job[t].data]
  /\ sent' = {} /\ UNCHANGED <<variable, starting, memory, dbRaw, calls, crashes, history>>
(* ... then a copy of .RAW is read, changed and put back, and saved.       *)
ReadRaw(t) ==
  /\ At(t, {"field"}, "read")
  /\ LET f == Fields[job[t].field]
     IN  job' = [job EXCEPT ![t].step = "write",
                            ![t].bits = SetPosition(f, raw, job[t].data)]
  /\ sent' = {} /\ UNCHANGED <<variable, starting, memory, database, calls, crashes, history>>
WriteRaw(t) ==
  /\ At(t, {"field"}, "write") /\ Goto(t, "saveRaw")
  /\ raw' = job[t].bits
  /\ fresh' = fresh \cup {job[t].field}
  /\ sent' = {} /\ UNCHANGED <<variable, starting, field, database, calls, crashes, refused, mixed, given, written>>
SaveRawForgotten(t) ==
  /\ At(t, {"field", "received"}, "saveRaw") /\ Done(t)
  /\ sent' = {} /\ UNCHANGED <<variable, starting, memory, database, calls, crashes, history>>
SaveRaw(t) ==
  /\ At(t, {"field", "received"}, "saveRaw") /\ Done(t)
  /\ dbRaw' = job[t].bits /\ refused' = FALSE
  /\ sent' = {} /\ UNCHANGED <<variable, starting, memory, dbField, calls, crashes, fresh, mixed, given, written>>

(* A telegram to the address that is the position of a field, an octet of   *)
(* ones that was meant for others: the field takes it, .RAW does not.      *)
Foreign == 0..7
ReceiveField(t, f) ==
  /\ Call(t, [Idle EXCEPT !.kind = "foreign", !.step = "save", !.field = f, !.data = Foreign])
  /\ field' = [field EXCEPT ![f] = Foreign]
  /\ fresh' = fresh \ {f}
  /\ sent' = {} /\ UNCHANGED <<variable, starting, raw, database, crashes, refused, given, written>>
SaveForeign(t) ==
  /\ At(t, {"foreign"}, "save") /\ Done(t)
  /\ dbField' = [dbField EXCEPT ![job[t].field] = job[t].data]
  /\ sent' = {} /\ UNCHANGED <<variable, starting, memory, dbRaw, calls, crashes, history>>

(* A telegram of the bus, or setValue of .RAW, which is sent at the end.    *)
(* Only fields that are grouped follow it.  That the variable may not be     *)
(* set is found when memory has the new value.                             *)
RawValues == {{}, Bits(Types[layout]), {i \in Bits(Types[layout]) : i % 2 = 1}}
TakeRaw(t, bits, kind, step) ==
  /\ Call(t, [Idle EXCEPT !.kind = kind, !.step = step, !.bits = bits])
  /\ raw' = bits
  /\ field' = [f \in DOMAIN field |->
                 IF f \in Grouped THEN GetPosition(Fields[f], bits) ELSE field[f]]
  /\ fresh' = Grouped
  /\ given' = given \cup {bits}
  /\ refused' = (refused \/ step = "refuse")
  /\ sent' = {} /\ UNCHANGED <<variable, starting, database, crashes, written>>
Receive(t, bits) == bits \in RawValues /\ TakeRaw(t, bits, "received", "saveRaw")
SetRaw(t, bits) == bits \in RawValues /\ TakeRaw(t, bits, "raw", IF writeable THEN "saveSet" ELSE "refuse")
Refuse(t) ==
  /\ At(t, {"raw"}, "refuse") /\ Done(t)
  /\ sent' = {} /\ UNCHANGED <<variable, starting, memory, database, calls, crashes, history>>
SaveSet(t) ==
  /\ At(t, {"raw"}, "saveSet") /\ Goto(t, "send")
  /\ dbRaw' = job[t].bits /\ refused' = FALSE
  /\ sent' = {} /\ UNCHANGED <<variable, starting, memory, dbField, calls, crashes, fresh, mixed, given, written>>

(* setValue of .SUBMIT, which a variable that may be set has, and a         *)
(* groupValueRead that is answered, read .RAW.                             *)
Submit(t) ==
  /\ Call(t, [Idle EXCEPT !.kind = "submit", !.step = "send", !.bits = raw])
  /\ sent' = {} /\ UNCHANGED <<variable, starting, memory, database, crashes, fresh, refused, given, written>>
Send(t) ==
  /\ At(t, {"raw", "submit"}, "send") /\ Done(t)
  /\ sent' = {Telegram(GroupAddress, job[t].bits)}
  /\ UNCHANGED <<variable, starting, memory, database, calls, crashes, history>>

(* The program ends, and starts with what the database has; load.          *)
Restart ==
  /\ layout \in Overlapping /\ crashes < MaxCrashes /\ crashes' = crashes + 1
  /\ raw' = dbRaw /\ field' = dbField
  /\ fresh' = fresh \ {job[t].field : t \in {u \in Threads : job[u].kind = "field"}}
  /\ job' = [t \in Threads |-> Idle]
  /\ refused' = FALSE
  /\ starting' = TRUE /\ sent' = {}
  /\ UNCHANGED <<variable, database, calls, mixed, given, written>>

(* An interface has reconnected: the worker's pass is due once more.       *)
InterfaceReconnected ==
  /\ ~starting /\ starting' = TRUE
  /\ layout \in Overlapping /\ crashes < MaxCrashes /\ crashes' = crashes + 1
  /\ sent' = {} /\ UNCHANGED <<variable, memory, database, job, calls, history>>

(* worker, after a start, of a variable that is not readable and has the    *)
(* read-on-init flag: one telegram for each of the parameters, to the        *)
(* address of the parameter.  That of a field is its position.  .SUBMIT     *)
(* has its own bit.  (One step: what comes in between changes no address.) *)
WriteOnInit ==
  /\ starting /\ starting' = FALSE
  /\ sent' = {Telegram(GroupAddress, raw)}
              \cup (IF writeable THEN {Telegram(GroupAddress, {0})} ELSE {})
              \cup {Telegram(Fields[f].pos, field[f]) : f \in Reachable}
  /\ UNCHANGED <<variable, memory, database, job, calls, crashes, history>>

Next ==
  \/ \E t \in Threads :
       \/ \E f \in Reachable : \E n \in Values(Fields[f]) : SetField(t, f, n)
       \/ \E bits \in RawValues : Receive(t, bits) \/ SetRaw(t, bits)
       \/ \E f \in Reachable : ReceiveField(t, f)
       \/ Submit(t) \/ SaveForeign(t) \/ Refuse(t) \/ SaveField(t) \/ ReadRaw(t) \/ WriteRaw(t) \/ SaveRaw(t) \/ SaveSet(t)
       \/ Send(t)
  \/ Restart \/ InterfaceReconnected \/ WriteOnInit
Spec == Init /\ [][Next]_vars

-----------------------------------------------------------------------------
(* Whatever fields are set, .RAW keeps the size of its type, in memory and  *)
(* in the database: every field lies inside (setValue, parsers' positions). *)
RawKeepsSize == raw \cup dbRaw \subseteq Bits(Types[layout])

(* The fields that cannot agree with .RAW (StructuredFields).              *)
Clash(f) == Clashes(Types[layout], Fields[f])
TooWide(f) == Overflows(Types[layout], Fields[f])
Agrees(f) ==
  GetPosition(Fields[f], raw) = field[f] \/ Clash(f) \/ TooWide(f)

(* A field that was set since .RAW was has its value in .RAW too, whatever *)
(* other fields were set, whether they were saved, and over a restart that  *)
(* interrupted another field: no field of a type reaches into another, and  *)
(* every declared value fits (setValue, the parsers' positions and sizes). *)
(* A field that has since taken a telegram to its position's address, or    *)
(* whose own call a restart interrupted, is excepted until it is set again. *)
FieldsAgree == ~mixed => \A f \in fresh : Agrees(f)

(* When nothing is being done, the database has what the memory has, so     *)
(* that a restart loses nothing (saveParameter in setValue and             *)
(* packetReceived); a restart itself leaves both as they are.  Only a .RAW  *)
(* whose setting was refused is not saved, until something else saves .RAW. *)
RestartLosesNothing ==
  (~Busy /\ ~mixed) => field = dbField /\ (raw = dbRaw \/ refused)

(* Even when calls overlap, and one undoes another, no field in .RAW is a   *)
(* mixture: it has a value that somebody gave it.                          *)
FieldsWhole ==
  \A f \in Reachable :
    \/ \E bits \in given : raw \cap Positions(Fields[f]) = bits \cap Positions(Fields[f])
    \/ \E w \in written : w[1] = f /\ GetPosition(Fields[f], raw) = w[2]
    \/ Clash(f) \/ TooWide(f)

(* At a start, "Homegear writes the last known value to the device" and     *)
(* not to other groups (KnxPeer::worker).                                   *)
OwnAddressOnly == \A telegram \in sent : telegram.address = GroupAddress
=============================================================================
