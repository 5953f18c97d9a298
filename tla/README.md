# Homegear-KNX in TLA+

Homegear-KNX connects the Homegear home automation server to a KNX bus through a
KNXnet/IP gateway. It keeps one tunnelling connection per gateway, maps group
addresses of the bus to the variables of peers (devices), and can offer the
gateway's connection to one other client, such as ETS, through a forwarder. The
parts that are hard to get right are the ones where threads meet: the listener of
the connection, the threads that send, the forwarder, the worker and the RPC
threads share flags, counters and request objects, few of them under one lock.

This directory holds TLA+ modules of those parts, TLC configurations that check
them on small instances, proofs checked by TLAPS, and `PROJECT.json`, which maps
each definition to the source lines it models. Paths below are relative to the
repository's own `src/`, e.g. `PhysicalInterfaces/MainInterface.cpp`.

## The system

| Part | State | Operations | Interacts through |
|---|---|---|---|
| `MainInterface`, request table | `_requests` (service type to `Request`), `_sendPacketMutex`, `_getResponseMutex`, `_sequenceCounter`, `fail_counter` | `sendPacket`, `getResponse`, `processPacket`, `getConnectionState`, `connectManagement`, `disconnectManagement` | UDP packets; condition variables of `Request`s; `_packetReceivedCallback` |
| `MainInterface`, life of the tunnel | `_stopped`, `_stopCallbackThread`, `_initComplete`, `_channelId`, `_managementChannelId`, `_managementConnected`, four threads | `startListening`, `stopListening`, `listen`, `reconnect`, `init` | joins of threads; atomic flags; the gateway |
| `KnxIpForwarder` | the one client's address, two channel numbers, `_connected`, `_managementConnected`, `_sequenceCounterOut`, `_lastPacketReceived` | `listen`, `processRawPacket`, `packetReceivedCallback` | UDP to the client; calls into `MainInterface`; called by its listener |
| `KnxPeer`, reads | `_getValueFromDeviceInfo` | `getValueFromDevice`, `packetReceived` | one structure under a mutex that only one side takes |
| `KnxPeer`, values | parameters in memory and in the database, `_groupedParameters` | `setValue`, `packetReceived`, `load`, the worker's first writes | telegrams, RPC threads, the database |
| `KnxCentral`, registry | four indexes of peers, `_searchMutex`, rows and description files | `loadPeers`, `deletePeer`, `setPeerId`, `searchDevices`, `updateDevices`, `onPacketReceived` | packets, RPC, `Search` |
| `Search` | used type numbers; description files; what memory has of them | import of ETS projects and of devices given over RPC | file system, device descriptions, `KnxCentral` |
| `DptConverter` | none | values to octets and back | called by `KnxPeer` and `KnxCentral` |
| `Cemi`, `KnxIpPacket` | the octets made last | parse, serialise | called by interfaces, peers and the forwarder |
| `DatapointTypeParsers` | none | the parameters of a datapoint type: fields, positions, ranges | called by `Search` |

Hard behaviours, each listed at its line under "hazards" in `PROJECT.json`:

* *Matching by service type alone.* An answer is given to whoever registered its
  service type. Two mutexes keep the callers apart. An answer that comes after its
  caller's timeout goes to the next caller.
* *A lock held while waiting for the thread that needs it.* `sendPacket` waits for
  the acknowledgement with the mutex of the other `Request` locked, and the listener
  needs that mutex to deliver the confirmation. `getResponse` holds its own `Request`'s while it writes.
* *A counter that is shared by accident.* The failures that force a reconnect are counted in one static variable for all interfaces.
* *Two sources of sequence numbers*, `sendPacket` and the forwarder, and an
  `init()` that resets the counter without a lock.
* *`init()` in two threads* at once, a listener that joins a thread which waits for
  the listener, and a stop that joins both, or neither, when its DISCONNECT_REQUEST cannot be written.
* *Silent loss* of a tunnel, of a client, of an answer.
* *Three indexes, a database and files* that say the same of a device, changed one after the
  other by a reload, a deletion or a new id, of which only the first takes `_searchMutex`.
* *A shared structure tested and cleared without its lock* (`KnxPeer`), by threads of
  several interfaces.
* *One value kept twice*, in its field and in `.RAW`, in memory and in the database, each written
  by itself, with a restart between any two.
* *Numbers that outlive what they name*: a type number leads from a row of the database to a device, is kept in
  a file that is deleted before its successor is saved, and is given again when it is free.
* *Conversions by hand*: floating point with an eleven-bit mantissa, octets shared with an
  operation code, several hundred bit positions.

What makes each part correct: a caller gets its own answer and every call returns; an open interface has a tunnel that is
in step; the management connection, which keeps Homegear from sending, has a client; a read returns its own variable;
a field, its `.RAW` and the database agree; a packet reaches the peer that RPC calls find; a type number never comes to mean
another device; and what was written is what arrives.

## Modules

| Module | Models | Runs | Proofs |
|---|---|---|---|
| `RequestTable` | the request table, one session of the tunnel, the relay of the forwarder | `table_*` | `RequestTableProofs` |
| `ReplySlot` | the abstract specification: what `getResponse` promises | `table_live` | `RequestTableProofs` |
| `TunnelLifecycle` | sessions of the tunnel: start, stop, failure, reconnect, handshake, keepalive | `tunnel_life*` | `TunnelLifecycleProofs` |
| `Forwarder` | the forwarder's slot, its two connections and its indications | `forwarder` | `ForwarderProofs` |
| `PeerRead` | reads of a variable from the bus | `peer_read` | `PeerReadProofs` |
| `PeerRegistry` | the indexes of peers, the database's rows and the description files | `peer_registry` | `PeerRegistryProofs` |
| `StructuredValue` | the values of a structured variable: fields, `.RAW`, `.SUBMIT`, database, restarts | `structured_value`, `init_write` | `StructuredValueProofs` |
| `StructuredFields` | where fields lie in a value, and how their octets get in and out of it | with `StructuredValue` | |
| `DatapointLayouts` | the fields of every structured datapoint type | with `StructuredValue` | |
| `DatapointRanges` | the declared ranges of the simple datapoint types | with `Delivery` | |
| `DptConverter` | `getDpt`, `getVariable` | with `Delivery`, `StructuredValue` | `DeliveryProofs` |
| `Telegrams` | `Cemi` and `KnxIpPacket` | with `Delivery` | `DeliveryProofs` |
| `Delivery` | composition: a value from `setValue` over interfaces and bus back to a value | `delivery` | `DeliveryProofs` |
| `ProjectImport` | `Search`: variables of devices, type numbers, description files | `project_import` | `ProjectImportProofs` |

Each `MC...` module extends the module it is named after with the definitions and symmetry sets of its runs; `Forwarder` and `PeerRead` need none.

### RequestTable

Threads are *senders* (`sendPacket`), *relays* (`TUNNELING_REQUEST` in
`KnxIpForwarder::processRawPacket`) and *queriers* (the keepalive, the handshake and
the management connection, which call `getResponse` with a service type). Each has a
`pc`, whose values stand between the statements that other threads can observe: taking
a mutex, registering in `_requests`, writing to the socket, waking, copying the
response, erasing. `getResponse` is one group of actions, `GetResponse(t)`, that all
three use. It keeps its own `Request`'s mutex from `g_lock` on, but for the wait (`g_wait`), until it has copied the
response; `sendPacket` keeps that of its 0x2E `Request` while it is in `getResponse`. `Holds(t, r)` says both, and the
listener's `SetReady` needs a mutex that nobody holds. The listener takes a packet (`ReceiveMatched` or `ReceiveUnmatched`),
writes the response without a lock (`StoreResponse`) and sets `mutexReady` under the
`Request`'s mutex (`SetReady`), exactly the three places where `processPacket` can
be overtaken.

A response is a record that says which call it answers (`of`) and on whose behalf
(`by`): the code cannot see this, and the properties compare it with the call that
got it. Answers may come late, never, or twice. A response that is copied while the
listener writes it is the value `Torn`. `TunnelLost` sets `_stopped` as the gateway's
disconnect does. A call that times out adds to `fail_counter` (`GetResponseTimeout`) and compares it with the limit in a
second step (`GetResponseCount`). The variable is a static of the function, so other interfaces, whose calls are outside the
model, set it to any value at any time (`OtherInterfaces`); `unanswered` counts what this interface's own calls should
have counted. `Requests` is a pool of objects, an unreferenced one is reused, as
`shared_ptr` does; the instance has enough for all that can be referenced.

Abstractions: payloads, headers and logging; the oversize check of `sendPacket` is
a nondeterministic early return. `_requestsMutex` protects single map operations and
is part of the atomic step. `_stopCallbackThread`, which ends a wait when the
interface is being stopped, is left to `TunnelLifecycle`.

### TunnelLifecycle

Four program counters: the main thread (`mpc`), `init()` in the main thread and in
`_initThread` (`ipc`), the listener (`lpc`) and the keepalive (`kpc`). Each flag is an
atomic in the code and a variable here. `StopListening` to `CloseSocket` are the
statements of `stopListening`, of which `startListening` is an extension; `Reconnect` and
`StartInitThread` are `reconnect()`; the actions `Init...` are `init()`. The gateway has a set
`open` of channels. It closes one with or without a DISCONNECT_REQUEST, refuses, answers late, or
drops a channel that is not kept alive. `_managementChannelId` begins with any value, since the code
does not initialise it. `getConnectionState` inside `init()` returns at once because
`_initComplete` is not set yet; `InitComplete` models that, and the case in which another `init()` has
set it in the meantime.

The DISCONNECT_REQUEST of `stopListening` may throw (`StopWriteFails`). The exception leaves the function before the joins, and
`startListening` goes on: it clears `_stopped` and replaces the socket under a listener that runs. What follows,
`OpenSocketUnderListener`, is that the base library's `ThreadManager::start` joins the thread object it is given before it
starts another: the main thread waits (`hung`) for a listener that has no reason to end. Stopping without
starting leaves the interface running.

Ghost variables (`missed`, `overlapped`, `closed`, `skewed`, `straggler`, `escaped`) record the
circumstances under which a property is *not* promised. Each is the answer to a
counterexample TLC gave, and so a list of what can go wrong:

* `missed`: an answer to CONNECT_REQUEST that came after the timeout is taken by the
  next handshake;
* `overlapped`: `startListening` runs `init()` in its own thread while the listener, after a
  failure, starts `_initThread`;
* `skewed`: a frame drew its sequence number before the counter was reset and was counted after;
* `straggler`: `stopListening` joins `_initThread` first and the listener second, which may start the
  former once more in between;
* `escaped`: `stopListening` was left by the exception, until a later one has joined the listener.

### Forwarder

The forwarder's thread processes one packet at a time, in steps where the listener's
thread can come in: a connect request resets the sequence counter, opens the
management connection and replies (`ResetConnection`, `OpenManagement`, `ConnectReply`); an
indication reads the counter and sends (`IndicationRead`, `IndicationSend`). `age` stands for the
comparison of `_lastPacketReceived` with 60 and 300 seconds, the only two the code makes.
Channel numbers count up as in the code, from the same start, so that the two kinds may
coincide. Clients record what they were told (`tunnel`, `mgmt`, `expected`); they use only channels they were
given. CONFIG_REQUEST, CONFIG_ACK and DESCRIPTION_REQUEST are not modelled.

### PeerRead

`getValueFromDevice` writes the channel, the name, `requested`, and `mutexReady`, one
after the other, sends and waits; the second half of `packetReceived` compares `requested`, the channel and
the name, each in a step of its own (`Received`, `SameChannel`, `SameName`, or `OtherVariable` and back),
clears `requested`, stores the value and sets `mutexReady`. A packet thread per
interface. A value is the variable it belongs to. The order is the code's: only
`mutexReady` is written under the lock. So one read may end and the next begin between two comparisons, and a packet
that fits neither read pass them. `untidy` remembers that the current read began with a request still open or a packet being compared or
handed over; `early` that an answer came between the setting of `requested` and the reset of `mutexReady`.

### PeerRegistry

A device of the project is its serial number, which the code forms from its type number; its description
is the set of its group addresses. A row of the database has an id and a serial number. `objects` are the `KnxPeer`s made
so far, and an index gives a position in it, so that the old and the new object of a peer are told
apart. The thread that holds `_searchMutex` is in `searchDevices` or `updateDevices` (`apc`): it imports
(`Import`: any devices, any addresses, which `Search` writes to files), takes the updated peers out (`RemoveUpdated`,
`RemoveUpdatedGroups`), reads the files, loads the rows one by one, and creates what is missing
(`CreatePeer` saves the row, `InsertCreated` enters it). `deletePeer` and `setPeerId` come in anywhere,
one step for each hold of `_peersMutex` or each change of the database or a file. The wait for
`use_count` has a limit in the code and so does not hold anybody back. `_peers`, by physical address,
changes wherever `_peersBySerial` does and is left out, as is the part of `Search` that may find a
device unusable after it has written the file.

Two ghosts narrow the properties. `mixed` has the devices that were deleted or renumbered while a search or an update
ran, or while the other was under way: the code does not keep those two apart, and a reload may
revive a row that is about to be deleted. `outdated` has the peers that were loaded again while they were in the
indexes. That is what `updateDevices` does to every peer that it does *not* update: `loadPeers` makes a new
object of each row, `_peersById` gets it, but `emplace` (`KnxCentral.cpp:181`) keeps the old one by group
address. From then on packets change the values of an object that RPC calls do not see, until the next
`searchDevices`, which clears all indexes. `PacketsReachPeer` says that this is the only way to it.

### ReplySlot

What `getResponse` promises whoever calls it, without mutexes, condition variables or a map: one slot per service type with one owner at
a time. A thread claims an empty slot (`Claim`), packets of that type come in and are stored in two steps (`Receive`, `Store`), and the
owner leaves with the stored packet, with one that is coming in, with a part of it (`Torn`), or with nothing
(`Leave`). `RequestTable` defines the mapping (`Slots == INSTANCE ReplySlot WITH ...`): the owners of a slot are the threads whose program counter
is between registering and erasing, its packets are those of the `Request` the table's entry leads to. `ImplementsSlots` is the
abstract specification as a property of the detailed one: that two callers of one service type never share or steal an entry, and that nobody
returns with what is not of its type or came before it asked, is a consequence. It does not say whose packet it is; that is `NoCrossTalk`.

### StructuredValue

A group variable of a structured type becomes a parameter `.RAW` (the octets on the bus), one for each field, and `.SUBMIT`. The module has their
values in memory and in the database, and one action for each step of a handler another thread can come between or a crash can
cut off: `setValue` of a field stores the field's octets (`SetField`), saves them (`SaveField`), reads a copy of `.RAW` and sets the field's bits in it
(`ReadRaw`), puts it back (`WriteRaw`) and saves it (`SaveRaw`); a telegram (`Receive`) and `setValue` of `.RAW` (`SetRaw`)
replace it; where the variable is not `writeable`, `setValue` finds out when memory has the new value, and neither saves nor sends it (`Refuse`).
A telegram to the group address that equals a field's position is taken for the field (`ReceiveField`, `SaveForeign`), because the index by group address has the
fields under their positions; `.RAW` does not follow. Its payload is an octet of ones. `.SUBMIT` and a read that is answered send `.RAW` (`Submit`, `Send`); `Restart` loads the database; `WriteOnInit` is what the worker has the peer
send after a start or when an interface has reconnected. The ghosts are `fresh`, the fields set since `.RAW` was and since a telegram of their own;
`refused`, that `.RAW` has a value whose setting was refused and nothing has been saved since; `mixed`, that calls have overlapped. `.RAW` is the set of its one bits. A field's octets come from `DptConverter!GetDpt`, so that the module
is the composition of the conversion, the layout and the peer.

`StructuredFields` has the positions, `BitReaderWriter`'s two operations, and `Fit`: every field lies inside its value, fields lie apart, and declared values have
room, but for the exceptions that are named there. `Fit` is what the proofs assume of the layouts; TLC evaluates it for the source's 49 in the run `delivery`.

`DatapointLayouts` has all 49 structured types, with every field's name, type, position, size and range in the order of
`DatapointTypeParsers`. Of fields with one name the last is the parameter that can be reached (`Named`): a parameter is found by its name.

### DptConverter, Telegrams, Delivery

`DptConverter` translates `getDpt` and `getVariable` type by type. Integers are the eight octets of their two's complement, DPT-9 numbers are
hundredths; of DPT-14 the IEEE pattern is kept, since the conversion is the base library's. `Telegrams` has the parser and the serialiser of
`Cemi`, with the flag that decides whether the octets made before are returned, and of `KnxIpPacket`. `Delivery` composes them: a value of a declared range is
converted and framed (`Write`), sent through every interface (`SendPacket`), each of which puts its own address into the one shared
`Cemi` object, brought back by a gateway that may add information octets (`Relay`), parsed and converted (`Receive`). Values come from
`DatapointRanges`, the ranges and enumerations the parsers declare; `MCDelivery` collects them, and `Samples` is a parameter of the module. The code is a pipeline
without concurrency: the run enumerates its inputs, and the proofs cover the others. `Converts` says what `Delivered` asks of a type's two conversions.

### ProjectImport

`Search` in its two halves. *Variables*: the loops of `extractXmlData`, one step for each turn. Objects are read in the order of the file, and each link adds an entry to those
that its device has of a group address (`ReadLink`, `ReadObject`); the first `sends` links may send, which is how many `Send` connectors the object has, or one of the attribute `Links`; then the read flags of a group are made one (`ReadEnds`, `UnifyReadFlags`); then for each group address, each device of it and each entry
of the device, a variable is made, or the one there is stays (`AssignVariable`, `Replaces`), or the device is left because no type is known. Devices are pointers in a set: any order of them is tried.
*Numbers*: a device keeps the number of the file named
by its ETS id or its address, else gets the lowest free one (`CreateHomegearDevice`), and the old file goes; the description is
saved under the address (`AddDevice`), an exception in between skips the device (`CreateFails`); devices of JSON have the number their project gives plus 65535, in 64 bits without a sign (`AddJson`,
`JsonNumber`, `Width`): a negative type gives the number of an ETS device, or one near 2^64 (`Intrudes` names the former); at the end files are read
and peers made (`Reload`). `updateDevices` enters in the middle. Peers are deleted and the program restarts in between.
`rows` tell which device a number was made for, and `lost` has the peers that may lead to another one: the file of their device
was lost to a failure or an import that does not reach the device, or was overwritten by one that has come to its address. Devices and group addresses of a project have ids of their own, a device numbers its objects,
and descriptions have numbers of their own at first: what ETS and `Search` guarantee (`ProjectAssumption`). Of JSON's types nothing is assumed; those above 9999999, the only ones
`Search` refuses, leave no trace and are not enumerated. `PeerRegistry` takes the import as one nondeterministic step and checks what `KnxCentral` does around it.

## Runs

| Run | Question | Result |
|---|---|---|
| `table_tunnel` | Two senders and the relay, three calls: whose confirmation ends `sendPacket`, do entries leak, do frames go out in order? | `ConfirmationBelongs`, `NoLeftover`, `FramesInOrder` hold |
| `table_queries` | Sender, relay and two queriers with every service type, a duplicated packet or another interface's call: is a waiting caller's entry its own, whose answer does it get, whose mutex can hold the listener up, do unanswered calls in a row stop the interface if no other one counts? | `TypeOK`, `LiveEntry`, `ReadyHasResponse`, `NoCrossTalk`, `NoTornRead`, `OnlyAskerHoldsUp`, `AloneForcesReconnect` hold |
| `table_live` | Does the table implement the slots; does every call return and the listener get on? | `ImplementsSlots`, `CallsReturn` hold |
| `tunnel_life` | After any sequence of starts, stops, failures of either and reconnects: does an open interface have a tunnel, in step, on a fixed channel, and is the socket unused when it is replaced? | `OpenHasTunnel`, `InSequence`, `SocketUnused`, `ChannelKept` hold |
| `tunnel_life_live` | Does a stop end and does a lost tunnel come back? | `StopEnds`, `Recovers` hold |
| `forwarder` | Two clients: do counters stay in step, does the management connection belong to somebody, and is an abandoned one closed? | `InStep`, `ManagementHasClient`, `ManagementReleased` hold |
| `peer_read` | Does a read return its own variable, is a waiting reader still answerable, does every read end? | `ReadsOwnVariable`, `WaitIsAnswerable`, `ReadsEnd` hold |
| `peer_registry` | After searches, updates, deletions and renumberings: do the indexes, the rows and the files agree, do packets reach the peers, is there one row per device, and is an import complete? | `IndexesAgree`, `PacketsReachPeer`, `OneRowPerDevice`, `ImportsComplete` hold |
| `structured_value` | Every structured type: do fields and `.RAW` agree, does a restart lose anything, does a field ever mix two values, does `.RAW` keep its size? | `RawKeepsSize`, `FieldsAgree`, `RestartLosesNothing`, `FieldsWhole` hold |
| `init_write` | Does the worker write to the variable's own group address after a start? | `OwnAddressOnly` is violated, see below |
| `delivery` | Does every value of every type arrive as it was written, in well-formed packets, through two interfaces? | `WellFormed`, `Delivered`, `FaithfulFloat` hold |
| `project_import` | In any order of devices: does each object become the right variable, have group addresses one type and one read flag; after further imports, deletions, failures and restarts, does a number mean another device? | `TypeOK`, `VariablesAsLinked`, `GroupVariablesAgree`, `NumbersUnique`, `RowsKeepDevice` hold |

Many properties have a premise (`overdue`, `untidy`, `missed`, `escaped`, `mixed`, `refused`, ...): the code keeps them
only as long as no earlier call gave up with its answer outstanding, or as calls did not overlap. The premises are as
narrow as TLC allows, and the runs reach both sides of each. Others name exceptions by hand (`Clash`, `TooWide`, `SignLost`, `Chosen`, `Intrudes`): each is a place where
the code departs from the property, listed under "Observations".

### What the violated run shows

`init_write`: when Homegear starts, or an interface has reconnected, `KnxPeer::worker` goes through the parameters of the variables that have the read-on-init flag and are
not readable, and sends the last value of each to `j->second->physical->address` (`KnxPeer.cpp:97`). For `.RAW` that is the group address; for a field of a structured type it
is the field's bit position. So the octet of a field at position 8 is written to group address 0/0/8, which may belong to any device. The comment at `KnxPeer.cpp:77`
says that "Homegear writes the last known value to the device on start up".

### Observations

What the models showed of the code besides, without a document that says otherwise:

* The listener may have to wait for a caller in order to deliver that caller's own answer: `getResponse` has its `Request` in the table before it writes, holds the `Request`'s mutex over
  the write, and again while it copies (`MainInterface.cpp:552`). It is always the caller that asked for the packet, and it is awake (`OnlyAskerHoldsUp`); only over a confirmation does the listener wait for one that sleeps.
* The count of unanswered calls that forces a reconnect at 100 (`MainInterface.cpp:566`) is a `static` variable of `getResponse`: every interface has the same one, under mutexes of its own, and it is compared with `==`. An answer to any interface sets it to zero for all,
  so that with one gateway alive the calls to a dead one never get it to 100 (its keepalives then stop that interface for another reason: each one that fails does). Two interfaces that add at once may also count past 100. `AloneForcesReconnect` says that this sharing is the only cause.
* `stopListening` whose DISCONNECT_REQUEST cannot be written (`MainInterface.cpp:258`) stops no thread and leaves the interface running; a `startListening` replaces the socket in use and then waits for the old listener (`OpenSocketUnderListener`).
* A packet compared with one read and handed to the next, as `KnxPeer.cpp:526` reads three fields without the lock, can end the second read with a value of a variable nobody asked for. `ReadsOwnVariable`
  says that this, or the answer to a read that timed out, is the only way to it.
* `processPacket` gives any confirmation (message code 0x2E) to the entry 0x2E0420. `sendPacket` leaves that entry behind when its acknowledgement fails
  (`MainInterface.cpp:125`), and while it waits may also take the confirmation of a frame the forwarder relayed: the forwarder's client does not get it.
* A disconnect of the tunnel's own channel leaves the forwarder's `_connected` set, and one for an unknown channel clears it (`KnxIpForwarder.cpp:327`): the slot
  stays taken for a minute, or the current client gets no more indications.
* After `updateDevices` the peers that were not updated receive packets in objects that RPC calls no longer find (`KnxCentral.cpp:181`).
* The fields of a structured variable do not follow a telegram or a new `.RAW`: the list that names them is never filled (`Grouped` in `StructuredValue`). Two concurrent
  `setValue`s of fields may lose one of the two (`KnxPeer.cpp:833`), and `setValue` changes a parameter's value before it finds that it is read-only (`KnxPeer.cpp:853`), so that memory and database differ until the next save or restart.
  Fields are in the index of group addresses under their bit positions (`KnxPeer.cpp:370`): telegrams to 0/0/0 to 0/0/63 change and save them.
* DPST-241-800: the position of `SLATS_POS_VALID` lies inside `SLATS_POSITION`. DPST-10-1: `HOURS` are declared up to 59 but have five bits; minutes and seconds
  have no range. Names occur twice in 230-1000 (`IDENT_NUMBER`), 245-600 (`LTRF`) and 251-600 (`RED`), so that only the last of each can be set.
* `getVariable` widens DPT-8 without its sign; a DPT-13 of unknown subtype is converted as DPT-12. Between 2047 and 2048 steps DPT-9 rounds with the
  next exponent, to the farther neighbour.
* The JSON of a project chooses type numbers freely, and only those above 9999999 are refused (`Search.cpp:368`): type 0 becomes 65535, which the lowest-free search also reaches, a negative one becomes the number of any device of ETS,
  or zero, or, below -65535, one near 2^64. The peer of the ETS device then may have the other's description. A description is saved before
  its number is found to be a duplicate or zero, and an old one is deleted before its successor is saved (`Search.cpp:98`). Only the first object of each device takes part in the
  unification of read flags; a group address without a type takes it from the device whose pointer is lowest.

### Bounds

| Bound | Where | Why it is enough |
|---|---|---|
| `MaxCalls` 2 or 3 | `RequestTable` | calls in total. A failed call, the one that meets its remains and a bystander are three; each property's mutant is found with these |
| `SeqMod` 2 (3 in `Forwarder`) | all | the counters wrap at 256 in the code; a small modulus makes the wrap happen within a few frames |
| `FailLimit` 2 | `RequestTable` | 100 in the code; the limit is reached, and the reset on success exercised |
| `MaxEvents` 1 | `table_queries` | one packet is duplicated, or another interface changes the shared counter once, to any value. The other runs of `RequestTable` have neither |
| `Requests` 1..7 | `RequestTable` | more than can be referenced at once, so that the pool never limits behaviour |
| `MaxEvents` 1, `MaxStarts` 2 or 1 | `TunnelLifecycle` | failures that come from outside. One failure next to a restart is enough for all the ghosts above to occur; a stop that cannot write its DISCONNECT_REQUEST is such a failure; starts and stops, late answers, lost disconnects and expiring channels are not bounded by it. The safety properties are also proved for any number |
| `Channels` of two | `TunnelLifecycle` | the tunnel and one other: an old tunnel or a management connection |
| `ChanMod` 256 | `Forwarder` | as in the code |
| `MaxConnects` 3 | `Forwarder` | two clients take turns in the slot and come back |
| `MaxReads` 2 | `PeerRead` | a read and the one that meets its late answer, of one thread or of two, with packets of two interfaces for any variables. The safety properties are proved for any number |
| `MaxOps` 3, `MaxObjects` 6, `MaxIds` 4 | `PeerRegistry` | an import, something that changes what it did, and a third operation next to either; two devices of which an update may name one, none or both, one group address that they may share |
| `MaxCalls` 2, `MaxCrashes` 1, five `Overlapping` layouts | `StructuredValue` | all 49 layouts, the two ends of each field's range (or of its bits): any two calls one after the other reach every pair of fields. Two threads at once, restarts and reconnections only with one layout of each kind with at most two fields (flags, a flag and a number, a flag alone, numbers, numbers of octets); what happens between two threads does not depend on the fields' number. The same layouts come both as variables that may be set and as others, the others only as the former |
| samples | `Delivery` | every end and member of the declared ranges, all percentages and angles, every DPT-9 number of a small exponent and those around each change of exponent, and for types without range zero, all ones, the sign bit and octets that differ; the lowest, a middle and the highest group address; additional information of 0 and 3 octets. The proofs have no bound: any value (`Direct`), any group, any interfaces, up to 200 octets of information |
| two devices, two objects, two group addresses; `MaxNumber` 3, `Width` 16, `MaxImports` 2, `MaxFailures` 1 | `ProjectImport` | the combinations of types, flags, links and numbers of links that send that two objects of one device and one of another can have, in both orders of the devices; JSON types that give a number above those of ETS devices, one of theirs, and one that wraps around (2^64 in the code); three devices for three numbers of which JSON or an old file may have one, so that they run out (65535 in the code), and a device that has moved to another's address. The first object sends to one or both of its links, or has no write flag; the second sends to one; the other device's only receives. The first never has its read flag, the others may. A project with objects is imported once, at first and without failures (`ObjectsOnce`): variables do not depend on earlier imports, and the proofs do without that bound |

Where a bound brings a system to rest (`RequestTable`, `PeerRead`, `PeerRegistry`, `StructuredValue`, `Delivery`, `ProjectImport`) the deadlock check is off; the liveness
properties say instead that every call that began returns. `Forwarder` and `TunnelLifecycle` are checked for deadlock.
Symmetry is used only in runs without liveness.

### Fairness

* `RequestTable!FairSpec`: a thread that has begun a call goes on, the listener finishes its packet, and
  timeouts occur (`wait_for` has one everywhere). No packet need ever arrive.
* `PeerRead!FairSpec`: the same, for readers and packet threads.
* `Forwarder!FairSpec`: the forwarder's thread finishes its packet and polls (its socket has a timeout of a second), time passes. No client
  need ever act.
* `TunnelLifecycle!FairSpec`: threads go on; the listener probes a silent line (five seconds of receive timeout, a minute between keepalives);
  the gateway drops channels that are not kept alive, as the KNXnet/IP standard has it do after 120 seconds. Failures are finitely many,
  but for opening the socket again, which may fail any number of times and succeeds at last (`SF_vars(Reconnect)`: the code tries every ten seconds).
  `Timely` says that the listener's 10 seconds of sleep outlast a handshake (at most 0.5 + 1 + 1 seconds) and a keepalive (1 second).
  Without it `Recovers` is false: the listener wakes during a handshake, clears `_stopped`, and waits in `join`
  for a thread whose answer only it can receive; the handshake times out and sets `_stopped` once more, for ever. The safety run does not assume it.

## Proofs

All theorems hold for any number of threads, requests, calls, clients, channels, devices of the kind in question and any moduli; the assumptions are the named
`ASSUME`s of the modules and what a theorem's own `ASSUME` says.

*The request table* (`RequestTableProofs`).

* `TypesCorrect`: `Spec => [](TypeOK /\ MutexOwners)`: types, and that who executes a statement guarded by one of the two mutexes holds it.
* `TableCorrect`: `Spec => []LiveEntry`. `LiveEntry` says that as long as a
  caller waits the table leads to its own `Request`. It is not inductive: that nobody else
  replaces the entry follows from who holds which mutex at which statement. The inductive
  invariant is `TableInv == TypeOK /\ MutexOwners /\ LiveEntry`, where `MutexOwners` says that a thread inside
  `getResponse` holds `_getResponseMutex`, and one between registering and erasing its confirmation
  holds `_sendPacketMutex`. `getResponse` never touches the entry 0x2E0420 and only `sendPacket` does, which is why two
  mutexes suffice for one map. There is one lemma per group of actions.
* `ReadyCorrect`: `Spec => []ReadyHasResponse`: who sees `mutexReady` finds a response, although
  the listener writes the two under different locks. The inductive invariant `ReadyInv`
  adds the listener's state; the heart is that a fresh `Request` is never one the listener still refers to.
* `EntriesAreWanted` (`NoLeftover`): an entry has a caller that waits, or a call for the same service type has failed. The induction is over the property itself, with `TableInv`:
  a caller that replaces an entry becomes its owner, and one that leaves an entry behind is recorded for just that type.
* `ListenerCorrect` (`OnlyAskerHoldsUp`): `ConOnly` says that the listener has a sender's 0x2E `Request` only for a confirmation, and by `MatchInv` below the `Request` of a caller in
  `getResponse` only for a packet of its service type.
* `FailuresStop` (`AloneForcesReconnect`): until another interface counts, `fail_counter` is the number of unanswered calls and at most the limit, and it is at the limit only while the
  thread that got it there is about to compare (`CountsInARow`). That one thread at a time counts is `_getResponseMutex`'s doing.
* `TableImplementsSlots`: `Spec => ImplementsSlots`. The invariant `SlotInv` ties the listener's `Request` to the entry it was found in; initial states map to initial
  states and each action to a step of `ReplySlot` or a stutter, one lemma per action.
* `AnswersMatch` (`NoCrossTalk`), `ConfirmationCorrect` (`ConfirmationBelongs`), `WritesAlone` (`NoTornRead`), by one invariant, `MatchInv`: of each call at most one packet is on its way, in the
  network, at the listener or in a `Request`, and it is either the answer to the call that waits now or counted as overdue.
* `FramesAreInOrder` (`FramesInOrder`): `Counted` says that the counter is the number of frames written or wasted, modulo its size, one more while a thread has drawn and not written; that thread holds
  `_sendPacketMutex`. Quotient and remainder are shown unique, since the wrap is where it could fail.

*The tunnel* (`TunnelLifecycleProofs`). `SocketIsUnused` and `ChannelIsKept` follow from `LifeInv`: unless `stopListening` has been left early (`escaped`), between the join of the listener and the new socket nothing can start
a thread (`ThreadsGone`), and an `init()` past its beginning is either alone, with the interface not open, or has been told (`AloneOrTold`). `TunnelIsThere` adds
`GatewayInv`: what is offered is open and begins at 0, what was taken likewise, the counter is 0 during the handshake; `CountersMeet` (`InSequence`) follows from the same, a frame at a time. A stop that fails breaks neither: it leaves session and gateway as they are. So all safety properties of `tunnel_life` hold for any number of starts and failures.

*The forwarder* (`ForwarderProofs`). `ManagementIsWanted` has the invariant that the connection is open, or about to be opened, only for a client (`ManagementInv`). `ClientsAreInStep` assumes
`MaxConnects < ChanMod`, that is, that channel numbers, which the code counts in a `uint8_t`, have not come round: otherwise an old client could have the number of the new one. Its
invariant `StepInv` says that tunnels of clients differ, that the one being set up has a number nobody was told, and that while nothing raced an indication on its way carries the counter's value.

*Reads* (`PeerReadProofs`). `ReadsAreOwn` and `WaitsAreAnswerable`: the mutex of the readers keeps them apart (`GuardHeld`). Packet threads hold no lock while they compare, clear and store; but one that passes the first comparison in a read that began
tidily does so when channel and name are already that read's, so that whoever passes all three has its variable, and as it passed while the read was open, it has it still (`ReadInv`, `AnswerInv`). A read that begins while
a thread is between two comparisons is `untidy`, and nothing is promised.

*The registry* (`PeerRegistryProofs`). `IndexesAlwaysAgree`, `PacketsAlwaysReachPeer`, `AlwaysOneRow` and `ImportsAlwaysComplete`, for any devices, addresses,
deleting threads and bounds, from one invariant in three parts (`RegistryInv`). `TypesInv` is the type invariant. `OwnerInv` says that an id has one owner for ever, because the database gives
out each id once: rows, objects, entries of the indexes and calls under one device's id are never another's. `DeviceInv` says of one device what each call has already
done to it, at each place where the call may be (`Importing`, `Removing`, ..., `Deleting`, `Renumbering`). By `OwnerInv` a step of a call leaves the devices alone that it is not about (`Untouched`),
so that each action has to be looked at for one device only. Devices in `mixed` are left out: it is there that the invariant would be false. The invariant was checked on 3.35 million states before. The
assumption `Cardinality(Serials) <= MaxIds` says that the bound on ids leaves room for each device.

*The import* (`ProjectImportProofs`). `TypeCorrect`, `NumbersStayUnique` and `RowsAlwaysKeepDevice`, for any projects, any number of imports, failures, deletions and restarts, and any `MaxNumber`. Their invariant
(`ImportInv`) follows a number: it is the one in memory under the device's ETS id or address, or one nobody has (`NumberFor`); what an import has written so far comes from there
(`WrittenFor`), and numbers that peers have are not given away while their file is there (`RowsInv`). A device of JSON takes the number its project says, whoever has it: below `MaxNumber` such a number is the exception of both properties (`Intrudes`), above it none of ETS. `OneDescription`, that a device has one description in memory at
most, is the lemma the rest stands on. An earlier form of `lost` was refuted by the attempt: a device that moves to another's address overwrites the other's file without any failure, and the other's peer then
leads to it. The model now has such a device, and the property names the case.
`VariablesAlwaysAsLinked` and `GroupVariablesAlwaysAgree`, for any objects, links, group addresses and orders, need a second invariant (`LinkInv`), which says what each loop has done up to its present turn.
`InfosInv`: a device's entries for a group address are those of the links that have been read (`LinkRead`), each link has one, and nothing else has. `FlagsInv`: first entries of a group address agree in their read flag.
`VariablesInv`: a variable is of an entry that was used (`Used`) and has the type of its group address, which no later turn changes. `UsedInv` is the heart: an entry that was used has left a variable of
its index: if the entry sends, so does the variable, which is then of no earlier group address; otherwise it is of no later one (`Kept`); a device is left early only where a type is missing, and then the property says nothing. A device
numbers its objects, so that a variable's index leads back to one object (`AssignedAsLinked`); with group addresses of one id each, that gives the address it must have.

*Values* (`StructuredValueProofs`). `NothingIsLost`: what the database lacks is exactly what a thread is about to save, or a `.RAW` whose setting was refused (`AboutToSave`), and one thread is at work as long as calls have not
overlapped (`Solo`); a restart at any step leaves memory and database equal. The other three assume `Fit(Types)` and no more of the layouts. `RawAlwaysKeepsSize`: every copy of `.RAW` stays within the type's bits
(`SizeInv`). `FieldsAlwaysWhole`, however calls overlap: a field in any copy of `.RAW`, memory, database or a thread's own, is one that somebody gave (`WholeInv`); setting another field leaves it, as their
positions are apart. `FieldsAlwaysAgree`, while they do not overlap: at each place of a call, how far the field and `.RAW` are apart (`Core`), in the database too but for what a refused call has changed, since when no field counts as set (`RefusedFresh`). All were checked on the states of the run before.

*The way of a value* (`DeliveryProofs`). `PacketsWellFormed`, `ValuesAreDelivered` and `FloatsAreFaithful`, for any groups, any number of interfaces with any addresses, any additional information up to 200 octets. `DeliveryInv` says
of every packet sent which frame it was made of, and that all frames differ in nothing but the interface's address (`Framed`, `IsSent`), though they are one object that changes between the packets; of the packet from the
gateway, that it holds such a frame (`IsBack`). Lemmas about the serialisers give what every octet is (`CemiOctets`, `PacketOctets`) and those about the parsers that they find it again
(`CemiKept`, `PacketKept`), with octets shared or not.

`DirectValuesConvert` is about `getDpt` and `getVariable`: one undoes the other for every value of every type (`Direct`). That is `OctetSample` (the types that are octets of a number, signed or not,
up to eight), `BitsSample`, `FlagSample` (inverted or not), `Binary32Sample`, `PercentSample`, `AngleSample`, `TextSample` (up to 14 characters, filled up with zeros that are dropped again: `CharactersOfFilled`), and `FloatSample`, DPT-9.
For the last: the halvings end at the
least exponent that fits (`ExponentFits`), the mantissa is within half a step (`NearestMantissa`), sign, exponent and mantissa are found again in the octets (`FloatOctets`), and no number of the format
is passed over, neither one of a greater exponent, whose numbers are on the same grid (`CoarserGrid`), nor one of a smaller, which end before (`FinerGrid`). Numbers too large become the largest.
The theorems assume of the values sent that they are `Direct`, or that they convert if one is outside of what its type can hold (`SamplesKnown`); TLC evaluates the latter for all of the run's (`ConversionsFit` in `MCDelivery`).

Every invariant used was checked by TLC on the runs' instances first. Only model-checked:

* liveness, which TLAPS does not support, nor `ENABLED`;
* what recursive definitions compute for all inputs.

## Not modelled

* Homegear's base library (sockets, thread manager, packet queues, database, RPC) is not in
  the repository; it appears as threads, the network and nondeterminism.
* `Interfaces`, `Knx`, `Factory`, `Gd`: set-up in one thread, and glue.
* The keepalive thread is not joined when the interface is stopped and may use the socket
  while it is replaced: undefined behaviour inside the base library, recorded as a hazard.
* Of the forwarder: CONFIG_REQUEST and CONFIG_ACK, which relay as TUNNELING_REQUEST does with another counter, DESCRIPTION_REQUEST, and stopping.
* Of `KnxPeer`: events to RPC clients, link management, configuration parameters, and the scale of roles. Of `KnxCentral`: the console and the pace of the worker.
* Of `Search`: reading the archive and its XML, names, rooms, and the wording of descriptions: data without control that a property would be about.

## What could come next

* The rest of the forwarder, in `RequestTable`: the configuration frames share `_sendPacketMutex` with the tunnel's.
