--------------------------- MODULE ProjectImport ----------------------------
(***************************************************************************)
(* Search: the import of ETS projects.  A project's communication objects   *)
(* are linked to group addresses; from them each device gets its variables, *)
(* then a type number, under which its description is written to a file and *)
(* its peer is found again.  Devices are kept in sets of pointers, so that   *)
(* their order is that of their addresses in memory: any, but the same for   *)
(* all group addresses.                                                     *)
(*                                                                         *)
(* Left out: reading the archive and its XML, names, rooms, roles, channels. *)
(* What a file says beyond its number is the device's variables.            *)
(***************************************************************************)
EXTENDS Naturals, Integers, FiniteSets, SequencesExt

CONSTANTS Projects,    \* what may be in the directory of projects
          ObjectsOnce, \* a bound: a project with objects is imported once, at
                       \* first, and without failures
          OldFiles,    \* descriptions of an earlier version, by the ETS id
          MaxNumber,   \* 65535 in the code
          Width,       \* 2^64: type numbers are unsigned
          MaxImports, MaxFailures

(* Descriptions are named by a device's ETS id, by its physical address, or   *)
(* by the id in JSON.                                                        *)
EtsName(i) == <<"ets", i>>
AddressName(i) == <<"address", i>>
JsonName(i) == <<"json", i>>
Chosen(name) == name[1] = "json"   \* the project chooses its number

(* A project has devices (their ETS id and their physical address, which may  *)
(* be used twice), communication objects in the order of the file with the    *)
(* ids of the group addresses they are linked to, group addresses in the      *)
(* order of the file, and the types that the JSON of some group addresses     *)
(* gives to devices of its own.  ETS ids are ids of XML elements: they belong *)
(* to one device or group address.  A device numbers its objects.            *)
NoType == "none"
NoProject == [devices |-> {}, objects |-> <<>>, groups |-> <<>>, json |-> <<>>]
InOrder(sequence) == Len(sequence) \in Nat /\ DOMAIN sequence = 1..Len(sequence)
IsObject(object) ==
  InOrder(object.links) /\ {object.readFlag, object.writeFlag} \subseteq BOOLEAN /\ object.sends \in Nat
IsProject(p) ==
  /\ IsFiniteSet(p.devices) /\ InOrder(p.objects) /\ InOrder(p.groups)
  /\ \A d, e \in p.devices : d.ets = e.ets => d = e
  /\ \A i \in DOMAIN p.objects : p.objects[i].device \in p.devices /\ IsObject(p.objects[i])
  /\ \A i, j \in DOMAIN p.objects :
       p.objects[i].device = p.objects[j].device /\ p.objects[i].index = p.objects[j].index => i = j
  /\ \A i, j \in DOMAIN p.groups : p.groups[i].id = p.groups[j].id => i = j
  /\ \A id \in DOMAIN p.json : id \in Nat /\ p.json[id] \in Int
ASSUME ProjectAssumption ==
  /\ MaxNumber \in Nat \ {0} /\ Width \in Nat /\ Width > MaxNumber
  /\ MaxImports \in Nat /\ MaxFailures \in Nat
  /\ ObjectsOnce \in BOOLEAN
  /\ \A p \in Projects : IsProject(p)
  /\ \A old \in OldFiles : \A name \in DOMAIN old :
       /\ ~Chosen(name) /\ old[name] \in 1..MaxNumber
       /\ \A other \in DOMAIN old : old[other] = old[name] => other = name

VARIABLES project, order,  \* what is imported, and the order of the devices
          phase,       \* "idle", "read", "assign", "create", "save", "json"
          next,        \* the objects, group addresses or devices that are done
          device, element,   \* the same of the inner loops: devices; links, or
                             \* what a device has of the group address
          types,       \* the datapoint types of the group variables
          variableInfo, variables,   \* of each device
          files,       \* names to type numbers: the directory of descriptions ...
          known,       \* ... and what of it is in memory
          usedTypeNumbers, number,   \* those taken; the one of the current device
          peerInfo,    \* the devices the search returns, and their numbers
          rows,        \* the peers in the database
          imports, failures,
          lost         \* history: the peers whose device's file went or was
                       \* overwritten with another's
import == <<project, order, device, element, types, variableInfo, variables>>
vars == <<import, phase, next, files, known, usedTypeNumbers, number, peerInfo, rows, imports,
          failures, lost>>

-----------------------------------------------------------------------------
Without(f, names) == [n \in DOMAIN f \ names |-> f[n]]
Put(f, n, v) == [m \in DOMAIN f \cup {n} |-> IF m = n THEN v ELSE f[m]]

(* A link of an object.  The first ones send: as many as the object has Send  *)
(* connectors, and one of the attribute Links; the others only receive.      *)
Info(object, i) ==
  [index |-> object.index, type |-> object.type, readFlag |-> object.readFlag,
   writeFlag |-> object.writeFlag /\ i <= object.sends]
Elements(sequence) == {sequence[i] : i \in DOMAIN sequence}
GroupIds(p) == {p.groups[i].id : i \in DOMAIN p.groups}
              \cup UNION {Elements(p.objects[i].links) : i \in DOMAIN p.objects}
DevicesByGroup(info, group) == {d \in DOMAIN info : info[d][group] # <<>>}

(* (Mutant of UnifyReadFlags: each device keeps its own.)                     *)
OwnReadFlags(info) == info

(* A read flag of one device is one of all devices of the group address:     *)
(* of the first object of each.                                             *)
UnifyReadFlags(info) ==
  [d \in DOMAIN info |-> [g \in DOMAIN info[d] |->
     IF info[d][g] = <<>> THEN <<>>
     ELSE [info[d][g] EXCEPT ![1].readFlag =
             \E e \in DevicesByGroup(info, g) : info[e][g][1].readFlag]]]

-----------------------------------------------------------------------------
Init ==
  /\ project = NoProject /\ order = <<>> /\ phase = "idle" /\ next = 0
  /\ device = 0 /\ element = 0
  /\ types = <<>> /\ variableInfo = <<>> /\ variables = <<>>
  /\ files \in OldFiles /\ known = files
  /\ usedTypeNumbers = {} /\ number = 0 /\ peerInfo = <<>>
  /\ rows = {[number |-> files[name], name |-> name] : name \in DOMAIN files}
  /\ imports = 0 /\ failures = 0 /\ lost = {}

(* searchDevices.                                                           *)
Once(p) == ObjectsOnce /\ p.objects # <<>>
Repeated == {p \in Projects : ~Once(p)}
Importable == IF imports = 0 /\ files = <<>> THEN Projects ELSE Repeated
Begin ==
  /\ phase = "idle" /\ imports < MaxImports /\ imports' = imports + 1
  /\ ~Once(project)
NoneTaken == {}   \* (mutant of Taken)
Taken == {known[name] : name \in DOMAIN known}
SearchDevices(p, devices) ==
  /\ Begin
  /\ project' = p /\ order' = devices
  /\ phase' = "read" /\ next' = 0 /\ device' = 0 /\ element' = 0
  /\ types' = [i \in DOMAIN p.groups |-> p.groups[i].type]
  /\ variableInfo' = [d \in p.devices |-> [g \in GroupIds(p) |-> <<>>]]
  /\ variables' = [d \in p.devices |-> <<>>]
  /\ usedTypeNumbers' = Taken /\ peerInfo' = <<>>
  /\ UNCHANGED <<files, known, number, rows, failures, lost>>

(* extractXmlData, first the devices: the next link of the next object, ...   *)
ReadLink ==
  /\ phase = "read" /\ next < Len(project.objects)
  /\ LET object == project.objects[next + 1]
     IN  /\ element < Len(object.links)
         /\ variableInfo' = [variableInfo EXCEPT ![object.device][object.links[element + 1]] =
                                Append(@, Info(object, element + 1))]
  /\ element' = element + 1
  /\ UNCHANGED <<project, order, phase, next, device, types, variables, files, known,
                 usedTypeNumbers, number, peerInfo, rows, imports, failures, lost>>
ReadObject ==
  /\ phase = "read" /\ next < Len(project.objects) /\ element = Len(project.objects[next + 1].links)
  /\ next' = next + 1 /\ element' = 0
  /\ UNCHANGED <<project, order, phase, device, types, variableInfo, variables, files, known,
                 usedTypeNumbers, number, peerInfo, rows, imports, failures, lost>>
ReadEnds ==
  /\ phase = "read" /\ next = Len(project.objects)
  /\ variableInfo' = UnifyReadFlags(variableInfo)
  /\ phase' = "assign" /\ next' = 0
  /\ UNCHANGED <<project, order, device, element, types, variables, files, known,
                 usedTypeNumbers, number, peerInfo, rows, imports, failures, lost>>

(* ... then the group addresses, for each the devices in their order, and for *)
(* each of them its objects, until one has no type and there is none yet.     *)
CurrentGroup == project.groups[next + 1]
Infos == variableInfo[order[device + 1]][CurrentGroup.id]
AtDevice == phase = "assign" /\ next < Len(project.groups) /\ device < Len(order)

(* (Mutant of Replaces: the first object stays, whether or not it sends.)     *)
NeverReplaces(info, assigned) == info.index \notin DOMAIN assigned

(* A variable stays unless the new one sends.                               *)
Replaces(info, assigned) == info.index \notin DOMAIN assigned \/ info.writeFlag
AssignVariable ==
  /\ AtDevice /\ element < Len(Infos)
  /\ LET info == Infos[element + 1]
         d == order[device + 1]
         type == IF types[next + 1] = NoType THEN info.type ELSE types[next + 1]
         variable == [group |-> CurrentGroup.id, type |-> type, readFlag |-> info.readFlag,
                      writeFlag |-> info.writeFlag]
     IN  /\ types' = [types EXCEPT ![next + 1] = type]
         /\ element' = IF type = NoType THEN Len(Infos) ELSE element + 1
         /\ variables' = IF type # NoType /\ Replaces(info, variables[d])
                         THEN [variables EXCEPT ![d] = Put(@, info.index, variable)] ELSE variables
  /\ UNCHANGED <<project, order, phase, next, device, variableInfo, files, known,
                 usedTypeNumbers, number, peerInfo, rows, imports, failures, lost>>
AssignDevice ==
  /\ AtDevice /\ element = Len(Infos)
  /\ device' = device + 1 /\ element' = 0
  /\ UNCHANGED <<project, order, phase, next, types, variableInfo, variables, files, known,
                 usedTypeNumbers, number, peerInfo, rows, imports, failures, lost>>
AssignGroup ==
  /\ phase = "assign" /\ next < Len(project.groups) /\ device = Len(order)
  /\ next' = next + 1 /\ device' = 0
  /\ UNCHANGED <<project, order, phase, element, types, variableInfo, variables, files, known,
                 usedTypeNumbers, number, peerInfo, rows, imports, failures, lost>>
AssignEnds ==
  /\ phase = "assign" /\ next = Len(project.groups)
  /\ phase' = "create" /\ next' = 0
  /\ UNCHANGED <<import, files, known, usedTypeNumbers, number, peerInfo, rows, imports, failures, lost>>

(* updateDevices: the devices come with their variables.                     *)
UpdateDevices(p, devices) ==
  /\ Begin
  /\ project' = [NoProject EXCEPT !.devices = p.devices] /\ order' = devices
  /\ phase' = "create" /\ next' = 0 /\ device' = 0 /\ element' = 0
  /\ usedTypeNumbers' = Taken /\ peerInfo' = <<>>
  /\ types' = <<>>
  /\ variableInfo' = [d \in p.devices |-> <<>>] /\ variables' = [d \in p.devices |-> <<>>]
  /\ UNCHANGED <<files, known, number, rows, failures, lost>>

(* (Mutant of Free: one more than there are.)                                *)
FreeOrNext == {n \in 1..MaxNumber + 1 : n \notin usedTypeNumbers}

(* createHomegearDevice: the number it had, under its ETS id or its address, *)
(* whose file is removed, or the lowest that is free.  0: there is none.     *)
Known(name) == name \in DOMAIN known /\ known[name] > 0
Free == {n \in 1..MaxNumber : n \notin usedTypeNumbers}
Lowest(numbers) == IF numbers = {} THEN 0 ELSE CHOOSE n \in numbers : \A m \in numbers : n <= m
Current == order[next + 1]
(* Peers whose number a file has, before it is given to another.             *)
Replaced(names, n) ==
  {row.name : row \in {r \in rows : r.number # n
                          /\ \E name \in names \cap DOMAIN files : files[name] = r.number}}
CreateHomegearDevice ==
  /\ phase = "create" /\ next < Len(order)
  /\ LET old == IF Known(EtsName(Current.ets)) THEN {EtsName(Current.ets)}
                ELSE IF Known(AddressName(Current.address)) THEN {AddressName(Current.address)} ELSE {}
         n == IF old # {} THEN known[CHOOSE name \in old : TRUE] ELSE Lowest(Free)
     IN  /\ number' = n
         /\ files' = Without(files, old)
         /\ lost' = lost \cup Replaced(old, n)
         /\ usedTypeNumbers' = IF n > 0 THEN usedTypeNumbers \cup {n} ELSE usedTypeNumbers
         /\ IF n = 0 THEN phase' = phase /\ next' = next + 1 ELSE phase' = "save" /\ next' = next
  /\ UNCHANGED <<import, known, peerInfo, rows, imports, failures>>
(* An exception: the device is skipped.                                      *)
HasFile(row) == \E name \in DOMAIN files : ~Chosen(name) /\ files[name] = row.number
Missing == {row.name : row \in {r \in rows : ~HasFile(r)}}
Fail == ~Once(project) /\ failures < MaxFailures /\ failures' = failures + 1
CreateFails ==
  /\ phase = "save" /\ Fail
  /\ phase' = "create" /\ next' = next + 1
  /\ lost' = lost \cup Missing
  /\ UNCHANGED <<import, files, known, usedTypeNumbers, number, peerInfo, rows, imports>>

(* addDeviceToPeerInfo: the file is written in any case.                     *)
Accepted(n) == n # 0 /\ \A i \in DOMAIN peerInfo : peerInfo[i].number # n
Returned(name, n) == IF Accepted(n) THEN Append(peerInfo, [number |-> n, name |-> name]) ELSE peerInfo
AddDevice ==
  /\ phase = "save"
  /\ files' = Put(files, AddressName(Current.address), number)
  /\ peerInfo' = Returned(AddressName(Current.address), number)
  /\ phase' = "create" /\ next' = next + 1
  /\ lost' = lost \cup Replaced({AddressName(Current.address)}, number)
  /\ UNCHANGED <<import, known, usedTypeNumbers, number, rows, imports, failures>>
CreateEnds ==
  /\ phase = "create" /\ next = Len(order) /\ phase' = "json" /\ next' = 0
  /\ UNCHANGED <<import, files, known, usedTypeNumbers, number, peerInfo, rows, imports, failures, lost>>
(* The devices of the group variables' JSON, in the order of their ids.  A     *)
(* type is only checked for its upper bound; -1 stands for none.  So a        *)
(* negative one gives a number that devices of ETS have too, none, or one     *)
(* close to Width.                                                          *)
JsonNumber(id) == IF project.json[id] = -1 THEN 0 ELSE (project.json[id] + MaxNumber) % Width
AddJson(id) ==
  /\ phase = "json" /\ id > next /\ next' = id
  /\ \A other \in DOMAIN project.json : other < id => other <= next
  /\ files' = Put(files, JsonName(id), JsonNumber(id))
  /\ peerInfo' = Returned(JsonName(id), JsonNumber(id))
  /\ UNCHANGED <<import, phase, known, usedTypeNumbers, number, rows, imports, failures, lost>>

(* reloadAndUpdatePeers: descriptions are read, and a peer is made for each  *)
(* device that has none under its number.                                   *)
NewPeers ==
  {peerInfo[i] : i \in {j \in DOMAIN peerInfo :
                          /\ \A row \in rows : row.number # peerInfo[j].number
                          /\ \E name \in DOMAIN files : files[name] = peerInfo[j].number}}
Reload ==
  /\ phase = "json" /\ \A id \in DOMAIN project.json : id <= next
  /\ phase' = "idle" /\ known' = files
  /\ rows' = rows \cup NewPeers
  /\ lost' = lost \cup {row.name : row \in {r \in NewPeers : ~HasFile(r)}}
  /\ UNCHANGED <<import, next, files, usedTypeNumbers, number, peerInfo, imports, failures>>

(* (Mutant of DeletePeer: the row stays in the database.)                    *)
DeletePeerFile(row) ==
  /\ phase = "idle" /\ row \in rows
  /\ \E name \in DOMAIN known :
       known[name] = row.number /\ files' = Without(files, {name})
  /\ UNCHANGED <<import, phase, next, known, usedTypeNumbers, number, peerInfo, rows, imports, failures, lost>>

(* deletePeer, between imports: the row and the file of the peer's           *)
(* description go, but memory keeps it until the next import.                *)
DeletePeer(row) ==
  /\ phase = "idle" /\ row \in rows
  /\ \E name \in DOMAIN known :
       known[name] = row.number /\ files' = Without(files, {name})
  /\ rows' = rows \ {row}
  /\ UNCHANGED <<import, phase, next, known, usedTypeNumbers, number, peerInfo, imports, failures, lost>>

(* The program ends and starts again.                                        *)
Restart ==
  /\ Fail
  /\ phase' = "idle" /\ known' = files
  /\ lost' = lost \cup Missing
  /\ UNCHANGED <<import, next, files, usedTypeNumbers, number, peerInfo, rows, imports>>

Next ==
  \/ \E p \in Importable : \E devices \in SetToSeqs(p.devices) : SearchDevices(p, devices)
  \/ \E p \in Repeated : \E devices \in SetToSeqs(p.devices) : UpdateDevices(p, devices)
  \/ ReadLink \/ ReadObject \/ ReadEnds
  \/ AssignVariable \/ AssignDevice \/ AssignGroup \/ AssignEnds
  \/ CreateHomegearDevice \/ CreateFails \/ AddDevice \/ CreateEnds
  \/ \E id \in DOMAIN project.json : AddJson(id)
  \/ Reload \/ (\E row \in rows : DeletePeer(row)) \/ Restart
Spec == Init /\ [][Next]_vars

-----------------------------------------------------------------------------
TypeOK ==
  /\ \A i \in DOMAIN order : order[i] \in project.devices
  /\ phase \in {"idle", "read", "assign", "create", "save", "json"}
  /\ next \in Nat /\ device \in 0..Len(order) /\ element \in Nat
  /\ number \in 0..MaxNumber /\ usedTypeNumbers \subseteq Nat
  /\ imports \in 0..MaxImports /\ failures \in 0..MaxFailures

Linked(g) == {i \in DOMAIN project.objects : g.id \in Elements(project.objects[i].links)}
Typed(g) == g.type # NoType \/ \A i \in Linked(g) : project.objects[i].type # NoType
GroupsOf(i) == {k \in DOMAIN project.groups : i \in Linked(project.groups[k])}
SendingGroups(i) ==
  LET object == project.objects[i]
  IN  {k \in GroupsOf(i) : /\ object.writeFlag
                           /\ \E j \in DOMAIN object.links :
                                j <= object.sends /\ object.links[j] = project.groups[k].id}
Assignments == phase \in {"create", "save"}

(* Whatever the order of the devices and of the group addresses, an object   *)
(* that sends becomes a variable of the (last) group address it sends to, and *)
(* one that only receives one of the first it receives from: no object loses *)
(* its variable ("Only first entry is writeable", extractXmlData), as long as *)
(* the types are known.                                                     *)
VariablesAsLinked ==
  Assignments =>
    \A i \in DOMAIN project.objects :
      LET object == project.objects[i]
          sends == SendingGroups(i) # {}
          wanted == project.groups[IF sends THEN Max(SendingGroups(i)) ELSE Lowest(GroupsOf(i))].id
      IN  GroupsOf(i) # {} /\ (\A k \in GroupsOf(i) : Typed(project.groups[k])) =>
            /\ object.index \in DOMAIN variables[object.device]
            /\ variables[object.device][object.index].group = wanted
            /\ variables[object.device][object.index].writeFlag = sends

(* All devices convert a group address with one type, and all answer or none *)
(* does, unless a device has it in two objects ("set all read flags to this   *)
(* value", extractXmlData).                                                 *)
GroupVariablesAgree ==
  Assignments =>
    \A d, e \in project.devices : \A i \in DOMAIN variables[d] : \A j \in DOMAIN variables[e] :
      variables[d][i].group = variables[e][j].group =>
        /\ variables[d][i].type = variables[e][j].type
        /\ \/ variables[d][i].readFlag = variables[e][j].readFlag
           \/ \E f \in {d, e} : Len(variableInfo[f][variables[d][i].group]) > 1

(* A device of JSON whose number the project has put among those that        *)
(* createHomegearDevice gives to devices of ETS: its type is not above 0.    *)
Intrudes(name, n) == Chosen(name) /\ n <= MaxNumber

(* No two descriptions have one number, after any imports of any projects    *)
(* (createHomegearDevice): but for two devices of JSON, whose numbers the     *)
(* projects choose, or a device of JSON whose type is not above 0.           *)
NumbersUnique ==
  \A a, b \in DOMAIN known :
    (a # b /\ known[a] = known[b]) =>
      \/ Chosen(a) /\ Chosen(b)
      \/ Intrudes(a, known[a]) \/ Intrudes(b, known[b])

Devices == UNION {p.devices : p \in Projects}
SameDevice(before, after) ==
  \/ before = after
  \/ \E d \in Devices : before = EtsName(d.ets) /\ after = AddressName(d.address)
(* A peer's number leads to the device it was made for and never to another,  *)
(* even after devices have gone from the project, peers were deleted, and     *)
(* numbers have become scarce; unless the device's file was lost by a failure *)
(* or a restart between removing and writing it, or to a device that has come *)
(* to its address, or a device of JSON has the number too because its type is *)
(* not above 0 (createHomegearDevice, addDeviceToPeerInfo).                  *)
RowsKeepDevice ==
  \A row \in rows : \A name \in DOMAIN known :
    known[name] = row.number =>
      \/ SameDevice(row.name, name) \/ row.name \in lost
      \/ Chosen(row.name) \/ Intrudes(name, row.number)
=============================================================================
