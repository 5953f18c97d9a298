---------------------------- MODULE PeerRegistry ----------------------------
(***************************************************************************)
(* KnxCentral's registry of peers: the indexes by id, by serial number and *)
(* by group address, the rows of the database and the device description   *)
(* files, under searchDevices, updateDevices, deletePeer and setPeerId.    *)
(*                                                                         *)
(* searchDevices and updateDevices exclude each other (_searchMutex);      *)
(* deletePeer and setPeerId are RPC calls that take only _peersMutex, for  *)
(* one change of the indexes at a time.  A peer is an object that belongs  *)
(* to a row: reloading makes a new object.  Packets look up objects by     *)
(* group address, RPC calls by id or serial number.  The index by physical *)
(* address changes wherever the one by serial number does.                 *)
(***************************************************************************)
EXTENDS Naturals, Sequences, FiniteSets

CONSTANTS
  Serials,       \* serial numbers, one for each device of the project
  Groups,        \* group addresses
  Deleters,      \* RPC threads in deletePeer
  None,          \* an absent value
  MaxIds,        \* bound: ids of peers, in the database
  MaxObjects,    \* bound: peer objects made
  MaxOps         \* bound: calls of the four operations

ASSUME NoneAssumption == None \notin Serials \cup Nat /\ \A gs \in SUBSET Groups : gs # None
ASSUME BoundAssumption ==
  /\ IsFiniteSet(Serials) /\ MaxIds \in Nat /\ MaxObjects \in Nat /\ MaxOps \in Nat
  /\ Cardinality(Serials) <= MaxIds

Ids == 1..MaxIds

VARIABLES
  rows,          \* the database: the serial number of each row, by id
  files,         \* the description files: group addresses of each device
  devices,       \* the descriptions in memory, read from the files
  used,          \* ids given out so far
  objects,       \* the peer objects made so far
  byId, bySerial,   \* _peersById, _peersBySerial
  byGroup,       \* _peersByGroupAddress: an object for each id in each group
  apc,           \* the thread that holds _searchMutex: where it is
  search,        \* it is in searchDevices
  infos,         \* the devices it imports
  todo,          \* what it still has to do: serial numbers, or rows
  peer,          \* the object at hand
  dpc, did, dobj,   \* deletePeer: where, of which id and object
  spc, sold, sobj,  \* setPeerId: where, the old id and the object
  ops,           \* operations so far
  mixed,         \* devices deleted or renumbered while something else was done with them
  outdated       \* devices whose peer was loaded again and was in the indexes

adminVars == <<apc, search, infos, todo, peer>>
deleteVars == <<dpc, did, dobj>>
setVars == <<spc, sold, sobj>>
indexVars == <<byId, bySerial, byGroup>>
storeVars == <<rows, files, devices, used, objects>>
ghostVars == <<mixed, outdated>>
vars == <<storeVars, indexVars, adminVars, deleteVars, setVars, ops, ghostVars>>

(* The program has started: each row in the database has become a peer.    *)
Loaded(p) ==
  /\ objects = p
  /\ LET At(i) == i \in DOMAIN p
         Number(s) == CHOOSE i \in DOMAIN p : p[i].serial = s
         Known(s) == \E i \in DOMAIN p : p[i].serial = s IN
     /\ rows = [i \in Ids |-> IF At(i) THEN p[i].serial ELSE None] /\ used = DOMAIN p
     /\ devices = [s \in Serials |-> IF Known(s) THEN p[Number(s)].groups ELSE None] /\ files = devices
     /\ byId = [i \in Ids |-> IF At(i) THEN i ELSE None]
     /\ bySerial = [s \in Serials |-> IF Known(s) THEN Number(s) ELSE None]
     /\ byGroup = [g \in Groups |-> [i \in Ids |-> IF At(i) /\ g \in p[i].groups THEN i ELSE None]]
Init ==
  /\ \E n \in 0..Cardinality(Serials), groups \in [Ids -> SUBSET Groups] :
       \E s \in [1..n -> Serials] :
         /\ \A i, j \in 1..n : s[i] = s[j] => i = j
         /\ Loaded([i \in 1..n |-> [id |-> i, serial |-> s[i], groups |-> groups[i]]])
  /\ apc = "idle" /\ search = FALSE /\ infos = {} /\ todo = {} /\ peer = None
  /\ dpc = [d \in Deleters |-> "idle"] /\ did = [d \in Deleters |-> None]
  /\ dobj = [d \in Deleters |-> None]
  /\ spc = "idle" /\ sold = None /\ sobj = None
  /\ ops = 0 /\ mixed = {} /\ outdated = {}

Operation == ops < MaxOps /\ ops' = ops + 1

(* The devices deletePeer and setPeerId are at work on.                    *)
Deleted == {objects[dobj[d]].serial : d \in {e \in Deleters : dpc[e] # "idle"}}
Renumbered == IF spc = "idle" THEN {} ELSE {objects[sobj].serial}

(* By group address emplace() keeps the object that is there already.      *)
Emplace(o, p) == [g \in Groups |->
  IF g \in p.groups /\ byGroup[g][p.id] = None THEN [byGroup[g] EXCEPT ![p.id] = o] ELSE byGroup[g]]
(* removePeerFromGroupAddresses, for all addresses of a peer.              *)
Removal(groups, id) == [g \in Groups |->
  IF g \in groups THEN [byGroup[g] EXCEPT ![id] = None] ELSE byGroup[g]]

Insert(o, p) ==
  /\ byId' = [byId EXCEPT ![p.id] = o]
  /\ bySerial' = [bySerial EXCEPT ![p.serial] = o]
  /\ byGroup' = Emplace(o, p)
Erase(id, serial) ==
  /\ byId' = [byId EXCEPT ![id] = None]
  /\ bySerial' = [bySerial EXCEPT ![serial] = None]

Peer(id, serial) == [id |-> id, serial |-> serial, groups |-> devices[serial]]
Make(p) == Len(objects) < MaxObjects /\ objects' = Append(objects, p)

-----------------------------------------------------------------------------
(* searchDevices and updateDevices begin.                                  *)
Begin ==
  /\ apc = "idle" /\ Operation
  /\ apc' = "import"
  /\ mixed' = mixed \cup Deleted \cup Renumbered
  /\ UNCHANGED <<storeVars, infos, todo, peer, deleteVars, setVars>>

(* searchDevices clears all indexes.                                       *)
SearchDevicesKeepsGroups ==
  /\ Begin
  /\ search' = TRUE /\ outdated' = {}
  /\ byId' = [i \in Ids |-> None] /\ bySerial' = [s \in Serials |-> None]
  /\ UNCHANGED byGroup
SearchDevices ==
  /\ Begin
  /\ search' = TRUE /\ outdated' = {}
  /\ byId' = [i \in Ids |-> None] /\ bySerial' = [s \in Serials |-> None]
  /\ byGroup' = [g \in Groups |-> [i \in Ids |-> None]]
UpdateDevices == Begin /\ search' = FALSE /\ UNCHANGED <<indexVars, outdated>>

(* The import writes a description of every device it finds or is given.   *)
Import ==
  /\ apc = "import"
  /\ apc' = IF search THEN "reload" ELSE "remove"
  /\ \E found \in SUBSET Serials : \E groups \in [found -> SUBSET Groups] :
       /\ infos' = found /\ todo' = found
       /\ files' = [s \in Serials |-> IF s \in found THEN groups[s] ELSE files[s]]
  /\ UNCHANGED <<rows, devices, used, objects, indexVars, search, peer, deleteVars, setVars, ops, ghostVars>>

(* updateDevices takes the peers it updates out of the indexes, and then   *)
(* out of the one by group address; it waits until nobody uses them, but   *)
(* not for ever.                                                           *)
RemoveUpdated ==
  /\ apc = "remove" /\ peer = None
  /\ \E s \in todo :
       /\ todo' = todo \ {s}
       /\ peer' = bySerial[s]
       /\ IF bySerial[s] = None THEN UNCHANGED <<byId, bySerial, outdated>>
          ELSE Erase(objects[bySerial[s]].id, s) /\ outdated' = outdated \ {s}
  /\ UNCHANGED <<storeVars, byGroup, apc, search, infos, deleteVars, setVars, ops, mixed>>
RemoveUpdatedGroups ==
  /\ apc = "remove" /\ peer # None
  /\ byGroup' = Removal(objects[peer].groups, objects[peer].id)
  /\ peer' = None
  /\ UNCHANGED <<storeVars, byId, bySerial, apc, search, infos, todo, deleteVars, setVars, ops, ghostVars>>
RemoveDone ==
  /\ apc = "remove" /\ peer = None /\ todo = {}
  /\ apc' = "reload"
  /\ UNCHANGED <<storeVars, indexVars, search, infos, todo, peer, deleteVars, setVars, ops, ghostVars>>

(* reloadAndUpdatePeers reads all description files, loadPeers all rows.   *)
Reload ==
  /\ apc = "reload"
  /\ apc' = "load"
  /\ devices' = files
  /\ todo' = {<<i, rows[i]>> : i \in {j \in Ids : rows[j] # None}}
  /\ UNCHANGED <<rows, files, used, objects, indexVars, search, infos, peer, deleteVars, setVars, ops, ghostVars>>

(* A row becomes a new peer, unless its device is not known.               *)
LoadPeer ==
  /\ apc = "load"
  /\ \E row \in todo :
       /\ todo' = todo \ {row}
       /\ IF devices[row[2]] = None THEN UNCHANGED <<objects, indexVars, outdated>>
          ELSE /\ Make(Peer(row[1], row[2]))
               /\ Insert(Len(objects) + 1, Peer(row[1], row[2]))
               /\ outdated' = IF byId[row[1]] = None THEN outdated ELSE outdated \cup {row[2]}
  /\ UNCHANGED <<rows, files, devices, used, apc, search, infos, peer, deleteVars, setVars, ops, mixed>>
LoadDone ==
  /\ apc = "load" /\ todo = {}
  /\ apc' = "create" /\ todo' = infos
  /\ UNCHANGED <<storeVars, indexVars, search, infos, peer, deleteVars, setVars, ops, ghostVars>>

(* A device without a peer gets a row with the next id of the database,    *)
(* and is put into the indexes.                                            *)
Create(s) ==
  \E i \in Ids \ used :
    /\ \A j \in Ids \ used : i <= j
    /\ rows' = [rows EXCEPT ![i] = s] /\ used' = used \cup {i}
    /\ Make(Peer(i, s)) /\ peer' = Len(objects) + 1
CreatePeerAlways ==
  /\ apc = "create" /\ peer = None
  /\ \E s \in todo :
       /\ todo' = todo \ {s}
       /\ IF devices[s] = None THEN UNCHANGED <<rows, used, objects, peer>> ELSE Create(s)
  /\ UNCHANGED <<files, devices, indexVars, apc, search, infos, deleteVars, setVars, ops, ghostVars>>
CreatePeer ==
  /\ apc = "create" /\ peer = None
  /\ \E s \in todo :
       /\ todo' = todo \ {s}
       /\ IF bySerial[s] # None \/ devices[s] = None THEN UNCHANGED <<rows, used, objects, peer>> ELSE Create(s)
  /\ UNCHANGED <<files, devices, indexVars, apc, search, infos, deleteVars, setVars, ops, ghostVars>>
InsertCreatedById ==
  /\ apc = "create" /\ peer # None
  /\ byId' = [byId EXCEPT ![objects[peer].id] = peer] /\ byGroup' = Emplace(peer, objects[peer])
  /\ peer' = None
  /\ UNCHANGED <<storeVars, bySerial, apc, search, infos, todo, deleteVars, setVars, ops, ghostVars>>
InsertCreated ==
  /\ apc = "create" /\ peer # None
  /\ Insert(peer, objects[peer])
  /\ peer' = None
  /\ UNCHANGED <<storeVars, apc, search, infos, todo, deleteVars, setVars, ops, ghostVars>>
CreateDone ==
  /\ apc = "create" /\ peer = None /\ todo = {}
  /\ apc' = "idle" /\ search' = FALSE /\ infos' = {}
  /\ UNCHANGED <<storeVars, indexVars, todo, peer, deleteVars, setVars, ops, ghostVars>>

-----------------------------------------------------------------------------
DeleteGoes(d, from, to) == dpc[d] = from /\ dpc' = [dpc EXCEPT ![d] = to]

(* deletePeer looks up the peer, ...                                       *)
DeletePeer(d) ==
  /\ DeleteGoes(d, "idle", "index") /\ Operation
  /\ \E i \in Ids :
       /\ byId[i] # None
       /\ did' = [did EXCEPT ![d] = i] /\ dobj' = [dobj EXCEPT ![d] = byId[i]]
       /\ LET s == objects[byId[i]].serial IN
            mixed' = IF apc # "idle" \/ s \in Renumbered THEN mixed \cup {s} ELSE mixed
  /\ UNCHANGED <<storeVars, indexVars, adminVars, setVars, outdated>>
(* ... takes it from the indexes, and from the one by group address, ...   *)
DeleteIndexById(d) ==
  /\ DeleteGoes(d, "index", "groups")
  /\ byId' = [byId EXCEPT ![did[d]] = None]
  /\ UNCHANGED <<storeVars, bySerial, byGroup, adminVars, did, dobj, setVars, ops, ghostVars>>
DeleteIndex(d) ==
  /\ DeleteGoes(d, "index", "groups")
  /\ Erase(did[d], objects[dobj[d]].serial)
  /\ UNCHANGED <<storeVars, byGroup, adminVars, did, dobj, setVars, ops, ghostVars>>
DeleteGroups(d) ==
  /\ DeleteGoes(d, "groups", "row")
  /\ byGroup' = Removal(objects[dobj[d]].groups, did[d])
  /\ UNCHANGED <<storeVars, byId, bySerial, adminVars, did, dobj, setVars, ops, ghostVars>>
(* ... and after a while deletes its row ...                               *)
DeleteRow(d) ==
  /\ DeleteGoes(d, "row", "file")
  /\ rows' = [rows EXCEPT ![objects[dobj[d]].id] = None]
  /\ UNCHANGED <<files, devices, used, objects, indexVars, adminVars, did, dobj, setVars, ops, ghostVars>>
(* ... and its description file.                                           *)
DeleteFile(d) ==
  /\ DeleteGoes(d, "file", "idle")
  /\ files' = [files EXCEPT ![objects[dobj[d]].serial] = None]
  /\ did' = [did EXCEPT ![d] = None] /\ dobj' = [dobj EXCEPT ![d] = None]
  /\ UNCHANGED <<rows, devices, used, objects, indexVars, adminVars, setVars, ops, ghostVars>>

-----------------------------------------------------------------------------
(* setPeerId: the base class gives the peer its new id, ...                *)
SetPeerId ==
  /\ spc = "idle" /\ spc' = "remove" /\ Operation
  /\ \E old \in Ids, new \in Ids \ used :
       /\ byId[old] # None
       /\ sold' = old /\ sobj' = byId[old] /\ used' = used \cup {new}
       /\ byId' = [byId EXCEPT ![old] = None, ![new] = byId[old]]
       /\ objects' = [objects EXCEPT ![byId[old]].id = new]
       /\ rows' = [rows EXCEPT ![old] = None, ![new] = rows[old]]
       /\ LET s == objects[byId[old]].serial IN
            mixed' = IF apc # "idle" \/ s \in Deleted THEN mixed \cup {s} ELSE mixed
  /\ UNCHANGED <<files, devices, bySerial, byGroup, adminVars, deleteVars, outdated>>
(* ... under which it is put into the index by group address.              *)
SetGroupsRemoveNew ==
  /\ spc = "remove" /\ spc' = "insert"
  /\ byGroup' = Removal(objects[sobj].groups, objects[sobj].id)
  /\ UNCHANGED <<storeVars, byId, bySerial, adminVars, deleteVars, sold, sobj, ops, ghostVars>>
SetGroupsRemove ==
  /\ spc = "remove" /\ spc' = "insert"
  /\ byGroup' = Removal(objects[sobj].groups, sold)
  /\ UNCHANGED <<storeVars, byId, bySerial, adminVars, deleteVars, sold, sobj, ops, ghostVars>>
SetGroupsInsert ==
  /\ spc = "insert" /\ spc' = "idle"
  /\ byGroup' = Emplace(sobj, objects[sobj])
  /\ sold' = None /\ sobj' = None
  /\ UNCHANGED <<storeVars, byId, bySerial, adminVars, deleteVars, ops, ghostVars>>

-----------------------------------------------------------------------------
Admin == SearchDevices \/ UpdateDevices \/ Import \/ RemoveUpdated \/ RemoveUpdatedGroups \/ RemoveDone
         \/ Reload \/ LoadPeer \/ LoadDone \/ CreatePeer \/ InsertCreated \/ CreateDone
Delete(d) == DeletePeer(d) \/ DeleteIndex(d) \/ DeleteGroups(d) \/ DeleteRow(d) \/ DeleteFile(d)
Renumber == SetPeerId \/ SetGroupsRemove \/ SetGroupsInsert
Next == Admin \/ (\E d \in Deleters : Delete(d)) \/ Renumber
Spec == Init /\ [][Next]_vars

-----------------------------------------------------------------------------
(* The devices nothing is being done with, nor was done twice at once.     *)
Settled == Serials \ (mixed \cup Deleted \cup Renumbered)

(* When no search or update runs, the indexes, the database and the files  *)
(* say the same of every device: the object found by its id has a row and  *)
(* a description, is the one found by its serial number, and a packet to a *)
(* group address reaches it if and only if it has the address.             *)
Found(s, i) == byId[i] # None /\ objects[byId[i]].serial = s
RowsAgree(s) ==
  /\ \A i \in Ids : Found(s, i) <=> rows[i] = s /\ devices[s] # None
  /\ \A i \in Ids : Found(s, i) => bySerial[s] = byId[i] /\ objects[byId[i]].id = i
  /\ bySerial[s] # None => Found(s, objects[bySerial[s]].id)
GroupsAgree(s) ==
  \A g \in Groups, i \in Ids :
    /\ Found(s, i) /\ g \in objects[byId[i]].groups => byGroup[g][i] # None
    /\ byGroup[g][i] # None /\ objects[byGroup[g][i]].serial = s
         => byId[i] # None /\ g \in objects[byId[i]].groups
IndexesAgree == apc = "idle" => \A s \in Settled : RowsAgree(s) /\ GroupsAgree(s)

(* It reaches the object that RPC calls find, unless an update has loaded  *)
(* the peer again that it did not take out of the indexes before.          *)
PacketsReachPeer ==
  apc = "idle" => \A s \in Settled \ outdated, i \in Ids, g \in Groups :
    rows[i] = s /\ byGroup[g][i] # None => byGroup[g][i] = byId[i]

(* A device has one row, however often it is imported.                     *)
OneRowPerDevice ==
  \A s \in Settled, i, j \in Ids : rows[i] = s /\ rows[j] = s => i = j

(* What an import found has a peer when it is done.                        *)
ImportsComplete ==
  [][apc = "create" /\ apc' = "idle" => \A s \in infos \ mixed : bySerial[s] # None]_vars
=============================================================================
