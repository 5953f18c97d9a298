------------------------- MODULE PeerRegistryProofs -------------------------
(***************************************************************************)
(* Proofs about PeerRegistry: after every interleaving of searchDevices,   *)
(* updateDevices, deletePeer and setPeerId, for any devices, group         *)
(* addresses, RPC threads and bounds, the indexes, the database and the    *)
(* description files agree on each device that no two of them were at work *)
(* on at once.                                                             *)
(*                                                                         *)
(* The invariant has three parts.  TypesInv is the type invariant.         *)
(* OwnerInv says that an id has one owner for ever, because the database   *)
(* gives out each id once: whatever is found under the id of one device is *)
(* never another's.  DeviceInv says of one device what each call has       *)
(* already done to it, at each place where the call may be; a step of a    *)
(* call leaves all devices but its own untouched, because of OwnerInv.     *)
(***************************************************************************)
EXTENDS PeerRegistry, FiniteSetTheorems, TLAPS

(* The types of the state.                                                  *)
ObjectType == [id : Ids, serial : Serials, groups : SUBSET Groups]
Objects == 1..Len(objects)
IndexTypes ==
  /\ objects \in Seq(ObjectType)
  /\ byId \in [Ids -> Objects \cup {None}]
  /\ bySerial \in [Serials -> Objects \cup {None}]
  /\ byGroup \in [Groups -> [Ids -> Objects \cup {None}]]
StoreTypes ==
  /\ rows \in [Ids -> Serials \cup {None}]
  /\ files \in [Serials -> (SUBSET Groups) \cup {None}]
  /\ devices \in [Serials -> (SUBSET Groups) \cup {None}]
  /\ used \subseteq Ids
AdminTypes ==
  /\ apc \in {"idle", "import", "remove", "reload", "load", "create"}
  /\ search \in BOOLEAN /\ infos \subseteq Serials
  /\ apc \in {"remove", "create"} => todo \subseteq infos
  /\ apc = "load" => todo \subseteq Ids \X Serials
  /\ peer \in Objects \cup {None}
  /\ peer # None => apc \in {"remove", "create"}
  /\ apc = "remove" => ~search
CallTypes ==
  /\ dpc \in [Deleters -> {"idle", "index", "groups", "row", "file"}]
  /\ did \in [Deleters -> Ids \cup {None}] /\ dobj \in [Deleters -> Objects \cup {None}]
  /\ \A d \in Deleters : dpc[d] # "idle" => did[d] # None /\ dobj[d] # None
  /\ spc \in {"idle", "remove", "insert"}
  /\ sold \in Ids \cup {None} /\ sobj \in Objects \cup {None}
  /\ spc # "idle" => sold # None /\ sobj # None
TypesInv == IndexTypes /\ StoreTypes /\ AdminTypes /\ CallTypes

(* Every id that was given out has an owner, whose everything is that is    *)
(* found under it: rows, objects, entries of the indexes and calls.         *)
RowsOwned(owner) ==
  /\ \A i \in Ids : rows[i] # None => i \in used /\ owner[i] = rows[i]
  /\ apc = "load" => \A row \in todo : row[1] \in used /\ owner[row[1]] = row[2]
ObjectsOwned(owner) ==
  \A o \in Objects : objects[o].id \in used /\ owner[objects[o].id] = objects[o].serial
IndexesOwned(owner) ==
  /\ \A i \in Ids : byId[i] # None => i \in used /\ owner[i] = objects[byId[i]].serial
  /\ \A g \in Groups, i \in Ids :
       byGroup[g][i] # None => i \in used /\ owner[i] = objects[byGroup[g][i]].serial
CallsOwned(owner) ==
  /\ \A d \in Deleters : dpc[d] # "idle" => did[d] \in used /\ owner[did[d]] = objects[dobj[d]].serial
  /\ spc # "idle" => sold \in used /\ owner[sold] = objects[sobj].serial
Owned(owner) == RowsOwned(owner) /\ ObjectsOwned(owner) /\ IndexesOwned(owner) /\ CallsOwned(owner)
OwnerInv ==
  /\ \A s \in Serials : bySerial[s] # None => objects[bySerial[s]].serial = s
  /\ \E owner \in [used -> Serials] : Owned(owner)

(* What is found of a device, and who deletes it.                           *)
NoIndex(s) == bySerial[s] = None /\ \A i \in Ids : ~Found(s, i)
Grouped(s, g, i) == byGroup[g][i] # None /\ objects[byGroup[g][i]].serial = s
Deletes(d, s) == dpc[d] # "idle" /\ objects[dobj[d]].serial = s

(* The object o of device s with id i and these group addresses.            *)
Is(s, o, i, groups) ==
  /\ o \in Objects /\ objects[o].serial = s
  /\ objects[o].id = i /\ objects[o].groups = groups

(* What may be there of a device in the indexes and among the rows.         *)
NoGroup(s) == \A g \in Groups, i \in Ids : ~Grouped(s, g, i)
NoRow(s) == \A i \in Ids : rows[i] # s
OneRow(s) == \A i, j \in Ids : rows[i] = s /\ rows[j] = s => i = j
RowAt(s, i) == \A j \in Ids : rows[j] = s <=> j = i
Inside(s, i, groups) == \A g \in Groups, j \in Ids : Grouped(s, g, j) => j = i /\ g \in groups
Indexed(s, o, i) == bySerial[s] = o /\ byId[i] = o /\ \A j \in Ids : Found(s, j) => j = i
Reached(s, o, i, groups) ==
  \A g \in groups : Grouped(s, g, i) /\ (s \notin outdated => byGroup[g][i] = o)
Described(s, groups) == devices[s] = groups /\ files[s] = groups

(* It has a peer; it has nothing; the two are where it comes to rest.  An   *)
(* import begins with what is left of it out of all indexes.                *)
PresentAs(s, o, i, groups) ==
  /\ Is(s, o, i, groups) /\ Indexed(s, o, i) /\ Inside(s, i, groups)
  /\ Reached(s, o, i, groups) /\ RowAt(s, i)
Present(s) == \E o \in Objects, i \in Ids, groups \in SUBSET Groups : PresentAs(s, o, i, groups)
Settles(s) ==
  \E o \in Objects, i \in Ids, groups \in SUBSET Groups :
    PresentAs(s, o, i, groups) /\ Described(s, groups)
Absent(s) == NoIndex(s) /\ NoGroup(s) /\ NoRow(s)
InOrder(s) == Absent(s) \/ Settles(s)
Cleared(s) == NoIndex(s) /\ NoGroup(s) /\ OneRow(s) /\ (files[s] = None => NoRow(s))

(* What is at hand of it at each place of searchDevices or updateDevices,   *)
AtHand(s) == peer # None /\ objects[peer].serial = s
TakenOut(s) ==
  \E o \in Objects, i \in Ids, groups \in SUBSET Groups :
    peer = o /\ Is(s, o, i, groups) /\ NoIndex(s) /\ Inside(s, i, groups) /\ RowAt(s, i)
Made(s) ==
  \E o \in Objects, i \in Ids, groups \in SUBSET Groups :
    peer = o /\ Is(s, o, i, groups) /\ NoIndex(s) /\ NoGroup(s) /\ RowAt(s, i) /\ Described(s, groups)
Importing(s) == IF search THEN Cleared(s) ELSE InOrder(s)
Removing(s) ==
  /\ s \in infos => files[s] # None
  /\ s \in todo => Absent(s) \/ Present(s)
  /\ AtHand(s) => s \in infos \ todo /\ TakenOut(s)
  /\ s \in infos \ todo /\ ~AtHand(s) => Cleared(s)
  /\ s \notin infos => InOrder(s)
Reloading(s) ==
  /\ s \in infos => files[s] # None
  /\ IF search \/ s \in infos THEN Cleared(s) ELSE InOrder(s)
Loading(s) ==
  /\ devices[s] = files[s] /\ (s \in infos => files[s] # None)
  /\ \A i \in Ids : <<i, s>> \in todo => rows[i] = s
  /\ InOrder(s) \/ (Cleared(s) /\ \E i \in Ids : <<i, s>> \in todo)
Creating(s) ==
  /\ devices[s] = files[s] /\ (s \in infos => files[s] # None)
  /\ AtHand(s) => s \in infos \ todo /\ Made(s)
  /\ ~AtHand(s) => InOrder(s) /\ (s \in infos \ todo => bySerial[s] # None)

(* of deletePeer ...                                                        *)
DeletingAs(s, d, o, i, groups) ==
  /\ dobj[d] = o /\ did[d] = i /\ Is(s, o, i, groups)
  /\ bySerial[s] = None \/ bySerial[s] = o
  /\ \A j \in Ids : Found(s, j) => j = i /\ byId[j] = o
  /\ Inside(s, i, groups)
  /\ \A j \in Ids : rows[j] = s => j = i
  /\ dpc[d] \in {"groups", "row", "file"} => NoIndex(s)
  /\ dpc[d] \in {"row", "file"} => NoGroup(s)
  /\ dpc[d] = "file" => NoRow(s)
Deleting(s, d) ==
  \E o \in Objects, i \in Ids, groups \in SUBSET Groups : DeletingAs(s, d, o, i, groups)

(* and of setPeerId.                                                        *)
Renumbers(s) == spc # "idle" /\ objects[sobj].serial = s
RenumberingAs(s, o, i, j, groups) ==
  /\ sobj = o /\ sold = j /\ i # j /\ Is(s, o, i, groups)
  /\ Indexed(s, o, i) /\ RowAt(s, i) /\ Described(s, groups)
  /\ spc = "remove" => Inside(s, j, groups)
  /\ spc = "insert" => NoGroup(s)
Renumbering(s) ==
  \E o \in Objects, i, j \in Ids, groups \in SUBSET Groups : RenumberingAs(s, o, i, j, groups)

(* A device with which no two things were done at once.                     *)
Calm(s) == ~Renumbers(s) /\ \A d \in Deleters : ~Deletes(d, s)
DeviceInv(s) ==
  /\ apc = "idle" /\ Calm(s) => InOrder(s)
  /\ apc # "idle" => Calm(s)
  /\ \A d \in Deleters : Deletes(d, s) => Deleting(s, d) /\ ~Renumbers(s)
  /\ Renumbers(s) => Renumbering(s)
  /\ apc = "import" => Importing(s)
  /\ apc = "remove" => Removing(s)
  /\ apc = "reload" => Reloading(s)
  /\ apc = "load" => Loading(s)
  /\ apc = "create" => Creating(s)
RegistryInv == TypesInv /\ OwnerInv /\ \A s \in Serials \ mixed : DeviceInv(s)

-----------------------------------------------------------------------------

(* Make adds an object and keeps those there are.                           *)
LEMMA MadeObject ==
  ASSUME objects \in Seq(ObjectType), NEW p \in ObjectType, Make(p)
  PROVE  /\ objects' \in Seq(ObjectType) /\ Len(objects') = Len(objects) + 1
         /\ \A o \in Objects : o \in Objects' /\ objects'[o] = objects[o]
         /\ Len(objects) + 1 \in Objects' /\ objects'[Len(objects) + 1] = p
         /\ \A o \in Objects' : o \in Objects \/ o = Len(objects) + 1
  BY DEF Make, Objects

(* A new id for an object changes nothing else.                             *)
LEMMA RenumberedObject ==
  ASSUME objects \in Seq(ObjectType), NEW o \in Objects, NEW new \in Ids,
         objects' = [objects EXCEPT ![o].id = new]
  PROVE  /\ objects' \in Seq(ObjectType) /\ Objects' = Objects
         /\ objects'[o].id = new
         /\ \A p \in Objects : /\ objects'[p].serial = objects[p].serial
                               /\ objects'[p].groups = objects[p].groups
                               /\ p # o => objects'[p] = objects[p]
<1>1. objects[o] \in ObjectType
  BY DEF Objects
<1>2. [objects[o] EXCEPT !.id = new] \in ObjectType
  BY <1>1 DEF ObjectType
<1>3. objects' = [objects EXCEPT ![o] = [objects[o] EXCEPT !.id = new]]
  OBVIOUS
<1> DEFINE r == [objects[o] EXCEPT !.id = new]
<1>4. r.id = new /\ r.serial = objects[o].serial /\ r.groups = objects[o].groups
  BY <1>1 DEF ObjectType
<1> HIDE DEF r
<1>5. objects' \in Seq(ObjectType) /\ Len(objects') = Len(objects)
  BY <1>2, <1>3 DEF Objects, r
<1>6. objects'[o] = r /\ \A p \in Objects : p # o => objects'[p] = objects[p]
  BY <1>3 DEF Objects, r
<1> QED BY <1>4, <1>5, <1>6 DEF Objects

(* The index by group address stays one, ...                                *)
LEMMA EmplaceType ==
  ASSUME byGroup \in [Groups -> [Ids -> Objects \cup {None}]], NEW p, NEW o
  PROVE  Emplace(o, p) \in [Groups -> [Ids -> Objects \cup {None, o}]]
<1> SUFFICES ASSUME NEW g \in Groups
             PROVE  Emplace(o, p)[g] \in [Ids -> Objects \cup {None, o}]
  BY DEF Emplace
<1> QED BY DEF Emplace

(* ... whether a peer is put in or taken out.                               *)
LEMMA RemovalType ==
  ASSUME byGroup \in [Groups -> [Ids -> Objects \cup {None}]], NEW groups, NEW id
  PROVE  Removal(groups, id) \in [Groups -> [Ids -> Objects \cup {None}]]
<1> SUFFICES ASSUME NEW g \in Groups
             PROVE  Removal(groups, id)[g] \in [Ids -> Objects \cup {None}]
  BY DEF Removal
<1> QED BY DEF Removal

(* What emplace() ...                                                       *)
LEMMA EmplaceValue ==
  ASSUME byGroup \in [Groups -> [Ids -> Objects \cup {None}]], NEW p, NEW o,
         NEW g \in Groups, NEW i \in Ids
  PROVE  Emplace(o, p)[g][i] =
           IF i = p.id /\ g \in p.groups /\ byGroup[g][i] = None THEN o ELSE byGroup[g][i]
  BY DEF Emplace

(* ... and removePeerFromGroupAddresses do to each entry.                   *)
LEMMA RemovalValue ==
  ASSUME byGroup \in [Groups -> [Ids -> Objects \cup {None}]], NEW groups, NEW id,
         NEW g \in Groups, NEW i \in Ids
  PROVE  Removal(groups, id)[g][i] =
           IF i = id /\ g \in groups THEN None ELSE byGroup[g][i]
  BY DEF Removal

(* The type invariant is kept by each step.                                 *)
LEMMA StepTypes ==
  ASSUME TypesInv, [Next]_vars
  PROVE  TypesInv'
<1> USE DEF vars, storeVars, indexVars, adminVars, deleteVars, setVars, ghostVars
<1> USE DEF TypesInv, IndexTypes, StoreTypes, AdminTypes, CallTypes
<1>0. None \notin Objects /\ None \notin Ids
  BY NoneAssumption DEF Objects, Ids
<1>1. CASE SearchDevices \/ UpdateDevices
  <2>1. AdminTypes' /\ StoreTypes' /\ CallTypes'
    BY <1>1 DEF SearchDevices, UpdateDevices, Begin, Objects
  <2>2. IndexTypes'
    BY <1>1 DEF SearchDevices, UpdateDevices, Begin, Objects
  <2> QED BY <2>1, <2>2
<1>2. CASE Import
  <2>0. PICK found \in SUBSET Serials : \E groups \in [found -> SUBSET Groups] :
          /\ infos' = found /\ todo' = found
          /\ files' = [s \in Serials |-> IF s \in found THEN groups[s] ELSE files[s]]
    BY <1>2 DEF Import
  <2>1. PICK groups \in [found -> SUBSET Groups] :
          /\ infos' = found /\ todo' = found
          /\ files' = [s \in Serials |-> IF s \in found THEN groups[s] ELSE files[s]]
    BY <2>0
  <2>2. files' \in [Serials -> (SUBSET Groups) \cup {None}]
    BY <2>1
  <2> QED BY <1>2, <2>1, <2>2 DEF Import, Objects
<1>3. CASE RemoveUpdated \/ RemoveDone
  <2>1. CASE RemoveUpdated
    <3>1. PICK s \in todo :
       /\ todo' = todo \ {s}
       /\ peer' = bySerial[s]
       /\ IF bySerial[s] = None THEN UNCHANGED <<byId, bySerial, outdated>>
          ELSE Erase(objects[bySerial[s]].id, s) /\ outdated' = outdated \ {s}
      BY <2>1 DEF RemoveUpdated
    <3>2. bySerial[s] \in Objects \cup {None}
      BY <2>1 DEF RemoveUpdated
    <3>3. IndexTypes'
      BY <2>1, <3>1 DEF RemoveUpdated, Erase, Objects
    <3> QED BY <2>1, <3>1, <3>2, <3>3 DEF RemoveUpdated, Objects
  <2>2. CASE RemoveDone
    BY <2>2 DEF RemoveDone, Objects
  <2> QED BY <1>3, <2>1, <2>2
<1>4. CASE RemoveUpdatedGroups
  BY <1>4, RemovalType DEF RemoveUpdatedGroups, Objects
<1>5. CASE Reload
  BY <1>5 DEF Reload, Objects
<1>6. CASE LoadPeer
  <2>1. PICK row \in todo :
       /\ todo' = todo \ {row}
       /\ IF devices[row[2]] = None THEN UNCHANGED <<objects, indexVars, outdated>>
          ELSE /\ Make(Peer(row[1], row[2]))
               /\ Insert(Len(objects) + 1, Peer(row[1], row[2]))
    BY <1>6 DEF LoadPeer
  <2>2. row[1] \in Ids /\ row[2] \in Serials /\ todo' \subseteq Ids \X Serials
    BY <1>6, <2>1 DEF LoadPeer
  <2>3. CASE devices[row[2]] = None
    BY <1>6, <2>1, <2>2, <2>3 DEF LoadPeer, Objects
  <2>4. CASE devices[row[2]] # None
    <3> DEFINE p == Peer(row[1], row[2])
    <3>1. p \in ObjectType /\ p.id \in Ids /\ p.serial \in Serials
      BY <2>2, <2>4 DEF Peer, ObjectType
    <3> HIDE DEF p
    <3>2. Make(p) /\ Insert(Len(objects) + 1, p)
      BY <2>1, <2>4 DEF p
    <3>3. IndexTypes'
      BY <3>1, <3>2, MadeObject, EmplaceType DEF Insert, Objects
    <3> QED BY <1>6, <2>2, <3>2, <3>3 DEF LoadPeer, Objects, Make
  <2> QED BY <2>3, <2>4
<1>7. CASE LoadDone
  BY <1>7 DEF LoadDone, Objects
<1>8. CASE CreatePeer
  <2>1. PICK s \in todo :
       /\ todo' = todo \ {s}
       /\ IF bySerial[s] # None \/ devices[s] = None THEN UNCHANGED <<rows, used, objects, peer>>
          ELSE Create(s)
    BY <1>8 DEF CreatePeer
  <2>2. CASE UNCHANGED <<rows, used, objects, peer>>
    BY <1>8, <2>1, <2>2 DEF CreatePeer, Objects
  <2>3. CASE Create(s) /\ devices[s] # None
    <3>1. PICK i \in Ids \ used : /\ rows' = [rows EXCEPT ![i] = s] /\ used' = used \cup {i}
                                  /\ Make(Peer(i, s)) /\ peer' = Len(objects) + 1
      BY <2>3 DEF Create
    <3>2. Peer(i, s) \in ObjectType
      BY <1>8, <2>3 DEF Peer, ObjectType, CreatePeer
    <3> QED BY <1>8, <2>1, <3>1, <3>2, MadeObject DEF CreatePeer, Objects
  <2> QED BY <2>1, <2>2, <2>3
<1>9. CASE InsertCreated
  <2>1. objects[peer] \in ObjectType /\ peer \in Objects
    BY <1>9 DEF InsertCreated, Objects
  <2>2. IndexTypes'
    BY <1>9, <2>1, EmplaceType DEF InsertCreated, Insert, Objects, ObjectType
  <2> QED BY <1>9, <2>2 DEF InsertCreated, Objects
<1>10. CASE CreateDone
  BY <1>10 DEF CreateDone, Objects
<1>11. ASSUME NEW d \in Deleters, Delete(d) PROVE TypesInv'
  <2>1. CASE DeletePeer(d)
    BY <1>0, <2>1 DEF DeletePeer, DeleteGoes, Objects
  <2>2. CASE DeleteIndex(d)
    BY <2>2 DEF DeleteIndex, DeleteGoes, Erase, Objects
  <2>3. CASE DeleteGroups(d)
    BY <2>3, RemovalType DEF DeleteGroups, DeleteGoes, Objects
  <2>4. CASE DeleteRow(d)
    BY <2>4 DEF DeleteRow, DeleteGoes, Objects
  <2>5. CASE DeleteFile(d)
    <3>1. files' \in [Serials -> (SUBSET Groups) \cup {None}]
      BY <2>5 DEF DeleteFile
    <3> QED BY <2>5, <3>1 DEF DeleteFile, DeleteGoes, Objects
  <2> QED BY <1>11, <2>1, <2>2, <2>3, <2>4, <2>5 DEF Delete
<1>12. CASE SetPeerId
  <2>1. PICK old \in Ids, new \in Ids \ used :
       /\ byId[old] # None
       /\ sold' = old /\ sobj' = byId[old] /\ used' = used \cup {new}
       /\ byId' = [byId EXCEPT ![old] = None, ![new] = byId[old]]
       /\ objects' = [objects EXCEPT ![byId[old]].id = new]
       /\ rows' = [rows EXCEPT ![old] = None, ![new] = rows[old]]
    BY <1>12 DEF SetPeerId
  <2>2. byId[old] \in Objects
    BY <2>1
  <2>3. objects' \in Seq(ObjectType) /\ Objects' = Objects
    BY <2>1, <2>2, RenumberedObject
  <2> QED BY <1>0, <1>12, <2>1, <2>2, <2>3 DEF SetPeerId
<1>13. CASE SetGroupsRemove
  BY <1>13, RemovalType DEF SetGroupsRemove, Objects
<1>14. CASE SetGroupsInsert
  BY <1>14, EmplaceType DEF SetGroupsInsert, Objects
<1>15. CASE UNCHANGED vars
  BY <1>15 DEF Objects
<1> QED BY <1>1, <1>2, <1>3, <1>4, <1>5, <1>6, <1>7, <1>8, <1>9, <1>10, <1>11, <1>12, <1>13,
           <1>14, <1>15 DEF Next, Admin, Renumber

(* To find the owners after a step is enough.                               *)
LEMMA OwnerKept ==
  ASSUME NEW owner \in [used' -> Serials], Owned(owner)',
         \A s \in Serials : bySerial'[s] # None => objects'[bySerial'[s]].serial = s
  PROVE  OwnerInv'
  BY DEF OwnerInv

(* Each step keeps the owners: an id that it begins to use was not given    *)
(* out before, or is used for its owner.                                    *)
LEMMA StepOwner ==
  ASSUME TypesInv, OwnerInv, [Next]_vars
  PROVE  OwnerInv'
<1> USE DEF vars, storeVars, indexVars, adminVars, deleteVars, setVars, ghostVars
<1> USE DEF TypesInv, IndexTypes, StoreTypes, AdminTypes, CallTypes
<1>0. None \notin Objects /\ None \notin Ids /\ None \notin Serials
  BY NoneAssumption DEF Objects, Ids
<1>a. PICK owner \in [used -> Serials] : Owned(owner)
  BY DEF OwnerInv
<1>b. \A s \in Serials : bySerial[s] # None => objects[bySerial[s]].serial = s
  BY DEF OwnerInv
<1>1. CASE SearchDevices \/ UpdateDevices
  <2>1. Owned(owner)' /\ used' = used /\ objects' = objects
    BY <1>1, <1>a
         DEF SearchDevices, UpdateDevices, Begin, Objects, Owned, RowsOwned, ObjectsOwned,
             IndexesOwned, CallsOwned
  <2>2. bySerial' = bySerial \/ bySerial' = [s \in Serials |-> None]
    BY <1>1 DEF SearchDevices, UpdateDevices
  <2> QED BY <1>a, <1>b, <2>1, <2>2, OwnerKept
<1>2. CASE Import \/ RemoveDone \/ LoadDone \/ CreateDone
  <2>1. Owned(owner)' /\ UNCHANGED <<used, objects, bySerial>>
    BY <1>2, <1>a
         DEF Import, RemoveDone, LoadDone, CreateDone, Objects, Owned, RowsOwned, ObjectsOwned,
             IndexesOwned, CallsOwned
  <2> QED BY <1>a, <1>b, <2>1, OwnerKept
<1>3. CASE RemoveUpdated
  <2>1. PICK s \in todo :
       IF bySerial[s] = None THEN UNCHANGED <<byId, bySerial>>
       ELSE Erase(objects[bySerial[s]].id, s)
    BY <1>3 DEF RemoveUpdated
  <2>2. /\ \A i \in Ids : byId'[i] = byId[i] \/ byId'[i] = None
        /\ \A r \in Serials : bySerial'[r] = bySerial[r] \/ bySerial'[r] = None
    BY <2>1 DEF Erase
  <2>3. Owned(owner)' /\ UNCHANGED <<used, objects>>
    BY <1>3, <1>a, <2>2
         DEF RemoveUpdated, Objects, Owned, RowsOwned, ObjectsOwned, IndexesOwned, CallsOwned
  <2> QED BY <1>a, <1>b, <2>2, <2>3, OwnerKept
<1>4. CASE RemoveUpdatedGroups
  <2>1. \A g \in Groups, i \in Ids : byGroup'[g][i] = byGroup[g][i] \/ byGroup'[g][i] = None
    BY <1>4 DEF RemoveUpdatedGroups, Removal
  <2>2. Owned(owner)' /\ UNCHANGED <<used, objects, bySerial>>
    BY <1>4, <1>a, <2>1
         DEF RemoveUpdatedGroups, Objects, Owned, RowsOwned, ObjectsOwned, IndexesOwned, CallsOwned
  <2> QED BY <1>a, <1>b, <2>2, OwnerKept
<1>5. CASE Reload
  <2>1. \A row \in todo' : row[1] \in used /\ owner[row[1]] = row[2]
    BY <1>5, <1>a DEF Reload, Owned, RowsOwned, ObjectsOwned, IndexesOwned, CallsOwned
  <2>2. Owned(owner)' /\ UNCHANGED <<used, objects, bySerial>>
    BY <1>5, <1>a, <2>1
         DEF Reload, Objects, Owned, RowsOwned, ObjectsOwned, IndexesOwned, CallsOwned
  <2> QED BY <1>a, <1>b, <2>2, OwnerKept
<1>6. CASE LoadPeer
  <2>1. PICK row \in todo :
       /\ todo' = todo \ {row}
       /\ IF devices[row[2]] = None THEN UNCHANGED <<objects, indexVars, outdated>>
          ELSE /\ Make(Peer(row[1], row[2]))
               /\ Insert(Len(objects) + 1, Peer(row[1], row[2]))
    BY <1>6 DEF LoadPeer
  <2>2. /\ row[1] \in Ids /\ row[2] \in Serials /\ row[1] \in used /\ owner[row[1]] = row[2]
        /\ todo' \subseteq todo
    BY <1>6, <1>a, <2>1 DEF LoadPeer, Owned, RowsOwned, ObjectsOwned, IndexesOwned, CallsOwned
  <2>3. CASE devices[row[2]] = None
    <3>1. Owned(owner)' /\ UNCHANGED <<used, objects, bySerial>>
      BY <1>6, <1>a, <2>1, <2>2, <2>3
         DEF LoadPeer, Objects, Owned, RowsOwned, ObjectsOwned, IndexesOwned, CallsOwned
    <3> QED BY <1>a, <1>b, <3>1, OwnerKept
  <2>4. CASE devices[row[2]] # None
    <3> DEFINE p == Peer(row[1], row[2])
    <3>1. p \in ObjectType /\ p.id = row[1] /\ p.serial = row[2]
      BY <2>2, <2>4 DEF Peer, ObjectType
    <3> HIDE DEF p
    <3>2. Make(p) /\ Insert(Len(objects) + 1, p)
      BY <2>1, <2>4 DEF p
    <3>3. /\ \A o \in Objects : o \in Objects' /\ objects'[o] = objects[o]
          /\ Len(objects) + 1 \in Objects' /\ objects'[Len(objects) + 1] = p
          /\ \A o \in Objects' : o \in Objects \/ o = Len(objects) + 1
      BY <3>1, <3>2, MadeObject
    <3>4. ObjectsOwned(owner)' /\ used' = used
      BY <1>6, <1>a, <2>2, <3>1, <3>3
           DEF LoadPeer, Owned, RowsOwned, ObjectsOwned, IndexesOwned, CallsOwned
    <3>5. /\ \A i \in Ids : byId'[i] = byId[i] \/ (i = p.id /\ byId'[i] = Len(objects) + 1)
          /\ \A r \in Serials :
               bySerial'[r] = bySerial[r] \/ (r = p.serial /\ bySerial'[r] = Len(objects) + 1)
          /\ \A g \in Groups, i \in Ids :
               byGroup'[g][i] = byGroup[g][i] \/ (i = p.id /\ byGroup'[g][i] = Len(objects) + 1)
      BY <3>2, EmplaceValue DEF Insert
    <3>a. p.id \in used' /\ owner[p.id] = objects'[Len(objects) + 1].serial
      BY <2>2, <3>1, <3>3, <3>4
    <3>6. IndexesOwned(owner)'
      <4>1. ASSUME NEW i \in Ids, byId'[i] # None
            PROVE  i \in used' /\ owner[i] = objects'[byId'[i]].serial
        BY <4>1, <1>a, <3>3, <3>4, <3>5, <3>a DEF Owned, IndexesOwned
      <4>2. ASSUME NEW g \in Groups, NEW i \in Ids, byGroup'[g][i] # None
            PROVE  i \in used' /\ owner[i] = objects'[byGroup'[g][i]].serial
        BY <4>2, <1>a, <3>3, <3>4, <3>5, <3>a DEF Owned, IndexesOwned
      <4> QED BY <4>1, <4>2 DEF IndexesOwned
    <3>7. CallsOwned(owner)' /\ RowsOwned(owner)'
      BY <1>6, <1>a, <2>2, <3>3, <3>4
           DEF LoadPeer, Owned, RowsOwned, ObjectsOwned, IndexesOwned, CallsOwned
    <3>8. \A r \in Serials : bySerial'[r] # None => objects'[bySerial'[r]].serial = r
      BY <1>b, <3>1, <3>3, <3>5
    <3> QED BY <1>a, <3>4, <3>6, <3>7, <3>8, OwnerKept DEF Owned
  <2> QED BY <2>3, <2>4
<1>7. CASE CreatePeer
  <2>1. PICK s \in todo :
       /\ todo' = todo \ {s}
       /\ IF bySerial[s] # None \/ devices[s] = None THEN UNCHANGED <<rows, used, objects, peer>>
          ELSE Create(s)
    BY <1>7 DEF CreatePeer
  <2>2. CASE UNCHANGED <<rows, used, objects, peer>>
    <3>1. Owned(owner)' /\ UNCHANGED <<used, objects, bySerial>>
      BY <1>7, <1>a, <2>2
           DEF CreatePeer, Objects, Owned, RowsOwned, ObjectsOwned, IndexesOwned, CallsOwned
    <3> QED BY <1>a, <1>b, <3>1, OwnerKept
  <2>3. CASE Create(s) /\ devices[s] # None
    <3>1. PICK i \in Ids \ used : /\ rows' = [rows EXCEPT ![i] = s] /\ used' = used \cup {i}
                                  /\ Make(Peer(i, s)) /\ peer' = Len(objects) + 1
      BY <2>3 DEF Create
    <3>2. Peer(i, s) \in ObjectType /\ Peer(i, s).id = i /\ Peer(i, s).serial = s /\ s \in Serials
      BY <1>7, <2>3 DEF Peer, ObjectType, CreatePeer
    <3>3. /\ \A o \in Objects : o \in Objects' /\ objects'[o] = objects[o]
          /\ objects'[Len(objects) + 1] = Peer(i, s)
          /\ \A o \in Objects' : o \in Objects \/ o = Len(objects) + 1
      BY <3>1, <3>2, MadeObject
    <3>a. i \in used' /\ \A j \in used : j \in used'
      BY <3>1
    <3>4. PICK owner2 \in [used' -> Serials] : owner2[i] = s /\ \A j \in used : owner2[j] = owner[j]
      <4> DEFINE owner2 == [j \in used' |-> IF j = i THEN s ELSE owner[j]]
      <4>1. owner2 \in [used' -> Serials] /\ owner2[i] = s /\ \A j \in used : owner2[j] = owner[j]
        BY <3>1, <3>2
      <4> QED BY <4>1
    <3>5. RowsOwned(owner2)' /\ CallsOwned(owner2)'
      BY <1>7, <1>a, <3>1, <3>3, <3>a, <3>4
           DEF CreatePeer, Owned, RowsOwned, ObjectsOwned, IndexesOwned, CallsOwned
    <3>6. ObjectsOwned(owner2)'
      BY <1>a, <3>2, <3>3, <3>a, <3>4 DEF Owned, RowsOwned, ObjectsOwned, IndexesOwned, CallsOwned
    <3>7. /\ IndexesOwned(owner2)'
          /\ \A r \in Serials : bySerial'[r] # None => objects'[bySerial'[r]].serial = r
      BY <1>7, <1>a, <1>b, <3>3, <3>a, <3>4, SMTT(40)
           DEF CreatePeer, Owned, RowsOwned, ObjectsOwned, IndexesOwned, CallsOwned
    <3> QED BY <3>4, <3>5, <3>6, <3>7, OwnerKept DEF Owned
  <2> QED BY <2>1, <2>2, <2>3
<1>8. CASE InsertCreated
  <2> DEFINE p == objects[peer]
  <2>1. p \in ObjectType /\ peer \in Objects
    BY <1>8 DEF InsertCreated, Objects
  <2>2. p.id \in used /\ owner[p.id] = p.serial
    BY <1>a, <2>1 DEF Owned, RowsOwned, ObjectsOwned, IndexesOwned, CallsOwned
  <2>3. /\ \A i \in Ids : byId'[i] = byId[i] \/ (i = p.id /\ byId'[i] = peer)
        /\ \A r \in Serials : bySerial'[r] = bySerial[r] \/ (r = p.serial /\ bySerial'[r] = peer)
        /\ \A g \in Groups, i \in Ids : byGroup'[g][i] = byGroup[g][i] \/ (i = p.id /\ byGroup'[g][i] = peer)
    BY <1>8, EmplaceValue DEF InsertCreated, Insert
  <2>4. /\ UNCHANGED <<rows, used, objects, apc, dpc, did, dobj, spc, sold, sobj>>
        /\ Objects' = Objects /\ apc = "create"
    BY <1>8 DEF InsertCreated, Objects
  <2>5. IndexesOwned(owner)'
    <3>1. ASSUME NEW i \in Ids, byId'[i] # None
          PROVE  i \in used' /\ owner[i] = objects'[byId'[i]].serial
      BY <3>1, <1>a, <2>2, <2>3, <2>4 DEF Owned, IndexesOwned
    <3>2. ASSUME NEW g \in Groups, NEW i \in Ids, byGroup'[g][i] # None
          PROVE  i \in used' /\ owner[i] = objects'[byGroup'[g][i]].serial
      BY <3>2, <1>a, <2>2, <2>3, <2>4 DEF Owned, IndexesOwned
    <3> QED BY <3>1, <3>2 DEF IndexesOwned
  <2>7. \A r \in Serials : bySerial'[r] # None => objects'[bySerial'[r]].serial = r
    BY <1>b, <2>3, <2>4
  <2>6. RowsOwned(owner)' /\ CallsOwned(owner)' /\ ObjectsOwned(owner)'
    BY <1>a, <2>4 DEF Owned, RowsOwned, ObjectsOwned, IndexesOwned, CallsOwned
  <2> QED BY <1>a, <2>4, <2>5, <2>6, <2>7, OwnerKept DEF Owned
<1>9. ASSUME NEW d \in Deleters, Delete(d) PROVE OwnerInv'
  <2>1. CASE DeletePeer(d)
    <3>1. PICK i \in Ids : /\ byId[i] # None
         /\ did' = [did EXCEPT ![d] = i] /\ dobj' = [dobj EXCEPT ![d] = byId[i]]
      BY <2>1 DEF DeletePeer
    <3>2. Owned(owner)' /\ UNCHANGED <<used, objects, bySerial>>
      BY <1>a, <2>1, <3>1
         DEF DeletePeer, DeleteGoes, Objects, Owned, RowsOwned, ObjectsOwned, IndexesOwned, CallsOwned
    <3> QED BY <1>a, <1>b, <3>2, OwnerKept
  <2>2. CASE DeleteIndex(d)
    <3>1. /\ \A i \in Ids : byId'[i] = byId[i] \/ byId'[i] = None
          /\ \A r \in Serials : bySerial'[r] = bySerial[r] \/ bySerial'[r] = None
      BY <2>2 DEF DeleteIndex, Erase
    <3>2. Owned(owner)' /\ UNCHANGED <<used, objects>>
      BY <1>a, <2>2, <3>1
         DEF DeleteIndex, DeleteGoes, Objects, Owned, RowsOwned, ObjectsOwned, IndexesOwned, CallsOwned
    <3> QED BY <1>a, <1>b, <3>1, <3>2, OwnerKept
  <2>3. CASE DeleteGroups(d)
    <3>1. \A g \in Groups, i \in Ids : byGroup'[g][i] = byGroup[g][i] \/ byGroup'[g][i] = None
      BY <2>3 DEF DeleteGroups, Removal
    <3>2. Owned(owner)' /\ UNCHANGED <<used, objects, bySerial>>
      BY <1>a, <2>3, <3>1
         DEF DeleteGroups, DeleteGoes, Objects, Owned, RowsOwned, ObjectsOwned, IndexesOwned, CallsOwned
    <3> QED BY <1>a, <1>b, <3>2, OwnerKept
  <2>4. CASE DeleteRow(d)
    <3>1. \A i \in Ids : rows'[i] = rows[i] \/ rows'[i] = None
      BY <2>4 DEF DeleteRow
    <3>2. Owned(owner)' /\ UNCHANGED <<used, objects, bySerial>>
      BY <1>a, <2>4, <3>1
         DEF DeleteRow, DeleteGoes, Objects, Owned, RowsOwned, ObjectsOwned, IndexesOwned, CallsOwned
    <3> QED BY <1>a, <1>b, <3>2, OwnerKept
  <2>5. CASE DeleteFile(d)
    <3>1. Owned(owner)' /\ UNCHANGED <<used, objects, bySerial>>
      BY <1>a, <2>5
         DEF DeleteFile, DeleteGoes, Objects, Owned, RowsOwned, ObjectsOwned, IndexesOwned, CallsOwned
    <3> QED BY <1>a, <1>b, <3>1, OwnerKept
  <2> QED BY <1>9, <2>1, <2>2, <2>3, <2>4, <2>5 DEF Delete
<1>10. CASE SetPeerId
  <2>1. PICK old \in Ids, new \in Ids \ used :
       /\ byId[old] # None
       /\ sold' = old /\ sobj' = byId[old] /\ used' = used \cup {new}
       /\ byId' = [byId EXCEPT ![old] = None, ![new] = byId[old]]
       /\ objects' = [objects EXCEPT ![byId[old]].id = new]
       /\ rows' = [rows EXCEPT ![old] = None, ![new] = rows[old]]
    BY <1>10 DEF SetPeerId
  <2> DEFINE o == byId[old]
             s == objects[o].serial
  <2>2. o \in Objects /\ s \in Serials /\ old \in used /\ owner[old] = s
    BY <1>a, <2>1 DEF Objects, ObjectType, Owned, RowsOwned, ObjectsOwned, IndexesOwned, CallsOwned
  <2>c. objects' = [objects EXCEPT ![o].id = new] /\ objects[o].serial = s /\ used' = used \cup {new}
    BY <2>1
  <2>b. /\ byId[old] # None /\ sold' = old /\ sobj' = o
        /\ byId' = [byId EXCEPT ![old] = None, ![new] = o]
        /\ rows' = [rows EXCEPT ![old] = None, ![new] = rows[old]]
        /\ UNCHANGED <<bySerial, byGroup, apc, todo, dpc, did, dobj>>
    BY <1>10, <2>1 DEF SetPeerId
  <2> HIDE DEF o, s
  <2>3. /\ Objects' = Objects /\ objects'[o].id = new
        /\ \A p \in Objects : /\ objects'[p].serial = objects[p].serial
                              /\ p # o => objects'[p] = objects[p]
    <3>1. objects \in Seq(ObjectType)
      OBVIOUS
    <3> HIDE DEF TypesInv, IndexTypes
    <3> QED BY <2>c, <2>2, <3>1, RenumberedObject
  <2>a. new \in used' /\ \A j \in used : j \in used'
    BY <2>c
  <2>4. PICK owner2 \in [used' -> Serials] : owner2[new] = s /\ \A j \in used : owner2[j] = owner[j]
    <3> DEFINE owner2 == [j \in used' |-> IF j = new THEN s ELSE owner[j]]
    <3>1. owner2 \in [used' -> Serials] /\ owner2[new] = s /\ \A j \in used : owner2[j] = owner[j]
      BY <2>1, <2>2
    <3> QED BY <3>1
  <2>5. RowsOwned(owner2)'
    BY <1>a, <2>b, <2>2, <2>a, <2>4 DEF Owned, RowsOwned, ObjectsOwned, IndexesOwned, CallsOwned
  <2>6. ObjectsOwned(owner2)'
    BY <1>a, <2>2, <2>3, <2>c, <2>a, <2>4
         DEF Owned, RowsOwned, ObjectsOwned, IndexesOwned, CallsOwned
  <2>7. /\ IndexesOwned(owner2)'
        /\ \A r \in Serials : bySerial'[r] # None => objects'[bySerial'[r]].serial = r
    <3>1. ASSUME NEW i \in Ids, byId'[i] # None
          PROVE  i \in used' /\ owner2[i] = objects'[byId'[i]].serial
      BY <3>1, <1>a, <2>b, <2>c, <2>2, <2>3, <2>a, <2>4 DEF Owned, IndexesOwned
    <3>2. ASSUME NEW g \in Groups, NEW i \in Ids, byGroup'[g][i] # None
          PROVE  i \in used' /\ owner2[i] = objects'[byGroup'[g][i]].serial
      BY <3>2, <1>a, <2>b, <2>3, <2>a, <2>4 DEF Owned, IndexesOwned
    <3>3. \A r \in Serials : bySerial'[r] # None => objects'[bySerial'[r]].serial = r
      BY <1>b, <2>b, <2>3
    <3> QED BY <3>1, <3>2, <3>3 DEF IndexesOwned
  <2>8. CallsOwned(owner2)'
    BY <1>a, <2>b, <2>c, <2>2, <2>3, <2>a, <2>4
         DEF Owned, RowsOwned, ObjectsOwned, IndexesOwned, CallsOwned
  <2> QED BY <2>4, <2>5, <2>6, <2>7, <2>8, OwnerKept DEF Owned
<1>11. CASE SetGroupsRemove
  <2>1. \A g \in Groups, i \in Ids : byGroup'[g][i] = byGroup[g][i] \/ byGroup'[g][i] = None
    BY <1>11 DEF SetGroupsRemove, Removal
  <2>2. Owned(owner)' /\ UNCHANGED <<used, objects, bySerial>>
    BY <1>11, <1>a, <2>1
         DEF SetGroupsRemove, Objects, Owned, RowsOwned, ObjectsOwned, IndexesOwned, CallsOwned
  <2> QED BY <1>a, <1>b, <2>2, OwnerKept
<1>12. CASE SetGroupsInsert
  <2> DEFINE p == objects[sobj]
  <2>1. p \in ObjectType /\ sobj \in Objects
    BY <1>12 DEF SetGroupsInsert, Objects
  <2>2. p.id \in used /\ owner[p.id] = p.serial
    BY <1>a, <2>1 DEF Owned, RowsOwned, ObjectsOwned, IndexesOwned, CallsOwned
  <2>3. \A g \in Groups, i \in Ids : byGroup'[g][i] = byGroup[g][i] \/ (i = p.id /\ byGroup'[g][i] = sobj)
    BY <1>12, EmplaceValue DEF SetGroupsInsert
  <2>4. /\ UNCHANGED <<rows, used, objects, byId, bySerial, apc, todo, dpc, did, dobj>>
        /\ Objects' = Objects /\ spc' = "idle"
    BY <1>12 DEF SetGroupsInsert, Objects
  <2>5. IndexesOwned(owner)'
    BY <1>a, <2>2, <2>3, <2>4 DEF Owned, RowsOwned, ObjectsOwned, IndexesOwned, CallsOwned
  <2>6. RowsOwned(owner)' /\ CallsOwned(owner)' /\ ObjectsOwned(owner)'
    BY <1>a, <2>4 DEF Owned, RowsOwned, ObjectsOwned, IndexesOwned, CallsOwned
  <2> QED BY <1>a, <1>b, <2>4, <2>5, <2>6, OwnerKept DEF Owned
<1>13. CASE UNCHANGED vars
  BY <1>13, <1>a, <1>b, OwnerKept, SMTT(40)
       DEF Objects, Owned, RowsOwned, ObjectsOwned, IndexesOwned, CallsOwned
<1> QED BY <1>1, <1>2, <1>3, <1>4, <1>5, <1>6, <1>7, <1>8, <1>9, <1>10, <1>11, <1>12, <1>13
        DEF Next, Admin, Renumber

(* Whose an id is.                                                          *)
Claims(s, i) ==
  \/ \E o \in Objects : objects[o].id = i /\ objects[o].serial = s
  \/ rows[i] = s \/ Found(s, i) \/ \E g \in Groups : Grouped(s, g, i)
  \/ apc = "load" /\ <<i, s>> \in todo
  \/ \E d \in Deleters : Deletes(d, s) /\ did[d] = i
  \/ spc # "idle" /\ objects[sobj].serial = s /\ sold = i

(* No two devices claim an id, and none an id that was not given out.       *)
LEMMA OneClaim ==
  ASSUME TypesInv, OwnerInv, NEW i \in Ids, NEW s \in Serials, Claims(s, i)
  PROVE  i \in used /\ \A r \in Serials : Claims(r, i) => r = s
<1>1. PICK owner \in [used -> Serials] : Owned(owner)
  BY DEF OwnerInv
<1>2. ASSUME NEW r \in Serials, Claims(r, i) PROVE i \in used /\ owner[i] = r
  <2>1. None # r
    BY NoneAssumption
  <2>2. CASE \E o \in Objects : objects[o].id = i /\ objects[o].serial = r
    BY <1>1, <2>2 DEF Owned, ObjectsOwned
  <2>3. CASE rows[i] = r \/ (apc = "load" /\ <<i, r>> \in todo)
    BY <1>1, <2>1, <2>3 DEF Owned, RowsOwned
  <2>4. CASE Found(r, i) \/ \E g \in Groups : Grouped(r, g, i)
    BY <1>1, <2>4 DEF Owned, IndexesOwned, Found, Grouped
  <2>5. CASE \/ \E d \in Deleters : Deletes(d, r) /\ did[d] = i
             \/ spc # "idle" /\ objects[sobj].serial = r /\ sold = i
    BY <1>1, <2>5 DEF Owned, CallsOwned, Deletes
  <2> QED BY <1>2, <2>2, <2>3, <2>4, <2>5 DEF Claims
<1> QED BY <1>2

(* Nothing changes of what there is of a device but its description, ...    *)
Unmoved(s) ==
  /\ \A o \in Objects : objects[o].serial = s => o \in Objects' /\ objects'[o] = objects[o]
  /\ \A i \in Ids : rows'[i] = s <=> rows[i] = s
  /\ bySerial'[s] = bySerial[s]
  /\ \A i \in Ids : /\ Found(s, i)' <=> Found(s, i)
                    /\ Found(s, i) => byId'[i] = byId[i]
  /\ \A g \in Groups, i \in Ids : /\ Grouped(s, g, i)' <=> Grouped(s, g, i)
                                  /\ Grouped(s, g, i) => byGroup'[g][i] = byGroup[g][i]
  /\ s \in outdated' <=> s \in outdated
Untouched(s) == Unmoved(s) /\ files'[s] = files[s] /\ devices'[s] = devices[s]

(* A device that is not moved keeps its rows, ...                           *)
LEMMA KeptRows ==
  ASSUME NEW s \in Serials, Unmoved(s)
  PROVE  /\ NoRow(s) => NoRow(s)'
         /\ OneRow(s) => OneRow(s)'
         /\ \A i \in Ids : RowAt(s, i) => RowAt(s, i)'
  BY DEF Unmoved, NoRow, OneRow, RowAt

(* ... stays out of the indexes it is not in, ...                           *)
LEMMA KeptIndexes ==
  ASSUME NEW s \in Serials, Unmoved(s)
  PROVE  /\ NoIndex(s) => NoIndex(s)'
         /\ NoGroup(s) => NoGroup(s)'
  BY DEF Unmoved, NoIndex, NoGroup, Found, Grouped

(* ... keeps its objects, ...                                               *)
LEMMA KeptObject ==
  ASSUME NEW s \in Serials, NEW o, NEW i \in Ids, NEW groups, Unmoved(s), Is(s, o, i, groups)
  PROVE  Is(s, o, i, groups)'
  BY DEF Unmoved, Is

(* ... is at the same group addresses, ...                                  *)
LEMMA KeptInside ==
  ASSUME NEW s \in Serials, NEW i \in Ids, NEW groups, Unmoved(s), Inside(s, i, groups)
  PROVE  Inside(s, i, groups)'
  BY DEF Unmoved, Inside, Grouped

(* ... is found by the same id and serial number, ...                       *)
LEMMA KeptIndexed ==
  ASSUME TypesInv, NEW s \in Serials, NEW o, NEW i \in Ids, NEW groups, Unmoved(s),
         Is(s, o, i, groups), Indexed(s, o, i)
  PROVE  Indexed(s, o, i)'
<1>1. o # None
  BY NoneAssumption DEF Is, Objects
<1>2. Found(s, i)
  BY <1>1 DEF Indexed, Found, Is
<1> QED BY <1>2 DEF Indexed, Unmoved, Found

(* ... as the same peer ...                                                 *)
LEMMA KeptPresent ==
  ASSUME TypesInv, NEW s \in Serials, Unmoved(s),
         NEW o, NEW i \in Ids, NEW groups \in SUBSET Groups, PresentAs(s, o, i, groups)
  PROVE  PresentAs(s, o, i, groups)'
<1>1. Is(s, o, i, groups)' /\ Indexed(s, o, i)' /\ Inside(s, i, groups)' /\ RowAt(s, i)'
  BY KeptObject, KeptIndexed, KeptInside, KeptRows DEF PresentAs
<1>2. Reached(s, o, i, groups)'
  BY DEF PresentAs, Reached, Unmoved, Grouped
<1> QED BY <1>1, <1>2 DEF PresentAs

(* ... or not at all, ...                                                   *)
LEMMA KeptThere ==
  ASSUME TypesInv, NEW s \in Serials, Unmoved(s)
  PROVE  /\ Absent(s) => Absent(s)'
         /\ Present(s) => Present(s)'
<1>1. Absent(s) => Absent(s)'
  BY KeptRows, KeptIndexes DEF Absent
<1>2. ASSUME NEW o \in Objects, NEW i \in Ids, NEW groups \in SUBSET Groups, PresentAs(s, o, i, groups)
      PROVE  o \in Objects' /\ PresentAs(s, o, i, groups)'
  <2>1. PresentAs(s, o, i, groups)'
    BY <1>2, KeptPresent
  <2> QED BY <2>1 DEF PresentAs, Is
<1>3. Present(s) => Present(s)'
  BY <1>2 DEF Present
<1> QED BY <1>1, <1>3

(* ... and, when its description stays too, is in order as before.          *)
LEMMA KeptInOrder ==
  ASSUME TypesInv, NEW s \in Serials, Untouched(s)
  PROVE  /\ Absent(s) => Absent(s)'
         /\ Present(s) => Present(s)'
         /\ InOrder(s) => InOrder(s)'
         /\ Cleared(s) => Cleared(s)'
<1>1. Unmoved(s) /\ files'[s] = files[s] /\ devices'[s] = devices[s]
  BY DEF Untouched
<1>2. Cleared(s) => Cleared(s)'
  BY <1>1, KeptRows, KeptIndexes DEF Cleared
<1>3. ASSUME NEW o \in Objects, NEW i \in Ids, NEW groups \in SUBSET Groups,
             PresentAs(s, o, i, groups), Described(s, groups)
      PROVE  o \in Objects' /\ PresentAs(s, o, i, groups)' /\ Described(s, groups)'
  <2>1. PresentAs(s, o, i, groups)'
    BY <1>1, <1>3, KeptPresent
  <2> QED BY <1>1, <1>3, <2>1 DEF PresentAs, Is, Described
<1>4. Settles(s) => Settles(s)'
  BY <1>3 DEF Settles
<1> QED BY <1>1, <1>2, <1>4, KeptThere DEF InOrder

(* ... and nothing is done with it.                                         *)
UntouchedCalls(s) ==
  /\ \A d \in Deleters : /\ Deletes(d, s)' <=> Deletes(d, s)
                         /\ Deletes(d, s) => UNCHANGED <<dpc[d], did[d], dobj[d]>>
  /\ Renumbers(s)' <=> Renumbers(s)
  /\ Renumbers(s) => UNCHANGED <<spc, sold, sobj>>
UntouchedAdmin(s) ==
  /\ UNCHANGED <<apc, search, infos>>
  /\ apc # "load" => (s \in todo' <=> s \in todo)
  /\ apc = "load" => \A i \in Ids : <<i, s>> \in todo' <=> <<i, s>> \in todo
  /\ AtHand(s)' <=> AtHand(s)
  /\ AtHand(s) => peer' = peer

(* The same for a peer that updateDevices has taken out, ...                *)
LEMMA KeptTakenOut ==
  ASSUME NEW s \in Serials, Unmoved(s), peer' = peer, TakenOut(s)
  PROVE  TakenOut(s)'
<1>1. PICK o \in Objects, i \in Ids, groups \in SUBSET Groups :
        peer = o /\ Is(s, o, i, groups) /\ NoIndex(s) /\ Inside(s, i, groups) /\ RowAt(s, i)
  BY DEF TakenOut
<1>2. peer' = o /\ Is(s, o, i, groups)' /\ NoIndex(s)' /\ Inside(s, i, groups)' /\ RowAt(s, i)'
  BY <1>1, KeptObject, KeptIndexes, KeptInside, KeptRows
<1>3. o \in Objects'
  BY <1>2 DEF Is
<1> QED BY <1>2, <1>3 DEF TakenOut

(* ... and for one that is created.                                         *)
LEMMA KeptMade ==
  ASSUME NEW s \in Serials, Untouched(s), peer' = peer, Made(s)
  PROVE  Made(s)'
<1>1. PICK o \in Objects, i \in Ids, groups \in SUBSET Groups :
        /\ peer = o /\ Is(s, o, i, groups) /\ NoIndex(s) /\ NoGroup(s) /\ RowAt(s, i)
        /\ Described(s, groups)
  BY DEF Made
<1>2. peer' = o /\ Is(s, o, i, groups)' /\ NoIndex(s)' /\ NoGroup(s)' /\ RowAt(s, i)'
  BY <1>1, KeptObject, KeptIndexes, KeptRows DEF Untouched
<1>3. Described(s, groups)'
  BY <1>1 DEF Described, Untouched
<1>4. o \in Objects'
  BY <1>2 DEF Is
<1> QED BY <1>2, <1>3, <1>4 DEF Made

(* What a search or an update knows of a device it does not touch, ...      *)
LEMMA KeptAdmin ==
  ASSUME TypesInv, NEW s \in Serials, Untouched(s), UntouchedAdmin(s)
  PROVE  /\ Importing(s) => Importing(s)'
         /\ Reloading(s) => Reloading(s)'
         /\ apc = "load" /\ Loading(s) => Loading(s)'
         /\ apc # "load" /\ Removing(s) => Removing(s)'
         /\ apc # "load" /\ Creating(s) => Creating(s)'
<1>1. /\ (s \in infos)' <=> s \in infos
      /\ apc # "load" => ((s \in todo)' <=> s \in todo)
      /\ search' = search /\ files'[s] = files[s] /\ devices'[s] = devices[s]
      /\ AtHand(s)' <=> AtHand(s)
      /\ AtHand(s) => peer' = peer
      /\ bySerial'[s] = bySerial[s]
  BY DEF UntouchedAdmin, Untouched, Unmoved
<1>2. Importing(s) => Importing(s)'
  BY <1>1, KeptInOrder DEF Importing
<1>3. apc # "load" /\ Removing(s) => Removing(s)'
  BY <1>1, KeptInOrder, KeptTakenOut DEF Removing, Untouched
<1>4. Reloading(s) => Reloading(s)'
  BY <1>1, KeptInOrder DEF Reloading
<1>5. apc = "load" /\ Loading(s) => Loading(s)'
  BY <1>1, KeptInOrder DEF Loading, UntouchedAdmin, Untouched, Unmoved
<1>6. apc # "load" /\ Creating(s) => Creating(s)'
  BY <1>1, KeptInOrder, KeptMade DEF Creating
<1> QED BY <1>2, <1>3, <1>4, <1>5, <1>6

(* ... what deletePeer ...                                                  *)
LEMMA KeptDeleting ==
  ASSUME NEW s \in Serials, Untouched(s), UntouchedCalls(s),
         NEW d \in Deleters, Deletes(d, s), Deleting(s, d)
  PROVE  Deleting(s, d)'
<1>1. PICK o \in Objects, i \in Ids, groups \in SUBSET Groups : DeletingAs(s, d, o, i, groups)
  BY DEF Deleting
<1>2. /\ dobj'[d] = o /\ did'[d] = i /\ dpc'[d] = dpc[d]
      /\ bySerial'[s] = None \/ bySerial'[s] = o
      /\ \A j \in Ids : Found(s, j)' => j = i /\ byId'[j] = o
      /\ \A j \in Ids : rows'[j] = s => j = i
  BY <1>1 DEF DeletingAs, UntouchedCalls, Untouched, Unmoved, Found
<1>3. Is(s, o, i, groups)' /\ Inside(s, i, groups)'
  BY <1>1, KeptObject, KeptInside DEF DeletingAs, Untouched
<1>4. DeletingAs(s, d, o, i, groups)'
  BY <1>1, <1>2, <1>3, KeptIndexes, KeptRows DEF DeletingAs, Untouched
<1>5. o \in Objects'
  BY <1>3 DEF Is
<1> QED BY <1>4, <1>5 DEF Deleting

(* ... and what setPeerId know of it, stays true, ...                       *)
LEMMA KeptRenumbering ==
  ASSUME TypesInv, NEW s \in Serials, Untouched(s), UNCHANGED <<spc, sold, sobj>>, Renumbering(s)
  PROVE  Renumbering(s)'
<1>1. PICK o \in Objects, i \in Ids, j \in Ids, groups \in SUBSET Groups : RenumberingAs(s, o, i, j, groups)
  BY DEF Renumbering
<1>2. Is(s, o, i, groups)' /\ Indexed(s, o, i)' /\ RowAt(s, i)'
  BY <1>1, KeptObject, KeptIndexed, KeptRows DEF RenumberingAs, Untouched
<1>3. Described(s, groups)'
  BY <1>1 DEF RenumberingAs, Described, Untouched
<1>4. RenumberingAs(s, o, i, j, groups)'
  BY <1>1, <1>2, <1>3, KeptInside, KeptIndexes DEF RenumberingAs, Untouched
<1>5. o \in Objects'
  BY <1>2 DEF Is
<1> QED BY <1>4, <1>5 DEF Renumbering

(* ... for all calls, ...                                                   *)
LEMMA KeptCalls ==
  ASSUME TypesInv, NEW s \in Serials, DeviceInv(s), Untouched(s), UntouchedCalls(s)
  PROVE  /\ Calm(s)' <=> Calm(s)
         /\ \A d \in Deleters : Deletes(d, s)' => Deleting(s, d)' /\ ~Renumbers(s)'
         /\ Renumbers(s)' => Renumbering(s)'
<1>1. Calm(s)' <=> Calm(s)
  BY DEF Calm, UntouchedCalls
<1>2. \A d \in Deleters : Deletes(d, s)' => Deleting(s, d)' /\ ~Renumbers(s)'
  BY KeptDeleting DEF DeviceInv, UntouchedCalls
<1>3. Renumbers(s)' => Renumbering(s)'
  BY KeptRenumbering DEF DeviceInv, UntouchedCalls
<1> QED BY <1>1, <1>2, <1>3

(* ... and so does all that the invariant says of it.                       *)
LEMMA KeptDevice ==
  ASSUME TypesInv, NEW s \in Serials, DeviceInv(s),
         Untouched(s), UntouchedCalls(s), UntouchedAdmin(s)
  PROVE  DeviceInv(s)'
<1>1. apc' = apc
  BY DEF UntouchedAdmin
<1> QED BY <1>1, KeptCalls, KeptAdmin, KeptInOrder DEF DeviceInv

(* An id that one device claims, and one that is not given out, are no      *)
(* other device's.                                                          *)
LEMMA NotMine ==
  ASSUME TypesInv, OwnerInv, NEW r \in Serials, NEW s \in Serials \ {r}, NEW i \in Ids
  PROVE  /\ Claims(r, i) => ~Claims(s, i)
         /\ i \notin used => ~Claims(s, i)
  BY OneClaim

(* Under an id that a device claims, only its objects are found.            *)
LEMMA Mine ==
  ASSUME TypesInv, OwnerInv, NEW s \in Serials, NEW i \in Ids, Claims(s, i)
  PROVE  /\ byId[i] # None => Found(s, i)
         /\ \A g \in Groups : byGroup[g][i] # None => Grouped(s, g, i)
<1>1. ASSUME NEW o \in Objects PROVE objects[o].serial \in Serials
  <2>1. objects[o] \in ObjectType
    BY DEF TypesInv, IndexTypes, Objects
  <2> QED BY <2>1 DEF ObjectType
<1>2. ASSUME byId[i] # None PROVE Found(s, i)
  <2>1. PICK r \in Serials : objects[byId[i]].serial = r
    BY <1>1, <1>2 DEF TypesInv, IndexTypes
  <2>2. Claims(r, i)
    BY <1>2, <2>1 DEF Claims, Found
  <2> QED BY <1>2, <2>1, <2>2, OneClaim DEF Found
<1>3. ASSUME NEW g \in Groups, byGroup[g][i] # None PROVE Grouped(s, g, i)
  <2>1. PICK r \in Serials : objects[byGroup[g][i]].serial = r
    BY <1>1, <1>3 DEF TypesInv, IndexTypes
  <2>2. Claims(r, i)
    BY <1>3, <2>1 DEF Claims, Grouped
  <2> QED BY <1>3, <2>1, <2>2, OneClaim DEF Grouped
<1> QED BY <1>2, <1>3

(* A step that changes indexes and rows only at the ids of others leaves a  *)
(* device untouched.                                                        *)
Theirs(s, o) == o # None => objects'[o].serial # s
LEMMA OtherDevice ==
  ASSUME TypesInv, NEW s \in Serials, NEW ids \in SUBSET Ids, \A i \in ids : ~Claims(s, i),
         \A o \in Objects : /\ o \in Objects' /\ objects'[o].serial = objects[o].serial
                            /\ objects[o].serial = s => objects'[o] = objects[o],
         \A i \in Ids \ ids : rows'[i] = rows[i] /\ byId'[i] = byId[i],
         \A i \in ids : rows'[i] # s /\ Theirs(s, byId'[i]),
         \A g \in Groups, i \in Ids \ ids : byGroup'[g][i] = byGroup[g][i],
         \A g \in Groups, i \in ids : byGroup'[g][i] = byGroup[g][i] \/ Theirs(s, byGroup'[g][i]),
         bySerial'[s] = bySerial[s], s \in outdated' <=> s \in outdated
  PROVE  Unmoved(s)
<1>0. \A i \in Ids : byId[i] # None => byId[i] \in Objects
  BY DEF TypesInv, IndexTypes
<1>a. \A g \in Groups, i \in Ids : byGroup[g][i] # None => byGroup[g][i] \in Objects
  BY DEF TypesInv, IndexTypes
<1>1. \A i \in Ids : rows'[i] = s <=> rows[i] = s
  BY DEF Claims
<1>2. ASSUME NEW i \in Ids
      PROVE  /\ Found(s, i)' <=> Found(s, i)
             /\ Found(s, i) => byId'[i] = byId[i]
  <2>1. CASE i \in ids
    <3>1. ~Found(s, i)
      BY <2>1 DEF Claims
    <3>2. ~Found(s, i)'
      BY <2>1 DEF Found, Theirs
    <3> QED BY <3>1, <3>2
  <2>2. CASE i \notin ids
    BY <1>0, <2>2 DEF Found
  <2> QED BY <2>1, <2>2
<1>3. ASSUME NEW g \in Groups, NEW i \in Ids
      PROVE  /\ Grouped(s, g, i)' <=> Grouped(s, g, i)
             /\ Grouped(s, g, i) => byGroup'[g][i] = byGroup[g][i]
  <2>1. CASE i \in ids
    <3>1. ~Grouped(s, g, i)
      BY <2>1 DEF Claims
    <3>2. ~Grouped(s, g, i)'
      <4>1. CASE byGroup'[g][i] = byGroup[g][i]
        BY <1>a, <3>1, <4>1 DEF Grouped
      <4>2. CASE Theirs(s, byGroup'[g][i])
        BY <4>2 DEF Grouped, Theirs
      <4> QED BY <2>1, <4>1, <4>2
    <3> QED BY <3>1, <3>2
  <2>2. CASE i \notin ids
    BY <1>a, <2>2 DEF Grouped
  <2> QED BY <2>1, <2>2
<1> QED BY <1>1, <1>2, <1>3 DEF Unmoved

(* What is in order may be imported.                                        *)
LEMMA OrderedOnce ==
  ASSUME NEW s \in Serials, InOrder(s)
  PROVE  OneRow(s) /\ (files[s] = None => NoRow(s))
<1>1. CASE Absent(s)
  BY <1>1 DEF Absent, NoRow, OneRow
<1>2. CASE Settles(s)
  <2>1. PICK o \in Objects, i \in Ids, groups \in SUBSET Groups :
          PresentAs(s, o, i, groups) /\ Described(s, groups)
    BY <1>2 DEF Settles
  <2> QED BY <2>1, NoneAssumption DEF PresentAs, Described, RowAt, OneRow
<1> QED BY <1>1, <1>2 DEF InOrder

(* A step of the thread that holds _searchMutex, for a device no call is at *)
(* work on.                                                                 *)
CallsStay == UNCHANGED <<deleteVars, setVars>> /\ \A o \in Objects : objects'[o].serial = objects[o].serial

(* A device that no call is at work on stays so while it goes on, ...       *)
LEMMA CalmStays ==
  ASSUME TypesInv, NEW s \in Serials, CallsStay, Calm(s)
  PROVE  Calm(s)'
<1>1. ~Renumbers(s)'
  BY DEF TypesInv, CallTypes, Calm, CallsStay, setVars, Renumbers
<1>2. ASSUME NEW d \in Deleters PROVE ~Deletes(d, s)'
  BY DEF TypesInv, CallTypes, Calm, CallsStay, deleteVars, Deletes
<1> QED BY <1>1, <1>2 DEF Calm

(* ... so that the place of that thread alone counts.                       *)
LEMMA CalmDevice ==
  ASSUME NEW s \in Serials, Calm(s)',
         apc' = "idle" => InOrder(s)',
         apc' = "import" => Importing(s)',
         apc' = "remove" => Removing(s)',
         apc' = "reload" => Reloading(s)',
         apc' = "load" => Loading(s)',
         apc' = "create" => Creating(s)'
  PROVE  DeviceInv(s)'
  BY DEF DeviceInv, Calm

(* searchDevices clears all indexes; updateDevices none.  No call is at work *)
(* on the device, or it would be among the mixed ones.                      *)
LEMMA BeginDevice ==
  ASSUME TypesInv, NEW s \in Serials \ mixed', DeviceInv(s), SearchDevices \/ UpdateDevices
  PROVE  DeviceInv(s)'
<1> USE DEF storeVars, deleteVars, setVars, indexVars
<1>1. Begin /\ UNCHANGED objects
  BY DEF SearchDevices, UpdateDevices, Begin
<1>2. Calm(s)
  BY <1>1 DEF Begin, Calm, Deleted, Renumbered, Deletes, Renumbers
<1>3. Calm(s)'
  BY <1>1, <1>2, CalmStays DEF Begin, CallsStay
<1>4. InOrder(s)
  BY <1>1, <1>2 DEF Begin, DeviceInv
<1>5. CASE SearchDevices
  <2>1. OneRow(s) /\ (files[s] = None => NoRow(s))
    BY <1>4, OrderedOnce
  <2>2. NoIndex(s)' /\ NoGroup(s)'
    BY <1>5 DEF SearchDevices, NoIndex, NoGroup, Found, Grouped
  <2>3. Importing(s)'
    BY <1>1, <1>5, <2>1, <2>2 DEF SearchDevices, Begin, Importing, Cleared, OneRow, NoRow
  <2> QED BY <1>1, <1>3, <2>3, CalmDevice DEF Begin
<1>6. CASE UpdateDevices
  <2>1. Untouched(s)
    BY <1>6 DEF UpdateDevices, Begin, Untouched, Unmoved, Found, Grouped, Objects
  <2>2. Importing(s)'
    BY <1>4, <1>6, <2>1, KeptInOrder DEF UpdateDevices, Importing
  <2> QED BY <1>1, <1>3, <2>2, CalmDevice DEF Begin
<1> QED BY <1>5, <1>6

(* The import leaves the indexes and the rows alone, and a description of   *)
(* all it found.                                                            *)
LEMMA ImportDevice ==
  ASSUME TypesInv, NEW s \in Serials \ mixed', DeviceInv(s), Import
  PROVE  DeviceInv(s)'
<1> USE DEF storeVars, deleteVars, setVars, indexVars, ghostVars
<1>1. Calm(s) /\ Importing(s) /\ peer' = None /\ search' = search
  BY DEF Import, DeviceInv, TypesInv, AdminTypes
<1>2. Calm(s)'
  BY <1>1, CalmStays DEF Import, CallsStay
<1>3. PICK found \in SUBSET Serials : \E groups \in [found -> SUBSET Groups] :
        /\ infos' = found /\ todo' = found
        /\ files' = [r \in Serials |-> IF r \in found THEN groups[r] ELSE files[r]]
  BY DEF Import
<1>4. /\ infos' = found /\ todo' = found
      /\ s \in found => files'[s] # None
      /\ s \notin found => files'[s] = files[s]
  <2>1. PICK groups \in [found -> SUBSET Groups] :
        /\ infos' = found /\ todo' = found
        /\ files' = [r \in Serials |-> IF r \in found THEN groups[r] ELSE files[r]]
    BY <1>3
  <2>2. s \in found => groups[s] \in SUBSET Groups
    OBVIOUS
  <2> QED BY <2>1, <2>2, NoneAssumption
<1>5. Unmoved(s) /\ devices' = devices
  BY DEF Import, Unmoved, Found, Grouped, Objects
<1>6. CASE search
  <2>1. Cleared(s)
    BY <1>1, <1>6 DEF Importing
  <2>2. Cleared(s)'
    BY <1>4, <1>5, <2>1, KeptRows, KeptIndexes DEF Cleared
  <2>3. Reloading(s)' /\ apc' = "reload"
    BY <1>1, <1>4, <1>6, <2>2 DEF Import, Reloading
  <2> QED BY <1>2, <2>3, CalmDevice
<1>7. CASE ~search
  <2>1. InOrder(s)
    BY <1>1, <1>7 DEF Importing
  <2>2. s \in found => Absent(s)' \/ Present(s)'
    <3>1. Settles(s) => Present(s)
      BY DEF Settles, Present
    <3> QED BY <1>5, <2>1, <3>1, KeptThere DEF InOrder
  <2>3. s \notin found => InOrder(s)'
    BY <1>4, <1>5, <2>1, KeptInOrder DEF Untouched
  <2>4. Removing(s)' /\ apc' = "remove"
    BY <1>1, <1>4, <1>7, <2>2, <2>3 DEF Import, Removing, AtHand
  <2> QED BY <1>2, <2>4, CalmDevice
<1> QED BY <1>6, <1>7

(* updateDevices takes the peer out of two indexes, and keeps it at hand, ... *)
LEMMA RemoveUpdatedDevice ==
  ASSUME TypesInv, OwnerInv, NEW s \in Serials \ mixed', DeviceInv(s), RemoveUpdated
  PROVE  DeviceInv(s)'
<1> USE DEF storeVars, deleteVars, setVars
<1>1. /\ Calm(s) /\ Removing(s) /\ ~AtHand(s) /\ apc' = "remove" /\ objects' = objects
      /\ rows' = rows /\ byGroup' = byGroup
  BY DEF RemoveUpdated, DeviceInv, AtHand
<1>2. Calm(s)'
  BY <1>1, CalmStays DEF RemoveUpdated, CallsStay
<1>3. PICK r \in todo :
       /\ todo' = todo \ {r}
       /\ peer' = bySerial[r]
       /\ IF bySerial[r] = None THEN UNCHANGED <<byId, bySerial, outdated>>
          ELSE Erase(objects[bySerial[r]].id, r) /\ outdated' = outdated \ {r}
  BY DEF RemoveUpdated
<1>4. apc = "remove" /\ r \in infos /\ r \in Serials /\ infos' = infos /\ files' = files
  BY DEF RemoveUpdated, TypesInv, AdminTypes
<1>5. CASE bySerial[r] = None
  <2>1. Untouched(s)
    BY <1>1, <1>3, <1>5 DEF RemoveUpdated, Untouched, Unmoved, Found, Grouped, Objects
  <2>2. CASE s # r
    <3>1. UntouchedAdmin(s)
      BY <1>1, <1>3, <1>5, <2>2 DEF RemoveUpdated, UntouchedAdmin, AtHand
    <3>2. Removing(s)'
      BY <1>1, <2>1, <3>1, KeptAdmin, <1>4
    <3> QED BY <1>1, <1>2, <3>2, CalmDevice
  <2>3. CASE s = r
    <3>1. Absent(s)
      <4>1. ~Present(s)
        BY <1>5, <2>3, NoneAssumption DEF Present, PresentAs, Indexed, Is, Objects
      <4> QED BY <1>1, <1>3, <2>3, <4>1 DEF Removing
    <3>2. Cleared(s)'
      BY <2>1, <3>1, KeptRows, KeptIndexes DEF Untouched, Absent, Cleared, NoRow, OneRow
    <3>3. ~AtHand(s)' /\ s \notin todo'
      BY <1>3, <1>5, <2>3 DEF AtHand
    <3>4. Removing(s)'
      BY <1>1, <1>4, <2>3, <3>2, <3>3 DEF Removing
    <3> QED BY <1>1, <1>2, <3>4, CalmDevice
  <2> QED BY <2>2, <2>3
<1>6. CASE bySerial[r] # None
  <2>1. PICK o \in Objects : bySerial[r] = o
    BY <1>4, <1>6 DEF TypesInv, IndexTypes
  <2>2. PICK i \in Ids : objects[o].id = i /\ objects[o].serial = r
    <3>1. objects[o] \in ObjectType
      BY DEF TypesInv, IndexTypes, Objects
    <3>2. objects[o].serial = r
      BY <1>4, <1>6, <2>1 DEF OwnerInv
    <3> QED BY <3>1, <3>2 DEF ObjectType
  <2>3. /\ byId' = [byId EXCEPT ![i] = None] /\ bySerial' = [bySerial EXCEPT ![r] = None]
        /\ peer' = o /\ outdated' = outdated \ {r}
    BY <1>3, <1>6, <2>1, <2>2 DEF Erase
  <2>4. CASE s # r
    <3>1. \A j \in {i} : ~Claims(s, j)
      BY <1>4, <2>2, <2>4, NotMine DEF Claims
    <3>2. Unmoved(s)
      <4>1. \A j \in Ids \ {i} : rows'[j] = rows[j] /\ byId'[j] = byId[j]
        BY <1>1, <2>3 DEF TypesInv, IndexTypes
      <4>2. \A j \in {i} : rows'[j] # s /\ Theirs(s, byId'[j])
        BY <1>1, <2>3, <3>1 DEF TypesInv, IndexTypes, Claims, Theirs
      <4>3. bySerial'[s] = bySerial[s] /\ (s \in outdated' <=> s \in outdated)
        BY <2>3, <2>4 DEF TypesInv, IndexTypes
      <4> QED BY <1>1, <3>1, <4>1, <4>2, <4>3, OtherDevice, {i} \in SUBSET Ids DEF Objects
    <3>3. Untouched(s)
      BY <3>2 DEF RemoveUpdated, Untouched
    <3>4. UntouchedAdmin(s)
      BY <1>1, <1>3, <2>2, <2>3, <2>4 DEF RemoveUpdated, UntouchedAdmin, AtHand
    <3>5. Removing(s)'
      BY <1>1, <3>3, <3>4, KeptAdmin, <1>4
    <3> QED BY <1>1, <1>2, <3>5, CalmDevice
  <2>5. CASE s = r
    <3>1. Present(s)
      BY <1>1, <1>3, <1>6, <2>5 DEF Removing, Absent, NoIndex
    <3>2. PICK o2 \in Objects, i2 \in Ids, groups \in SUBSET Groups : PresentAs(s, o2, i2, groups)
      BY <3>1 DEF Present
    <3>3. o2 = o /\ i2 = i
      BY <2>1, <2>2, <2>5, <3>2 DEF PresentAs, Indexed, Is
    <3>4. Is(s, o, i, groups)' /\ Inside(s, i, groups)' /\ RowAt(s, i)'
      BY <1>1, <3>2, <3>3 DEF PresentAs, Is, Inside, RowAt, Grouped, Objects
    <3>5. NoIndex(s)'
      BY <1>1, <2>3, <2>5, <3>2, <3>3
         DEF PresentAs, Indexed, NoIndex, Found, TypesInv, IndexTypes
    <3>6. TakenOut(s)'
      BY <2>3, <3>4, <3>5 DEF TakenOut, Is
    <3>7. s \in infos' \ todo' /\ AtHand(s)'
      BY <1>1, <1>3, <1>4, <2>2, <2>3, <2>5, NoneAssumption DEF AtHand, Objects
    <3>8. Removing(s)'
      BY <1>1, <1>4, <3>6, <3>7 DEF Removing
    <3> QED BY <1>1, <1>2, <3>8, CalmDevice
  <2> QED BY <2>4, <2>5
<1> QED BY <1>5, <1>6

(* ... and out of the index by group address.                               *)
LEMMA RemoveUpdatedGroupsDevice ==
  ASSUME TypesInv, OwnerInv, NEW s \in Serials \ mixed', DeviceInv(s), RemoveUpdatedGroups
  PROVE  DeviceInv(s)'
<1> USE DEF storeVars, deleteVars, setVars, ghostVars
<1>1. /\ Calm(s) /\ Removing(s) /\ apc = "remove" /\ apc' = "remove" /\ peer' = None
      /\ UNCHANGED <<objects, rows, files, byId, bySerial, infos, todo>>
  BY DEF RemoveUpdatedGroups, DeviceInv
<1>2. Calm(s)'
  BY <1>1, CalmStays DEF RemoveUpdatedGroups, CallsStay
<1>3. PICK o \in Objects : peer = o
  BY DEF RemoveUpdatedGroups, TypesInv, AdminTypes
<1>4. objects[o] \in ObjectType
  BY DEF TypesInv, IndexTypes, Objects
<1>5. PICK i \in Ids, r \in Serials, groups \in SUBSET Groups : Is(r, o, i, groups)
  BY <1>4 DEF Is, ObjectType
<1>6. \A g \in Groups, j \in Ids :
        byGroup'[g][j] = IF j = i /\ g \in groups THEN None ELSE byGroup[g][j]
  BY <1>3, <1>5, RemovalValue DEF RemoveUpdatedGroups, Is, TypesInv, IndexTypes
<1>7. CASE s # r
  <2>1. \A j \in {i} : ~Claims(s, j)
    <3>1. Claims(r, i)
      BY <1>5 DEF Claims, Is
    <3> QED BY <1>7, <3>1, NotMine
  <2>2. Unmoved(s)
    <3>1. \A j \in {i} : rows'[j] # s /\ Theirs(s, byId'[j])
      BY <1>1, <2>1 DEF Claims, Theirs, Found
    <3>2. \A g \in Groups, j \in {i} : byGroup'[g][j] = byGroup[g][j] \/ Theirs(s, byGroup'[g][j])
      BY <1>6 DEF Theirs
    <3> QED BY <1>1, <1>6, <2>1, <3>1, <3>2, OtherDevice, {i} \in SUBSET Ids, ZenonT(40)
           DEF Objects, RemoveUpdatedGroups
  <2>3. Untouched(s)
    BY <2>2 DEF RemoveUpdatedGroups, Untouched
  <2>4. UntouchedAdmin(s)
    BY <1>1, <1>3, <1>5, <1>7 DEF RemoveUpdatedGroups, UntouchedAdmin, AtHand, Is
  <2>5. Removing(s)'
    BY <1>1, <2>3, <2>4, KeptAdmin
  <2> QED BY <1>1, <1>2, <2>5, CalmDevice
<1>8. CASE s = r
  <2>1. AtHand(s)
    BY <1>3, <1>5, <1>8, NoneAssumption DEF AtHand, Is, Objects
  <2>2. PICK o2 \in Objects, i2 \in Ids, groups2 \in SUBSET Groups :
          peer = o2 /\ Is(s, o2, i2, groups2) /\ NoIndex(s) /\ Inside(s, i2, groups2) /\ RowAt(s, i2)
    BY <1>1, <2>1 DEF Removing, TakenOut
  <2>3. o2 = o /\ i2 = i /\ groups2 = groups
    BY <1>3, <1>5, <2>2 DEF Is
  <2>4. NoIndex(s)' /\ OneRow(s)'
    BY <1>1, <2>2 DEF NoIndex, Found, OneRow, RowAt
  <2>5. NoGroup(s)'
    BY <1>1, <1>6, <2>2, <2>3 DEF NoGroup, Inside, Grouped
  <2>6. s \in infos \ todo /\ files[s] # None /\ ~AtHand(s)'
    BY <1>1, <2>1 DEF Removing, AtHand
  <2>7. Removing(s)'
    BY <1>1, <2>4, <2>5, <2>6 DEF Removing, Cleared
  <2> QED BY <1>1, <1>2, <2>7, CalmDevice
<1> QED BY <1>7, <1>8

(* Then all that it updates is out of the indexes.                          *)
LEMMA RemoveDoneDevice ==
  ASSUME TypesInv, NEW s \in Serials \ mixed', DeviceInv(s), RemoveDone
  PROVE  DeviceInv(s)'
<1> USE DEF storeVars, indexVars, deleteVars, setVars, ghostVars
<1>1. /\ Calm(s) /\ Removing(s) /\ apc' = "reload" /\ ~search /\ ~AtHand(s) /\ todo = {}
      /\ UNCHANGED <<files, search, infos>>
  BY DEF RemoveDone, DeviceInv, TypesInv, AdminTypes, AtHand
<1>2. Calm(s)'
  BY <1>1, CalmStays DEF RemoveDone, CallsStay
<1>3. Untouched(s)
  BY DEF RemoveDone, Untouched, Unmoved, Found, Grouped, Objects
<1>4. (s \in infos => Cleared(s)) /\ (s \notin infos => InOrder(s)) /\ (s \in infos => files[s] # None)
  BY <1>1 DEF Removing
<1>5. Reloading(s)'
  BY <1>1, <1>3, <1>4, KeptInOrder DEF Reloading
<1> QED BY <1>1, <1>2, <1>5, CalmDevice

(* Each row is going to be loaded, with the description in the file.        *)
LEMMA ReloadDevice ==
  ASSUME TypesInv, NEW s \in Serials \ mixed', DeviceInv(s), Reload
  PROVE  DeviceInv(s)'
<1> USE DEF storeVars, indexVars, deleteVars, setVars, ghostVars
<1>1. Calm(s) /\ Reloading(s) /\ apc' = "load" /\ devices' = files /\ files' = files /\ infos' = infos
  BY DEF Reload, DeviceInv
<1>2. Calm(s)'
  BY <1>1, CalmStays DEF Reload, CallsStay
<1>3. Unmoved(s) /\ rows' = rows
  BY DEF Reload, Unmoved, Found, Grouped, Objects
<1>4. \A i \in Ids : <<i, s>> \in todo' <=> rows[i] = s
  BY NoneAssumption DEF Reload
<1>5. InOrder(s) => InOrder(s)'
  <2>1. Absent(s) => Absent(s)'
    BY <1>3, KeptThere
  <2>2. ASSUME NEW o \in Objects, NEW i \in Ids, NEW groups \in SUBSET Groups,
               PresentAs(s, o, i, groups), Described(s, groups)
        PROVE  o \in Objects' /\ PresentAs(s, o, i, groups)' /\ Described(s, groups)'
    <3>1. PresentAs(s, o, i, groups)'
      BY <1>3, <2>2, KeptPresent
    <3> QED BY <1>1, <2>2, <3>1 DEF PresentAs, Is, Described
  <2>3. Settles(s) => Settles(s)'
    BY <2>2 DEF Settles
  <2> QED BY <2>1, <2>3 DEF InOrder
<1>6. Cleared(s) => Cleared(s)'
  BY <1>1, <1>3, KeptRows, KeptIndexes DEF Cleared
<1>7. CASE InOrder(s)'
  <2>1. Loading(s)'
    BY <1>1, <1>3, <1>4, <1>7 DEF Reloading, Loading
  <2> QED BY <1>1, <1>2, <2>1, CalmDevice
<1>8. CASE Cleared(s) /\ Cleared(s)'
  <2>1. CASE NoRow(s)
    <3>1. Absent(s)'
      BY <1>8, <2>1, <1>3, KeptRows DEF Cleared, Absent
    <3> QED BY <1>7, <3>1 DEF InOrder
  <2>2. CASE ~NoRow(s)
    <3>1. \E i \in Ids : <<i, s>> \in todo'
      BY <1>4, <2>2 DEF NoRow
    <3>2. Loading(s)'
      BY <1>1, <1>3, <1>4, <1>8, <3>1 DEF Reloading, Loading
    <3> QED BY <1>1, <1>2, <3>2, CalmDevice
  <2> QED BY <2>1, <2>2
<1> QED BY <1>1, <1>5, <1>6, <1>7, <1>8 DEF Reloading

(* When all rows are loaded all devices are in order.                       *)
LEMMA LoadDoneDevice ==
  ASSUME TypesInv, NEW s \in Serials \ mixed', DeviceInv(s), LoadDone
  PROVE  DeviceInv(s)'
<1> USE DEF storeVars, indexVars, deleteVars, setVars, ghostVars
<1>1. /\ Calm(s) /\ Loading(s) /\ apc' = "create" /\ todo' = infos /\ infos' = infos /\ peer' = None
      /\ UNCHANGED <<devices, files>>
  BY DEF LoadDone, DeviceInv, TypesInv, AdminTypes
<1>2. Calm(s)'
  BY <1>1, CalmStays DEF LoadDone, CallsStay
<1>3. Untouched(s)
  BY DEF LoadDone, Untouched, Unmoved, Found, Grouped, Objects
<1>4. InOrder(s)
  BY <1>1 DEF LoadDone, Loading
<1>5. Creating(s)'
  BY <1>1, <1>3, <1>4, KeptInOrder DEF Creating, Loading, AtHand
<1> QED BY <1>1, <1>2, <1>5, CalmDevice

(* They are when those without a row are created, too.                      *)
LEMMA CreateDoneDevice ==
  ASSUME TypesInv, NEW s \in Serials \ mixed', DeviceInv(s), CreateDone
  PROVE  DeviceInv(s)'
<1> USE DEF storeVars, indexVars, deleteVars, setVars, ghostVars
<1>1. Calm(s) /\ Creating(s) /\ apc' = "idle" /\ ~AtHand(s)
  BY DEF CreateDone, DeviceInv, AtHand
<1>2. Calm(s)'
  BY <1>1, CalmStays DEF CreateDone, CallsStay
<1>3. Untouched(s)
  BY DEF CreateDone, Untouched, Unmoved, Found, Grouped, Objects
<1>4. InOrder(s)'
  BY <1>1, <1>3, KeptInOrder DEF Creating
<1> QED BY <1>1, <1>2, <1>4, CalmDevice

(* A row becomes a peer.  It replaces the one that was found by id and serial *)
(* number; in the index by group address the old one stays, but it is loaded *)
(* again only if no update took it out, and then it is among the outdated.  *)
LEMMA LoadPeerDevice ==
  ASSUME TypesInv, OwnerInv, NEW s \in Serials \ mixed', DeviceInv(s), LoadPeer
  PROVE  DeviceInv(s)'
<1> USE DEF storeVars, deleteVars, setVars
<1>1. /\ Calm(s) /\ Loading(s) /\ apc = "load" /\ apc' = "load" /\ peer' = peer /\ ~AtHand(s)
      /\ UNCHANGED <<rows, files, devices, used, search, infos, deleteVars, setVars>>
  BY DEF LoadPeer, DeviceInv, TypesInv, AdminTypes, AtHand
<1>2. PICK row \in todo :
       /\ todo' = todo \ {row}
       /\ IF devices[row[2]] = None THEN UNCHANGED <<objects, indexVars, outdated>>
          ELSE /\ Make(Peer(row[1], row[2]))
               /\ Insert(Len(objects) + 1, Peer(row[1], row[2]))
               /\ outdated' = IF byId[row[1]] = None THEN outdated ELSE outdated \cup {row[2]}
  BY DEF LoadPeer
<1>3. PICK i \in Ids, r \in Serials : row = <<i, r>>
  BY DEF LoadPeer, TypesInv, AdminTypes
<1>4. CASE devices[r] = None
  <2>1. UNCHANGED <<objects, indexVars, outdated>>
    BY <1>2, <1>3, <1>4
  <2>2. Untouched(s)
    BY <1>1, <2>1 DEF Untouched, Unmoved, Found, Grouped, Objects, indexVars
  <2>3. CASE s # r
    <3>1. UntouchedAdmin(s)
      BY <1>1, <1>2, <1>3, <2>1, <2>3 DEF UntouchedAdmin, AtHand
    <3>2. Loading(s)'
      BY <1>1, <2>2, <3>1, KeptAdmin
    <3>3. Calm(s)'
      BY <1>1, <2>1, CalmStays DEF CallsStay
    <3> QED BY <1>1, <3>2, <3>3, CalmDevice
  <2>4. CASE s = r
    <3>1. rows[i] = s /\ files[s] = None
      BY <1>1, <1>3, <1>4, <2>4 DEF Loading
    <3>2. InOrder(s) /\ files[s] = None => NoRow(s)
      BY OrderedOnce
    <3> QED BY <1>1, <3>1, <3>2 DEF Loading, Cleared, NoRow
  <2> QED BY <2>3, <2>4
<1>5. CASE devices[r] # None
  <2> DEFINE p == Peer(i, r)
  <2>1. PICK n : n = Len(objects) + 1
    OBVIOUS
  <2>2. /\ Make(p) /\ Insert(n, p)
        /\ outdated' = IF byId[i] = None THEN outdated ELSE outdated \cup {r}
    BY <1>2, <1>3, <1>5, <2>1
  <2>3. PICK groups \in SUBSET Groups : devices[r] = groups
    BY <1>5 DEF TypesInv, StoreTypes
  <2>4. p \in ObjectType /\ p.id = i /\ p.serial = r /\ p.groups = groups
    BY <2>3 DEF Peer, ObjectType
  <2> HIDE DEF p
  <2>5. /\ \A o \in Objects : o \in Objects' /\ objects'[o] = objects[o]
        /\ n \in Objects' /\ objects'[n] = p
    BY <2>1, <2>2, <2>4, MadeObject DEF TypesInv, IndexTypes
  <2>6. n # None
    BY <2>5, NoneAssumption DEF Objects
  <2>7. /\ byId' = [byId EXCEPT ![i] = n] /\ bySerial' = [bySerial EXCEPT ![r] = n]
        /\ \A g \in Groups, j \in Ids :
             byGroup'[g][j] = IF j = i /\ g \in groups /\ byGroup[g][j] = None THEN n ELSE byGroup[g][j]
    BY <2>2, <2>4, EmplaceValue DEF Insert, TypesInv, IndexTypes
  <2>8. Calm(s)'
    BY <1>1, <2>5, CalmStays DEF CallsStay
  <2>9. Claims(r, i)
    BY <1>1, <1>3 DEF Claims
  <2>10. CASE s # r
    <3>1. \A j \in {i} : ~Claims(s, j)
      BY <2>9, <2>10, NotMine
    <3>2. Unmoved(s)
      <4>1. \A j \in Ids \ {i} : rows'[j] = rows[j] /\ byId'[j] = byId[j]
        BY <1>1, <2>7 DEF TypesInv, IndexTypes
      <4>2. \A j \in {i} : rows'[j] # s /\ Theirs(s, byId'[j])
        BY <1>1, <2>4, <2>5, <2>7, <2>10, <3>1 DEF TypesInv, IndexTypes, Claims, Theirs
      <4>3. \A g \in Groups, j \in {i} : byGroup'[g][j] = byGroup[g][j] \/ Theirs(s, byGroup'[g][j])
        BY <2>4, <2>5, <2>7, <2>10 DEF Theirs
      <4>4. \A g \in Groups, j \in Ids \ {i} : byGroup'[g][j] = byGroup[g][j]
        BY <2>7
      <4>5. bySerial'[s] = bySerial[s] /\ (s \in outdated' <=> s \in outdated)
        BY <2>2, <2>7, <2>10 DEF TypesInv, IndexTypes
      <4> QED BY <2>5, <3>1, <4>1, <4>2, <4>3, <4>4, <4>5, OtherDevice, {i} \in SUBSET Ids
    <3>3. Untouched(s)
      BY <1>1, <3>2 DEF Untouched
    <3>4. UntouchedAdmin(s)
      BY <1>1, <1>2, <1>3, <2>5, <2>10 DEF UntouchedAdmin, AtHand, TypesInv, AdminTypes
    <3>5. Loading(s)'
      BY <1>1, <3>3, <3>4, KeptAdmin
    <3> QED BY <1>1, <2>8, <3>5, CalmDevice
  <2>11. CASE s = r
    <3>1. rows[i] = s /\ files[s] = groups /\ RowAt(s, i)
      <4>1. rows[i] = s /\ files[s] = groups
        BY <1>1, <1>3, <2>3, <2>11 DEF Loading
      <4>2. OneRow(s)
        BY <1>1, OrderedOnce DEF Loading, Cleared
      <4> QED BY <4>1, <4>2 DEF RowAt, OneRow
    <3>2. Is(s, n, i, groups)' /\ RowAt(s, i)' /\ Described(s, groups)'
      BY <1>1, <2>3, <2>4, <2>5, <2>11, <3>1 DEF Is, RowAt, Described
    <3>3. /\ \A j \in Ids : Found(s, j) => j = i
          /\ Inside(s, i, groups)
          /\ \A g \in groups : \/ byGroup[g][i] = None /\ byId[i] = None
                               \/ Grouped(s, g, i) /\ byId[i] # None
      <4>1. CASE InOrder(s)
        <5>1. PICK o \in Objects, i2 \in Ids, groups2 \in SUBSET Groups :
                PresentAs(s, o, i2, groups2) /\ Described(s, groups2)
          BY <3>1, <4>1 DEF InOrder, Settles, Absent, NoRow
        <5>2. i2 = i /\ groups2 = groups /\ o # None
          BY <3>1, <5>1, NoneAssumption DEF PresentAs, Described, RowAt, Objects
        <5> QED BY <5>1, <5>2 DEF PresentAs, Indexed, Reached
      <4>2. CASE Cleared(s)
        <5>1. byId[i] = None
          BY <2>9, <2>11, <4>2, Mine DEF Cleared, NoIndex
        <5>2. ASSUME NEW g \in Groups PROVE byGroup[g][i] = None
          BY <2>9, <2>11, <4>2, Mine DEF Cleared, NoGroup
        <5> QED BY <4>2, <5>1, <5>2 DEF Cleared, NoIndex, NoGroup, Inside
      <4> QED BY <1>1, <4>1, <4>2 DEF Loading
    <3>4. Indexed(s, n, i)'
      BY <2>5, <2>7, <2>11, <3>3 DEF Indexed, Found, TypesInv, IndexTypes
    <3>5. Inside(s, i, groups)'
      BY <2>5, <2>7, <3>3 DEF Inside, Grouped, TypesInv, IndexTypes
    <3>6. Reached(s, n, i, groups)'
      BY <2>2, <2>4, <2>5, <2>6, <2>7, <2>11, <3>3 DEF Reached, Grouped, TypesInv, IndexTypes
    <3>7. PresentAs(s, n, i, groups)' /\ n \in Objects'
      BY <2>5, <3>2, <3>4, <3>5, <3>6 DEF PresentAs
    <3>8. InOrder(s)'
      BY <3>2, <3>7 DEF InOrder, Settles
    <3>9. Loading(s)'
      BY <1>1, <1>2, <3>8 DEF Loading
    <3> QED BY <1>1, <2>8, <3>9, CalmDevice
  <2> QED BY <2>10, <2>11
<1> QED BY <1>4, <1>5

(* A device that is in order and without a peer has nothing, so that its new *)
(* row is its only one.                                                     *)
LEMMA CreatePeerDevice ==
  ASSUME TypesInv, OwnerInv, NEW s \in Serials \ mixed', DeviceInv(s), CreatePeer
  PROVE  DeviceInv(s)'
<1> USE DEF deleteVars, setVars, indexVars, ghostVars
<1>1. /\ Calm(s) /\ Creating(s) /\ apc = "create" /\ apc' = "create" /\ peer = None /\ ~AtHand(s)
      /\ UNCHANGED <<files, devices, byId, bySerial, byGroup, search, infos, deleteVars, setVars, outdated>>
  BY DEF CreatePeer, DeviceInv, AtHand
<1>2. PICK r \in todo :
       /\ todo' = todo \ {r}
       /\ IF bySerial[r] # None \/ devices[r] = None
          THEN UNCHANGED <<rows, used, objects, peer>> ELSE Create(r)
  BY DEF CreatePeer
<1>3. r \in Serials /\ r \in infos
  BY <1>1 DEF TypesInv, AdminTypes
<1>4. CASE bySerial[r] # None \/ devices[r] = None
  <2>1. UNCHANGED <<rows, used, objects, peer>>
    BY <1>2, <1>4
  <2>2. Untouched(s)
    BY <1>1, <2>1 DEF Untouched, Unmoved, Found, Grouped, Objects
  <2>3. Calm(s)'
    BY <1>1, <2>1, CalmStays DEF CallsStay
  <2>4. CASE s # r
    <3>1. UntouchedAdmin(s)
      BY <1>1, <1>2, <2>1, <2>4 DEF UntouchedAdmin, AtHand
    <3>2. Creating(s)'
      BY <1>1, <2>2, <3>1, KeptAdmin
    <3> QED BY <1>1, <2>3, <3>2, CalmDevice
  <2>5. CASE s = r
    <3>1. bySerial[s] # None
      BY <1>1, <1>3, <1>4, <2>5 DEF Creating
    <3>2. Creating(s)'
      BY <1>1, <2>1, <2>2, <3>1, KeptInOrder DEF Creating, AtHand
    <3> QED BY <1>1, <2>3, <3>2, CalmDevice
  <2> QED BY <2>4, <2>5
<1>5. CASE bySerial[r] = None /\ devices[r] # None
  <2>1. PICK i \in Ids \ used : /\ rows' = [rows EXCEPT ![i] = r] /\ used' = used \cup {i}
                                /\ Make(Peer(i, r)) /\ peer' = Len(objects) + 1
    BY <1>2, <1>5 DEF Create
  <2> DEFINE p == Peer(i, r)
  <2>2. PICK n : n = Len(objects) + 1
    OBVIOUS
  <2>3. Make(p) /\ peer' = n
    BY <2>1, <2>2
  <2>4. PICK groups \in SUBSET Groups : devices[r] = groups
    BY <1>3, <1>5 DEF TypesInv, StoreTypes
  <2>5. p \in ObjectType /\ p.id = i /\ p.serial = r /\ p.groups = groups
    BY <1>3, <2>4 DEF Peer, ObjectType
  <2> HIDE DEF p
  <2>6. /\ \A o \in Objects : o \in Objects' /\ objects'[o] = objects[o]
        /\ n \in Objects' /\ objects'[n] = p
    BY <2>2, <2>3, <2>5, MadeObject DEF TypesInv, IndexTypes
  <2>7. Calm(s)'
    BY <1>1, <2>6, CalmStays DEF CallsStay
  <2>8. ~Claims(s, i)
    BY <2>1, NotMine, OneClaim
  <2>9. CASE s # r
    <3>1. Unmoved(s)
      <4>1. \A j \in Ids : rows'[j] = s <=> rows[j] = s
        BY <2>1, <2>8, <2>9 DEF TypesInv, StoreTypes, Claims
      <4> QED BY <1>1, <2>6, <4>1 DEF Unmoved, Found, Grouped, TypesInv, IndexTypes
    <3>2. Untouched(s)
      BY <1>1, <3>1 DEF Untouched
    <3>3. UntouchedAdmin(s)
      BY <1>1, <1>2, <2>3, <2>5, <2>6, <2>9 DEF UntouchedAdmin, AtHand
    <3>4. Creating(s)'
      BY <1>1, <3>2, <3>3, KeptAdmin
    <3> QED BY <1>1, <2>7, <3>4, CalmDevice
  <2>10. CASE s = r
    <3>1. Absent(s)
      <4>1. ~Settles(s)
        BY <1>5, <2>10, NoneAssumption DEF Settles, PresentAs, Indexed, Objects
      <4> QED BY <1>1, <4>1 DEF Creating, InOrder
    <3>2. NoIndex(s)' /\ NoGroup(s)'
      BY <1>1, <2>6, <3>1 DEF Absent, NoIndex, NoGroup, Found, Grouped, TypesInv, IndexTypes
    <3>3. RowAt(s, i)'
      BY <2>1, <2>10, <3>1 DEF Absent, NoRow, RowAt, TypesInv, StoreTypes
    <3>4. Is(s, n, i, groups)' /\ Described(s, groups)'
      BY <1>1, <2>4, <2>5, <2>6, <2>10 DEF Is, Described, Creating
    <3>5. Made(s)' /\ AtHand(s)'
      BY <2>3, <2>6, <3>2, <3>3, <3>4, NoneAssumption DEF Made, AtHand, Is, Objects
    <3>6. Creating(s)'
      BY <1>1, <1>2, <1>3, <2>10, <3>5 DEF Creating
    <3> QED BY <1>1, <2>7, <3>6, CalmDevice
  <2> QED BY <2>9, <2>10
<1> QED BY <1>4, <1>5

(* With that row, the new peer in the indexes is in order.                  *)
LEMMA InsertCreatedDevice ==
  ASSUME TypesInv, OwnerInv, NEW s \in Serials \ mixed', DeviceInv(s), InsertCreated
  PROVE  DeviceInv(s)'
<1> USE DEF storeVars, deleteVars, setVars, ghostVars
<1>1. /\ Calm(s) /\ Creating(s) /\ apc = "create" /\ apc' = "create" /\ peer' = None /\ ~AtHand(s)'
      /\ UNCHANGED <<rows, files, devices, objects, search, infos, todo, deleteVars, setVars, outdated>>
      /\ Objects' = Objects
  BY DEF InsertCreated, DeviceInv, AtHand, Objects
<1>2. Calm(s)'
  BY <1>1, CalmStays DEF CallsStay
<1>3. PICK n \in Objects : peer = n
  BY DEF InsertCreated, TypesInv, AdminTypes
<1>4. objects[n] \in ObjectType
  BY DEF TypesInv, IndexTypes, Objects
<1>5. PICK i \in Ids, r \in Serials, groups \in SUBSET Groups : Is(r, n, i, groups)
  BY <1>4 DEF Is, ObjectType
<1>6. /\ byId' = [byId EXCEPT ![i] = n] /\ bySerial' = [bySerial EXCEPT ![r] = n]
      /\ \A g \in Groups, j \in Ids :
           byGroup'[g][j] = IF j = i /\ g \in groups /\ byGroup[g][j] = None THEN n ELSE byGroup[g][j]
  BY <1>3, <1>5, EmplaceValue DEF InsertCreated, Insert, Is, TypesInv, IndexTypes
<1>7. Claims(r, i)
  BY <1>5 DEF Claims, Is
<1>8. CASE s # r
  <2>1. \A j \in {i} : ~Claims(s, j)
    BY <1>7, <1>8, NotMine
  <2>2. Unmoved(s)
    <3>1. \A j \in Ids \ {i} : rows'[j] = rows[j] /\ byId'[j] = byId[j]
      BY <1>1, <1>6 DEF TypesInv, IndexTypes
    <3>2. \A j \in {i} : rows'[j] # s /\ Theirs(s, byId'[j])
      BY <1>1, <1>5, <1>6, <1>8, <2>1 DEF TypesInv, IndexTypes, Claims, Theirs, Is
    <3>3. \A g \in Groups, j \in {i} : byGroup'[g][j] = byGroup[g][j] \/ Theirs(s, byGroup'[g][j])
      BY <1>1, <1>5, <1>6, <1>8 DEF Theirs, Is
    <3>4. \A g \in Groups, j \in Ids \ {i} : byGroup'[g][j] = byGroup[g][j]
      BY <1>6
    <3>5. bySerial'[s] = bySerial[s]
      BY <1>6, <1>8 DEF TypesInv, IndexTypes
    <3> QED BY <1>1, <2>1, <3>1, <3>2, <3>3, <3>4, <3>5, OtherDevice, {i} \in SUBSET Ids
  <2>3. Untouched(s)
    BY <1>1, <2>2 DEF Untouched
  <2>4. UntouchedAdmin(s)
    BY <1>1, <1>3, <1>5, <1>8 DEF UntouchedAdmin, AtHand, Is
  <2>5. Creating(s)'
    BY <1>1, <2>3, <2>4, KeptAdmin
  <2> QED BY <1>1, <1>2, <2>5, CalmDevice
<1>9. CASE s = r
  <2>1. n # None /\ AtHand(s)
    BY <1>3, <1>5, <1>9, NoneAssumption DEF AtHand, Is, Objects
  <2>2. PICK o2 \in Objects, i2 \in Ids, groups2 \in SUBSET Groups :
          /\ peer = o2 /\ Is(s, o2, i2, groups2) /\ NoIndex(s) /\ NoGroup(s) /\ RowAt(s, i2)
          /\ Described(s, groups2)
    BY <1>1, <2>1 DEF Creating, Made
  <2>3. o2 = n /\ i2 = i /\ groups2 = groups
    BY <1>3, <1>5, <2>2 DEF Is
  <2>4. \A g \in Groups : byGroup[g][i] = None
    BY <1>7, <1>9, <2>2, Mine DEF NoGroup
  <2>5. Is(s, n, i, groups)' /\ RowAt(s, i)' /\ Described(s, groups)'
    BY <1>1, <2>2, <2>3 DEF Is, RowAt, Described
  <2>6. Indexed(s, n, i)'
    BY <1>1, <1>6, <1>9, <2>2 DEF Indexed, NoIndex, Found, TypesInv, IndexTypes
  <2>7. Inside(s, i, groups)'
    BY <1>1, <1>6, <2>2 DEF Inside, NoGroup, Grouped
  <2>8. Reached(s, n, i, groups)'
    BY <1>1, <1>6, <2>1, <2>4, <2>5 DEF Reached, Grouped, Is
  <2>9. InOrder(s)'
    BY <1>1, <2>5, <2>6, <2>7, <2>8 DEF InOrder, Settles, PresentAs
  <2>10. Creating(s)'
    BY <1>1, <1>6, <1>9, <2>1, <2>9 DEF Creating, TypesInv, IndexTypes
  <2> QED BY <1>1, <1>2, <2>10, CalmDevice
<1> QED BY <1>8, <1>9

(* A step of an RPC call on the device r, for another device, ...           *)
AdminStays ==
  /\ UNCHANGED <<apc, search, infos, todo, peer>>
  /\ \A o \in Objects : objects'[o].serial = objects[o].serial
LEMMA OtherCall ==
  ASSUME TypesInv, NEW s \in Serials, DeviceInv(s), AdminStays, Untouched(s), UntouchedCalls(s)
  PROVE  DeviceInv(s)'
<1>1. UntouchedAdmin(s)
  BY DEF AdminStays, UntouchedAdmin, AtHand, TypesInv, AdminTypes
<1> QED BY <1>1, KeptDevice

(* ... and for r: no import is under way.                                   *)
LEMMA OwnCall ==
  ASSUME NEW s \in Serials, DeviceInv(s), ~Calm(s), apc' = apc,
         Calm(s)' => InOrder(s)',
         \A d \in Deleters : Deletes(d, s)' => Deleting(s, d)' /\ ~Renumbers(s)',
         Renumbers(s)' => Renumbering(s)'
  PROVE  DeviceInv(s)'
  BY DEF DeviceInv

(* deletePeer keeps what it knows of a device as it goes on.                *)
LEMMA DeletingFacts ==
  ASSUME NEW s \in Serials, NEW d \in Deleters, Deleting(s, d), objects' = objects,
         UNCHANGED <<did[d], dobj[d]>>,
         \A j \in Ids : Found(s, j)' => Found(s, j) /\ byId'[j] = byId[j],
         bySerial'[s] = None \/ bySerial'[s] = bySerial[s],
         \A g \in Groups, j \in Ids : Grouped(s, g, j)' => Grouped(s, g, j),
         \A j \in Ids : rows'[j] = s => rows[j] = s,
         dpc'[d] \in {"groups", "row", "file"} => NoIndex(s)',
         dpc'[d] \in {"row", "file"} => NoGroup(s)',
         dpc'[d] = "file" => NoRow(s)'
  PROVE  Deleting(s, d)'
<1>1. PICK o \in Objects, i \in Ids, groups \in SUBSET Groups : DeletingAs(s, d, o, i, groups)
  BY DEF Deleting
<1>2. dobj'[d] = o /\ did'[d] = i
  BY <1>1 DEF DeletingAs
<1>3. Is(s, o, i, groups)' /\ o \in Objects'
  BY <1>1 DEF DeletingAs, Is, Objects
<1>4. bySerial'[s] = None \/ bySerial'[s] = o
  BY <1>1 DEF DeletingAs
<1>5. \A j \in Ids : Found(s, j)' => j = i /\ byId'[j] = o
  BY <1>1 DEF DeletingAs
<1>6. Inside(s, i, groups)'
  BY <1>1 DEF DeletingAs, Inside
<1>7. \A j \in Ids : rows'[j] = s => j = i
  BY <1>1 DEF DeletingAs
<1>8. DeletingAs(s, d, o, i, groups)'
  BY <1>2, <1>3, <1>4, <1>5, <1>6, <1>7 DEF DeletingAs
<1> QED BY <1>3, <1>8 DEF Deleting

(* deletePeer finds the peer in order, or another one at work deleting it.  *)
LEMMA DeletePeerDevice ==
  ASSUME TypesInv, OwnerInv, NEW s \in Serials \ mixed', DeviceInv(s), NEW d \in Deleters, DeletePeer(d)
  PROVE  DeviceInv(s)'
<1> USE DEF storeVars, indexVars, adminVars, setVars
<1>1. /\ dpc[d] = "idle" /\ dpc' = [dpc EXCEPT ![d] = "index"]
      /\ UNCHANGED <<storeVars, indexVars, adminVars, setVars, outdated>>
  BY DEF DeletePeer, DeleteGoes
<1>2. PICK i \in Ids :
       /\ byId[i] # None
       /\ did' = [did EXCEPT ![d] = i] /\ dobj' = [dobj EXCEPT ![d] = byId[i]]
       /\ LET r == objects[byId[i]].serial IN
            mixed' = IF apc # "idle" \/ r \in Renumbered THEN mixed \cup {r} ELSE mixed
  BY DEF DeletePeer
<1>3. PICK o \in Objects : byId[i] = o
  BY <1>2 DEF TypesInv, IndexTypes
<1>4. /\ did'[d] = i /\ dobj'[d] = o /\ dpc'[d] = "index"
      /\ \A e \in Deleters \ {d} : UNCHANGED <<dpc[e], did[e], dobj[e]>>
  BY <1>1, <1>2, <1>3 DEF TypesInv, CallTypes
<1>5. Untouched(s)
  BY <1>1 DEF Untouched, Unmoved, Found, Grouped, Objects
<1>6. CASE objects[o].serial # s
  <2>1. AdminStays
    BY <1>1 DEF AdminStays
  <2>2. ~Deletes(d, s) /\ ~Deletes(d, s)'
    BY <1>1, <1>4, <1>6 DEF Deletes
  <2>3. \A e \in Deleters : /\ Deletes(e, s)' <=> Deletes(e, s)
                            /\ Deletes(e, s) => UNCHANGED <<dpc[e], did[e], dobj[e]>>
    BY <1>1, <1>4, <2>2 DEF Deletes
  <2>4. UntouchedCalls(s)
    BY <1>1, <2>3 DEF UntouchedCalls, Renumbers
  <2> QED BY <1>5, <2>1, <2>4, OtherCall
<1>7. CASE objects[o].serial = s
  <2>1. apc = "idle" /\ ~Renumbers(s)
    BY <1>2, <1>3, <1>7 DEF Renumbers, Renumbered
  <2>2. ~Renumbers(s)' /\ apc' = "idle"
    BY <1>1, <2>1 DEF Renumbers
  <2>3. Deletes(d, s)'
    BY <1>1, <1>4, <1>7 DEF Deletes
  <2>4. Found(s, i)
    BY <1>2, <1>3, <1>7 DEF Found
  <2>5. PICK groups \in SUBSET Groups :
          /\ Is(s, o, i, groups) /\ bySerial[s] \in {None, o}
          /\ \A j \in Ids : Found(s, j) => j = i /\ byId[j] = o
          /\ Inside(s, i, groups) /\ \A j \in Ids : rows[j] = s => j = i
    <3>1. CASE Calm(s)
      <4>1. InOrder(s)
        BY <2>1, <3>1 DEF DeviceInv
      <4>2. PICK o2 \in Objects, i2 \in Ids, groups \in SUBSET Groups : PresentAs(s, o2, i2, groups)
        BY <2>4, <4>1 DEF InOrder, Settles, Absent, NoIndex
      <4>3. i2 = i /\ o2 = o
        BY <1>3, <2>4, <4>2 DEF PresentAs, Indexed
      <4> QED BY <1>3, <4>2, <4>3 DEF PresentAs, Indexed, RowAt
    <3>2. CASE ~Calm(s)
      <4>1. PICK e \in Deleters : Deletes(e, s)
        BY <2>1, <3>2 DEF Calm
      <4>2. PICK o2 \in Objects, i2 \in Ids, groups \in SUBSET Groups : DeletingAs(s, e, o2, i2, groups)
        BY <4>1 DEF DeviceInv, Deleting
      <4>3. i2 = i /\ o2 = o
        BY <1>3, <2>4, <4>2 DEF DeletingAs
      <4> QED BY <4>2, <4>3 DEF DeletingAs
    <3> QED BY <3>1, <3>2
  <2>6. Deleting(s, d)'
    <3>1. Is(s, o, i, groups)' /\ o \in Objects' /\ Inside(s, i, groups)'
      BY <1>1, <2>5 DEF Is, Inside, Grouped, Objects
    <3>2. DeletingAs(s, d, o, i, groups)'
      BY <1>1, <1>4, <2>5, <3>1 DEF DeletingAs, Found
    <3> QED BY <3>1, <3>2 DEF Deleting
  <2>7. ASSUME NEW e \in Deleters \ {d}, Deletes(e, s)' PROVE Deleting(s, e)'
    <3>1. Deletes(e, s)
      BY <1>1, <1>4, <2>7 DEF Deletes
    <3>2. Deleting(s, e)
      BY <3>1 DEF DeviceInv
    <3>3. PICK o2 \in Objects, i2 \in Ids, groups2 \in SUBSET Groups : DeletingAs(s, e, o2, i2, groups2)
      BY <3>2 DEF Deleting
    <3>4. dpc[e] = "index"
      BY <2>4, <3>1, <3>3 DEF DeletingAs, NoIndex, Deletes, TypesInv, CallTypes
    <3> QED BY <1>1, <1>4, <3>2, <3>4, DeletingFacts DEF Found, Grouped
  <2> QED BY <2>2, <2>3, <2>6, <2>7, <2>1 DEF DeviceInv, Calm
<1> QED BY <1>6, <1>7

(* Nothing is added while a device is deleted.                              *)
Shrinks(s) ==
  /\ \A j \in Ids : Found(s, j)' => Found(s, j) /\ byId'[j] = byId[j]
  /\ bySerial'[s] = None \/ bySerial'[s] = bySerial[s]
  /\ \A g \in Groups, j \in Ids : Grouped(s, g, j)' => Grouped(s, g, j)
  /\ \A j \in Ids : rows'[j] = s => rows[j] = s

(* What is gone stays gone, ...                                             *)
LEMMA ShrunkStays ==
  ASSUME NEW s \in Serials, Shrinks(s)
  PROVE  /\ NoIndex(s) => NoIndex(s)'
         /\ NoGroup(s) => NoGroup(s)'
         /\ NoRow(s) => NoRow(s)'
  BY DEF Shrinks, NoIndex, NoGroup, NoRow

(* ... also for another call that deletes the same device.                  *)
LEMMA OthersDeleting ==
  ASSUME NEW s \in Serials, DeviceInv(s), Shrinks(s), UNCHANGED <<objects, spc, sobj>>,
         NEW e \in Deleters, Deletes(e, s), UNCHANGED <<dpc[e], did[e], dobj[e]>>
  PROVE  Deleting(s, e)' /\ ~Renumbers(s)'
<1>1. Deleting(s, e) /\ ~Renumbers(s)
  BY DEF DeviceInv
<1>2. PICK o \in Objects, i \in Ids, groups \in SUBSET Groups : DeletingAs(s, e, o, i, groups)
  BY <1>1 DEF Deleting
<1>3. /\ dpc'[e] \in {"groups", "row", "file"} => NoIndex(s)'
      /\ dpc'[e] \in {"row", "file"} => NoGroup(s)'
      /\ dpc'[e] = "file" => NoRow(s)'
  BY <1>2, ShrunkStays DEF DeletingAs
<1>4. Deleting(s, e)'
  BY <1>1, <1>3, DeletingFacts DEF Shrinks
<1> QED BY <1>1, <1>4 DEF Renumbers

(* deletePeer goes on to its next place.                                    *)
LEMMA DeletingGoesOn ==
  ASSUME TypesInv, NEW s \in Serials, DeviceInv(s), NEW d \in Deleters, Deletes(d, s), NEW to,
         UNCHANGED <<objects, apc, did, dobj, spc, sobj>>, Shrinks(s),
         dpc' = [dpc EXCEPT ![d] = to], to \in {"groups", "row", "file"},
         NoIndex(s)', to \in {"row", "file"} => NoGroup(s)', to = "file" => NoRow(s)'
  PROVE  DeviceInv(s)'
<1>1. dpc'[d] = to /\ \A e \in Deleters \ {d} : dpc'[e] = dpc[e]
  BY DEF TypesInv, CallTypes
<1>2. \A e \in Deleters : Deletes(e, s)' <=> Deletes(e, s)
  BY <1>1 DEF Deletes
<1>3. Deleting(s, d)'
  <2>1. Deleting(s, d)
    BY DEF DeviceInv
  <2> QED BY <1>1, <2>1, DeletingFacts DEF Shrinks
<1>4. ~Renumbers(s)'
  BY DEF DeviceInv, Renumbers
<1>5. ASSUME NEW e \in Deleters \ {d}, Deletes(e, s) PROVE Deleting(s, e)'
  BY <1>1, <1>5, OthersDeleting
<1>6. ~Calm(s) /\ ~Calm(s)'
  BY <1>2 DEF Calm
<1> QED BY <1>2, <1>3, <1>4, <1>5, <1>6, OwnCall

(* At each place deletePeer knows the id.                                   *)
LEMMA DeleterClaims ==
  ASSUME TypesInv, NEW d \in Deleters, dpc[d] # "idle"
  PROVE  /\ \E o \in Objects : dobj[d] = o /\ objects[o] \in ObjectType
         /\ did[d] \in Ids /\ objects[dobj[d]].serial \in Serials
         /\ Claims(objects[dobj[d]].serial, did[d])
<1>1. PICK o \in Objects : dobj[d] = o
  BY DEF TypesInv, CallTypes
<1>2. objects[o] \in ObjectType
  BY DEF TypesInv, IndexTypes, Objects
<1>3. did[d] \in Ids /\ objects[dobj[d]].serial \in Serials
  BY <1>1, <1>2 DEF ObjectType, TypesInv, CallTypes
<1> QED BY <1>1, <1>2, <1>3 DEF Claims, Deletes

(* Its steps, for another device.                                           *)
LEMMA OtherDelete ==
  ASSUME TypesInv, NEW s \in Serials, DeviceInv(s), NEW d \in Deleters, ~Deletes(d, s), NEW to,
         AdminStays, Untouched(s), UNCHANGED objects, UNCHANGED setVars, dpc[d] # "idle",
         dpc' = [dpc EXCEPT ![d] = to], to = "idle" \/ UNCHANGED <<did, dobj>>,
         \A e \in Deleters \ {d} : did'[e] = did[e] /\ dobj'[e] = dobj[e]
  PROVE  DeviceInv(s)'
<1>1. dpc'[d] = to /\ \A e \in Deleters \ {d} : dpc'[e] = dpc[e]
  BY DEF TypesInv, CallTypes
<1>2. ~Deletes(d, s)'
  BY <1>1 DEF Deletes
<1>3. \A e \in Deleters : /\ Deletes(e, s)' <=> Deletes(e, s)
                          /\ Deletes(e, s) => UNCHANGED <<dpc[e], did[e], dobj[e]>>
  BY <1>1, <1>2 DEF Deletes
<1>4. UntouchedCalls(s)
  BY <1>3 DEF UntouchedCalls, setVars, Renumbers
<1> QED BY <1>4, OtherCall

(* It takes the peer out of the indexes, ...                                *)
LEMMA DeleteIndexDevice ==
  ASSUME TypesInv, OwnerInv, NEW s \in Serials \ mixed', DeviceInv(s), NEW d \in Deleters, DeleteIndex(d)
  PROVE  DeviceInv(s)'
<1> USE DEF storeVars, adminVars, setVars, ghostVars
<1>1. /\ dpc[d] = "index" /\ dpc' = [dpc EXCEPT ![d] = "groups"]
      /\ UNCHANGED <<storeVars, byGroup, adminVars, setVars, did, dobj, outdated>>
  BY DEF DeleteIndex, DeleteGoes
<1>2. PICK o \in Objects, i \in Ids, r \in Serials :
        dobj[d] = o /\ did[d] = i /\ objects[o].serial = r /\ Claims(r, i)
  BY <1>1, DeleterClaims
<1>3. byId' = [byId EXCEPT ![i] = None] /\ bySerial' = [bySerial EXCEPT ![r] = None]
  BY <1>2 DEF DeleteIndex, Erase
<1>4. CASE s # r
  <2>1. \A j \in {i} : ~Claims(s, j)
    BY <1>2, <1>4, NotMine
  <2>2. Unmoved(s)
    <3>1. \A j \in Ids \ {i} : rows'[j] = rows[j] /\ byId'[j] = byId[j]
      BY <1>1, <1>3 DEF TypesInv, IndexTypes
    <3>2. \A j \in {i} : rows'[j] # s /\ Theirs(s, byId'[j])
      BY <1>1, <1>3, <2>1 DEF TypesInv, IndexTypes, Claims, Theirs
    <3>3. bySerial'[s] = bySerial[s]
      BY <1>3, <1>4 DEF TypesInv, IndexTypes
    <3> QED BY <1>1, <2>1, <3>1, <3>2, <3>3, OtherDevice, {i} \in SUBSET Ids DEF Objects
  <2>3. Untouched(s) /\ AdminStays /\ ~Deletes(d, s)
    BY <1>1, <1>2, <1>4, <2>2 DEF Untouched, AdminStays, Deletes
  <2> QED BY <1>1, <2>3, OtherDelete
<1>5. CASE s = r
  <2>1. Deletes(d, s) /\ Deleting(s, d)
    BY <1>1, <1>2, <1>5 DEF Deletes, DeviceInv
  <2>2. PICK o2 \in Objects, i2 \in Ids, groups \in SUBSET Groups : DeletingAs(s, d, o2, i2, groups)
    BY <2>1 DEF Deleting
  <2>3. i2 = i
    BY <1>2, <2>2 DEF DeletingAs
  <2>4. NoIndex(s)'
    BY <1>1, <1>3, <1>5, <2>2, <2>3 DEF DeletingAs, NoIndex, Found, TypesInv, IndexTypes
  <2>5. Shrinks(s)
    BY <1>1, <1>3, <1>5, <2>4 DEF Shrinks, NoIndex, Grouped, TypesInv, IndexTypes
  <2> QED BY <1>1, <2>1, <2>4, <2>5, DeletingGoesOn
<1> QED BY <1>4, <1>5

(* ... out of the one by group address, ...                                 *)
LEMMA DeleteGroupsDevice ==
  ASSUME TypesInv, OwnerInv, NEW s \in Serials \ mixed', DeviceInv(s), NEW d \in Deleters, DeleteGroups(d)
  PROVE  DeviceInv(s)'
<1> USE DEF storeVars, adminVars, setVars, ghostVars
<1>1. /\ dpc[d] = "groups" /\ dpc' = [dpc EXCEPT ![d] = "row"]
      /\ UNCHANGED <<storeVars, byId, bySerial, adminVars, setVars, did, dobj, outdated>>
  BY DEF DeleteGroups, DeleteGoes
<1>2. PICK o \in Objects, i \in Ids, r \in Serials :
        dobj[d] = o /\ did[d] = i /\ objects[o].serial = r /\ Claims(r, i)
  BY <1>1, DeleterClaims
<1>3. \A g \in Groups, j \in Ids :
        byGroup'[g][j] = IF j = i /\ g \in objects[o].groups THEN None ELSE byGroup[g][j]
  BY <1>2, RemovalValue DEF DeleteGroups, TypesInv, IndexTypes
<1>4. CASE s # r
  <2>1. \A j \in {i} : ~Claims(s, j)
    BY <1>2, <1>4, NotMine
  <2>2. Unmoved(s)
    <3>1. \A j \in {i} : rows'[j] # s /\ Theirs(s, byId'[j])
      BY <1>1, <2>1 DEF Claims, Theirs, Found
    <3>2. \A g \in Groups, j \in {i} : byGroup'[g][j] = byGroup[g][j] \/ Theirs(s, byGroup'[g][j])
      BY <1>3 DEF Theirs
    <3>3. \A g \in Groups, j \in Ids \ {i} : byGroup'[g][j] = byGroup[g][j]
      BY <1>3
    <3> QED BY <1>1, <2>1, <3>1, <3>2, <3>3, OtherDevice, {i} \in SUBSET Ids DEF Objects
  <2>3. Untouched(s) /\ AdminStays /\ ~Deletes(d, s)
    BY <1>1, <1>2, <1>4, <2>2 DEF Untouched, AdminStays, Deletes
  <2> QED BY <1>1, <2>3, OtherDelete
<1>5. CASE s = r
  <2>1. Deletes(d, s) /\ Deleting(s, d)
    BY <1>1, <1>2, <1>5 DEF Deletes, DeviceInv
  <2>2. PICK o2 \in Objects, i2 \in Ids, groups \in SUBSET Groups : DeletingAs(s, d, o2, i2, groups)
    BY <2>1 DEF Deleting
  <2>3. i2 = i /\ groups = objects[o].groups
    BY <1>2, <2>2 DEF DeletingAs, Is
  <2>4. NoGroup(s)'
    BY <1>1, <1>3, <2>2, <2>3 DEF DeletingAs, NoGroup, Inside, Grouped
  <2>5. Shrinks(s)
    BY <1>1, <2>4 DEF Shrinks, NoGroup, Found
  <2>6. NoIndex(s)'
    BY <1>1, <2>2, <2>5, ShrunkStays DEF DeletingAs
  <2> QED BY <1>1, <2>1, <2>4, <2>5, <2>6, DeletingGoesOn
<1> QED BY <1>4, <1>5

(* ... deletes the row ...                                                  *)
LEMMA DeleteRowDevice ==
  ASSUME TypesInv, OwnerInv, NEW s \in Serials \ mixed', DeviceInv(s), NEW d \in Deleters, DeleteRow(d)
  PROVE  DeviceInv(s)'
<1> USE DEF indexVars, adminVars, setVars, ghostVars
<1>1. /\ dpc[d] = "row" /\ dpc' = [dpc EXCEPT ![d] = "file"]
      /\ UNCHANGED <<files, devices, objects, indexVars, adminVars, setVars, did, dobj, outdated>>
  BY DEF DeleteRow, DeleteGoes
<1>2. PICK o \in Objects, r \in Serials : dobj[d] = o /\ objects[o].serial = r /\ objects[o] \in ObjectType
  BY <1>1, DeleterClaims
<1>3. PICK i \in Ids : objects[o].id = i
  BY <1>2 DEF ObjectType
<1>4. rows' = [rows EXCEPT ![i] = None]
  BY <1>2, <1>3 DEF DeleteRow
<1>5. CASE s # r
  <2>1. ~Claims(s, i)
    <3>1. Claims(r, i)
      BY <1>2, <1>3 DEF Claims
    <3> QED BY <1>5, <3>1, NotMine
  <2>2. \A j \in Ids : rows'[j] = s <=> rows[j] = s
    BY <1>4, <2>1, NoneAssumption DEF Claims, TypesInv, StoreTypes
  <2>3. Untouched(s) /\ AdminStays /\ ~Deletes(d, s)
    BY <1>1, <1>2, <1>5, <2>2 DEF Untouched, Unmoved, AdminStays, Deletes, Found, Grouped, Objects
  <2> QED BY <1>1, <2>3, OtherDelete
<1>6. CASE s = r
  <2>1. Deletes(d, s) /\ Deleting(s, d)
    BY <1>1, <1>2, <1>6 DEF Deletes, DeviceInv
  <2>2. PICK o2 \in Objects, i2 \in Ids, groups \in SUBSET Groups : DeletingAs(s, d, o2, i2, groups)
    BY <2>1 DEF Deleting
  <2>3. i2 = i
    BY <1>2, <1>3, <2>2 DEF DeletingAs, Is
  <2>4. NoRow(s)'
    BY <1>4, <2>2, <2>3, NoneAssumption DEF DeletingAs, NoRow, TypesInv, StoreTypes
  <2>5. Shrinks(s)
    BY <1>1, <2>4 DEF Shrinks, NoRow, Found, Grouped
  <2>6. NoIndex(s)' /\ NoGroup(s)'
    BY <1>1, <2>2, <2>5, ShrunkStays DEF DeletingAs
  <2> QED BY <1>1, <2>1, <2>4, <2>5, <2>6, DeletingGoesOn
<1> QED BY <1>5, <1>6

(* ... and the file: nothing is left.                                       *)
LEMMA DeleteFileDevice ==
  ASSUME TypesInv, OwnerInv, NEW s \in Serials \ mixed', DeviceInv(s), NEW d \in Deleters, DeleteFile(d)
  PROVE  DeviceInv(s)'
<1> USE DEF indexVars, adminVars, setVars, ghostVars
<1>1. /\ dpc[d] = "file" /\ dpc' = [dpc EXCEPT ![d] = "idle"]
      /\ did' = [did EXCEPT ![d] = None] /\ dobj' = [dobj EXCEPT ![d] = None]
      /\ UNCHANGED <<rows, devices, objects, indexVars, adminVars, setVars, outdated>>
  BY DEF DeleteFile, DeleteGoes
<1>2. PICK o \in Objects, r \in Serials : dobj[d] = o /\ objects[o].serial = r
  BY <1>1, DeleterClaims
<1>3. files' = [files EXCEPT ![r] = None]
  BY <1>2 DEF DeleteFile
<1>4. /\ dpc'[d] = "idle"
      /\ \A e \in Deleters \ {d} : UNCHANGED <<dpc[e], did[e], dobj[e]>>
  BY <1>1 DEF TypesInv, CallTypes
<1>5. Unmoved(s)
  BY <1>1 DEF Unmoved, Found, Grouped, Objects
<1>6. CASE s # r
  <2>1. Untouched(s) /\ AdminStays /\ ~Deletes(d, s)
    BY <1>1, <1>2, <1>3, <1>5, <1>6 DEF Untouched, AdminStays, Deletes, TypesInv, StoreTypes
  <2> QED BY <1>1, <1>4, <2>1, OtherDelete
<1>7. CASE s = r
  <2>1. Deletes(d, s) /\ Deleting(s, d) /\ ~Renumbers(s) /\ ~Calm(s)
    BY <1>1, <1>2, <1>7 DEF Deletes, DeviceInv, Calm
  <2>2. Absent(s)
    BY <1>1, <2>1 DEF Deleting, DeletingAs, Absent
  <2>3. InOrder(s)'
    BY <1>5, <2>2, KeptThere DEF InOrder
  <2>4. ~Renumbers(s)'
    BY <1>1, <2>1 DEF Renumbers
  <2>5. ASSUME NEW e \in Deleters, Deletes(e, s)' PROVE Deleting(s, e)'
    <3>1. e # d /\ Deletes(e, s)
      BY <1>1, <1>4, <2>5 DEF Deletes
    <3>2. Shrinks(s)
      BY <1>1 DEF Shrinks, Found, Grouped
    <3> QED BY <1>1, <1>4, <3>1, <3>2, OthersDeleting
  <2> QED BY <1>1, <2>1, <2>3, <2>4, <2>5, OwnCall
<1> QED BY <1>6, <1>7

(* setPeerId finds the peer in order; the new id is nobody's.               *)
LEMMA SetPeerIdDevice ==
  ASSUME TypesInv, OwnerInv, NEW s \in Serials \ mixed', DeviceInv(s), SetPeerId
  PROVE  DeviceInv(s)'
<1> USE DEF adminVars, deleteVars
<1>1. /\ spc = "idle" /\ spc' = "remove"
      /\ UNCHANGED <<files, devices, bySerial, byGroup, adminVars, deleteVars, outdated>>
  BY DEF SetPeerId
<1>2. PICK i \in Ids, new \in Ids \ used :
       /\ byId[i] # None
       /\ sold' = i /\ sobj' = byId[i] /\ used' = used \cup {new}
       /\ byId' = [byId EXCEPT ![i] = None, ![new] = byId[i]]
       /\ objects' = [objects EXCEPT ![byId[i]].id = new]
       /\ rows' = [rows EXCEPT ![i] = None, ![new] = rows[i]]
       /\ LET r == objects[byId[i]].serial IN
            mixed' = IF apc # "idle" \/ r \in Deleted THEN mixed \cup {r} ELSE mixed
  BY DEF SetPeerId
<1>3. PICK o \in Objects : byId[i] = o
  BY <1>2 DEF TypesInv, IndexTypes
<1>4. objects[o] \in ObjectType
  BY DEF TypesInv, IndexTypes, Objects
<1>5. PICK r \in Serials : objects[o].serial = r
  BY <1>4 DEF ObjectType
<1>6. /\ Objects' = Objects /\ objects'[o].id = new
      /\ \A p \in Objects : /\ objects'[p].serial = objects[p].serial
                            /\ objects'[p].groups = objects[p].groups
                            /\ p # o => objects'[p] = objects[p]
  <2>1. objects \in Seq(ObjectType) /\ objects' = [objects EXCEPT ![o].id = new]
    BY <1>2, <1>3 DEF TypesInv, IndexTypes
  <2> QED BY <2>1, RenumberedObject
<1>7. Claims(r, i)
  BY <1>2, <1>3, <1>5 DEF Claims, Found
<1>8. i # new
  BY <1>7, OneClaim
<1>9. /\ sold' = i /\ sobj' = o
      /\ byId' = [byId EXCEPT ![i] = None, ![new] = o]
      /\ rows' = [rows EXCEPT ![i] = None, ![new] = rows[i]]
  BY <1>2, <1>3
<1>10. CASE s # r
  <2>1. \A j \in {i, new} : ~Claims(s, j)
    BY <1>7, <1>10, NotMine
  <2>2. Unmoved(s)
    <3>1. \A j \in Ids \ {i, new} : rows'[j] = rows[j] /\ byId'[j] = byId[j]
      BY <1>9 DEF TypesInv, IndexTypes, StoreTypes
    <3>2. \A j \in {i, new} : rows'[j] # s
      <4>1. rows[i] # s
        BY <2>1 DEF Claims
      <4> QED BY <1>8, <1>9, <4>1, NoneAssumption DEF TypesInv, StoreTypes
    <3>3. \A j \in {i, new} : Theirs(s, byId'[j])
      BY <1>5, <1>6, <1>8, <1>9, <1>10 DEF TypesInv, IndexTypes, Theirs
    <3>4. \A p \in Objects : /\ p \in Objects' /\ objects'[p].serial = objects[p].serial
                             /\ objects[p].serial = s => objects'[p] = objects[p]
      BY <1>5, <1>6, <1>10
    <3> QED BY <1>1, <2>1, <3>1, <3>2, <3>3, <3>4, OtherDevice, {i, new} \in SUBSET Ids
  <2>3. Untouched(s) /\ AdminStays
    BY <1>1, <1>6, <2>2 DEF Untouched, AdminStays
  <2>4. \A d \in Deleters : /\ Deletes(d, s)' <=> Deletes(d, s)
                            /\ UNCHANGED <<dpc[d], did[d], dobj[d]>>
    BY <1>1, <1>6 DEF Deletes, TypesInv, CallTypes
  <2>5. ~Renumbers(s) /\ ~Renumbers(s)'
    BY <1>1, <1>5, <1>6, <1>9, <1>10 DEF Renumbers
  <2>6. UntouchedCalls(s)
    BY <2>4, <2>5 DEF UntouchedCalls
  <2> QED BY <2>3, <2>6, OtherCall
<1>11. CASE s = r
  <2>1. apc = "idle" /\ apc' = "idle" /\ s \notin Deleted
    BY <1>1, <1>2, <1>3, <1>5, <1>11
  <2>2. Calm(s)
    BY <1>1, <2>1 DEF Calm, Renumbers, Deletes, Deleted
  <2>3. PICK o2 \in Objects, i2 \in Ids, groups \in SUBSET Groups :
          PresentAs(s, o2, i2, groups) /\ Described(s, groups)
    <3>1. Found(s, i)
      BY <1>2, <1>3, <1>5, <1>11 DEF Found
    <3> QED BY <2>1, <2>2, <3>1 DEF DeviceInv, InOrder, Settles, Absent, NoIndex
  <2>4. i2 = i /\ o2 = o
    BY <1>2, <1>3, <1>5, <1>11, <2>3 DEF PresentAs, Indexed, Found
  <2>5. Is(s, o, new, groups)'
    BY <1>6, <2>3, <2>4 DEF PresentAs, Is
  <2>6. Indexed(s, o, new)'
    <3>1. \A j \in Ids : Found(s, j)' => j = new
      BY <1>6, <1>9, <2>3, <2>4 DEF PresentAs, Indexed, Found, TypesInv, IndexTypes
    <3> QED BY <1>1, <1>9, <2>3, <2>4, <3>1 DEF PresentAs, Indexed, TypesInv, IndexTypes
  <2>7. RowAt(s, new)'
    BY <1>8, <1>9, <2>3, <2>4, NoneAssumption DEF PresentAs, RowAt, TypesInv, StoreTypes
  <2>8. Inside(s, i, groups)' /\ Described(s, groups)'
    BY <1>1, <1>6, <2>3, <2>4 DEF PresentAs, Inside, Grouped, Described, TypesInv, IndexTypes
  <2>9. RenumberingAs(s, o, new, i, groups)'
    BY <1>1, <1>8, <1>9, <2>5, <2>6, <2>7, <2>8 DEF RenumberingAs
  <2>10. Renumbering(s)'
    BY <1>6, <2>9 DEF Renumbering
  <2>11. \A d \in Deleters : ~Deletes(d, s)'
    BY <1>1, <1>6, <2>2 DEF Calm, Deletes, TypesInv, CallTypes
  <2>12. ~Calm(s)'
    BY <1>1, <1>5, <1>6, <1>9, <1>11 DEF Calm, Renumbers
  <2> QED BY <2>1, <2>10, <2>11, <2>12 DEF DeviceInv
<1> QED BY <1>10, <1>11

(* At each place setPeerId knows the old id.                                *)
LEMMA RenumbererClaims ==
  ASSUME TypesInv, spc # "idle"
  PROVE  \E o \in Objects, r \in Serials, i, j \in Ids, groups \in SUBSET Groups :
           /\ sobj = o /\ sold = j /\ Is(r, o, i, groups)
           /\ Claims(r, i) /\ Claims(r, j)
<1>1. PICK o \in Objects, j \in Ids : sobj = o /\ sold = j
  BY DEF TypesInv, CallTypes
<1>2. objects[o] \in ObjectType
  BY DEF TypesInv, IndexTypes, Objects
<1>3. PICK r \in Serials, i \in Ids, groups \in SUBSET Groups : Is(r, o, i, groups)
  BY <1>2 DEF ObjectType, Is
<1>4. Claims(r, i) /\ Claims(r, j)
  BY <1>1, <1>3 DEF Claims, Is
<1> QED BY <1>1, <1>3, <1>4

(* Its steps, for another device.                                           *)
LEMMA OtherRenumber ==
  ASSUME TypesInv, NEW s \in Serials, DeviceInv(s), ~Renumbers(s), ~Renumbers(s)',
         AdminStays, Untouched(s), UNCHANGED objects, UNCHANGED deleteVars
  PROVE  DeviceInv(s)'
<1>1. UntouchedCalls(s)
  BY DEF UntouchedCalls, deleteVars, Deletes
<1> QED BY <1>1, OtherCall

(* It takes the peer out of the index by group address under the old id, ... *)
LEMMA SetGroupsRemoveDevice ==
  ASSUME TypesInv, OwnerInv, NEW s \in Serials \ mixed', DeviceInv(s), SetGroupsRemove
  PROVE  DeviceInv(s)'
<1> USE DEF storeVars, adminVars, deleteVars, ghostVars
<1>1. /\ spc = "remove" /\ spc' = "insert"
      /\ UNCHANGED <<storeVars, byId, bySerial, adminVars, deleteVars, sold, sobj, outdated>>
  BY DEF SetGroupsRemove
<1>2. PICK o \in Objects, r \in Serials, i \in Ids, j \in Ids, groups \in SUBSET Groups :
        sobj = o /\ sold = j /\ Is(r, o, i, groups) /\ Claims(r, j)
  BY <1>1, RenumbererClaims
<1>3. \A g \in Groups, k \in Ids :
        byGroup'[g][k] = IF k = j /\ g \in groups THEN None ELSE byGroup[g][k]
  BY <1>2, RemovalValue DEF SetGroupsRemove, Is, TypesInv, IndexTypes
<1>4. CASE s # r
  <2>1. \A k \in {j} : ~Claims(s, k)
    BY <1>2, <1>4, NotMine
  <2>2. Unmoved(s)
    <3>1. \A k \in {j} : rows'[k] # s /\ Theirs(s, byId'[k])
      BY <1>1, <2>1 DEF Claims, Theirs, Found
    <3>2. \A g \in Groups, k \in {j} : byGroup'[g][k] = byGroup[g][k] \/ Theirs(s, byGroup'[g][k])
      BY <1>3 DEF Theirs
    <3>3. \A g \in Groups, k \in Ids \ {j} : byGroup'[g][k] = byGroup[g][k]
      BY <1>3
    <3> QED BY <1>1, <2>1, <3>1, <3>2, <3>3, OtherDevice, {j} \in SUBSET Ids DEF Objects
  <2>3. Untouched(s) /\ AdminStays /\ ~Renumbers(s) /\ ~Renumbers(s)'
    BY <1>1, <1>2, <1>4, <2>2 DEF Untouched, AdminStays, Renumbers, Is
  <2> QED BY <1>1, <2>3, OtherRenumber
<1>5. CASE s = r
  <2>1. Renumbers(s) /\ Renumbering(s) /\ ~Calm(s)
    BY <1>1, <1>2, <1>5 DEF Renumbers, DeviceInv, Is, Calm
  <2>2. PICK o2 \in Objects, i2 \in Ids, j2 \in Ids, groups2 \in SUBSET Groups :
          RenumberingAs(s, o2, i2, j2, groups2)
    BY <2>1 DEF Renumbering
  <2>3. o2 = o /\ i2 = i /\ j2 = j /\ groups2 = groups
    BY <1>2, <2>2 DEF RenumberingAs, Is
  <2>4. NoGroup(s)'
    BY <1>1, <1>3, <2>2, <2>3 DEF RenumberingAs, NoGroup, Inside, Grouped
  <2>5. /\ Is(s, o, i, groups)' /\ Indexed(s, o, i)' /\ RowAt(s, i)' /\ Described(s, groups)'
        /\ o \in Objects'
    BY <1>1, <2>2, <2>3 DEF RenumberingAs, Is, Indexed, Found, RowAt, Described, Objects
  <2>6. Renumbering(s)'
    <3>1. RenumberingAs(s, o, i, j, groups)'
      BY <1>1, <2>2, <2>3, <2>4, <2>5 DEF RenumberingAs
    <3> QED BY <2>5, <3>1 DEF Renumbering
  <2>7. \A d \in Deleters : ~Deletes(d, s)'
    BY <1>1, <2>1 DEF DeviceInv, Deletes
  <2>8. ~Calm(s)'
    BY <1>1, <1>2, <1>5 DEF Calm, Renumbers, Is
  <2> QED BY <1>1, <2>1, <2>6, <2>7, <2>8, OwnCall
<1> QED BY <1>4, <1>5

(* ... and puts it in under the new one, where nothing is yet.              *)
LEMMA SetGroupsInsertDevice ==
  ASSUME TypesInv, OwnerInv, NEW s \in Serials \ mixed', DeviceInv(s), SetGroupsInsert
  PROVE  DeviceInv(s)'
<1> USE DEF storeVars, adminVars, deleteVars, ghostVars
<1>1. /\ spc = "insert" /\ spc' = "idle"
      /\ UNCHANGED <<storeVars, byId, bySerial, adminVars, deleteVars, outdated>>
  BY DEF SetGroupsInsert
<1>2. PICK o \in Objects, r \in Serials, i \in Ids, j \in Ids, groups \in SUBSET Groups :
        sobj = o /\ sold = j /\ Is(r, o, i, groups) /\ Claims(r, i)
  BY <1>1, RenumbererClaims
<1>3. \A g \in Groups, k \in Ids :
        byGroup'[g][k] = IF k = i /\ g \in groups /\ byGroup[g][k] = None THEN o ELSE byGroup[g][k]
  BY <1>2, EmplaceValue DEF SetGroupsInsert, Is, TypesInv, IndexTypes
<1>4. CASE s # r
  <2>1. \A k \in {i} : ~Claims(s, k)
    BY <1>2, <1>4, NotMine
  <2>2. Unmoved(s)
    <3>1. \A k \in {i} : rows'[k] # s /\ Theirs(s, byId'[k])
      BY <1>1, <2>1 DEF Claims, Theirs, Found
    <3>2. \A g \in Groups, k \in {i} : byGroup'[g][k] = byGroup[g][k] \/ Theirs(s, byGroup'[g][k])
      BY <1>1, <1>2, <1>3, <1>4 DEF Theirs, Is
    <3>3. \A g \in Groups, k \in Ids \ {i} : byGroup'[g][k] = byGroup[g][k]
      BY <1>3
    <3> QED BY <1>1, <2>1, <3>1, <3>2, <3>3, OtherDevice, {i} \in SUBSET Ids DEF Objects
  <2>3. Untouched(s) /\ AdminStays /\ ~Renumbers(s) /\ ~Renumbers(s)'
    BY <1>1, <1>2, <1>4, <2>2 DEF Untouched, AdminStays, Renumbers, Is
  <2> QED BY <1>1, <2>3, OtherRenumber
<1>5. CASE s = r
  <2>1. Renumbers(s) /\ Renumbering(s) /\ ~Calm(s) /\ ~Renumbers(s)'
    BY <1>1, <1>2, <1>5 DEF Renumbers, DeviceInv, Is, Calm
  <2>2. PICK o2 \in Objects, i2 \in Ids, j2 \in Ids, groups2 \in SUBSET Groups :
          RenumberingAs(s, o2, i2, j2, groups2)
    BY <2>1 DEF Renumbering
  <2>3. o2 = o /\ i2 = i /\ groups2 = groups
    BY <1>2, <2>2 DEF RenumberingAs, Is
  <2>4. \A g \in Groups : byGroup[g][i] = None
    BY <1>1, <1>2, <1>5, <2>2, Mine DEF RenumberingAs, NoGroup
  <2>5. /\ Is(s, o, i, groups)' /\ Indexed(s, o, i)' /\ RowAt(s, i)' /\ Described(s, groups)'
        /\ o \in Objects'
    BY <1>1, <2>2, <2>3 DEF RenumberingAs, Is, Indexed, Found, RowAt, Described, Objects
  <2>6. Inside(s, i, groups)'
    BY <1>1, <1>3, <2>2 DEF RenumberingAs, Inside, NoGroup, Grouped
  <2>7. Reached(s, o, i, groups)'
    BY <1>3, <2>4, <2>5, NoneAssumption DEF Reached, Grouped, Is, Objects
  <2>8. InOrder(s)'
    BY <2>5, <2>6, <2>7 DEF InOrder, Settles, PresentAs
  <2>9. \A d \in Deleters : ~Deletes(d, s)'
    BY <1>1, <2>1 DEF DeviceInv, Deletes
  <2> QED BY <1>1, <2>1, <2>8, <2>9, OwnCall
<1> QED BY <1>4, <1>5

(* Each step keeps what the invariant says of a device.                     *)
LEMMA StepDevice ==
  ASSUME TypesInv, OwnerInv, [Next]_vars, NEW s \in Serials \ mixed', s \notin mixed => DeviceInv(s)
  PROVE  DeviceInv(s)'
<1> USE DEF ghostVars
<1>1. CASE SearchDevices \/ UpdateDevices
  <2>1. s \notin mixed
    BY <1>1 DEF SearchDevices, UpdateDevices, Begin
  <2> QED BY <1>1, <2>1, BeginDevice
<1>2. CASE Import
  BY <1>2, ImportDevice DEF Import
<1>3. CASE RemoveUpdated
  BY <1>3, RemoveUpdatedDevice DEF RemoveUpdated
<1>4. CASE RemoveUpdatedGroups
  BY <1>4, RemoveUpdatedGroupsDevice DEF RemoveUpdatedGroups
<1>5. CASE RemoveDone
  BY <1>5, RemoveDoneDevice DEF RemoveDone
<1>6. CASE Reload
  BY <1>6, ReloadDevice DEF Reload
<1>7. CASE LoadPeer
  BY <1>7, LoadPeerDevice DEF LoadPeer
<1>8. CASE LoadDone
  BY <1>8, LoadDoneDevice DEF LoadDone
<1>9. CASE CreatePeer
  BY <1>9, CreatePeerDevice DEF CreatePeer
<1>10. CASE InsertCreated
  BY <1>10, InsertCreatedDevice DEF InsertCreated
<1>11. CASE CreateDone
  BY <1>11, CreateDoneDevice DEF CreateDone
<1>12. ASSUME NEW d \in Deleters, Delete(d) PROVE DeviceInv(s)'
  <2>1. CASE DeletePeer(d)
    <3>1. s \notin mixed
      BY <2>1 DEF DeletePeer
    <3> QED BY <2>1, <3>1, DeletePeerDevice
  <2>2. CASE DeleteIndex(d)
    BY <2>2, DeleteIndexDevice DEF DeleteIndex
  <2>3. CASE DeleteGroups(d)
    BY <2>3, DeleteGroupsDevice DEF DeleteGroups
  <2>4. CASE DeleteRow(d)
    BY <2>4, DeleteRowDevice DEF DeleteRow
  <2>5. CASE DeleteFile(d)
    BY <2>5, DeleteFileDevice DEF DeleteFile
  <2> QED BY <1>12, <2>1, <2>2, <2>3, <2>4, <2>5 DEF Delete
<1>13. CASE SetPeerId
  <2>1. s \notin mixed
    BY <1>13 DEF SetPeerId
  <2> QED BY <1>13, <2>1, SetPeerIdDevice
<1>14. CASE SetGroupsRemove
  BY <1>14, SetGroupsRemoveDevice DEF SetGroupsRemove
<1>15. CASE SetGroupsInsert
  BY <1>15, SetGroupsInsertDevice DEF SetGroupsInsert
<1>16. CASE UNCHANGED vars
  <2> USE <1>16 DEF vars, storeVars, indexVars, adminVars, deleteVars, setVars
  <2>1. Untouched(s) /\ UntouchedAdmin(s)
    BY DEF Untouched, Unmoved, UntouchedAdmin, Found, Grouped, Objects, AtHand
  <2>2. UntouchedCalls(s)
    BY DEF UntouchedCalls, Deletes, Renumbers
  <2> QED BY <2>1, <2>2, KeptDevice
<1> QED BY <1>1, <1>2, <1>3, <1>4, <1>5, <1>6, <1>7, <1>8, <1>9, <1>10, <1>11, <1>12, <1>13,
           <1>14, <1>15, <1>16 DEF Next, Admin, Renumber

(* The program starts with all devices in order: ids are counted from 1, and *)
(* there are at least as many as devices.                                   *)
LEMMA InitRegistry ==
  ASSUME Init
  PROVE  RegistryInv
<1>1. PICK n \in 0..Cardinality(Serials), groups \in [Ids -> SUBSET Groups] :
        \E t \in [1..n -> Serials] :
          /\ \A i, j \in 1..n : t[i] = t[j] => i = j
          /\ Loaded([i \in 1..n |-> [id |-> i, serial |-> t[i], groups |-> groups[i]]])
  BY DEF Init
<1>2. PICK t \in [1..n -> Serials] :
        /\ \A i, j \in 1..n : t[i] = t[j] => i = j
        /\ Loaded([i \in 1..n |-> [id |-> i, serial |-> t[i], groups |-> groups[i]]])
  BY <1>1
<1>3. n \in Nat /\ 1..n \subseteq Ids
  BY BoundAssumption, FS_CardinalityType DEF Ids
<1> DEFINE p == [i \in 1..n |-> [id |-> i, serial |-> t[i], groups |-> groups[i]]]
<1>4. /\ p \in Seq(ObjectType) /\ Len(p) = n /\ DOMAIN p = 1..n
      /\ \A i \in 1..n : p[i].id = i /\ p[i].serial = t[i] /\ p[i].groups = groups[i]
  BY <1>3 DEF ObjectType
<1>5. Loaded(p)
  BY <1>2
<1> HIDE DEF p
<1>6. /\ objects = p /\ used = 1..n /\ Objects = 1..n
      /\ rows = [i \in Ids |-> IF i \in 1..n THEN t[i] ELSE None]
      /\ byId = [i \in Ids |-> IF i \in 1..n THEN i ELSE None]
      /\ byGroup = [g \in Groups |-> [i \in Ids |-> IF i \in 1..n /\ g \in groups[i] THEN i ELSE None]]
  BY <1>3, <1>4, <1>5 DEF Loaded, Objects
<1>7. /\ devices \in [Serials -> (SUBSET Groups) \cup {None}] /\ files = devices
      /\ bySerial \in [Serials -> Objects \cup {None}]
      /\ \A i \in 1..n : devices[t[i]] = groups[i] /\ bySerial[t[i]] = i
      /\ \A s \in Serials : (\A i \in 1..n : t[i] # s) => devices[s] = None /\ bySerial[s] = None
  <2> DEFINE Number(s) == CHOOSE i \in 1..n : p[i].serial = s
             Known(s) == \E i \in 1..n : p[i].serial = s
  <2>1. /\ devices = [s \in Serials |-> IF Known(s) THEN p[Number(s)].groups ELSE None]
        /\ bySerial = [s \in Serials |-> IF Known(s) THEN Number(s) ELSE None]
        /\ files = devices
    BY <1>4, <1>5 DEF Loaded
  <2>2. \A s \in Serials : Known(s) => Number(s) \in 1..n /\ p[Number(s)].serial = s
    OBVIOUS
  <2>3. \A i \in 1..n : Known(t[i]) /\ Number(t[i]) = i
    <3>1. \A i \in 1..n : Known(t[i])
      BY <1>4
    <3> HIDE DEF Number, Known
    <3>2. ASSUME NEW i \in 1..n PROVE Number(t[i]) = i
      <4>1. Number(t[i]) \in 1..n /\ p[Number(t[i])].serial = t[i]
        BY <2>2, <3>1
      <4>2. t[Number(t[i])] = t[i]
        BY <1>4, <4>1
      <4> QED BY <1>2, <4>1, <4>2
    <3> QED BY <3>1, <3>2
  <2>4. \A i \in 1..n : p[i].groups \in SUBSET Groups
    BY <1>3, <1>4
  <2> HIDE DEF Number, Known
  <2>5. /\ devices \in [Serials -> (SUBSET Groups) \cup {None}]
        /\ bySerial \in [Serials -> Objects \cup {None}]
    BY <1>6, <2>1, <2>2, <2>4
  <2>6. \A i \in 1..n : devices[t[i]] = groups[i] /\ bySerial[t[i]] = i
    BY <1>4, <2>1, <2>3
  <2>7. \A s \in Serials : (\A i \in 1..n : t[i] # s) => devices[s] = None /\ bySerial[s] = None
    BY <1>4, <2>1 DEF Known
  <2> QED BY <2>1, <2>5, <2>6, <2>7
<1>8. TypesInv
  <2>1. IndexTypes /\ StoreTypes
    BY <1>3, <1>4, <1>6, <1>7 DEF IndexTypes, StoreTypes
  <2>2. AdminTypes /\ CallTypes
    BY DEF Init, AdminTypes, CallTypes
  <2> QED BY <2>1, <2>2 DEF TypesInv
<1>9. OwnerInv
  <2>1. \A s \in Serials : bySerial[s] # None => objects[bySerial[s]].serial = s
    BY <1>4, <1>6, <1>7
  <2>2. Owned(t)
    <3>1. CallsOwned(t) /\ apc # "load"
      BY DEF Init, CallsOwned
    <3>2. RowsOwned(t)
      BY <1>6, <3>1 DEF RowsOwned
    <3>3. ObjectsOwned(t)
      BY <1>4, <1>6 DEF ObjectsOwned
    <3>4. IndexesOwned(t)
      BY <1>4, <1>6 DEF IndexesOwned
    <3> QED BY <3>1, <3>2, <3>3, <3>4 DEF Owned
  <2> QED BY <1>6, <2>1, <2>2 DEF OwnerInv
<1>10. ASSUME NEW s \in Serials PROVE DeviceInv(s)
  <2>1. Calm(s) /\ apc = "idle"
    BY DEF Init, Calm, Deletes, Renumbers
  <2>2. CASE \A i \in 1..n : t[i] # s
    <3>1. NoIndex(s) /\ NoGroup(s) /\ NoRow(s)
      BY <1>4, <1>6, <1>7, <2>2, NoneAssumption DEF NoIndex, NoGroup, NoRow, Found, Grouped
    <3> QED BY <2>1, <3>1 DEF DeviceInv, InOrder, Absent, Calm
  <2>3. CASE \E i \in 1..n : t[i] = s
    <3>1. PICK i \in 1..n : t[i] = s
      BY <2>3
    <3>2. \A j \in 1..n : t[j] = s => j = i
      BY <1>2, <3>1
    <3>3. i \in Ids /\ i \in Objects /\ groups[i] \in SUBSET Groups /\ i # None
      BY <1>3, <1>6, NoneAssumption
    <3>4. Is(s, i, i, groups[i]) /\ Described(s, groups[i]) /\ RowAt(s, i)
      BY <1>4, <1>6, <1>7, <3>1, <3>2, <3>3, NoneAssumption DEF Is, Described, RowAt
    <3>5. Indexed(s, i, i)
      BY <1>4, <1>6, <1>7, <3>1, <3>2, <3>3 DEF Indexed, Found
    <3>6. Inside(s, i, groups[i])
      BY <1>4, <1>6, <3>1, <3>2 DEF Inside, Grouped
    <3>7. Reached(s, i, i, groups[i])
      BY <1>4, <1>6, <3>1, <3>3 DEF Reached, Grouped
    <3>8. Settles(s)
      BY <3>3, <3>4, <3>5, <3>6, <3>7 DEF Settles, PresentAs
    <3> QED BY <2>1, <3>8 DEF DeviceInv, InOrder, Calm
  <2> QED BY <2>2, <2>3
<1> QED BY <1>8, <1>9, <1>10 DEF RegistryInv

(* The registry's invariant: owners of ids, and the order of each device that *)
(* no two calls were at work on at once (KnxCentral's four operations).     *)
THEOREM RegistryInvariant == Spec => []RegistryInv
<1>1. RegistryInv /\ [Next]_vars => RegistryInv'
  <2> SUFFICES ASSUME RegistryInv, [Next]_vars PROVE RegistryInv'
    OBVIOUS
  <2>1. TypesInv' /\ OwnerInv'
    BY StepTypes, StepOwner DEF RegistryInv
  <2>2. \A s \in Serials \ mixed' : DeviceInv(s)'
    BY StepDevice DEF RegistryInv
  <2> QED BY <2>1, <2>2 DEF RegistryInv
<1> QED BY InitRegistry, <1>1, PTL DEF Spec

(* Of a settled device no call is at work on, the invariant says that it is *)
(* in order when no search or update runs.                                  *)
LEMMA SettledCalm ==
  ASSUME RegistryInv, NEW s \in Settled
  PROVE  s \in Serials /\ DeviceInv(s) /\ Calm(s)
  BY DEF RegistryInv, Settled, Deleted, Renumbered, Calm, Deletes, Renumbers

(* In order, all that is said of it agrees.                                 *)
LEMMA OrderAgrees ==
  ASSUME TypesInv, NEW s \in Serials, InOrder(s)
  PROVE  RowsAgree(s) /\ GroupsAgree(s)
<1>1. CASE Absent(s)
  BY <1>1 DEF Absent, NoIndex, NoGroup, NoRow, RowsAgree, GroupsAgree, Found, Grouped
<1>2. CASE Settles(s)
  <2>1. PICK o \in Objects, i \in Ids, groups \in SUBSET Groups :
          PresentAs(s, o, i, groups) /\ Described(s, groups)
    BY <1>2 DEF Settles
  <2>2. o # None /\ devices[s] # None
    BY <2>1, NoneAssumption DEF Objects, Described
  <2>3. \A j \in Ids : Found(s, j) <=> j = i
    BY <2>1, <2>2 DEF PresentAs, Indexed, Found, Is
  <2>4. RowsAgree(s)
    BY <2>1, <2>2, <2>3 DEF PresentAs, Indexed, Is, RowAt, RowsAgree
  <2>5. \A g \in Groups, j \in Ids : Grouped(s, g, j) <=> j = i /\ g \in groups
    BY <2>1 DEF PresentAs, Inside, Reached
  <2>6. GroupsAgree(s)
    BY <2>1, <2>2, <2>3, <2>5 DEF PresentAs, Indexed, Is, GroupsAgree, Grouped
  <2> QED BY <2>4, <2>6
<1> QED BY <1>1, <1>2 DEF InOrder

(* When no search or update runs, _peersById, _peersBySerial and            *)
(* _peersByGroupAddress agree with the rows and the files on each settled   *)
(* device.                                                                  *)
THEOREM IndexesAlwaysAgree == Spec => []IndexesAgree
<1>1. RegistryInv => IndexesAgree
  <2> SUFFICES ASSUME RegistryInv, apc = "idle", NEW s \in Settled PROVE RowsAgree(s) /\ GroupsAgree(s)
    BY DEF IndexesAgree
  <2>1. s \in Serials /\ InOrder(s)
    BY SettledCalm DEF DeviceInv
  <2> QED BY <2>1, OrderAgrees DEF RegistryInv
<1> QED BY <1>1, RegistryInvariant, PTL

(* onPacketReceived reaches the object RPC calls find, unless an update has *)
(* loaded the peer again that it did not take out of the indexes.           *)
THEOREM PacketsAlwaysReachPeer == Spec => []PacketsReachPeer
<1>1. RegistryInv => PacketsReachPeer
  <2> SUFFICES ASSUME RegistryInv, apc = "idle", NEW s \in Settled \ outdated,
                      NEW i \in Ids, NEW g \in Groups,
                      rows[i] = s, byGroup[g][i] # None
               PROVE  byGroup[g][i] = byId[i]
    BY DEF PacketsReachPeer
  <2>1. s \in Serials /\ InOrder(s)
    BY SettledCalm DEF DeviceInv
  <2>2. PICK o \in Objects, j \in Ids, groups \in SUBSET Groups : PresentAs(s, o, j, groups)
    BY <2>1 DEF InOrder, Absent, NoRow, Settles
  <2>3. j = i
    BY <2>2 DEF PresentAs, RowAt
  <2>4. Grouped(s, g, i)
    <3>1. Claims(s, i)
      BY DEF Claims
    <3> QED BY <2>1, <3>1, Mine DEF RegistryInv
  <2>5. g \in groups
    BY <2>2, <2>4 DEF PresentAs, Inside
  <2> QED BY <2>2, <2>3, <2>5 DEF PresentAs, Indexed, Reached
<1> QED BY <1>1, RegistryInvariant, PTL

(* Whatever a search or update is doing, there is one row.                  *)
LEMMA OrderedIsOnce ==
  ASSUME NEW s \in Serials, DeviceInv(s), Calm(s)
  PROVE  apc \in {"idle", "import", "remove", "reload", "load", "create"} => OneRow(s)
<1>1. InOrder(s) => OneRow(s)
  BY OrderedOnce
<1>2. Cleared(s) => OneRow(s)
  BY DEF Cleared
<1>3. Absent(s) \/ Present(s) => OneRow(s)
  BY DEF Absent, Present, PresentAs, NoRow, RowAt, OneRow
<1>4. TakenOut(s) \/ Made(s) => OneRow(s)
  BY DEF TakenOut, Made, RowAt, OneRow
<1>5. apc = "idle" \/ apc = "import" => OneRow(s)
  BY <1>1, <1>2 DEF DeviceInv, Importing
<1>6. apc = "remove" => OneRow(s)
  BY <1>1, <1>2, <1>3, <1>4 DEF DeviceInv, Removing
<1>7. apc = "reload" \/ apc = "load" => OneRow(s)
  BY <1>1, <1>2 DEF DeviceInv, Reloading, Loading
<1>8. apc = "create" => OneRow(s)
  BY <1>1, <1>4 DEF DeviceInv, Creating
<1> QED BY <1>5, <1>6, <1>7, <1>8

(* However often it is imported, a settled device has at most one row in the *)
(* database, also in the middle of an import.                               *)
THEOREM AlwaysOneRow == Spec => []OneRowPerDevice
<1>1. RegistryInv => OneRowPerDevice
  <2> SUFFICES ASSUME RegistryInv, NEW s \in Settled PROVE OneRow(s)
    BY DEF OneRowPerDevice, OneRow
  <2>1. s \in Serials /\ DeviceInv(s) /\ Calm(s)
    BY SettledCalm
  <2> QED BY <2>1, OrderedIsOnce DEF RegistryInv, TypesInv, AdminTypes
<1> QED BY <1>1, RegistryInvariant, PTL

(* When searchDevices or updateDevices is done each device that it imported *)
(* has a peer.                                                              *)
THEOREM ImportsAlwaysComplete == Spec => ImportsComplete
<1>1. RegistryInv /\ [Next]_vars
        => [apc = "create" /\ apc' = "idle" => \A s \in infos \ mixed : bySerial[s] # None]_vars
  <2> SUFFICES ASSUME RegistryInv, Next, apc = "create", apc' = "idle", NEW s \in infos \ mixed
               PROVE  bySerial[s] # None
    OBVIOUS
  <2>1. CreateDone
    BY DEF Next, Admin, Delete, Renumber, SearchDevices, UpdateDevices, Begin, Import, RemoveUpdated,
           RemoveUpdatedGroups, RemoveDone, Reload, LoadPeer, LoadDone, CreatePeer, InsertCreated,
           DeletePeer, DeleteIndex, DeleteGroups, DeleteRow, DeleteFile, SetPeerId, SetGroupsRemove,
           SetGroupsInsert, adminVars
  <2>2. Creating(s)
    BY DEF RegistryInv, TypesInv, AdminTypes, DeviceInv
  <2> QED BY <2>1, <2>2 DEF CreateDone, Creating, AtHand
<1> QED BY <1>1, RegistryInvariant, PTL DEF Spec, ImportsComplete
=============================================================================
