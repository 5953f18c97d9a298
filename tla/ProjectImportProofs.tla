------------------------ MODULE ProjectImportProofs -------------------------
(***************************************************************************)
(* Proofs about ProjectImport: that descriptions have numbers of their own   *)
(* and that a peer's number leads to its device, for any projects, any order *)
(* of their devices, and any number of imports, failures and restarts.       *)
(***************************************************************************)
EXTENDS ProjectImport, FiniteSetTheorems, SequenceTheorems, WellFoundedInduction, TLAPS

ProjectInv ==
  /\ project.devices \subseteq Devices /\ order \in Seq(project.devices)
  /\ \A d, e \in project.devices : d.ets = e.ets => d = e
  /\ \A id \in DOMAIN project.json : id \in Nat /\ project.json[id] \in Int

(* A device is being saved only with a number.                               *)
PhaseInv ==
  /\ phase \in {"idle", "read", "assign", "create", "save", "json"} /\ next \in Nat
  /\ number \in 0..MaxNumber /\ usedTypeNumbers \subseteq Nat
  /\ imports \in 0..MaxImports /\ failures \in 0..MaxFailures
  /\ phase = "save" => number # 0 /\ next < Len(order)

(* Devices have numbers up to MaxNumber, each its own; JSON has any.          *)
Numbered(f) ==
  \A name \in DOMAIN f :
    IF Chosen(name) THEN f[name] \in Nat
    ELSE f[name] \in 1..MaxNumber
Apart(f) ==
  \A a, b \in DOMAIN f : ~Chosen(a) /\ ~Chosen(b) /\ f[a] = f[b] => a = b
FilesInv == Numbered(files) /\ Apart(files) /\ Numbered(known) /\ Apart(known)

IdleInv ==
  phase = "idle" => \A name \in DOMAIN files : name \in DOMAIN known /\ files[name] = known[name]

(* Where the number of a device comes from: its own description in memory,    *)
(* or from none.  So does that of every file that an import has written.      *)
NumberFor(d, n) ==
  IF Known(EtsName(d.ets)) THEN n = known[EtsName(d.ets)]
  ELSE IF Known(AddressName(d.address)) THEN n = known[AddressName(d.address)]
  ELSE n \notin Taken
WrittenFor(name, n) == \E d \in project.devices : name = AddressName(d.address) /\ NumberFor(d, n)
Creating == phase \in {"read", "assign", "create", "save"}
TakenInv ==
  Creating =>
    /\ Taken \subseteq usedTypeNumbers
    /\ \A name \in DOMAIN files : ~Chosen(name) =>
         /\ files[name] \in usedTypeNumbers
         /\ \/ name \in DOMAIN known /\ known[name] = files[name]
            \/ WrittenFor(name, files[name])

PeerNames == {AddressName(d.address) : d \in Devices} \cup ({"json"} \X Nat)
PeerInfoType == [number : Nat, name : PeerNames]
PeerInfoInv ==
  /\ peerInfo \in Seq(PeerInfoType)
  /\ \A i, j \in DOMAIN peerInfo : peerInfo[i].number = peerInfo[j].number => i = j
  /\ \A i \in DOMAIN peerInfo :
       IF Chosen(peerInfo[i].name) THEN peerInfo[i].number \in Nat
       ELSE /\ peerInfo[i].number \in 1..MaxNumber
            /\ \A name \in DOMAIN files :
                 ~Chosen(name) /\ files[name] = peerInfo[i].number => name = peerInfo[i].name
            /\ Creating => /\ peerInfo[i].number \in usedTypeNumbers
                           /\ WrittenFor(peerInfo[i].name, peerInfo[i].number)

(* What RowsKeepDevice says of one row and one description.                   *)
Leads(row, name) ==
  \/ SameDevice(row.name, name) \/ row.name \in lost
  \/ Chosen(row.name) \/ Intrudes(name, row.number)

(* The number that is about to be written is that of no other file, of no     *)
(* other device that the search returns, and of no other device's peer.       *)
SavingInv ==
  phase = "save" =>
    LET own == AddressName(Current.address)
    IN  /\ number \in usedTypeNumbers /\ NumberFor(Current, number)
        /\ \A name \in DOMAIN files : ~Chosen(name) /\ name # own => files[name] # number
        /\ \A i \in DOMAIN peerInfo :
             ~Chosen(peerInfo[i].name) /\ peerInfo[i].number = number => peerInfo[i].name = own
        /\ \A row \in rows : row.number = number => Leads(row, own)

(* Numbers of peers are not given away while their file is there.             *)
RowsInv ==
  /\ \A row \in rows : ~Chosen(row.name) => row.number \in 1..MaxNumber
  /\ \A r, s \in rows : r.number = s.number => r = s
  /\ \A row \in rows :
       \/ Chosen(row.name) \/ row.name \in lost \/ HasFile(row)
       \/ phase = "save" /\ row.number = number
  /\ \A row \in rows : \A name \in DOMAIN known : known[name] = row.number => Leads(row, name)
  /\ \A row \in rows : \A name \in DOMAIN files : files[name] = row.number => Leads(row, name)

ImportInv ==
  /\ ProjectInv /\ PhaseInv /\ FilesInv /\ IdleInv /\ TakenInv /\ PeerInfoInv /\ SavingInv /\ RowsInv

-----------------------------------------------------------------------------
LEMMA NamesApart ==
  /\ \A i : ~Chosen(EtsName(i)) /\ ~Chosen(AddressName(i)) /\ Chosen(JsonName(i))
  /\ \A i, j : EtsName(i) = EtsName(j) => i = j
  /\ \A i, j : EtsName(i) # AddressName(j)
  BY DEF Chosen, EtsName, AddressName, JsonName

(* Two devices come to one number only by one description, and then are one   *)
(* or have one address.                                                     *)
LEMMA OneDescription ==
  ASSUME ProjectInv, FilesInv, NEW d \in project.devices, NEW e \in project.devices, NEW n \in Taken,
         NumberFor(d, n), NumberFor(e, n)
  PROVE  AddressName(d.address) = AddressName(e.address)
<1>1. \A a, b \in DOMAIN known : ~Chosen(a) /\ ~Chosen(b) /\ known[a] = known[b] => a = b
  BY DEF FilesInv, Apart
<1>2. CASE Known(EtsName(d.ets))
  <2>1. n = known[EtsName(d.ets)] /\ EtsName(d.ets) \in DOMAIN known
    BY <1>2 DEF NumberFor, Known
  <2>2. CASE Known(EtsName(e.ets))
    <3>1. n = known[EtsName(e.ets)] /\ EtsName(e.ets) \in DOMAIN known
      BY <2>2 DEF NumberFor, Known
    <3>2. d.ets = e.ets
      BY <1>1, <2>1, <3>1, NamesApart
    <3> QED BY <3>2 DEF ProjectInv
  <2>3. CASE ~Known(EtsName(e.ets))
    <3>1. n = known[AddressName(e.address)] /\ AddressName(e.address) \in DOMAIN known
      BY <2>3 DEF NumberFor, Known
    <3> QED BY <1>1, <2>1, <3>1, NamesApart
  <2> QED BY <2>2, <2>3
<1>3. CASE ~Known(EtsName(d.ets))
  <2>1. n = known[AddressName(d.address)] /\ AddressName(d.address) \in DOMAIN known
    BY <1>3 DEF NumberFor, Known
  <2>2. CASE Known(EtsName(e.ets))
    <3>1. n = known[EtsName(e.ets)] /\ EtsName(e.ets) \in DOMAIN known
      BY <2>2 DEF NumberFor, Known
    <3> QED BY <1>1, <2>1, <3>1, NamesApart
  <2>3. CASE ~Known(EtsName(e.ets))
    <3>1. n = known[AddressName(e.address)] /\ AddressName(e.address) \in DOMAIN known
      BY <2>3 DEF NumberFor, Known
    <3> QED BY <1>1, <2>1, <3>1, NamesApart
  <2> QED BY <2>2, <2>3
<1> QED BY <1>2, <1>3

LEMMA InitImport == Init => ImportInv
<1> SUFFICES ASSUME Init PROVE ImportInv
  OBVIOUS
<1>1. /\ files \in OldFiles /\ known = files /\ phase = "idle" /\ peerInfo = <<>>
      /\ rows = {[number |-> files[name], name |-> name] : name \in DOMAIN files}
  BY DEF Init
<1>2. FilesInv
  BY <1>1, ProjectAssumption DEF FilesInv, Numbered, Apart
<1>3. RowsInv
  <2>1. \A row \in rows : row.name \in DOMAIN files /\ row.number = files[row.name]
    BY <1>1
  <2>2. \A row \in rows : HasFile(row) /\ row.number \in 1..MaxNumber
    BY <1>1, <2>1, ProjectAssumption DEF HasFile
  <2>3. \A r, s \in rows : r.number = s.number => r.name = s.name
    BY <1>1, <2>1, ProjectAssumption
  <2>4. \A r, s \in rows : r.name = s.name => r = s
    BY <1>1
  <2>5. \A row \in rows : \A name \in DOMAIN files : files[name] = row.number => Leads(row, name)
    BY <1>1, <2>1, ProjectAssumption DEF Leads, SameDevice
  <2> QED BY <1>1, <2>2, <2>3, <2>4, <2>5 DEF RowsInv
<1>4. ProjectInv
  BY DEF Init, ProjectInv, NoProject
<1>5. PhaseInv
  BY ProjectAssumption DEF Init, PhaseInv
<1>6. PeerInfoInv
  BY <1>1 DEF PeerInfoInv
<1> QED BY <1>1, <1>2, <1>3, <1>4, <1>5, <1>6 DEF ImportInv, IdleInv, TakenInv, Creating, SavingInv

(* What an import begins with, of either kind.                               *)
Begins(p, devices) ==
  /\ Begin /\ phase' \in {"read", "create"} /\ next' = 0
  /\ project' \in {p, [NoProject EXCEPT !.devices = p.devices]} /\ order' = devices
  /\ usedTypeNumbers' = Taken /\ peerInfo' = <<>>
  /\ UNCHANGED <<files, known, number, rows, failures, lost>>

LEMMA BeginImport ==
  ASSUME ImportInv, NEW p \in Projects, NEW devices \in SetToSeqs(p.devices), Begins(p, devices)
  PROVE  ImportInv'
<1>1. Cardinality(p.devices) \in Nat
  BY FS_CardinalityType, ProjectAssumption DEF IsProject
<1>2. devices \in Seq(p.devices)
  BY <1>1, SeqDef DEF SetToSeqs
<1>3. ProjectInv'
  <2>1. project'.devices = p.devices /\ project'.json \in {p.json, <<>>}
    BY DEF Begins, NoProject
  <2>2. p.devices \subseteq Devices
    BY DEF Devices
  <2>3. \A d, e \in p.devices : d.ets = e.ets => d = e
    BY ProjectAssumption DEF IsProject
  <2>4. \A id \in DOMAIN p.json : id \in Nat /\ p.json[id] \in Int
    BY ProjectAssumption DEF IsProject
  <2>5. \A id \in DOMAIN <<>> : FALSE
    OBVIOUS
  <2>6. order' \in Seq(project'.devices)
    BY <1>2, <2>1 DEF Begins
  <2>7. \A id \in DOMAIN project'.json :
          id \in Nat /\ project'.json[id] \in Int
    BY <2>1, <2>4, <2>5
  <2> QED BY <2>1, <2>2, <2>3, <2>6, <2>7 DEF ProjectInv
<1>4. FilesInv' /\ Taken' = Taken
  BY DEF Begins, ImportInv, FilesInv, Numbered, Apart, Taken
<1>5. Taken \subseteq Nat
  BY ProjectAssumption DEF ImportInv, FilesInv, Numbered, Taken
<1>6. PhaseInv'
  BY <1>5, ProjectAssumption DEF Begins, Begin, ImportInv, PhaseInv
<1>7. TakenInv'
  <2>1. \A name \in DOMAIN files : name \in DOMAIN known /\ files[name] = known[name]
    BY DEF Begins, Begin, ImportInv, IdleInv
  <2> QED BY <1>4, <2>1 DEF TakenInv, Begins, Taken
<1>8. IdleInv' /\ SavingInv' /\ PeerInfoInv'
  BY DEF Begins, IdleInv, SavingInv, PeerInfoInv
<1>9. RowsInv'
  <2>1. phase # "save" /\ phase' # "save"
    BY DEF Begins, Begin
  <2> QED BY <2>1 DEF Begins, ImportInv, RowsInv, HasFile, Leads, SameDevice
<1> QED BY <1>3, <1>4, <1>6, <1>7, <1>8, <1>9 DEF ImportInv

LEMMA StepBegin ==
  ASSUME ImportInv,
         \/ \E p \in Importable : \E devices \in SetToSeqs(p.devices) : SearchDevices(p, devices)
         \/ \E p \in Repeated : \E devices \in SetToSeqs(p.devices) : UpdateDevices(p, devices)
  PROVE  ImportInv'
<1>1. Importable \subseteq Projects /\ Repeated \subseteq Projects
  BY DEF Importable, Repeated
<1>2. ASSUME NEW p \in Importable, NEW devices \in SetToSeqs(p.devices), SearchDevices(p, devices)
      PROVE  ImportInv'
  <2>1. Begins(p, devices)
    BY <1>2 DEF SearchDevices, Begins
  <2> QED BY <1>1, <2>1, BeginImport
<1>3. ASSUME NEW p \in Repeated, NEW devices \in SetToSeqs(p.devices), UpdateDevices(p, devices)
      PROVE  ImportInv'
  <2>1. Begins(p, devices)
    BY <1>3 DEF UpdateDevices, Begins
  <2> QED BY <1>1, <2>1, BeginImport
<1> QED BY <1>2, <1>3

(* Steps that read XML, assign variables or go on to the next phase.          *)
Reads == ReadLink \/ ReadObject \/ ReadEnds
Assigns == AssignVariable \/ AssignDevice \/ AssignGroup \/ AssignEnds
LEMMA StepOn ==
  ASSUME ImportInv, Reads \/ Assigns \/ CreateEnds
  PROVE  ImportInv'
<1>1. /\ UNCHANGED <<project, order, files, known, usedTypeNumbers, number, peerInfo, rows, imports,
                     failures, lost>>
      /\ phase \in {"read", "assign", "create"} /\ next' \in Nat
      /\ phase' \in {"read", "assign", "create", "json"}
  <2>1. CASE Reads
    <3>1. CASE ReadLink
      BY <3>1 DEF ReadLink, ImportInv, PhaseInv
    <3>2. CASE ReadObject
      BY <3>2 DEF ReadObject, ImportInv, PhaseInv
    <3>3. CASE ReadEnds
      BY <3>3 DEF ReadEnds, ImportInv, PhaseInv
    <3> QED BY <2>1, <3>1, <3>2, <3>3 DEF Reads
  <2>2. CASE Assigns
    BY <2>2 DEF Assigns, AssignVariable, AtDevice, AssignDevice, AssignGroup, AssignEnds, import,
           ImportInv, PhaseInv
  <2>3. CASE CreateEnds
    BY <2>3 DEF CreateEnds, import, ImportInv, PhaseInv
  <2> QED BY <2>1, <2>2, <2>3
<1>2. Taken' = Taken
  BY <1>1 DEF Taken
<1>3. ProjectInv' /\ PhaseInv' /\ FilesInv' /\ IdleInv' /\ SavingInv'
  BY <1>1 DEF ImportInv, ProjectInv, PhaseInv, FilesInv, Numbered, Apart, IdleInv, SavingInv
<1>4. \A name, n : WrittenFor(name, n)' <=> WrittenFor(name, n)
  BY <1>1, <1>2 DEF WrittenFor, NumberFor, Known
<1>5. TakenInv'
  BY <1>1, <1>2, <1>4 DEF ImportInv, TakenInv, Creating
<1>6. PeerInfoInv'
  BY <1>1, <1>4 DEF ImportInv, PeerInfoInv, Creating
<1>7. RowsInv'
  BY <1>1 DEF ImportInv, RowsInv, HasFile, Leads, SameDevice
<1> QED BY <1>3, <1>5, <1>6, <1>7 DEF ImportInv

(* createHomegearDevice's number: of the description it takes away, or free.  *)
OldOf(d) ==
  IF Known(EtsName(d.ets)) THEN {EtsName(d.ets)}
  ELSE IF Known(AddressName(d.address)) THEN {AddressName(d.address)} ELSE {}
LEMMA OldNumber ==
  ASSUME ImportInv, NEW d \in project.devices, NEW o \in OldOf(d), NEW n, n = known[o]
  PROVE  /\ OldOf(d) = {o} /\ o \in DOMAIN known /\ ~Chosen(o)
         /\ o = EtsName(d.ets) \/ o = AddressName(d.address)
         /\ n \in 1..MaxNumber /\ n \in Taken /\ NumberFor(d, n)
<1>1. /\ OldOf(d) = {o} /\ o \in DOMAIN known /\ NumberFor(d, n)
      /\ o = EtsName(d.ets) \/ o = AddressName(d.address)
  BY DEF OldOf, Known, NumberFor
<1> QED BY <1>1, NamesApart DEF ImportInv, FilesInv, Numbered, Taken

LEMMA LowestIsLeast ==
  ASSUME NEW numbers, numbers \subseteq Nat, numbers # {}
  PROVE  Lowest(numbers) \in numbers /\ \A m \in numbers : Lowest(numbers) <= m
<1> DEFINE R == OpToRel(<, Nat)
<1>1. \A m, n \in Nat : m < n <=> <<m, n>> \in R
  BY DEF OpToRel
<1>2. IsWellFoundedOn(R, Nat)
  BY NatLessThanWellFounded
<1> HIDE DEF R
<1>3. \E n \in numbers : \A m \in numbers : ~ (<<m, n>> \in R)
  BY <1>2, WFMin
<1>4. PICK n \in numbers : \A m \in numbers : ~ (<<m, n>> \in R)
  BY <1>3
<1>5. \A m \in numbers : ~ (m < n) /\ m \in Nat /\ n \in Nat
  BY <1>1, <1>4
<1>6. \A m \in numbers : n <= m
  BY <1>5
<1> QED BY <1>6 DEF Lowest

LEMMA FreeNumber ==
  ASSUME ImportInv, Creating, NEW d \in project.devices, OldOf(d) = {}, NEW n, n = Lowest(Free)
  PROVE  n = 0 \/ (n \in 1..MaxNumber /\ n \notin usedTypeNumbers /\ n \notin Taken /\ NumberFor(d, n))
<1>1. Taken \subseteq usedTypeNumbers
  BY DEF ImportInv, TakenInv
<1>2. Free \subseteq 1..MaxNumber /\ \A m \in Free : m \notin usedTypeNumbers
  BY DEF Free
<1>3. CASE Free = {}
  BY <1>3 DEF Lowest
<1>4. CASE Free # {}
  <2>1. Free \subseteq Nat
    BY <1>2, ProjectAssumption
  <2>2. n \in Free
    BY <1>4, <2>1, LowestIsLeast
  <2> QED BY <1>1, <1>2, <2>2 DEF NumberFor, OldOf
<1> QED BY <1>3, <1>4

(* The steps of CreateHomegearDevice that every conjunct needs.              *)
Creates(d, old, n) ==
  /\ phase = "create" /\ d \in project.devices /\ old = OldOf(d)
  /\ order' = order /\ project' = project /\ imports' = imports /\ failures' = failures
  /\ UNCHANGED <<known, peerInfo, rows>>
  /\ number' = n /\ n \in 0..MaxNumber
  /\ DOMAIN files' = DOMAIN files \ old /\ \A name \in DOMAIN files' : files'[name] = files[name]
  /\ usedTypeNumbers' = IF n > 0 THEN usedTypeNumbers \cup {n} ELSE usedTypeNumbers
  /\ lost' = lost \cup Replaced(old, n)
  /\ IF n = 0 THEN phase' = "create" /\ next' = next + 1
     ELSE phase' = "save" /\ next' = next /\ next < Len(order) /\ Current = d
  /\ IF old = {} THEN n = 0 \/ (n \notin usedTypeNumbers /\ n \notin Taken)
     ELSE \E o \in old : old = {o} /\ o \in DOMAIN known /\ ~Chosen(o) /\ known[o] = n /\ n > 0
                         /\ (o = EtsName(d.ets) \/ o = AddressName(d.address))
  /\ n # 0 => NumberFor(d, n)

LEMMA CreateCreates ==
  ASSUME ImportInv, CreateHomegearDevice
  PROVE  \E d, old, n : Creates(d, old, n)
<1> DEFINE d == Current
           old == OldOf(d)
           n == IF old # {} THEN known[CHOOSE name \in old : TRUE] ELSE Lowest(Free)
<1>1. phase = "create" /\ next < Len(order) /\ Creating
  BY DEF CreateHomegearDevice, Creating
<1>2. d \in project.devices
  BY <1>1 DEF ImportInv, ProjectInv, PhaseInv, Current
<1>3. /\ UNCHANGED import /\ UNCHANGED <<known, peerInfo, rows, imports, failures>>
      /\ number' = n /\ files' = Without(files, old) /\ lost' = lost \cup Replaced(old, n)
      /\ usedTypeNumbers' = IF n > 0 THEN usedTypeNumbers \cup {n} ELSE usedTypeNumbers
      /\ IF n = 0 THEN phase' = phase /\ next' = next + 1 ELSE phase' = "save" /\ next' = next
  BY DEF CreateHomegearDevice, OldOf
<1> HIDE DEF d
<1>4. CASE old = {}
  <2>1. n = 0 \/ (n \in 1..MaxNumber /\ n \notin usedTypeNumbers /\ n \notin Taken /\ NumberFor(d, n))
    BY <1>1, <1>2, <1>4, FreeNumber
  <2> HIDE DEF n
  <2>2. n \in 0..MaxNumber
    BY <2>1, ProjectAssumption
  <2> QED BY <1>1, <1>2, <1>3, <1>4, <2>1, <2>2 DEF Creates, Without, import, d
<1>5. CASE old # {}
  <2>1. PICK o \in old : o = CHOOSE name \in old : TRUE
    BY <1>5
  <2>2. n = known[o]
    BY <1>5, <2>1
  <2> HIDE DEF n
  <2>3. /\ old = {o} /\ o \in DOMAIN known /\ ~Chosen(o)
        /\ o = EtsName(d.ets) \/ o = AddressName(d.address)
        /\ n \in 1..MaxNumber /\ n \in Taken /\ NumberFor(d, n)
    BY <1>2, <2>1, <2>2, OldNumber
  <2>4. n \in 0..MaxNumber /\ n > 0
    BY <2>3, ProjectAssumption
  <2> HIDE DEF old
  <2> QED BY <1>1, <1>2, <1>3, <1>5, <2>2, <2>3, <2>4 DEF Creates, Without, import, d, old
<1> QED BY <1>4, <1>5

LEMMA LeadsStays ==
  ASSUME NEW row, NEW name, Leads(row, name), lost \subseteq lost'
  PROVE  Leads(row, name)'
  BY DEF Leads, SameDevice

LEMMA CreatesSaving ==
  ASSUME ImportInv, NEW d, NEW old, NEW n, Creates(d, old, n)
  PROVE  SavingInv'
<1> DEFINE own == AddressName(d.address)
<1>1. CASE n = 0
  BY <1>1 DEF Creates, SavingInv
<1>2. CASE n # 0
  <2>1. Creating /\ d \in project.devices /\ NumberFor(d, n) /\ phase # "save" /\ phase' = "save"
    BY <1>2 DEF Creates, Creating
  <2>2. Current' = d
    BY <1>2 DEF Creates, Current
  <2>3. number' = n /\ n \in usedTypeNumbers'
    BY <1>2 DEF Creates
  <2>4. Taken' = Taken /\ NumberFor(d, n)'
    BY <2>1 DEF Creates, NumberFor, Known, Taken
  <2>5. n \in usedTypeNumbers =>
          n \in Taken /\ \E o \in old : old = {o} /\ o \in DOMAIN known /\ ~Chosen(o) /\ known[o] = n
    BY <1>2 DEF Creates, Taken
  <2>6. ASSUME NEW name, WrittenFor(name, n), n \in usedTypeNumbers PROVE name = own
    <3>1. PICK e \in project.devices : name = AddressName(e.address) /\ NumberFor(e, n)
      BY <2>6 DEF WrittenFor
    <3> QED BY <2>1, <2>5, <2>6, <3>1, OneDescription DEF ImportInv
  <2>7. ASSUME NEW name \in DOMAIN files', ~Chosen(name), name # own PROVE files'[name] # n
    <3>1. name \in DOMAIN files /\ name \notin old /\ files'[name] = files[name]
      BY <2>7 DEF Creates
    <3>2. SUFFICES ASSUME files[name] = n PROVE FALSE
      BY <3>1
    <3>3. /\ n \in usedTypeNumbers
          /\ \/ name \in DOMAIN known /\ known[name] = n
             \/ WrittenFor(name, n)
      BY <2>1, <2>7, <3>1, <3>2 DEF ImportInv, TakenInv
    <3>4. name \in DOMAIN known /\ known[name] = n
      BY <2>6, <2>7, <3>3
    <3> QED BY <2>5, <2>7, <3>1, <3>3, <3>4 DEF ImportInv, FilesInv, Apart
  <2>8. ASSUME NEW i \in DOMAIN peerInfo, ~Chosen(peerInfo[i].name), peerInfo[i].number = n
        PROVE  peerInfo[i].name = own
    <3>1. n \in usedTypeNumbers /\ WrittenFor(peerInfo[i].name, n)
      BY <2>1, <2>8 DEF ImportInv, PeerInfoInv
    <3> QED BY <2>6, <3>1
  <2>9. ASSUME NEW row \in rows, row.number = n PROVE Leads(row, own)'
    <3>1. CASE old = {}
      <4>1. ~HasFile(row)
        BY <1>2, <2>1, <2>9, <3>1 DEF Creates, HasFile, ImportInv, TakenInv
      <4>2. Leads(row, own)
        BY <2>1, <2>9, <4>1 DEF ImportInv, RowsInv, Leads
      <4> QED BY <4>2, LeadsStays DEF Creates
    <3>2. CASE old # {}
      <4>1. PICK o \in old : /\ o \in DOMAIN known /\ ~Chosen(o) /\ known[o] = n
                             /\ o = EtsName(d.ets) \/ o = own
        BY <3>2 DEF Creates
      <4>2. Leads(row, o)
        BY <2>9, <4>1 DEF ImportInv, RowsInv
      <4>3. SameDevice(row.name, o) => SameDevice(row.name, own)
        <5>1. d \in Devices
          BY <2>1 DEF ImportInv, ProjectInv
        <5> QED BY <4>1, <5>1, NamesApart DEF SameDevice
      <4>4. Leads(row, own)
        BY <4>1, <4>2, <4>3 DEF Leads, Intrudes
      <4> QED BY <4>4, LeadsStays DEF Creates
    <3> QED BY <3>1, <3>2
  <2> HIDE DEF own
  <2>10. UNCHANGED <<peerInfo, rows>> /\ AddressName(Current.address)' = own
    BY <2>2 DEF Creates, own
  <2> QED BY <2>2, <2>3, <2>4, <2>7, <2>8, <2>9, <2>10 DEF SavingInv
<1> QED BY <1>1, <1>2

LEMMA CreatesRows ==
  ASSUME ImportInv, NEW d, NEW old, NEW n, Creates(d, old, n)
  PROVE  RowsInv'
<1>1. /\ UNCHANGED <<rows, known>> /\ lost \subseteq lost' /\ phase # "save"
      /\ DOMAIN files' = DOMAIN files \ old /\ \A name \in DOMAIN files' : files'[name] = files[name]
  BY DEF Creates
<1>2. ASSUME NEW row \in rows
      PROVE  \/ Chosen(row.name) \/ row.name \in lost' \/ HasFile(row)'
             \/ phase' = "save" /\ row.number = number'
  <2>1. Chosen(row.name) \/ row.name \in lost \/ HasFile(row)
    BY <1>1 DEF ImportInv, RowsInv
  <2>2. ASSUME HasFile(row), ~HasFile(row)', row.name \notin lost'
        PROVE  phase' = "save" /\ row.number = number'
    <3>1. PICK name \in DOMAIN files : ~Chosen(name) /\ files[name] = row.number
      BY <2>2 DEF HasFile
    <3>2. name \in old
      BY <1>1, <2>2, <3>1 DEF HasFile
    <3>3. row.number = n
      BY <2>2, <3>1, <3>2 DEF Creates, Replaced
    <3>4. n # 0
      BY <3>2 DEF Creates
    <3> QED BY <3>3, <3>4 DEF Creates
  <2> QED BY <1>1, <2>1, <2>2
<1>3. \A row \in rows : \A name \in DOMAIN known : known[name] = row.number => Leads(row, name)'
  BY <1>1, LeadsStays DEF ImportInv, RowsInv
<1>4. \A row \in rows : \A name \in DOMAIN files' : files'[name] = row.number => Leads(row, name)'
  BY <1>1, LeadsStays DEF ImportInv, RowsInv
<1>5. /\ \A row \in rows : ~Chosen(row.name) => row.number \in 1..MaxNumber
      /\ \A r, s \in rows : r.number = s.number => r = s
  BY DEF ImportInv, RowsInv
<1> QED BY <1>1, <1>2, <1>3, <1>4, <1>5 DEF RowsInv

LEMMA CreatesFiles ==
  ASSUME ImportInv, NEW d, NEW old, NEW n, Creates(d, old, n)
  PROVE  ProjectInv' /\ PhaseInv' /\ FilesInv' /\ IdleInv' /\ TakenInv' /\ PeerInfoInv'
<1>1. /\ UNCHANGED <<project, order, known, peerInfo>> /\ Creating /\ phase' \in {"create", "save"}
      /\ DOMAIN files' \subseteq DOMAIN files /\ \A name \in DOMAIN files' : files'[name] = files[name]
      /\ usedTypeNumbers \subseteq usedTypeNumbers'
  BY DEF Creates, Creating
<1>2. \A name, m : WrittenFor(name, m)' <=> WrittenFor(name, m)
  BY <1>1 DEF WrittenFor, NumberFor, Known, Taken
<1>3. ProjectInv'
  BY <1>1 DEF ImportInv, ProjectInv
<1>4. PhaseInv'
  <2>1. n \in 0..MaxNumber /\ n \in Nat
    BY ProjectAssumption DEF Creates
  <2>3. usedTypeNumbers' \subseteq usedTypeNumbers \cup {n} /\ usedTypeNumbers \subseteq Nat
    BY DEF Creates, ImportInv, PhaseInv
  <2>2. next' \in Nat /\ (phase' = "save" => number' # 0 /\ next' < Len(order'))
    BY DEF Creates, ImportInv, PhaseInv
  <2> QED BY <1>1, <2>1, <2>2, <2>3 DEF Creates, ImportInv, PhaseInv
<1>5. FilesInv' /\ IdleInv'
  BY <1>1 DEF ImportInv, FilesInv, Numbered, Apart, IdleInv
<1>6. TakenInv'
  <2>1. Taken' = Taken
    BY <1>1 DEF Taken
  <2> QED BY <1>1, <1>2, <2>1 DEF ImportInv, TakenInv
<1>7. PeerInfoInv'
  BY <1>1, <1>2 DEF ImportInv, PeerInfoInv
<1> QED BY <1>3, <1>4, <1>5, <1>6, <1>7

LEMMA StepCreate ==
  ASSUME ImportInv, CreateHomegearDevice
  PROVE  ImportInv'
<1>1. PICK d, old, n : Creates(d, old, n)
  BY CreateCreates
<1> QED BY <1>1, CreatesSaving, CreatesRows, CreatesFiles DEF ImportInv

LEMMA StepFails ==
  ASSUME ImportInv, CreateFails \/ Restart
  PROVE  ImportInv'
<1>1. /\ UNCHANGED <<project, order, files, usedTypeNumbers, number, peerInfo, rows, imports>>
      /\ phase' \in {"create", "idle"} /\ next' \in Nat /\ failures' \in 0..MaxFailures
      /\ \/ known' = known /\ phase' = "create" /\ phase = "save"
         \/ known' = files /\ phase' = "idle"
      /\ lost' = lost \cup Missing
  BY ProjectAssumption DEF CreateFails, Restart, Fail, import, ImportInv, PhaseInv
<1>2. ProjectInv' /\ PhaseInv' /\ FilesInv' /\ IdleInv' /\ SavingInv'
  BY <1>1 DEF ImportInv, ProjectInv, PhaseInv, FilesInv, Numbered, Apart, IdleInv, SavingInv
<1>3. known' = known => \A name, n : WrittenFor(name, n)' <=> WrittenFor(name, n)
  BY <1>1 DEF WrittenFor, NumberFor, Known, Taken
<1>4. TakenInv'
  <2>1. CASE phase' = "idle"
    BY <2>1 DEF TakenInv, Creating
  <2>2. CASE phase' = "create"
    BY <1>1, <1>3, <2>2 DEF ImportInv, TakenInv, Creating, Taken
  <2> QED BY <1>1, <2>1, <2>2
<1>5. PeerInfoInv'
  <2>1. CASE phase' = "idle"
    BY <1>1, <2>1 DEF ImportInv, PeerInfoInv, Creating
  <2>2. CASE phase' = "create"
    BY <1>1, <1>3, <2>2 DEF ImportInv, PeerInfoInv, Creating
  <2> QED BY <1>1, <2>1, <2>2
<1>6. RowsInv'
  <2>1. \A row \in rows : HasFile(row) \/ row.name \in lost'
    BY <1>1 DEF Missing
  <2>2. \A row \in rows : HasFile(row)' <=> HasFile(row)
    BY <1>1 DEF HasFile
  <2>3. \A row, name : Leads(row, name) => Leads(row, name)'
    BY <1>1, LeadsStays
  <2> QED BY <1>1, <2>1, <2>2, <2>3 DEF ImportInv, RowsInv
<1> QED BY <1>2, <1>4, <1>5, <1>6 DEF ImportInv

(* The file and the device that addDeviceToPeerInfo writes.                  *)
Adds(name, n) ==
  /\ UNCHANGED <<project, order, known, usedTypeNumbers, rows, imports, failures>>
  /\ name \in PeerNames /\ n \in Nat
  /\ DOMAIN files' = DOMAIN files \cup {name} /\ files'[name] = n
  /\ \A other \in DOMAIN files : other # name => files'[other] = files[other]
  /\ peerInfo' = Returned(name, n)
LEMMA AddedPeers ==
  ASSUME ImportInv, NEW name, NEW n, Adds(name, n)
  PROVE  /\ peerInfo' \in Seq(PeerInfoType)
         /\ \A i, j \in DOMAIN peerInfo' : peerInfo'[i].number = peerInfo'[j].number => i = j
         /\ \A i \in DOMAIN peerInfo' :
              \/ i \in DOMAIN peerInfo /\ peerInfo'[i] = peerInfo[i]
              \/ n # 0 /\ peerInfo'[i].name = name /\ peerInfo'[i].number = n
<1> DEFINE new == [number |-> n, name |-> name]
<1>1. peerInfo \in Seq(PeerInfoType) /\ new \in PeerInfoType
  BY DEF ImportInv, PeerInfoInv, Adds, PeerInfoType
<1>2. CASE ~Accepted(n)
  BY <1>1, <1>2 DEF Adds, Returned, ImportInv, PeerInfoInv
<1>3. CASE Accepted(n)
  <2>1. peerInfo' = Append(peerInfo, new)
    BY <1>3 DEF Adds, Returned
  <2>2. new.number = n /\ new.name = name /\ n # 0 /\ \A i \in DOMAIN peerInfo : peerInfo[i].number # n
    BY <1>3 DEF Accepted
  <2> HIDE DEF new
  <2>3. /\ peerInfo' \in Seq(PeerInfoType) /\ DOMAIN peerInfo' = 1..Len(peerInfo) + 1
        /\ DOMAIN peerInfo = 1..Len(peerInfo) /\ Len(peerInfo) \in Nat
        /\ peerInfo'[Len(peerInfo) + 1] = new
        /\ \A i \in 1..Len(peerInfo) : peerInfo'[i] = peerInfo[i]
    BY <1>1, <2>1
  <2>4. \A i \in DOMAIN peerInfo' :
          \/ i \in DOMAIN peerInfo /\ peerInfo'[i] = peerInfo[i]
          \/ i = Len(peerInfo) + 1 /\ peerInfo'[i] = new
    BY <2>3
  <2>5. \A i, j \in DOMAIN peerInfo : peerInfo[i].number = peerInfo[j].number => i = j
    BY DEF ImportInv, PeerInfoInv
  <2>6. \A i, j \in DOMAIN peerInfo' : peerInfo'[i].number = peerInfo'[j].number => i = j
    BY <2>2, <2>4, <2>5
  <2> QED BY <2>2, <2>3, <2>4, <2>6
<1> QED BY <1>2, <1>3

LEMMA StepJson ==
  ASSUME ImportInv, NEW id \in DOMAIN project.json, AddJson(id)
  PROVE  ImportInv'
<1> DEFINE name == JsonName(id)
           n == JsonNumber(id)
<1>1. /\ Chosen(name) /\ n \in Nat /\ name \in PeerNames
      /\ id \in Nat
  BY NamesApart, ProjectAssumption DEF ImportInv, ProjectInv, JsonNumber, PeerNames, JsonName
<1>2. /\ phase = "json" /\ UNCHANGED <<phase, number, lost>> /\ next' = id
      /\ files' = Put(files, name, n)
  BY DEF AddJson
<1> HIDE DEF name, n
<1>3. Adds(name, n)
  BY <1>1, <1>2 DEF AddJson, Adds, Put, import, name, n
<1>4. ProjectInv' /\ IdleInv' /\ TakenInv' /\ SavingInv'
  BY <1>2, <1>3 DEF Adds, ImportInv, ProjectInv, IdleInv, TakenInv, Creating, SavingInv
<1>5. PhaseInv'
  BY <1>1, <1>2, <1>3 DEF Adds, ImportInv, PhaseInv
<1>6. FilesInv'
  BY <1>1, <1>3 DEF Adds, ImportInv, FilesInv, Numbered, Apart
<1>7. PeerInfoInv'
  <2>1. ~Creating'
    BY <1>2 DEF Creating
  <2>2. \A other \in DOMAIN files' :
          ~Chosen(other) => other \in DOMAIN files /\ files'[other] = files[other]
    BY <1>1, <1>3 DEF Adds
  <2>3. ASSUME NEW i \in DOMAIN peerInfo'
        PROVE  IF Chosen(peerInfo'[i].name) THEN peerInfo'[i].number \in Nat
               ELSE /\ peerInfo'[i].number \in 1..MaxNumber
                    /\ \A other \in DOMAIN files' :
                         ~Chosen(other) /\ files'[other] = peerInfo'[i].number
                         => other = peerInfo'[i].name
    <3>1. CASE i \in DOMAIN peerInfo /\ peerInfo'[i] = peerInfo[i]
      BY <2>2, <3>1 DEF ImportInv, PeerInfoInv
    <3>2. CASE n # 0 /\ peerInfo'[i].name = name /\ peerInfo'[i].number = n
      BY <1>1, <3>2
    <3> QED BY <1>3, <3>1, <3>2, AddedPeers
  <2> QED BY <1>3, <2>1, <2>3, AddedPeers DEF PeerInfoInv
<1>8. RowsInv'
  <2>1. \A row, other : Leads(row, other) => Leads(row, other)'
    BY <1>2, LeadsStays
  <2>2. \A row : HasFile(row) => HasFile(row)'
    BY <1>1, <1>3 DEF Adds, HasFile
  <2>3. ASSUME NEW row \in rows, row.number = n PROVE Leads(row, name)'
    <3>1. CASE Chosen(row.name)
      BY <3>1 DEF Leads
    <3>2. CASE ~Chosen(row.name)
      <4>1. row.number <= MaxNumber
        BY <3>2, ProjectAssumption DEF ImportInv, RowsInv
      <4> QED BY <1>1, <4>1 DEF Leads, Intrudes
    <3> QED BY <3>1, <3>2
  <2>4. \A row \in rows : \A other \in DOMAIN files' : files'[other] = row.number => Leads(row, other)'
    BY <1>3, <2>1, <2>3 DEF Adds, ImportInv, RowsInv
  <2>5. \A row \in rows : Chosen(row.name) \/ row.name \in lost' \/ HasFile(row)'
    BY <1>2, <2>2 DEF ImportInv, RowsInv
  <2> QED BY <1>3, <2>1, <2>4, <2>5 DEF Adds, ImportInv, RowsInv
<1> QED BY <1>4, <1>5, <1>6, <1>7, <1>8 DEF ImportInv

LEMMA StepAdd ==
  ASSUME ImportInv, AddDevice
  PROVE  ImportInv'
<1>0. PICK d, n : d = Current /\ n = number
  OBVIOUS
<1> DEFINE own == AddressName(d.address)
<1>1. /\ phase = "save" /\ phase' = "create" /\ next' = next + 1 /\ number' = number
      /\ files' = Put(files, own, n) /\ peerInfo' = Returned(own, n)
      /\ lost' = lost \cup Replaced({own}, n)
      /\ UNCHANGED <<project, order, known, usedTypeNumbers, rows, imports, failures>>
  BY <1>0 DEF AddDevice, import
<1>2. /\ d \in project.devices /\ d \in Devices /\ n \in 1..MaxNumber /\ n \in Nat /\ ~Chosen(own)
      /\ own \in PeerNames
  <2>1. d \in project.devices /\ d \in Devices
    BY <1>0, <1>1 DEF ImportInv, ProjectInv, PhaseInv, Current
  <2>2. n \in 1..MaxNumber /\ n \in Nat
    BY <1>0, <1>1, ProjectAssumption DEF ImportInv, PhaseInv
  <2> QED BY <2>1, <2>2, NamesApart DEF PeerNames
<1>3. /\ n \in usedTypeNumbers /\ NumberFor(d, n)
      /\ \A name \in DOMAIN files : ~Chosen(name) /\ name # own => files[name] # n
      /\ \A i \in DOMAIN peerInfo :
           ~Chosen(peerInfo[i].name) /\ peerInfo[i].number = n => peerInfo[i].name = own
      /\ \A row \in rows : row.number = n => Leads(row, own)
  BY <1>0, <1>1 DEF ImportInv, SavingInv
<1>4. Adds(own, n)
  BY <1>1, <1>2 DEF Adds, Put
<1> HIDE DEF own
<1>5. \A name, m : WrittenFor(name, m)' <=> WrittenFor(name, m)
  BY <1>1 DEF WrittenFor, NumberFor, Known, Taken
<1>6. WrittenFor(own, n)'
  BY <1>2, <1>3, <1>5 DEF WrittenFor, own
<1>7. Creating /\ Creating' /\ Taken' = Taken
  BY <1>1 DEF Creating, Taken
<1>8. ProjectInv' /\ PhaseInv' /\ IdleInv' /\ SavingInv'
  BY <1>1 DEF ImportInv, ProjectInv, PhaseInv, IdleInv, SavingInv
<1>9. FilesInv'
  BY <1>1, <1>2, <1>3, <1>4 DEF Adds, ImportInv, FilesInv, Numbered, Apart
<1>10. TakenInv'
  BY <1>1, <1>3, <1>4, <1>5, <1>6, <1>7 DEF Adds, ImportInv, TakenInv
<1>11. PeerInfoInv'
  <2>1. ASSUME NEW i \in DOMAIN peerInfo'
        PROVE  IF Chosen(peerInfo'[i].name) THEN peerInfo'[i].number \in Nat
               ELSE /\ peerInfo'[i].number \in 1..MaxNumber
                    /\ \A other \in DOMAIN files' :
                         ~Chosen(other) /\ files'[other] = peerInfo'[i].number
                         => other = peerInfo'[i].name
                    /\ peerInfo'[i].number \in usedTypeNumbers'
                    /\ WrittenFor(peerInfo'[i].name, peerInfo'[i].number)
    <3>1. CASE i \in DOMAIN peerInfo /\ peerInfo'[i] = peerInfo[i]
      <4>1. \A other \in DOMAIN files' :
              \/ other = own /\ files'[other] = n
              \/ other \in DOMAIN files /\ files'[other] = files[other]
        BY <1>4 DEF Adds
      <4> QED BY <1>1, <1>3, <1>7, <3>1, <4>1 DEF ImportInv, PeerInfoInv
    <3>2. CASE n # 0 /\ peerInfo'[i].name = own /\ peerInfo'[i].number = n
      <4>1. \A other \in DOMAIN files' : ~Chosen(other) /\ files'[other] = n => other = own
        BY <1>3, <1>4 DEF Adds
      <4> QED BY <1>1, <1>2, <1>3, <1>5, <1>6, <3>2, <4>1
    <3> QED BY <1>4, <3>1, <3>2, AddedPeers
  <2> QED BY <1>4, <1>5, <1>7, <2>1, AddedPeers DEF PeerInfoInv
<1>12. RowsInv'
  <2>1. \A row, other : Leads(row, other) => Leads(row, other)'
    BY <1>1, LeadsStays
  <2>2. \A row \in rows : \A other \in DOMAIN files' : files'[other] = row.number => Leads(row, other)'
    BY <1>3, <1>4, <2>1 DEF Adds, ImportInv, RowsInv
  <2>3. ASSUME NEW row \in rows, ~Chosen(row.name), row.name \notin lost' PROVE HasFile(row)'
    <3>1. CASE row.number = n
      BY <1>2, <1>4, <3>1 DEF Adds, HasFile
    <3>2. CASE row.number # n
      <4>1. HasFile(row)
        BY <1>0, <1>1, <2>3, <3>2 DEF ImportInv, RowsInv
      <4>2. PICK name \in DOMAIN files : ~Chosen(name) /\ files[name] = row.number
        BY <4>1 DEF HasFile
      <4>3. name # own
        BY <1>1, <2>3, <3>2, <4>2 DEF Replaced
      <4> QED BY <1>4, <4>2, <4>3 DEF Adds, HasFile
    <3> QED BY <3>1, <3>2
  <2> QED BY <1>1, <2>1, <2>2, <2>3 DEF ImportInv, RowsInv
<1> QED BY <1>8, <1>9, <1>10, <1>11, <1>12 DEF ImportInv

LEMMA StepReload ==
  ASSUME ImportInv, Reload
  PROVE  ImportInv'
<1>1. /\ phase = "json" /\ phase' = "idle" /\ known' = files /\ rows' = rows \cup NewPeers
      /\ lost' = lost \cup {row.name : row \in {r \in NewPeers : ~HasFile(r)}}
      /\ UNCHANGED <<project, order, next, files, usedTypeNumbers, number, peerInfo, imports, failures>>
  BY DEF Reload, import
<1>2. ProjectInv' /\ PhaseInv' /\ FilesInv' /\ IdleInv' /\ TakenInv' /\ SavingInv'
  BY <1>1 DEF ImportInv, ProjectInv, PhaseInv, FilesInv, Numbered, Apart, IdleInv, TakenInv,
         Creating, SavingInv
<1>3. PeerInfoInv'
  BY <1>1 DEF ImportInv, PeerInfoInv, Creating
<1>4. \A row \in NewPeers :
        /\ \A r \in rows : r.number # row.number
        /\ \E i \in DOMAIN peerInfo : row = peerInfo[i]
  BY DEF NewPeers
<1>5. \A row : HasFile(row)' <=> HasFile(row)
  BY <1>1 DEF HasFile
<1>6. \A row, other : Leads(row, other) => Leads(row, other)'
  BY <1>1, LeadsStays
<1>7. ASSUME NEW row \in NewPeers, NEW name \in DOMAIN files, files[name] = row.number
      PROVE  Leads(row, name)
  <2>1. PICK i \in DOMAIN peerInfo : row = peerInfo[i]
    BY <1>4
  <2>2. CASE Chosen(row.name)
    BY <2>2 DEF Leads
  <2>3. CASE ~Chosen(row.name)
    <3>1. /\ row.number \in 1..MaxNumber
          /\ ~Chosen(name) => name = row.name
      BY <1>7, <2>1, <2>3 DEF ImportInv, PeerInfoInv
    <3>2. Chosen(name) => Intrudes(name, row.number)
      BY <3>1, ProjectAssumption DEF Intrudes
    <3> QED BY <3>1, <3>2 DEF Leads, SameDevice
  <2> QED BY <2>2, <2>3
<1>8. \A row \in rows' : \A name \in DOMAIN files : files[name] = row.number => Leads(row, name)'
  BY <1>1, <1>6, <1>7 DEF ImportInv, RowsInv
<1>9. \A row \in rows' : ~Chosen(row.name) => row.number \in 1..MaxNumber
  BY <1>1, <1>4 DEF ImportInv, RowsInv, PeerInfoInv
<1>10. \A r, s \in rows' : r.number = s.number => r = s
  <2>1. \A r, s \in NewPeers : r.number = s.number => r = s
    BY <1>4 DEF ImportInv, PeerInfoInv
  <2>2. \A r, s \in rows : r.number = s.number => r = s
    BY DEF ImportInv, RowsInv
  <2> QED BY <1>1, <1>4, <2>1, <2>2
<1>11. \A row \in rows' : Chosen(row.name) \/ row.name \in lost' \/ HasFile(row)'
  BY <1>1, <1>5 DEF ImportInv, RowsInv
<1>12. RowsInv'
  BY <1>1, <1>8, <1>9, <1>10, <1>11 DEF RowsInv
<1> QED BY <1>2, <1>3, <1>12 DEF ImportInv

LEMMA StepDelete ==
  ASSUME ImportInv, NEW row \in rows, DeletePeer(row)
  PROVE  ImportInv'
<1>1. PICK gone \in DOMAIN known : known[gone] = row.number /\ files' = Without(files, {gone})
  BY DEF DeletePeer
<1>2. /\ phase = "idle" /\ rows' = rows \ {row}
      /\ UNCHANGED <<project, order, phase, next, known, usedTypeNumbers, number, peerInfo, imports,
                     failures, lost>>
  BY DEF DeletePeer, import
<1>3. /\ DOMAIN files' = DOMAIN files \ {gone} /\ \A name \in DOMAIN files' : files'[name] = files[name]
  BY <1>1 DEF Without
<1>4. ProjectInv' /\ PhaseInv' /\ FilesInv' /\ IdleInv' /\ TakenInv' /\ SavingInv'
  BY <1>2, <1>3 DEF ImportInv, ProjectInv, PhaseInv, FilesInv, Numbered, Apart, IdleInv, TakenInv,
         Creating, SavingInv
<1>5. PeerInfoInv'
  BY <1>2, <1>3 DEF ImportInv, PeerInfoInv, Creating
<1>6. ASSUME NEW r \in rows', HasFile(r) PROVE HasFile(r)'
  <2>1. PICK name \in DOMAIN files : ~Chosen(name) /\ files[name] = r.number
    BY <1>6 DEF HasFile
  <2>2. name \in DOMAIN known /\ known[name] = r.number
    BY <1>2, <2>1 DEF ImportInv, IdleInv
  <2>3. r.number # row.number
    BY <1>2, <1>6 DEF ImportInv, RowsInv
  <2>4. name # gone
    BY <1>1, <2>2, <2>3
  <2> QED BY <1>3, <2>1, <2>4 DEF HasFile
<1>7. \A r, other : Leads(r, other) => Leads(r, other)'
  BY <1>2, LeadsStays
<1>8. RowsInv'
  BY <1>2, <1>3, <1>6, <1>7 DEF ImportInv, RowsInv
<1> QED BY <1>4, <1>5, <1>8 DEF ImportInv

LEMMA StepImport ==
  ASSUME ImportInv, [Next]_vars
  PROVE  ImportInv'
<1>1. CASE UNCHANGED vars
  BY <1>1 DEF vars, import, ImportInv, ProjectInv, PhaseInv, FilesInv, Numbered, Apart, IdleInv, TakenInv,
              Creating, Taken, WrittenFor, NumberFor, Known, PeerInfoInv, SavingInv, Current, RowsInv,
              HasFile, Leads, SameDevice
<1> QED BY <1>1, StepBegin, StepOn, StepCreate, StepFails, StepAdd, StepJson, StepReload, StepDelete
        DEF Next, Reads, Assigns

-----------------------------------------------------------------------------
(* The objects and group addresses of a project in XML, and what is known of  *)
(* them while it is imported.                                               *)
Objects == DOMAIN project.objects
GroupAt(k) == project.groups[k].id
Ids == GroupIds(project)
InfoType ==
  [index : {project.objects[i].index : i \in Objects}, type : {project.objects[i].type : i \in Objects},
   readFlag : BOOLEAN, writeFlag : BOOLEAN]

(* An info is of the link j of the object i.                                 *)
IsInfo(info, i, j) ==
  /\ info.index = project.objects[i].index /\ info.type = project.objects[i].type
  /\ info.writeFlag = Info(project.objects[i], j).writeFlag
(* The links read, and the infos used: of the group address k, of the device  *)
(* at q, the info m.                                                        *)
LinkRead(i, j) == phase = "read" => i <= next \/ (i = next + 1 /\ j <= element)
Used(k, q, m) ==
  /\ phase \in {"assign", "create", "save"}
  /\ phase = "assign" => \/ k <= next
                         \/ k = next + 1 /\ (q <= device \/ (q = device + 1 /\ m <= element))
InfoAt(k, q, m) == variableInfo[order[q]][GroupAt(k)][m]
InfosAt(k, q) == DOMAIN variableInfo[order[q]][GroupAt(k)]

(* What a device has of a group address are the links of its objects to it,    *)
(* and of first ones the read flags agree.                                  *)
InfosInv ==
  /\ variableInfo \in [project.devices -> [Ids -> Seq(InfoType)]]
  /\ \A i \in Objects : \A j \in DOMAIN project.objects[i].links :
       LinkRead(i, j) =>
         \E m \in DOMAIN variableInfo[project.objects[i].device][project.objects[i].links[j]] :
           IsInfo(variableInfo[project.objects[i].device][project.objects[i].links[j]][m], i, j)
  /\ \A d \in project.devices : \A g \in Ids : \A m \in DOMAIN variableInfo[d][g] :
       \E i \in Objects : \E j \in DOMAIN project.objects[i].links :
         /\ project.objects[i].device = d /\ project.objects[i].links[j] = g
         /\ IsInfo(variableInfo[d][g][m], i, j)
FlagsInv ==
  phase # "read" =>
    \A d, e \in project.devices : \A g \in Ids :
      variableInfo[d][g] # <<>> /\ variableInfo[e][g] # <<>>
      => variableInfo[d][g][1].readFlag = variableInfo[e][g][1].readFlag

(* A variable is of an info that was used, and every info that was used, of a   *)
(* group address with known types, has left a variable of its index: that of   *)
(* one that sends, if it does, and otherwise of no later group address.       *)
IsVariable(variable, k, info) ==
  variable = [group |-> GroupAt(k), type |-> types[k], readFlag |-> info.readFlag,
              writeFlag |-> info.writeFlag]
VariablesInv ==
  /\ DOMAIN variables = project.devices
  /\ DOMAIN types = DOMAIN project.groups
  /\ \A k \in DOMAIN types : project.groups[k].type # NoType => types[k] = project.groups[k].type
  /\ \A d \in project.devices : \A x \in DOMAIN variables[d] :
       \E k \in DOMAIN types, q \in DOMAIN order : \E m \in InfosAt(k, q) :
         /\ order[q] = d /\ Used(k, q, m) /\ types[k] # NoType
         /\ InfoAt(k, q, m).index = x /\ IsVariable(variables[d][x], k, InfoAt(k, q, m))
Kept(variable, k, info) ==
  /\ info.writeFlag =>
       variable.writeFlag /\ \A n \in DOMAIN types : GroupAt(n) = variable.group => n >= k
  /\ ~variable.writeFlag => \A n \in DOMAIN types : GroupAt(n) = variable.group => n <= k
UsedInv ==
  \A k \in DOMAIN types, q \in DOMAIN order : \A m \in InfosAt(k, q) :
    LET info == InfoAt(k, q, m)
    IN  Used(k, q, m) /\ Typed(project.groups[k]) =>
          info.index \in DOMAIN variables[order[q]] /\ Kept(variables[order[q]][info.index], k, info)

LinkInv ==
  /\ IsProject(project)
  /\ \A d \in project.devices : \E q \in DOMAIN order : order[q] = d
  /\ next \in Nat /\ device \in 0..Len(order) /\ element \in Nat
  /\ Creating =>
       /\ InfosInv /\ FlagsInv /\ VariablesInv /\ UsedInv
       /\ phase = "read" =>
            next <= Len(project.objects) /\ device = 0 /\ (next = Len(project.objects) => element = 0)
       /\ phase = "assign" =>
            /\ next <= Len(project.groups)
            /\ next = Len(project.groups) => device = 0
            /\ device = Len(order) => element = 0

LEMMA InitLinks == Init => LinkInv
<1> SUFFICES ASSUME Init PROVE LinkInv
  OBVIOUS
<1>1. project = NoProject /\ order = <<>> /\ phase = "idle" /\ next = 0 /\ device = 0 /\ element = 0
  BY DEF Init
<1>2. IsProject(NoProject)
  BY FS_EmptySet DEF IsProject, NoProject, InOrder
<1>3. project.devices = {} /\ Len(order) = 0
  BY <1>1 DEF NoProject
<1>4. ~Creating
  BY <1>1 DEF Creating
<1> QED BY <1>1, <1>2, <1>3, <1>4 DEF LinkInv

(* The devices are all those of the project, in some order.                  *)
LEMMA OrderHasAll ==
  ASSUME NEW D, IsFiniteSet(D), NEW devices \in SetToSeqs(D)
  PROVE  /\ Len(devices) \in Nat /\ DOMAIN devices = 1..Len(devices)
         /\ \A d \in D : \E q \in DOMAIN devices : devices[q] = d
<1> DEFINE n == Cardinality(D)
<1>1. n \in Nat
  BY FS_CardinalityType
<1>2. devices \in [1..n -> D] /\ \A i, j \in 1..n : i # j => devices[i] # devices[j]
  BY DEF SetToSeqs
<1>3. Len(devices) = n /\ DOMAIN devices = 1..n
  BY <1>1, <1>2
<1>4. IsFiniteSet(1..n) /\ Cardinality(1..n) = n
  BY <1>1, FS_Interval
<1>5. devices \in Injection(1..n, D)
  BY <1>2 DEF Injection, IsInjective
<1>6. devices \in Surjection(1..n, D)
  BY <1>4, <1>5, FS_Injection
<1> QED BY <1>1, <1>3, <1>6 DEF Surjection

LEMMA LinksBegin ==
  ASSUME ImportInv, LinkInv, NEW p \in Projects, NEW devices \in SetToSeqs(p.devices),
         SearchDevices(p, devices)
  PROVE  LinkInv'
<1>1. /\ project' = p /\ order' = devices /\ phase' = "read"
      /\ next' = 0 /\ device' = 0 /\ element' = 0
      /\ types' = [i \in DOMAIN p.groups |-> p.groups[i].type]
      /\ variableInfo' = [d \in p.devices |-> [g \in GroupIds(p) |-> <<>>]]
      /\ variables' = [d \in p.devices |-> <<>>]
  BY DEF SearchDevices
<1>2. IsProject(p)
  BY ProjectAssumption
<1>3. /\ Len(devices) \in Nat /\ DOMAIN devices = 1..Len(devices)
      /\ \A d \in p.devices : \E q \in DOMAIN devices : devices[q] = d
  BY <1>2, OrderHasAll DEF IsProject
<1>4. InfosInv'
  <2>1. variableInfo' \in [project'.devices -> [Ids' -> Seq(InfoType')]]
    BY <1>1 DEF Ids
  <2>2. \A d \in project'.devices : \A g \in Ids' : variableInfo'[d][g] = <<>>
    BY <1>1 DEF Ids
  <2>3. \A i \in Objects' : \A j \in DOMAIN project'.objects[i].links : ~LinkRead(i, j)'
    BY <1>1, <1>2 DEF LinkRead, Objects, IsProject, IsObject, InOrder
  <2> QED BY <2>1, <2>2, <2>3 DEF InfosInv
<1>5. FlagsInv'
  BY <1>1 DEF FlagsInv
<1>6. VariablesInv'
  BY <1>1 DEF VariablesInv
<1>7. UsedInv'
  BY <1>1 DEF UsedInv, Used
<1>8. next' <= Len(project'.objects)
  BY <1>1, <1>2 DEF IsProject, InOrder
<1> QED BY <1>1, <1>2, <1>3, <1>4, <1>5, <1>6, <1>7, <1>8 DEF LinkInv

LEMMA LinksUpdate ==
  ASSUME ImportInv, LinkInv, NEW p \in Projects, NEW devices \in SetToSeqs(p.devices),
         UpdateDevices(p, devices)
  PROVE  LinkInv'
<1> DEFINE none == [NoProject EXCEPT !.devices = p.devices]
<1>1. /\ project' = none /\ order' = devices /\ phase' = "create"
      /\ next' = 0 /\ device' = 0 /\ element' = 0
      /\ types' = <<>> /\ variableInfo' = [d \in p.devices |-> <<>>]
      /\ variables' = [d \in p.devices |-> <<>>]
  BY DEF UpdateDevices
<1>2. none.devices = p.devices /\ none.objects = <<>> /\ none.groups = <<>> /\ none.json = <<>>
  BY DEF NoProject
<1>3. IsProject(p)
  BY ProjectAssumption
<1> HIDE DEF none
<1>4. IsProject(none)
  BY <1>2, <1>3 DEF IsProject, InOrder
<1>5. /\ Len(devices) \in Nat /\ DOMAIN devices = 1..Len(devices)
      /\ \A d \in p.devices : \E q \in DOMAIN devices : devices[q] = d
  BY <1>3, OrderHasAll DEF IsProject
<1>6. Ids' = {} /\ Objects' = {}
  BY <1>1, <1>2 DEF Ids, GroupIds, Objects
<1>7. InfosInv'
  <2>1. variableInfo' \in [project'.devices -> [Ids' -> Seq(InfoType')]]
    BY <1>1, <1>2, <1>6
  <2> QED BY <1>6, <2>1 DEF InfosInv
<1>8. FlagsInv'
  BY <1>6 DEF FlagsInv
<1>9. VariablesInv' /\ UsedInv'
  BY <1>1, <1>2 DEF VariablesInv, UsedInv
<1> QED BY <1>1, <1>2, <1>4, <1>5, <1>7, <1>8, <1>9 DEF LinkInv

(* What only depends on the project, and on what it has been read into.       *)
LEMMA ProjectStays ==
  ASSUME UNCHANGED <<project, order>>
  PROVE  /\ Ids' = Ids /\ Objects' = Objects /\ InfoType' = InfoType
         /\ \A k : GroupAt(k)' = GroupAt(k)
         /\ \A info, i, j : IsInfo(info, i, j)' <=> IsInfo(info, i, j)
         /\ \A g : Typed(g)' <=> Typed(g)
<1>1. Ids' = Ids /\ Objects' = Objects /\ InfoType' = InfoType
  BY DEF Ids, Objects, InfoType
<1>2. \A k : GroupAt(k)' = GroupAt(k)
  BY DEF GroupAt
<1>3. \A info, i, j : IsInfo(info, i, j)' <=> IsInfo(info, i, j)
  BY DEF IsInfo
<1>4. \A g : Typed(g)' <=> Typed(g)
  BY DEF Typed, Linked
<1> QED BY <1>1, <1>2, <1>3, <1>4

LEMMA InfosStay ==
  ASSUME UNCHANGED <<project, order, variableInfo>>
  PROVE  /\ \A k, q : InfosAt(k, q)' = InfosAt(k, q)
         /\ \A k, q, m : InfoAt(k, q, m)' = InfoAt(k, q, m)
         /\ InfosInv /\ (\A i \in Objects : \A j \in DOMAIN project.objects[i].links :
                            LinkRead(i, j)' => LinkRead(i, j)) => InfosInv'
<1>1. /\ \A k, q : InfosAt(k, q)' = InfosAt(k, q)
      /\ \A k, q, m : InfoAt(k, q, m)' = InfoAt(k, q, m)
  BY DEF InfosAt, InfoAt, GroupAt
<1>2. ASSUME InfosInv, \A i \in Objects : \A j \in DOMAIN project.objects[i].links :
                          LinkRead(i, j)' => LinkRead(i, j)
      PROVE  InfosInv'
  <2>1. variableInfo' \in [project'.devices -> [Ids' -> Seq(InfoType')]]
    BY <1>2, ProjectStays DEF InfosInv
  <2>2. \A i \in Objects' : \A j \in DOMAIN project'.objects[i].links :
          LinkRead(i, j)' =>
            \E m \in DOMAIN variableInfo'[project'.objects[i].device][project'.objects[i].links[j]] :
              IsInfo(variableInfo[project.objects[i].device][project.objects[i].links[j]][m], i, j)'
    <3> SUFFICES ASSUME NEW i \in Objects, NEW j \in DOMAIN project.objects[i].links, LinkRead(i, j)'
                 PROVE  \E m \in DOMAIN variableInfo[project.objects[i].device][project.objects[i].links[j]] :
                          IsInfo(variableInfo[project.objects[i].device][project.objects[i].links[j]][m], i, j)
      BY ProjectStays
    <3>1. LinkRead(i, j)
      BY <1>2
    <3>2. \A k \in Objects : \A l \in DOMAIN project.objects[k].links :
            LinkRead(k, l) =>
              \E m \in DOMAIN variableInfo[project.objects[k].device][project.objects[k].links[l]] :
                IsInfo(variableInfo[project.objects[k].device][project.objects[k].links[l]][m], k, l)
      BY <1>2, Zenon DEF InfosInv
    <3> QED BY <3>1, <3>2, Zenon
  <2>3. \A d \in project'.devices : \A g \in Ids' : \A m \in DOMAIN variableInfo'[d][g] :
          \E i \in Objects' : \E j \in DOMAIN project'.objects[i].links :
            /\ project'.objects[i].device = d /\ project'.objects[i].links[j] = g
            /\ IsInfo(variableInfo[d][g][m], i, j)'
    BY <1>2, ProjectStays DEF InfosInv
  <2> QED BY <2>1, <2>2, <2>3 DEF InfosInv
<1> QED BY <1>1, <1>2

LEMMA VariablesStay ==
  ASSUME UNCHANGED <<project, order, variableInfo, types, variables>>
  PROVE  /\ VariablesInv /\ (\A k \in DOMAIN types, q \in DOMAIN order : \A m \in InfosAt(k, q) :
                              Used(k, q, m) => Used(k, q, m)') => VariablesInv'
         /\ UsedInv /\ (\A k \in DOMAIN types, q \in DOMAIN order : \A m \in InfosAt(k, q) :
                         Used(k, q, m)' => Used(k, q, m)) => UsedInv'
<1>1. /\ \A v, k, info : IsVariable(v, k, info)' <=> IsVariable(v, k, info)
      /\ \A v, k, info : Kept(v, k, info)' <=> Kept(v, k, info)
  BY ProjectStays DEF IsVariable, Kept
<1>2. ASSUME VariablesInv, \A k \in DOMAIN types, q \in DOMAIN order : \A m \in InfosAt(k, q) :
                             Used(k, q, m) => Used(k, q, m)'
      PROVE  VariablesInv'
  <2>1. \A d \in project'.devices : \A x \in DOMAIN variables'[d] :
          \E k \in DOMAIN types', q \in DOMAIN order' : \E m \in InfosAt(k, q)' :
            /\ order'[q] = d /\ Used(k, q, m)' /\ types'[k] # NoType
            /\ InfoAt(k, q, m)'.index = x /\ IsVariable(variables[d][x], k, InfoAt(k, q, m))'
    <3>1. SUFFICES ASSUME NEW d \in project.devices, NEW x \in DOMAIN variables[d]
                   PROVE  \E k \in DOMAIN types, q \in DOMAIN order : \E m \in InfosAt(k, q) :
                            /\ order[q] = d /\ Used(k, q, m)' /\ types[k] # NoType
                            /\ InfoAt(k, q, m).index = x /\ IsVariable(variables[d][x], k, InfoAt(k, q, m))
      BY <1>1, InfosStay
    <3> QED BY <1>2 DEF VariablesInv
  <2> QED BY <1>2, <2>1 DEF VariablesInv
<1>3. ASSUME UsedInv, \A k \in DOMAIN types, q \in DOMAIN order : \A m \in InfosAt(k, q) :
                        Used(k, q, m)' => Used(k, q, m)
      PROVE  UsedInv'
  BY <1>1, <1>3, ProjectStays, InfosStay DEF UsedInv
<1> QED BY <1>2, <1>3

(* The steps of an import behind the variables, and those between imports.    *)
LEMMA LinksStay ==
  ASSUME LinkInv, UNCHANGED import, phase \in {"create", "save"},
         phase' \in {"create", "save"}, next' \in Nat
  PROVE  LinkInv'
<1>1. UNCHANGED <<project, order, device, element, types, variableInfo, variables>>
  BY DEF import
<1>2. Creating /\ Creating' /\ phase # "read" /\ phase' # "read" /\ phase' # "assign"
  BY DEF Creating
<1>3. (\A k, q, m : Used(k, q, m)' <=> Used(k, q, m)) /\ \A i, j : LinkRead(i, j)
  BY <1>2 DEF Used, LinkRead
<1>4. InfosInv' /\ FlagsInv'
  BY <1>1, <1>2, <1>3, InfosStay, ProjectStays DEF LinkInv, FlagsInv
<1>5. VariablesInv' /\ UsedInv'
  BY <1>1, <1>2, <1>3, VariablesStay DEF LinkInv
<1> QED BY <1>1, <1>2, <1>4, <1>5 DEF LinkInv

LEMMA LinksGone ==
  ASSUME LinkInv, UNCHANGED import, ~Creating', next' \in Nat
  PROVE  LinkInv'
  BY DEF LinkInv, import
(* While objects are read, no device has a variable.                         *)
LEMMA NoneUsed ==
  ASSUME ImportInv, LinkInv, phase = "read", InfosInv', UNCHANGED <<project, order, types, variables>>,
         phase' = "read" \/ (phase' = "assign" /\ next' = 0 /\ device' = 0 /\ element' = 0)
  PROVE  VariablesInv' /\ UsedInv'
<1>1. VariablesInv /\ \A k, q, m : ~Used(k, q, m)
  BY DEF LinkInv, Creating, Used
<1>2. \A d \in project.devices : DOMAIN variables[d] = {}
  BY <1>1 DEF VariablesInv
<1>3. VariablesInv'
  BY <1>1, <1>2 DEF VariablesInv
<1>4. ASSUME NEW k \in DOMAIN types', NEW q \in DOMAIN order', NEW m \in InfosAt(k, q)'
      PROVE  ~Used(k, q, m)'
  <2>1. CASE phase' = "read"
    BY <2>1 DEF Used
  <2>2. CASE phase' = "assign" /\ next' = 0 /\ device' = 0 /\ element' = 0
    <3>1. k \in Nat \ {0}
      BY <1>1 DEF VariablesInv, LinkInv, IsProject, InOrder
    <3>2. q \in Nat \ {0} /\ order'[q] \in project'.devices
      BY DEF ImportInv, ProjectInv
    <3>3. GroupAt(k)' \in Ids'
      BY <1>1 DEF VariablesInv, GroupAt, Ids, GroupIds
    <3>4. m \in Nat \ {0}
      BY <3>2, <3>3 DEF InfosInv, InfosAt
    <3> QED BY <2>2, <3>1, <3>2, <3>4 DEF Used
  <2> QED BY <2>1, <2>2
<1>5. UsedInv'
  BY <1>4 DEF UsedInv
<1> QED BY <1>3, <1>5

LEMMA LinksRead ==
  ASSUME ImportInv, LinkInv, ReadLink
  PROVE  LinkInv'
<1>1. PICK i, j : i = next + 1 /\ j = element + 1
  OBVIOUS
<1>2. PICK object : object = project.objects[i]
  OBVIOUS
<1>3. PICK d, g, info : d = object.device /\ g = object.links[j] /\ info = Info(object, j)
  OBVIOUS
<1>4. /\ phase = "read" /\ phase' = "read" /\ next < Len(project.objects)
      /\ element < Len(object.links) /\ next' = next /\ element' = j
      /\ UNCHANGED <<project, order, device, types, variables>>
      /\ variableInfo' = [variableInfo EXCEPT ![d][g] = Append(@, info)]
  BY <1>1, <1>2, <1>3 DEF ReadLink
<1>5. /\ IsProject(project) /\ InfosInv /\ next \in Nat /\ element \in Nat
      /\ next <= Len(project.objects) /\ device = 0 /\ Creating
  BY <1>4 DEF LinkInv, Creating
<1>6. /\ i \in Objects /\ j \in DOMAIN object.links /\ d \in project.devices
      /\ IsObject(object)
  <2>1. i \in Objects
    BY <1>1, <1>4, <1>5 DEF IsProject, InOrder, Objects
  <2>2. object.device \in project.devices /\ IsObject(object)
    BY <1>2, <1>5, <2>1 DEF IsProject, Objects
  <2>3. Len(object.links) \in Nat /\ DOMAIN object.links = 1..Len(object.links)
    BY <2>2 DEF IsObject, InOrder
  <2>4. j \in DOMAIN object.links
    BY <1>1, <1>4, <1>5, <2>3
  <2> QED BY <1>3, <2>1, <2>2, <2>4
<1>7. g \in Ids
  BY <1>2, <1>3, <1>6 DEF Ids, GroupIds, Elements, Objects
<1>8. info \in InfoType /\ IsInfo(info, i, j)
  BY <1>2, <1>3, <1>6 DEF Info, InfoType, IsInfo, IsObject
<1>9. PICK old : old = variableInfo[d][g]
  OBVIOUS
<1>10. old \in Seq(InfoType) /\ variableInfo \in [project.devices -> [Ids -> Seq(InfoType)]]
  BY <1>5, <1>6, <1>7, <1>9 DEF InfosInv
<1>11. /\ Append(old, info) \in Seq(InfoType) /\ Len(old) \in Nat
       /\ DOMAIN old = 1..Len(old) /\ DOMAIN Append(old, info) = 1..(Len(old) + 1)
       /\ \A m \in DOMAIN old : m \in DOMAIN Append(old, info) /\ Append(old, info)[m] = old[m]
       /\ Append(old, info)[Len(old) + 1] = info
  BY <1>8, <1>10
<1>12. variableInfo' \in [project.devices -> [Ids -> Seq(InfoType)]]
  BY <1>4, <1>9, <1>10, <1>11
<1>13. /\ variableInfo'[d][g] = Append(old, info)
       /\ \A e \in project.devices : \A h \in Ids :
            e # d \/ h # g => variableInfo'[e][h] = variableInfo[e][h]
  BY <1>4, <1>6, <1>7, <1>9, <1>10
<1>14. ASSUME NEW a \in Objects, NEW b \in DOMAIN project.objects[a].links, LinkRead(a, b)',
              NEW e, e = project.objects[a].device, NEW h, h = project.objects[a].links[b]
       PROVE  \E m \in DOMAIN variableInfo'[e][h] : IsInfo(variableInfo'[e][h][m], a, b)
  <2>1. e \in project.devices /\ h \in Ids /\ a \in Nat /\ b \in Nat
    BY <1>5, <1>14 DEF IsProject, IsObject, InOrder, Objects, Ids, GroupIds, Elements
  <2>2. CASE LinkRead(a, b)
    <3>1. PICK m \in DOMAIN variableInfo[e][h] : IsInfo(variableInfo[e][h][m], a, b)
      BY <1>5, <1>14, <2>2 DEF InfosInv
    <3>2. m \in DOMAIN variableInfo'[e][h] /\ variableInfo'[e][h][m] = variableInfo[e][h][m]
      BY <1>9, <1>11, <1>13, <2>1, <3>1
    <3> QED BY <3>1, <3>2
  <2>3. CASE a = i /\ b = j
    <3>1. e = d /\ h = g
      BY <1>2, <1>3, <1>14, <2>3
    <3>2. Len(old) + 1 \in DOMAIN Append(old, info)
      BY <1>11
    <3> QED BY <1>8, <1>11, <1>13, <2>3, <3>1, <3>2
  <2>4. LinkRead(a, b) \/ (a = i /\ b = j)
    BY <1>1, <1>4, <1>5, <1>14, <2>1 DEF LinkRead
  <2> QED BY <2>2, <2>3, <2>4
<1>15. ASSUME NEW e \in project.devices, NEW h \in Ids, NEW m \in DOMAIN variableInfo'[e][h]
       PROVE  \E a \in Objects : \E b \in DOMAIN project.objects[a].links :
                /\ project.objects[a].device = e /\ project.objects[a].links[b] = h
                /\ IsInfo(variableInfo'[e][h][m], a, b)
  <2>1. CASE m \in DOMAIN variableInfo[e][h] /\ variableInfo'[e][h][m] = variableInfo[e][h][m]
    BY <1>5, <2>1, ZenonT(40) DEF InfosInv
  <2>2. CASE e = d /\ h = g /\ variableInfo'[e][h][m] = info
    BY <1>2, <1>3, <1>6, <1>8, <2>2
  <2>3. CASE e # d \/ h # g
    BY <1>13, <1>15, <2>1, <2>3
  <2>4. CASE e = d /\ h = g
    <3>1. m \in 1..(Len(old) + 1)
      BY <1>11, <1>13, <1>15, <2>4
    <3>2. m \in DOMAIN old \/ m = Len(old) + 1
      BY <1>11, <3>1
    <3> QED BY <1>9, <1>11, <1>13, <2>1, <2>2, <2>4, <3>2
  <2> QED BY <2>3, <2>4
<1>16. InfosInv'
  <2>1. variableInfo' \in [project'.devices -> [Ids' -> Seq(InfoType')]]
    BY <1>4, <1>12, ProjectStays
  <2>2. \A a \in Objects' : \A b \in DOMAIN project'.objects[a].links :
          LinkRead(a, b)' =>
            \E m \in DOMAIN variableInfo'[project'.objects[a].device][project'.objects[a].links[b]] :
              IsInfo(variableInfo[project.objects[a].device][project.objects[a].links[b]][m], a, b)'
    BY <1>4, <1>14, ProjectStays
  <2>3. \A e \in project'.devices : \A h \in Ids' : \A m \in DOMAIN variableInfo'[e][h] :
          \E a \in Objects' : \E b \in DOMAIN project'.objects[a].links :
            /\ project'.objects[a].device = e /\ project'.objects[a].links[b] = h
            /\ IsInfo(variableInfo[e][h][m], a, b)'
    BY <1>4, <1>15, ProjectStays
  <2> QED BY <2>1, <2>2, <2>3 DEF InfosInv
<1>17. VariablesInv' /\ UsedInv'
  BY <1>4, <1>16, NoneUsed
<1>18. FlagsInv'
  BY <1>4 DEF FlagsInv
<1>19. element' \in Nat
  BY <1>1, <1>4, <1>5
<1> QED BY <1>4, <1>5, <1>16, <1>17, <1>18, <1>19 DEF LinkInv

LEMMA LinksReadObject ==
  ASSUME ImportInv, LinkInv, ReadObject
  PROVE  LinkInv'
<1>1. /\ phase = "read" /\ phase' = "read" /\ next < Len(project.objects)
      /\ element = Len(project.objects[next + 1].links) /\ next' = next + 1 /\ element' = 0
      /\ UNCHANGED <<project, order, device, types, variableInfo, variables>>
  BY DEF ReadObject
<1>2. /\ IsProject(project) /\ InfosInv /\ next \in Nat /\ element \in Nat /\ device = 0
      /\ Len(project.objects) \in Nat
  BY <1>1 DEF LinkInv, Creating, IsProject, InOrder
<1>3. ASSUME NEW i \in Objects, NEW j \in DOMAIN project.objects[i].links, LinkRead(i, j)'
      PROVE  LinkRead(i, j)
  <2>1. i \in Nat /\ j \in 1..Len(project.objects[i].links)
    BY <1>2 DEF IsProject, IsObject, InOrder, Objects
  <2> QED BY <1>1, <1>2, <1>3, <2>1 DEF LinkRead
<1>4. InfosInv'
  BY <1>1, <1>2, <1>3, InfosStay
<1>5. VariablesInv' /\ UsedInv'
  BY <1>1, <1>4, NoneUsed
<1>6. FlagsInv' /\ next' <= Len(project.objects) /\ next' \in Nat
  BY <1>1, <1>2 DEF FlagsInv
<1> QED BY <1>1, <1>2, <1>4, <1>5, <1>6 DEF LinkInv

(* Flags change nothing else of an info.                                     *)
LEMMA UnifiedFlags ==
  ASSUME LinkInv, InfosInv, NEW unified, unified = UnifyReadFlags(variableInfo)
  PROVE  /\ unified \in [project.devices -> [Ids -> Seq(InfoType)]]
         /\ \A d \in project.devices : \A g \in Ids :
              /\ DOMAIN unified[d][g] = DOMAIN variableInfo[d][g]
              /\ \A m \in DOMAIN variableInfo[d][g] :
                   /\ unified[d][g][m].index = variableInfo[d][g][m].index
                   /\ unified[d][g][m].type = variableInfo[d][g][m].type
                   /\ unified[d][g][m].writeFlag = variableInfo[d][g][m].writeFlag
         /\ \A d, e \in project.devices : \A g \in Ids :
              unified[d][g] # <<>> /\ unified[e][g] # <<>>
              => unified[d][g][1].readFlag = unified[e][g][1].readFlag
<1> DEFINE flag(g) == \E e \in DevicesByGroup(variableInfo, g) : variableInfo[e][g][1].readFlag
<1>1. variableInfo \in [project.devices -> [Ids -> Seq(InfoType)]]
  BY DEF InfosInv
<1>2. unified = [d \in project.devices |-> [g \in Ids |->
                  IF variableInfo[d][g] = <<>> THEN <<>>
                  ELSE [variableInfo[d][g] EXCEPT ![1].readFlag = flag(g)]]]
  <2>1. DOMAIN variableInfo = project.devices /\ \A d \in project.devices : DOMAIN variableInfo[d] = Ids
    BY <1>1
  <2> QED BY <2>1 DEF UnifyReadFlags
<1>3. \A g : flag(g) \in BOOLEAN
  OBVIOUS
<1> HIDE DEF flag
<1>4. ASSUME NEW d \in project.devices, NEW g \in Ids
      PROVE  /\ unified[d][g] \in Seq(InfoType) /\ DOMAIN unified[d][g] = DOMAIN variableInfo[d][g]
             /\ \A m \in DOMAIN variableInfo[d][g] :
                  /\ unified[d][g][m].index = variableInfo[d][g][m].index
                  /\ unified[d][g][m].type = variableInfo[d][g][m].type
                  /\ unified[d][g][m].writeFlag = variableInfo[d][g][m].writeFlag
             /\ unified[d][g] # <<>> => unified[d][g][1].readFlag = flag(g)
  <2>1. PICK old : old = variableInfo[d][g]
    OBVIOUS
  <2>2. old \in Seq(InfoType)
    BY <1>1, <2>1
  <2>5. unified[d][g] = IF old = <<>> THEN <<>> ELSE [old EXCEPT ![1].readFlag = flag(g)]
    <3>1. unified[d] = [h \in Ids |-> IF variableInfo[d][h] = <<>> THEN <<>>
                                     ELSE [variableInfo[d][h] EXCEPT ![1].readFlag = flag(h)]]
      BY <1>2, Zenon
    <3>2. unified[d][g] = IF variableInfo[d][g] = <<>> THEN <<>>
                          ELSE [variableInfo[d][g] EXCEPT ![1].readFlag = flag(g)]
      BY <3>1, Zenon
    <3> QED BY <2>1, <3>2
  <2>3. CASE old = <<>>
    <3>1. unified[d][g] = <<>>
      BY <2>3, <2>5
    <3> QED BY <2>1, <2>2, <2>3, <3>1
  <2>4. CASE old # <<>>
    <3>1. unified[d][g] = [old EXCEPT ![1].readFlag = flag(g)]
      BY <2>4, <2>5
    <3>2. 1 \in DOMAIN old /\ old[1] \in InfoType /\ Len(old) \in Nat /\ DOMAIN old = 1..Len(old)
      BY <2>2, <2>4
    <3>3. PICK first : first = [old[1] EXCEPT !.readFlag = flag(g)]
      OBVIOUS
    <3>4. /\ first \in InfoType /\ first.index = old[1].index /\ first.type = old[1].type
          /\ first.writeFlag = old[1].writeFlag /\ first.readFlag = flag(g)
      BY <1>3, <3>2, <3>3 DEF InfoType
    <3>5. unified[d][g] = [m \in 1..Len(old) |-> IF m = 1 THEN first ELSE old[m]]
      BY <3>1, <3>2, <3>3
    <3>6. \A m \in 1..Len(old) : old[m] \in InfoType
      BY <2>2
    <3>7. unified[d][g] \in Seq(InfoType)
      <4>1. unified[d][g] \in [1..Len(old) -> InfoType]
        BY <3>4, <3>5, <3>6
      <4> QED BY <3>2, <4>1, SeqDef
    <3> QED BY <2>1, <3>2, <3>4, <3>5, <3>7
  <2> QED BY <2>3, <2>4
<1>5. unified \in [project.devices -> [Ids -> Seq(InfoType)]]
  BY <1>2, <1>4
<1> QED BY <1>4, <1>5

LEMMA LinksReadEnds ==
  ASSUME ImportInv, LinkInv, ReadEnds
  PROVE  LinkInv'
<1>1. /\ phase = "read" /\ phase' = "assign" /\ next = Len(project.objects) /\ next' = 0
      /\ variableInfo' = UnifyReadFlags(variableInfo)
      /\ UNCHANGED <<project, order, device, element, types, variables>>
  BY DEF ReadEnds
<1>2. /\ IsProject(project) /\ InfosInv /\ Creating /\ device = 0 /\ element = 0
      /\ Len(project.objects) \in Nat /\ Len(project.groups) \in Nat /\ Len(order) \in Nat
  BY <1>1 DEF LinkInv, Creating, IsProject, InOrder, ImportInv, ProjectInv
<1>3. PICK unified : unified = UnifyReadFlags(variableInfo)
  OBVIOUS
<1>4. /\ unified \in [project.devices -> [Ids -> Seq(InfoType)]]
      /\ \A d \in project.devices : \A g \in Ids :
           /\ DOMAIN unified[d][g] = DOMAIN variableInfo[d][g]
           /\ \A m \in DOMAIN variableInfo[d][g] :
                \A i, j : IsInfo(unified[d][g][m], i, j) <=> IsInfo(variableInfo[d][g][m], i, j)
      /\ \A d, e \in project.devices : \A g \in Ids :
           unified[d][g] # <<>> /\ unified[e][g] # <<>>
           => unified[d][g][1].readFlag = unified[e][g][1].readFlag
  BY <1>2, <1>3, UnifiedFlags DEF IsInfo
<1>5. ASSUME NEW i \in Objects, NEW j \in DOMAIN project.objects[i].links,
             NEW d, d = project.objects[i].device, NEW g, g = project.objects[i].links[j]
      PROVE  /\ d \in project.devices /\ g \in Ids
             /\ \E m \in DOMAIN unified[d][g] : IsInfo(unified[d][g][m], i, j)
  <2>1. d \in project.devices /\ g \in Ids
    BY <1>2, <1>5 DEF IsProject, Objects, Ids, GroupIds, Elements
  <2>2. LinkRead(i, j)
    BY <1>1, <1>2 DEF LinkRead, IsProject, InOrder, Objects
  <2>3. PICK m \in DOMAIN variableInfo[d][g] : IsInfo(variableInfo[d][g][m], i, j)
    BY <1>2, <1>5, <2>2 DEF InfosInv
  <2> QED BY <1>4, <2>1, <2>3
<1>6. ASSUME NEW d \in project.devices, NEW g \in Ids, NEW m \in DOMAIN unified[d][g]
      PROVE  \E i \in Objects : \E j \in DOMAIN project.objects[i].links :
               /\ project.objects[i].device = d /\ project.objects[i].links[j] = g
               /\ IsInfo(unified[d][g][m], i, j)
  <2>1. m \in DOMAIN variableInfo[d][g]
    BY <1>4
  <2>2. PICK i \in Objects : \E j \in DOMAIN project.objects[i].links :
               /\ project.objects[i].device = d /\ project.objects[i].links[j] = g
               /\ IsInfo(variableInfo[d][g][m], i, j)
    BY <1>2, <2>1 DEF InfosInv
  <2> QED BY <1>4, <2>1, <2>2
<1>7. InfosInv'
  <2>1. variableInfo' \in [project'.devices -> [Ids' -> Seq(InfoType')]]
    BY <1>1, <1>3, <1>4, ProjectStays
  <2>2. \A i \in Objects' : \A j \in DOMAIN project'.objects[i].links :
          \E m \in DOMAIN variableInfo'[project'.objects[i].device][project'.objects[i].links[j]] :
            IsInfo(variableInfo[project.objects[i].device][project.objects[i].links[j]][m], i, j)'
    BY <1>1, <1>3, <1>5, ProjectStays
  <2>3. \A d \in project'.devices : \A g \in Ids' : \A m \in DOMAIN variableInfo'[d][g] :
          \E i \in Objects' : \E j \in DOMAIN project'.objects[i].links :
            /\ project'.objects[i].device = d /\ project'.objects[i].links[j] = g
            /\ IsInfo(variableInfo[d][g][m], i, j)'
    BY <1>1, <1>3, <1>6, ProjectStays
  <2> QED BY <2>1, <2>2, <2>3 DEF InfosInv
<1>8. FlagsInv'
  BY <1>1, <1>3, <1>4, ProjectStays DEF FlagsInv
<1>9. VariablesInv' /\ UsedInv'
  BY <1>1, <1>2, <1>7, NoneUsed
<1> QED BY <1>1, <1>2, <1>7, <1>8, <1>9 DEF LinkInv

(* Going on to the next device, group address or phase uses no more infos.    *)
LEMMA LinksOn ==
  ASSUME ImportInv, LinkInv, phase = "assign", phase' \in {"assign", "create"}, next' \in Nat,
         UNCHANGED <<project, order, types, variableInfo, variables>>,
         device' \in 0..Len(order), element' \in Nat,
         \A k \in DOMAIN types, q \in DOMAIN order : \A m \in InfosAt(k, q) :
           Used(k, q, m)' <=> Used(k, q, m),
         phase' = "assign" => /\ next' <= Len(project.groups)
                              /\ next' = Len(project.groups) => device' = 0
                              /\ device' = Len(order) => element' = 0
  PROVE  LinkInv'
<1>1. /\ InfosInv /\ FlagsInv /\ VariablesInv /\ UsedInv
      /\ phase # "read" /\ phase' # "read" /\ Creating /\ Creating'
  BY DEF LinkInv, Creating
<1>2. \A i, j : LinkRead(i, j)
  BY <1>1 DEF LinkRead
<1>3. InfosInv'
  BY <1>1, <1>2, InfosStay
<1>4. FlagsInv'
  BY <1>1, ProjectStays DEF FlagsInv
<1>5. VariablesInv' /\ UsedInv'
  BY <1>1, VariablesStay
<1> QED BY <1>1, <1>3, <1>4, <1>5 DEF LinkInv

(* What group addresses, devices and infos are counted with.                 *)
LEMMA Counted ==
  ASSUME ImportInv, LinkInv, Creating
  PROVE  /\ Len(order) \in Nat /\ DOMAIN order = 1..Len(order)
         /\ Len(project.groups) \in Nat /\ DOMAIN types = 1..Len(project.groups)
         /\ DOMAIN project.groups = 1..Len(project.groups)
         /\ \A k \in DOMAIN types : GroupAt(k) \in Ids
         /\ \A q \in DOMAIN order : order[q] \in project.devices
         /\ \A k \in DOMAIN types, q \in DOMAIN order :
              /\ variableInfo[order[q]][GroupAt(k)] \in Seq(InfoType)
              /\ Len(variableInfo[order[q]][GroupAt(k)]) \in Nat
              /\ InfosAt(k, q) = 1..Len(variableInfo[order[q]][GroupAt(k)])
<1>1. IsProject(project) /\ InfosInv /\ VariablesInv /\ order \in Seq(project.devices)
  BY DEF LinkInv, ImportInv, ProjectInv
<1>2. /\ Len(order) \in Nat /\ DOMAIN order = 1..Len(order)
      /\ \A q \in DOMAIN order : order[q] \in project.devices
  BY <1>1
<1>3. /\ Len(project.groups) \in Nat /\ DOMAIN project.groups = 1..Len(project.groups)
      /\ DOMAIN types = 1..Len(project.groups)
  BY <1>1 DEF IsProject, InOrder, VariablesInv
<1>4. \A k \in DOMAIN types : GroupAt(k) \in Ids
  BY <1>3 DEF GroupAt, Ids, GroupIds
<1>5. ASSUME NEW k \in DOMAIN types, NEW q \in DOMAIN order
      PROVE  /\ variableInfo[order[q]][GroupAt(k)] \in Seq(InfoType)
             /\ Len(variableInfo[order[q]][GroupAt(k)]) \in Nat
             /\ InfosAt(k, q) = 1..Len(variableInfo[order[q]][GroupAt(k)])
  <2>1. variableInfo[order[q]][GroupAt(k)] \in Seq(InfoType)
    BY <1>1, <1>2, <1>4 DEF InfosInv
  <2> QED BY <2>1 DEF InfosAt
<1> QED BY <1>2, <1>3, <1>4, <1>5

LEMMA LinksDevice ==
  ASSUME ImportInv, LinkInv, AssignDevice
  PROVE  LinkInv'
<1>1. /\ phase = "assign" /\ phase' = "assign" /\ next < Len(project.groups) /\ device < Len(order)
      /\ element = Len(variableInfo[order[device + 1]][GroupAt(next + 1)])
      /\ device' = device + 1 /\ element' = 0
      /\ UNCHANGED <<project, order, next, types, variableInfo, variables>>
  BY DEF AssignDevice, AtDevice, Infos, CurrentGroup, GroupAt
<1>2. next \in Nat /\ device \in 0..Len(order) /\ element \in Nat /\ Creating
  BY <1>1 DEF LinkInv, Creating
<1>3. Len(order) \in Nat /\ Len(project.groups) \in Nat
  BY <1>2, Counted
<1>4. ASSUME NEW k \in DOMAIN types, NEW q \in DOMAIN order, NEW m \in InfosAt(k, q)
      PROVE  Used(k, q, m)' <=> Used(k, q, m)
  <2>1. k \in Nat /\ q \in Nat /\ m \in Nat /\ q >= 1 /\ m >= 1
    BY <1>2, <1>3, Counted, SMTT(40)
  <2>2. k = next + 1 /\ q = device + 1 => m <= element
    BY <1>1, <1>2, Counted
  <2> QED BY <1>1, <1>2, <2>1, <2>2 DEF Used
<1>5. device' \in 0..Len(order)
  BY <1>1, <1>2, <1>3
<1>6. next' \in Nat /\ next' <= Len(project.groups) /\ next' # Len(project.groups)
  BY <1>1, <1>2, <1>3
<1> QED BY <1>1, <1>4, <1>5, <1>6, LinksOn

LEMMA LinksGroup ==
  ASSUME ImportInv, LinkInv, AssignGroup
  PROVE  LinkInv'
<1>1. /\ phase = "assign" /\ phase' = "assign" /\ next < Len(project.groups) /\ device = Len(order)
      /\ next' = next + 1 /\ device' = 0
      /\ UNCHANGED <<project, order, element, types, variableInfo, variables>>
  BY DEF AssignGroup
<1>2. next \in Nat /\ element = 0 /\ Creating
  BY <1>1 DEF LinkInv, Creating
<1>3. Len(order) \in Nat /\ Len(project.groups) \in Nat
  BY <1>2, Counted
<1>4. ASSUME NEW k \in DOMAIN types, NEW q \in DOMAIN order, NEW m \in InfosAt(k, q)
      PROVE  Used(k, q, m)' <=> Used(k, q, m)
  <2>1. k \in Nat /\ q \in 1..Len(order) /\ m \in Nat /\ m >= 1
    BY <1>2, <1>3, Counted
  <2> QED BY <1>1, <1>2, <1>3, <2>1 DEF Used
<1>5. device' \in 0..Len(order) /\ next' \in Nat /\ next' <= Len(project.groups) /\ element' = 0
  BY <1>1, <1>2, <1>3
<1> QED BY <1>1, <1>4, <1>5, LinksOn

LEMMA LinksEnd ==
  ASSUME ImportInv, LinkInv, AssignEnds
  PROVE  LinkInv'
<1>1. /\ phase = "assign" /\ phase' = "create" /\ next = Len(project.groups) /\ next' = 0
      /\ UNCHANGED <<project, order, device, element, types, variableInfo, variables>>
  BY DEF AssignEnds, import
<1>2. device \in 0..Len(order) /\ element \in Nat /\ Creating
  BY <1>1 DEF LinkInv, Creating
<1>3. ASSUME NEW k \in DOMAIN types, NEW q \in DOMAIN order, NEW m \in InfosAt(k, q)
      PROVE  Used(k, q, m)' <=> Used(k, q, m)
  <2>1. k \in 1..Len(project.groups)
    BY <1>2, Counted
  <2> QED BY <1>1, <2>1 DEF Used
<1> QED BY <1>1, <1>2, <1>3, LinksOn

(* extractXmlData assigns the variable of the next info of a device.          *)
LEMMA LinksVariable ==
  ASSUME ImportInv, LinkInv, AssignVariable
  PROVE  LinkInv'
<1>1. PICK k, q, m : k = next + 1 /\ q = device + 1 /\ m = element + 1
  OBVIOUS
<1>2. PICK d, g, info : d = order[q] /\ g = GroupAt(k) /\ info = InfoAt(k, q, m)
  OBVIOUS
<1>3. PICK type : type = IF types[k] = NoType THEN info.type ELSE types[k]
  OBVIOUS
<1>4. PICK variable : variable = [group |-> g, type |-> type, readFlag |-> info.readFlag,
                                  writeFlag |-> info.writeFlag]
  OBVIOUS
<1>5. PICK replaces \in BOOLEAN : replaces <=> Replaces(info, variables[d])
  OBVIOUS
<1>6. /\ phase = "assign" /\ phase' = "assign" /\ next < Len(project.groups) /\ device < Len(order)
      /\ element < Len(variableInfo[d][g])
      /\ types' = [types EXCEPT ![k] = type]
      /\ element' = IF type = NoType THEN Len(variableInfo[d][g]) ELSE m
      /\ variables' = IF type # NoType /\ replaces
                      THEN [variables EXCEPT ![d] = Put(@, info.index, variable)] ELSE variables
      /\ UNCHANGED <<project, order, next, device, variableInfo>>
  BY <1>1, <1>2, <1>3, <1>4, <1>5 DEF AssignVariable, AtDevice, Infos, CurrentGroup, GroupAt, InfoAt
<1>7. /\ IsProject(project) /\ InfosInv /\ FlagsInv /\ VariablesInv /\ UsedInv
      /\ next \in Nat /\ device \in 0..Len(order) /\ element \in Nat
      /\ Creating /\ Creating' /\ \A i, j : LinkRead(i, j)
  BY <1>6 DEF LinkInv, Creating, LinkRead
<1>8. /\ Len(order) \in Nat /\ DOMAIN order = 1..Len(order)
      /\ Len(project.groups) \in Nat /\ DOMAIN types = 1..Len(project.groups)
      /\ Len(variableInfo[d][g]) \in Nat
      /\ k \in DOMAIN types /\ q \in DOMAIN order /\ InfosAt(k, q) = 1..Len(variableInfo[d][g])
      /\ m \in InfosAt(k, q) /\ d \in project.devices /\ g \in Ids
  <2>1. k \in DOMAIN types /\ q \in DOMAIN order
    BY <1>1, <1>6, <1>7, Counted
  <2>2. InfosAt(k, q) = 1..Len(variableInfo[d][g]) /\ Len(variableInfo[d][g]) \in Nat
    BY <1>2, <1>7, <2>1, Counted
  <2>3. m \in InfosAt(k, q)
    BY <1>1, <1>6, <1>7, <2>2
  <2> QED BY <1>2, <1>7, <2>1, <2>2, <2>3, Counted
<1>9. \A n \in DOMAIN types : GroupAt(n) = g => n = k
  BY <1>2, <1>7, <1>8 DEF VariablesInv, IsProject, GroupAt
<1>10. \A a \in DOMAIN types, b \in DOMAIN order : \A c \in InfosAt(a, b) :
         /\ Used(a, b, c) => Used(a, b, c)' /\ a <= k
         /\ Used(a, b, c)' /\ ~(a = k /\ b = q) => Used(a, b, c)
         /\ type # NoType /\ Used(a, b, c)' => Used(a, b, c) \/ (a = k /\ b = q /\ c = m)
  <2> SUFFICES ASSUME NEW a \in DOMAIN types, NEW b \in DOMAIN order, NEW c \in InfosAt(a, b)
               PROVE  /\ Used(a, b, c) => Used(a, b, c)' /\ a <= k
                      /\ Used(a, b, c)' /\ ~(a = k /\ b = q) => Used(a, b, c)
                      /\ type # NoType /\ Used(a, b, c)' => Used(a, b, c) \/ (a = k /\ b = q /\ c = m)
    OBVIOUS
  <2>1. a \in Nat /\ b \in Nat /\ c \in Nat
    BY <1>7, Counted
  <2>2. a = k /\ b = q => c <= Len(variableInfo[d][g])
    BY <1>8
  <2>3. element <= element'
    BY <1>1, <1>6, <1>7, <1>8
  <2>4. element' \in Nat
    BY <1>1, <1>6, <1>7, <1>8
  <2>5. Used(a, b, c) => Used(a, b, c)' /\ a <= k
    BY <1>1, <1>6, <1>7, <2>1, <2>3, <2>4 DEF Used
  <2>6. Used(a, b, c)' /\ ~(a = k /\ b = q) => Used(a, b, c)
    BY <1>1, <1>6, <1>7, <2>1 DEF Used
  <2>7. type # NoType /\ Used(a, b, c)' => Used(a, b, c) \/ (a = k /\ b = q /\ c = m)
    BY <1>1, <1>6, <1>7, <2>1 DEF Used
  <2> QED BY <2>5, <2>6, <2>7
<1>11. Used(k, q, m)'
  <2>1. m <= element'
    BY <1>1, <1>6, <1>7, <1>8
  <2> QED BY <1>1, <1>6, <2>1 DEF Used
<1>12. DOMAIN types' = DOMAIN types /\ \A n \in DOMAIN types : types[n] # NoType => types'[n] = types[n]
  BY <1>3, <1>6, <1>8
<1>13. types'[k] = type
  BY <1>6, <1>8
<1>14. InfosInv' /\ FlagsInv'
  BY <1>6, <1>7, InfosStay, ProjectStays DEF FlagsInv
<1>15. /\ DOMAIN variables' = project.devices
       /\ \A e \in project.devices : \A x \in DOMAIN variables'[e] :
            \/ x \in DOMAIN variables[e] /\ variables'[e][x] = variables[e][x]
            \/ type # NoType /\ e = d /\ x = info.index /\ variables'[e][x] = variable
       /\ \A e \in project.devices : \A x \in DOMAIN variables[e] :
            /\ x \in DOMAIN variables'[e]
            /\ \/ variables'[e][x] = variables[e][x]
               \/ type # NoType /\ replaces /\ e = d /\ x = info.index /\ variables'[e][x] = variable
       /\ type # NoType /\ replaces =>
            info.index \in DOMAIN variables'[d] /\ variables'[d][info.index] = variable
       /\ ~replaces => variables' = variables
  <2>1. CASE type # NoType /\ replaces
    <3>1. PICK put : put = Put(variables[d], info.index, variable)
      OBVIOUS
    <3>2. DOMAIN variables = project.devices
      BY <1>7 DEF VariablesInv
    <3>3. /\ DOMAIN put = DOMAIN variables[d] \cup {info.index} /\ put[info.index] = variable
          /\ \A x \in DOMAIN variables[d] : x # info.index => put[x] = variables[d][x]
      BY <3>1 DEF Put
    <3>4. variables' = [variables EXCEPT ![d] = put]
      BY <1>6, <2>1, <3>1
    <3>5. /\ DOMAIN variables' = project.devices /\ variables'[d] = put
          /\ \A e \in project.devices : e # d => variables'[e] = variables[e]
      BY <1>8, <3>2, <3>4
    <3> QED BY <2>1, <3>3, <3>5
  <2>2. CASE ~(type # NoType /\ replaces)
    BY <1>6, <1>7, <2>2 DEF VariablesInv
  <2> QED BY <2>1, <2>2
<1>16. VariablesInv'
  <2>1. \A n \in DOMAIN types' : project'.groups[n].type # NoType => types'[n] = project'.groups[n].type
    BY <1>6, <1>7, <1>12 DEF VariablesInv
  <2>2. ASSUME NEW e \in project.devices, NEW x \in DOMAIN variables'[e]
        PROVE  \E a \in DOMAIN types, b \in DOMAIN order : \E c \in InfosAt(a, b) :
                 /\ order[b] = e /\ Used(a, b, c)' /\ types'[a] # NoType
                 /\ InfoAt(a, b, c).index = x
                 /\ variables'[e][x] = [group |-> GroupAt(a), type |-> types'[a],
                                        readFlag |-> InfoAt(a, b, c).readFlag,
                                        writeFlag |-> InfoAt(a, b, c).writeFlag]
    <3>1. CASE x \in DOMAIN variables[e] /\ variables'[e][x] = variables[e][x]
      <4>1. PICK a \in DOMAIN types, b \in DOMAIN order : \E c \in InfosAt(a, b) :
              /\ order[b] = e /\ Used(a, b, c) /\ types[a] # NoType
              /\ InfoAt(a, b, c).index = x /\ IsVariable(variables[e][x], a, InfoAt(a, b, c))
        BY <1>7, <3>1 DEF VariablesInv
      <4>2. PICK c \in InfosAt(a, b) :
              /\ order[b] = e /\ Used(a, b, c) /\ types[a] # NoType
              /\ InfoAt(a, b, c).index = x /\ IsVariable(variables[e][x], a, InfoAt(a, b, c))
        BY <4>1
      <4>3. Used(a, b, c)' /\ types'[a] = types[a]
        BY <1>10, <1>12, <4>2
      <4> QED BY <3>1, <4>2, <4>3 DEF IsVariable
    <3>2. CASE type # NoType /\ e = d /\ x = info.index /\ variables'[e][x] = variable
      BY <1>2, <1>4, <1>8, <1>11, <1>13, <3>2
    <3> QED BY <1>15, <3>1, <3>2
  <2>3. \A e \in project'.devices : \A x \in DOMAIN variables'[e] :
          \E a \in DOMAIN types', b \in DOMAIN order' : \E c \in InfosAt(a, b)' :
            /\ order'[b] = e /\ Used(a, b, c)' /\ types'[a] # NoType
            /\ InfoAt(a, b, c)'.index = x /\ IsVariable(variables[e][x], a, InfoAt(a, b, c))'
    <3>1. SUFFICES ASSUME NEW e \in project.devices, NEW x \in DOMAIN variables'[e]
                   PROVE  \E a \in DOMAIN types, b \in DOMAIN order : \E c \in InfosAt(a, b) :
                            /\ order[b] = e /\ Used(a, b, c)' /\ types'[a] # NoType
                            /\ InfoAt(a, b, c)'.index = x /\ IsVariable(variables[e][x], a, InfoAt(a, b, c))'
      BY <1>6, <1>12, InfosStay
    <3>2. \A a, b, c :
            /\ InfoAt(a, b, c)' = InfoAt(a, b, c)
            /\ IsVariable(variables[e][x], a, InfoAt(a, b, c))' <=>
                 variables'[e][x] = [group |-> GroupAt(a), type |-> types'[a],
                                     readFlag |-> InfoAt(a, b, c).readFlag,
                                     writeFlag |-> InfoAt(a, b, c).writeFlag]
      BY <1>6, InfosStay, ProjectStays DEF IsVariable
    <3>3. PICK a \in DOMAIN types, b \in DOMAIN order : \E c \in InfosAt(a, b) :
                 /\ order[b] = e /\ Used(a, b, c)' /\ types'[a] # NoType
                 /\ InfoAt(a, b, c).index = x
                 /\ variables'[e][x] = [group |-> GroupAt(a), type |-> types'[a],
                                        readFlag |-> InfoAt(a, b, c).readFlag,
                                        writeFlag |-> InfoAt(a, b, c).writeFlag]
      BY <2>2
    <3>4. PICK c \in InfosAt(a, b) :
                 /\ order[b] = e /\ Used(a, b, c)' /\ types'[a] # NoType
                 /\ InfoAt(a, b, c).index = x
                 /\ variables'[e][x] = [group |-> GroupAt(a), type |-> types'[a],
                                        readFlag |-> InfoAt(a, b, c).readFlag,
                                        writeFlag |-> InfoAt(a, b, c).writeFlag]
      BY <3>3
    <3>5. InfoAt(a, b, c)'.index = x /\ IsVariable(variables[e][x], a, InfoAt(a, b, c))'
      BY <3>2, <3>4
    <3> QED BY <3>4, <3>5
  <2> QED BY <1>6, <1>7, <1>12, <1>15, <2>1, <2>3 DEF VariablesInv
<1>17. UsedInv'
  <2>1. ASSUME NEW a \in DOMAIN types, NEW b \in DOMAIN order, NEW c \in InfosAt(a, b),
               Used(a, b, c)', Typed(project.groups[a]), NEW used, used = InfoAt(a, b, c)
        PROVE  /\ used.index \in DOMAIN variables'[order[b]]
               /\ used.writeFlag =>
                    /\ variables'[order[b]][used.index].writeFlag
                    /\ \A n \in DOMAIN types : GroupAt(n) = variables'[order[b]][used.index].group => n >= a
               /\ ~variables'[order[b]][used.index].writeFlag =>
                    \A n \in DOMAIN types : GroupAt(n) = variables'[order[b]][used.index].group => n <= a
    <3>1. order[b] \in project.devices
      BY <1>7, Counted
    <3>2. CASE Used(a, b, c)
      <4>1. /\ used.index \in DOMAIN variables[order[b]]
            /\ Kept(variables[order[b]][used.index], a, used)
        BY <1>7, <2>1, <3>2 DEF UsedInv
      <4>2. CASE variables'[order[b]][used.index] = variables[order[b]][used.index]
        BY <1>15, <3>1, <4>1, <4>2 DEF Kept
      <4>3. CASE /\ type # NoType /\ replaces /\ order[b] = d /\ used.index = info.index
                 /\ variables'[order[b]][used.index] = variable
        <5>1. info.writeFlag
          BY <1>5, <4>1, <4>3 DEF Replaces
        <5>2. variable.writeFlag /\ variable.group = g
          BY <1>4, <5>1
        <5>3. \A n \in DOMAIN types : GroupAt(n) = g => n >= a
          <6>1. a <= k /\ a \in Int /\ k \in Int
            BY <1>8, <1>10, <2>1, <3>2
          <6> QED BY <1>9, <6>1
        <5> QED BY <1>15, <3>1, <4>1, <4>3, <5>2, <5>3
      <4> QED BY <1>15, <3>1, <4>1, <4>2, <4>3
    <3>3. CASE type # NoType /\ a = k /\ b = q /\ c = m
      <4>1. used = info /\ order[b] = d
        BY <1>2, <2>1, <3>3
      <4>2. CASE replaces
        <5>1. used.index \in DOMAIN variables'[d] /\ variables'[d][used.index] = variable
          BY <1>15, <3>3, <4>1, <4>2
        <5>2. variable.writeFlag = used.writeFlag /\ variable.group = g
          BY <1>4, <4>1
        <5>3. \A n \in DOMAIN types : GroupAt(n) = g => n <= a /\ n >= a
          BY <1>8, <1>9, <3>3
        <5> QED BY <4>1, <5>1, <5>2, <5>3
      <4>3. CASE ~replaces
        <5>1. used.index \in DOMAIN variables[d] /\ ~used.writeFlag /\ variables' = variables
          BY <1>5, <1>15, <4>1, <4>3 DEF Replaces
        <5>2. PICK a2 \in DOMAIN types, b2 \in DOMAIN order : \E c2 \in InfosAt(a2, b2) :
                Used(a2, b2, c2) /\ IsVariable(variables[d][used.index], a2, InfoAt(a2, b2, c2))
          BY <1>7, <1>8, <5>1 DEF VariablesInv
        <5>3. a2 <= k /\ variables[d][used.index].group = GroupAt(a2)
          BY <1>10, <5>2 DEF IsVariable
        <5>4. \A n \in DOMAIN types : GroupAt(n) = GroupAt(a2) => n = a2
          BY <1>7 DEF VariablesInv, IsProject, GroupAt
        <5> QED BY <3>3, <4>1, <5>1, <5>3, <5>4
      <4> QED BY <1>5, <4>2, <4>3
    <3>4. CASE type = NoType /\ a = k /\ b = q
      <4>1. types[k] = NoType /\ info.type = NoType
        BY <1>3, <3>4
      <4>2. project.groups[k].type = NoType
        BY <1>7, <1>8, <4>1 DEF VariablesInv
      <4>3. PICK i \in Objects : \E j \in DOMAIN project.objects[i].links :
              project.objects[i].links[j] = g /\ IsInfo(info, i, j)
        <5>1. m \in DOMAIN variableInfo[d][g] /\ info = variableInfo[d][g][m]
          BY <1>2, <1>8 DEF InfoAt, InfosAt
        <5>2. d \in project.devices /\ g \in Ids /\ InfosInv
          BY <1>2, <1>7, <1>8
        <5>3. \E i \in Objects : \E j \in DOMAIN project.objects[i].links :
                project.objects[i].links[j] = g /\ IsInfo(variableInfo[d][g][m], i, j)
          BY <5>1, <5>2, Zenon DEF InfosInv
        <5> QED BY <5>1, <5>3, Zenon
      <4>4. i \in Linked(project.groups[k]) /\ project.objects[i].type = NoType
        BY <1>2, <4>1, <4>3 DEF Linked, Elements, IsInfo, Objects, GroupAt
      <4> QED BY <2>1, <3>4, <4>2, <4>4 DEF Typed
    <3> QED BY <1>10, <2>1, <3>2, <3>3, <3>4
  <2>2. \A a, b, c : InfoAt(a, b, c)' = InfoAt(a, b, c) /\ InfosAt(a, b)' = InfosAt(a, b)
    BY <1>6, InfosStay
  <2>3. \A v, a, used : Kept(v, a, used)' <=>
          /\ used.writeFlag =>
               v.writeFlag /\ \A n \in DOMAIN types : GroupAt(n) = v.group => n >= a
          /\ ~v.writeFlag => \A n \in DOMAIN types : GroupAt(n) = v.group => n <= a
    BY <1>6, <1>12, ProjectStays DEF Kept
  <2> QED BY <1>6, <1>12, <2>1, <2>2, <2>3, ProjectStays DEF UsedInv
<1>18. element' \in Nat /\ next' # Len(project.groups) /\ device' # Len(order)
  BY <1>1, <1>6, <1>7, <1>8
<1>19. next' <= Len(project.groups)
  BY <1>6, <1>7, <1>8
<1> QED BY <1>6, <1>7, <1>14, <1>16, <1>17, <1>18, <1>19 DEF LinkInv

LEMMA StepLinks ==
  ASSUME ImportInv, LinkInv, [Next]_vars
  PROVE  LinkInv'
<1>1. Importable \subseteq Projects /\ Repeated \subseteq Projects
  BY DEF Importable, Repeated
<1>2. next \in Nat
  BY DEF LinkInv
<1>3. CASE CreateHomegearDevice
  <2>1. UNCHANGED import /\ phase = "create" /\ phase' \in {"create", "save"} /\ next' \in Nat
    BY <1>2, <1>3, SMTT(40) DEF CreateHomegearDevice
  <2> QED BY <2>1, LinksStay
<1>4. CASE CreateFails \/ AddDevice
  <2>1. UNCHANGED import /\ phase = "save" /\ phase' = "create" /\ next' \in Nat
    BY <1>2, <1>4 DEF CreateFails, AddDevice
  <2> QED BY <2>1, LinksStay
<1>5. CASE \/ CreateEnds \/ (\E id \in DOMAIN project.json : AddJson(id))
           \/ Reload \/ (\E row \in rows : DeletePeer(row)) \/ Restart
  <2>1. UNCHANGED import /\ phase' \in {"idle", "json"}
    BY <1>5 DEF CreateEnds, AddJson, Reload, DeletePeer, Restart
  <2>2. next' \in Nat
    BY <1>2, <1>5 DEF CreateEnds, AddJson, Reload, DeletePeer, Restart, ImportInv, ProjectInv
  <2> QED BY <2>1, <2>2, LinksGone DEF Creating
<1>6. CASE UNCHANGED vars
  <2>1. UNCHANGED import /\ UNCHANGED <<phase, next>>
    BY <1>6 DEF vars
  <2>2. CASE Creating
    <3>1. InfosInv' /\ VariablesInv' /\ UsedInv'
      BY <2>1, <2>2, InfosStay, VariablesStay DEF LinkInv, import, LinkRead, Used
    <3>2. FlagsInv'
      BY <2>1, <2>2, ProjectStays DEF LinkInv, import, FlagsInv
    <3>3. UNCHANGED <<project, order, device, element, phase, next>>
      BY <2>1 DEF import
    <3> QED BY <2>2, <3>1, <3>2, <3>3 DEF LinkInv, Creating
  <2>3. CASE ~Creating
    BY <1>2, <2>1, <2>3, LinksGone DEF Creating
  <2> QED BY <2>2, <2>3
<1> QED BY <1>1, <1>3, <1>4, <1>5, <1>6, LinksBegin, LinksUpdate, LinksRead, LinksReadObject,
        LinksReadEnds, LinksVariable, LinksDevice, LinksGroup, LinksEnd DEF Next

-----------------------------------------------------------------------------
(* Variables keep their types, and type numbers are at most MaxNumber, which  *)
(* is 65535 in createHomegearDevice.                                        *)
THEOREM TypeCorrect == Spec => []TypeOK
<1>1. ImportInv /\ LinkInv => TypeOK
  BY DEF ImportInv, ProjectInv, PhaseInv, LinkInv, TypeOK
<1> QED BY <1>1, InitImport, StepImport, InitLinks, StepLinks, PTL DEF Spec

(* No two descriptions have one number (createHomegearDevice), but for two of *)
(* JSON, whose numbers the projects choose, or one of JSON whose number is     *)
(* not above MaxNumber.                                                     *)
THEOREM NumbersStayUnique == Spec => []NumbersUnique
<1>1. ImportInv => NumbersUnique
  BY ProjectAssumption DEF ImportInv, FilesInv, Numbered, Apart, NumbersUnique, Intrudes
<1> QED BY <1>1, InitImport, StepImport, PTL DEF Spec

(* The number of a peer leads to the device it was made for, in whatever      *)
(* order projects come, devices go, numbers run out, and failures, restarts    *)
(* and deletions come in between, unless its file was lost, or a device of     *)
(* JSON has a number that is not above MaxNumber (createHomegearDevice,       *)
(* addDeviceToPeerInfo, reloadAndUpdatePeers, deletePeer).                   *)
THEOREM RowsAlwaysKeepDevice == Spec => []RowsKeepDevice
<1>1. ImportInv => RowsKeepDevice
  BY DEF ImportInv, RowsInv, RowsKeepDevice, Leads
<1> QED BY <1>1, InitImport, StepImport, PTL DEF Spec

(* Once the variables are assigned, those of an object that has a group       *)
(* address are what VariablesAsLinked says.                                 *)
LEMMA AssignedAsLinked ==
  ASSUME ImportInv, LinkInv, Assignments, NEW i \in Objects, GroupsOf(i) # {},
         \A k \in GroupsOf(i) : Typed(project.groups[k]),
         NEW object, object = project.objects[i],
         NEW v, v = variables[object.device][object.index],
         NEW sends, sends = (SendingGroups(i) # {})
  PROVE  /\ object.index \in DOMAIN variables[object.device]
         /\ v.group = project.groups[IF sends THEN Max(SendingGroups(i)) ELSE Lowest(GroupsOf(i))].id
         /\ v.writeFlag = sends
<1>1. /\ InfosInv /\ VariablesInv /\ UsedInv /\ IsProject(project) /\ Creating
      /\ phase # "assign" /\ phase # "read" /\ \A a, b : LinkRead(a, b)
      /\ \A k, q, m : Used(k, q, m)
  BY DEF LinkInv, Assignments, Creating, LinkRead, Used
<1>2. /\ object.device \in project.devices /\ IsObject(object)
      /\ \A j \in DOMAIN object.links : object.links[j] \in Ids
  BY <1>1 DEF IsProject, Objects, Ids, GroupIds, Elements
<1>3. PICK q \in DOMAIN order : order[q] = object.device
  BY <1>2 DEF LinkInv
<1>4. ASSUME NEW k \in GroupsOf(i), NEW j \in DOMAIN object.links, object.links[j] = GroupAt(k)
      PROVE  /\ object.index \in DOMAIN variables[object.device]
             /\ object.writeFlag /\ j <= object.sends =>
                  v.writeFlag /\ \A n \in DOMAIN types : GroupAt(n) = v.group => n >= k
             /\ ~v.writeFlag => \A n \in DOMAIN types : GroupAt(n) = v.group => n <= k
  <2>1. k \in DOMAIN types
    BY <1>1 DEF GroupsOf, VariablesInv
  <2>2. PICK m \in DOMAIN variableInfo[object.device][GroupAt(k)] :
          IsInfo(variableInfo[object.device][GroupAt(k)][m], i, j)
    BY <1>1, <1>4 DEF InfosInv
  <2>3. m \in InfosAt(k, q) /\ IsInfo(InfoAt(k, q, m), i, j)
    BY <1>3, <2>2 DEF InfosAt, InfoAt
  <2>4. PICK info : info = InfoAt(k, q, m)
    OBVIOUS
  <2>5. info.index \in DOMAIN variables[order[q]] /\ Kept(variables[order[q]][info.index], k, info)
    BY <1>1, <2>1, <2>3, <2>4 DEF UsedInv
  <2>6. info.index = object.index /\ info.writeFlag = (object.writeFlag /\ j <= object.sends)
    BY <2>3, <2>4 DEF IsInfo, Info
  <2> QED BY <1>3, <2>5, <2>6 DEF Kept
<1>5. ASSUME NEW k \in GroupsOf(i)
      PROVE  /\ k \in DOMAIN types /\ k \in Nat
             /\ \E j \in DOMAIN object.links : object.links[j] = GroupAt(k)
  <2>1. k \in DOMAIN types
    BY <1>1 DEF GroupsOf, VariablesInv
  <2>2. k \in Nat
    BY <1>1, <2>1, Counted DEF VariablesInv
  <2>3. i \in Linked(project.groups[k])
    BY DEF GroupsOf
  <2>4. \E j \in DOMAIN object.links : object.links[j] = project.groups[k].id
    BY <2>3 DEF Linked, Elements
  <2> QED BY <2>1, <2>2, <2>4 DEF GroupAt
<1>6. object.index \in DOMAIN variables[object.device]
  BY <1>4, <1>5
<1>7. PICK k0 \in GroupsOf(i) : \E j \in DOMAIN object.links :
        /\ object.links[j] = GroupAt(k0) /\ v.group = GroupAt(k0)
        /\ v.writeFlag = (object.writeFlag /\ j <= object.sends)
  <2>1. PICK k \in DOMAIN types, p \in DOMAIN order : \E m \in InfosAt(k, p) :
          /\ order[p] = object.device /\ InfoAt(k, p, m).index = object.index
          /\ IsVariable(v, k, InfoAt(k, p, m))
    BY <1>1, <1>2, <1>6 DEF VariablesInv
  <2>2. PICK m \in InfosAt(k, p) :
          /\ order[p] = object.device /\ InfoAt(k, p, m).index = object.index
          /\ IsVariable(v, k, InfoAt(k, p, m))
    BY <2>1
  <2>3. PICK info : info = InfoAt(k, p, m)
    OBVIOUS
  <2>4. GroupAt(k) \in Ids
    BY <1>1, Counted
  <2>5. PICK a \in Objects : \E j \in DOMAIN project.objects[a].links :
          /\ project.objects[a].device = object.device /\ project.objects[a].links[j] = GroupAt(k)
          /\ IsInfo(info, a, j)
    BY <1>1, <1>2, <2>2, <2>3, <2>4 DEF InfosInv, InfoAt, InfosAt
  <2>6. a = i
    BY <1>1, <2>2, <2>3, <2>5 DEF IsProject, IsInfo, Objects
  <2>7. PICK j \in DOMAIN object.links : object.links[j] = GroupAt(k) /\ IsInfo(info, i, j)
    BY <2>5, <2>6
  <2>8. k \in GroupsOf(i)
    BY <1>1, <2>7 DEF GroupsOf, Linked, Elements, VariablesInv, GroupAt, Objects
  <2>9. v.group = GroupAt(k) /\ v.writeFlag = info.writeFlag
    BY <2>2, <2>3 DEF IsVariable
  <2>10. info.writeFlag = (object.writeFlag /\ j <= object.sends)
    BY <2>7 DEF IsInfo, Info
  <2> QED BY <2>7, <2>8, <2>9, <2>10
<1>8. \A a, b \in DOMAIN types : GroupAt(a) = GroupAt(b) => a = b
  BY <1>1 DEF VariablesInv, IsProject, GroupAt
<1>9. GroupsOf(i) \subseteq Nat /\ SendingGroups(i) \subseteq GroupsOf(i)
  BY <1>5 DEF SendingGroups
<1>10. CASE sends
  <2>1. ASSUME NEW k \in SendingGroups(i) PROVE v.writeFlag /\ k0 >= k
    <3>1. PICK j \in DOMAIN object.links :
            object.writeFlag /\ j <= object.sends /\ object.links[j] = GroupAt(k)
      BY DEF SendingGroups, GroupAt
    <3>2. k \in GroupsOf(i)
      BY <1>9
    <3> QED BY <1>4, <1>5, <1>7, <3>1, <3>2
  <2>2. v.writeFlag
    BY <1>10, <2>1
  <2>3. k0 \in SendingGroups(i)
    BY <1>7, <2>2 DEF SendingGroups, GroupAt
  <2>4. k0 \in SendingGroups(i) /\ \A k \in SendingGroups(i) : k0 >= k
    BY <2>1, <2>3
  <2>5. PICK n : n = Max(SendingGroups(i))
    OBVIOUS
  <2>6. n \in SendingGroups(i) /\ \A k \in SendingGroups(i) : n >= k
    BY <2>4, <2>5, Zenon DEF Max
  <2>7. n = k0
    BY <1>9, <2>4, <2>6
  <2> QED BY <1>6, <1>7, <1>10, <2>2, <2>5, <2>7 DEF GroupAt
<1>11. CASE ~sends
  <2>1. PICK n : n = Lowest(GroupsOf(i))
    OBVIOUS
  <2>2. n \in GroupsOf(i) /\ \A k \in GroupsOf(i) : n <= k
    BY <1>9, <2>1, LowestIsLeast
  <2>3. ~v.writeFlag
    <3>1. PICK j \in DOMAIN object.links :
            /\ object.links[j] = GroupAt(k0)
            /\ v.writeFlag = (object.writeFlag /\ j <= object.sends)
      BY <1>7
    <3>2. object.writeFlag /\ j <= object.sends => k0 \in SendingGroups(i)
      BY <3>1 DEF SendingGroups, GroupAt
    <3> QED BY <1>11, <3>1, <3>2
  <2>4. k0 <= n
    BY <1>4, <1>5, <1>7, <2>2, <2>3
  <2>5. k0 = n
    BY <1>9, <2>2, <2>4
  <2> QED BY <1>6, <1>7, <1>11, <2>1, <2>3, <2>5 DEF GroupAt
<1> QED BY <1>10, <1>11

(* Whatever the order of the devices in memory and of the group addresses in   *)
(* the file, an object that sends becomes a variable of the group address it  *)
(* sends to, and another one of the first it is linked to: no object is lost   *)
(* where two group addresses share it (extractXmlData).                      *)
THEOREM VariablesAlwaysAsLinked == Spec => []VariablesAsLinked
<1>1. ASSUME ImportInv, LinkInv, Assignments, NEW i \in DOMAIN project.objects, GroupsOf(i) # {},
             \A k \in GroupsOf(i) : Typed(project.groups[k]),
             NEW object, object = project.objects[i], NEW sends, sends = (SendingGroups(i) # {})
      PROVE  /\ object.index \in DOMAIN variables[object.device]
             /\ variables[object.device][object.index].group =
                  project.groups[IF sends THEN Max(SendingGroups(i)) ELSE Lowest(GroupsOf(i))].id
             /\ variables[object.device][object.index].writeFlag = sends
  BY <1>1, AssignedAsLinked DEF Objects
<1>2. ImportInv /\ LinkInv => VariablesAsLinked
  BY <1>1 DEF VariablesAsLinked
<1> QED BY <1>2, InitImport, StepImport, InitLinks, StepLinks, PTL DEF Spec

(* Where a variable comes from once they are assigned.                       *)
LEMMA VariableOf ==
  ASSUME ImportInv, LinkInv, Assignments, NEW d \in project.devices, NEW x \in DOMAIN variables[d],
         NEW v, v = variables[d][x]
  PROVE  \E k \in DOMAIN types : \E m \in DOMAIN variableInfo[d][v.group] :
           /\ v.group = GroupAt(k) /\ v.group \in Ids /\ v.type = types[k]
           /\ v.readFlag = variableInfo[d][v.group][m].readFlag
<1>1. VariablesInv /\ Creating
  BY DEF LinkInv, Assignments, Creating
<1>2. PICK k \in DOMAIN types, q \in DOMAIN order : \E m \in InfosAt(k, q) :
        order[q] = d /\ IsVariable(v, k, InfoAt(k, q, m))
  BY <1>1 DEF VariablesInv
<1>3. PICK m \in InfosAt(k, q) : order[q] = d /\ IsVariable(v, k, InfoAt(k, q, m))
  BY <1>2
<1>4. /\ v.group = GroupAt(k) /\ v.type = types[k] /\ v.readFlag = InfoAt(k, q, m).readFlag
  BY <1>3 DEF IsVariable
<1>5. m \in DOMAIN variableInfo[d][v.group] /\ InfoAt(k, q, m) = variableInfo[d][v.group][m]
  BY <1>3, <1>4 DEF InfosAt, InfoAt
<1>6. v.group \in Ids
  BY <1>1, <1>4, Counted
<1> QED BY <1>4, <1>5, <1>6

LEMMA AssignedAgree ==
  ASSUME ImportInv, LinkInv, Assignments,
         NEW d \in project.devices, NEW x \in DOMAIN variables[d], NEW v, v = variables[d][x],
         NEW e \in project.devices, NEW y \in DOMAIN variables[e], NEW w, w = variables[e][y],
         v.group = w.group
  PROVE  /\ v.type = w.type
         /\ v.readFlag = w.readFlag \/ \E f \in {d, e} : Len(variableInfo[f][v.group]) > 1
<1>1. InfosInv /\ FlagsInv /\ VariablesInv /\ IsProject(project) /\ phase # "read"
  BY DEF LinkInv, Assignments, Creating
<1>2. PICK k \in DOMAIN types : \E m \in DOMAIN variableInfo[d][v.group] :
        /\ v.group = GroupAt(k) /\ v.group \in Ids /\ v.type = types[k]
        /\ v.readFlag = variableInfo[d][v.group][m].readFlag
  BY VariableOf
<1>3. PICK n \in DOMAIN types : \E m \in DOMAIN variableInfo[e][w.group] :
        /\ w.group = GroupAt(n) /\ w.group \in Ids /\ w.type = types[n]
        /\ w.readFlag = variableInfo[e][w.group][m].readFlag
  BY VariableOf
<1>4. v.type = w.type
  <2>1. k = n
    BY <1>1, <1>2, <1>3, ZenonT(40) DEF VariablesInv, IsProject, GroupAt
  <2> QED BY <1>2, <1>3, <2>1
<1>5. ASSUME NEW f \in {d, e}, NEW m \in DOMAIN variableInfo[f][v.group],
             ~(Len(variableInfo[f][v.group]) > 1)
      PROVE  m = 1 /\ variableInfo[f][v.group] # <<>>
  <2>1. variableInfo[f][v.group] \in Seq(InfoType)
    BY <1>1, <1>2 DEF InfosInv
  <2> QED BY <1>5, <2>1
<1>6. ASSUME ~\E f \in {d, e} : Len(variableInfo[f][v.group]) > 1
      PROVE  v.readFlag = w.readFlag
  <2>1. PICK m \in DOMAIN variableInfo[d][v.group] :
          v.readFlag = variableInfo[d][v.group][m].readFlag
    BY <1>2
  <2>2. PICK l \in DOMAIN variableInfo[e][v.group] :
          w.readFlag = variableInfo[e][v.group][l].readFlag
    BY <1>3
  <2>3. /\ m = 1 /\ variableInfo[d][v.group] # <<>>
        /\ l = 1 /\ variableInfo[e][v.group] # <<>>
    BY <1>5, <1>6
  <2>4. variableInfo[d][v.group][1].readFlag = variableInfo[e][v.group][1].readFlag
    BY <1>1, <1>2, <2>3 DEF FlagsInv
  <2> QED BY <2>1, <2>2, <2>3, <2>4
<1> QED BY <1>4, <1>6

(* All devices convert a group address with one type, and answer reads of it   *)
(* alike, unless one has it in several objects (extractXmlData).             *)
THEOREM GroupVariablesAlwaysAgree == Spec => []GroupVariablesAgree
<1>1. ImportInv /\ LinkInv => GroupVariablesAgree
  BY AssignedAgree DEF GroupVariablesAgree
<1> QED BY <1>1, InitImport, StepImport, InitLinks, StepLinks, PTL DEF Spec
=============================================================================
