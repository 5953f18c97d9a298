-------------------------- MODULE MCProjectImport ---------------------------
(* Projects of two devices, of which the first has two objects, and two      *)
(* group addresses; and projects without objects, for the type numbers.      *)
EXTENDS ProjectImport, TLC
D1 == [ets |-> 1, address |-> 1]
D2 == [ets |-> 2, address |-> 2]
D3 == [ets |-> 3, address |-> 3]
Moved == [ets |-> 1, address |-> 2]   \* D1, come to the address of D2
Objects(d, index, choices) ==
  [device : {d}, index : {index}, type : choices, readFlag : BOOLEAN, writeFlag : BOOLEAN,
   sends : 0..2, links : {<<"g1">>, <<"g2">>, <<"g1", "g2">>, <<"g2", "g1">>}]
Group(id, type) == [id |-> id, type |-> type]
Project(devices, objects, groups, json) ==
  [devices |-> devices, objects |-> objects, groups |-> groups, json |-> json]
Grouping ==
  {Project({D1, D2}, <<a, b, c>>, <<Group("g1", NoType), Group("g2", "B")>>, <<>>) :
     a \in {o \in Objects(D1, 1, {"A"}) : ~o.readFlag /\ o.sends \in 1..Len(o.links) /\ (o.writeFlag \/ o.sends = 1)},
     b \in {o \in Objects(D1, 2, {NoType}) : o.sends = 1 /\ o.writeFlag},
     c \in {o \in Objects(D2, 1, {NoType, "C"}) : o.sends = 0 /\ o.writeFlag}}
Numbering ==
  {Project(devices, <<>>, <<>>, <<>>) :
     devices \in {{}, {D1}, {D1, D2}, {D2, D3}, {D1, D2, D3}, {Moved, D3}}}
  \cup {Project({D1}, <<>>, <<>>, <<0, -1>>), Project({D1}, <<>>, <<>>, <<1, 1>>)}
  \cup {Project(devices, <<>>, <<>>, <<-2, -4>>) : devices \in {{}, {D1, D2}}}
MCProjects == Grouping \cup Numbering
MCOldFiles == {<<>>, (EtsName(1) :> 2), (AddressName(2) :> 1)}
=============================================================================
