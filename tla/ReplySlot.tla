------------------------------ MODULE ReplySlot ------------------------------
(***************************************************************************)
(* What getResponse promises its callers, whatever table, mutexes and       *)
(* condition variables it takes: there is one slot for each service type,   *)
(* one thread at a time owns it, and what the thread leaves with is a        *)
(* packet of that type which came while it was the owner, or nothing.       *)
(* Storing a packet takes two steps; who leaves in between may have a part   *)
(* of it.                                                                  *)
(***************************************************************************)
EXTENDS FiniteSets

CONSTANTS Threads, Keys, Packet,   \* callers, service types, packets of the gateway
          None, Torn

VARIABLES
  slot,      \* of each service type: its owners, the packet in it and the one coming in
  outcome    \* what each thread left its last slot with
vars == <<slot, outcome>>

Slot(owners, packet, incoming) == [owners |-> owners, packet |-> packet, incoming |-> incoming]
Empty == Slot({}, None, None)

Init == /\ slot = [k \in Keys |-> Empty]
        /\ outcome = [t \in Threads |-> None]

Claim(t, k) ==
  /\ slot[k] = Empty
  /\ slot' = [slot EXCEPT ![k] = Slot({t}, None, None)]
  /\ UNCHANGED outcome

Receive(k) ==
  /\ slot[k].owners # {}
  /\ slot'[k].incoming \in Packet /\ slot'[k].incoming.key = k
  /\ slot' = [slot EXCEPT ![k] = Slot(@.owners, @.packet, slot'[k].incoming)]
  /\ UNCHANGED outcome

Store(k) ==
  /\ slot[k].incoming # None
  /\ slot' = [slot EXCEPT ![k] = Slot(@.owners, @.incoming, None)]
  /\ UNCHANGED outcome

(* The owner leaves, with what it finds.                                    *)
Found(k) == {None, slot[k].packet} \cup (IF slot[k].incoming = None THEN {} ELSE {slot[k].incoming, Torn})
Leave(t, k) ==
  /\ slot[k].owners = {t}
  /\ slot' = [slot EXCEPT ![k] = Empty]
  /\ \E v \in Found(k) : outcome' = [outcome EXCEPT ![t] = v]

(* It has looked at it, and goes on with the other slot it owns, or leaves   *)
(* that as well.                                                           *)
Forget(t) ==
  /\ outcome' = [outcome EXCEPT ![t] = None]
  /\ slot' \in {slot, [k \in Keys |-> IF slot[k].owners = {t} THEN Empty ELSE slot[k]]}

Next == \/ \E k \in Keys : Receive(k) \/ Store(k)
        \/ \E k \in Keys, t \in Threads : Claim(t, k) \/ Leave(t, k)
        \/ \E t \in Threads : Forget(t)
Spec == Init /\ [][Next]_vars
=============================================================================
