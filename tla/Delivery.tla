------------------------------ MODULE Delivery ------------------------------
(***************************************************************************)
(* The way of one value: an RPC client writes it (groupValueWrite), or a    *)
(* peer does, to a group address; it is converted, framed, sent through     *)
(* every interface; the gateway of one of them brings it back from the bus; *)
(* it is parsed and converted to a value again.                             *)
(***************************************************************************)
EXTENDS DptConverter, Telegrams

CONSTANTS Samples,       \* what may be written: type, value, inverted role
          Groups,        \* group addresses, as written
          Addresses,     \* the physical addresses of the interfaces, in order
          Informations   \* numbers of octets of additional information

ASSUME GroupsAssumption == Groups \subseteq (0..31) \X (0..7) \X (0..255)
ASSUME AddressesAssumption ==
  /\ Addresses \in Seq(Nat) /\ Len(Addresses) > 0
  /\ \A i \in DOMAIN Addresses : Addresses[i] < 65536
ASSUME InformationsAssumption == Informations \subseteq 0..200

VARIABLES sample,
          operation, group,
          stage,     \* "convert", "send", "relay", "parse", "end"
          frame,     \* the Cemi object, which the interfaces share
          sent,      \* the packets sent, one for each interface
          arrived,   \* the packet from the gateway
          parsed, value
vars == <<sample, operation, group, stage, frame, sent, arrived, parsed, value>>

-----------------------------------------------------------------------------
Elements(sequence) == {sequence[i] : i \in DOMAIN sequence}
None == <<>>
Init ==
  /\ sample \in Samples /\ group \in Groups
  /\ operation \in {GroupValueWrite, GroupValueResponse}
  /\ stage = "convert"
  /\ frame = None /\ sent = <<>> /\ arrived = <<>> /\ parsed = None /\ value = None

(* setValue and groupValueWrite: one Cemi object, whatever the interfaces. *)
Write ==
  /\ stage = "convert" /\ stage' = "send"
  /\ frame' = Frame(operation, ParseGroupAddress(group), FitsInFirstByte(sample.type),
                    GetDpt(sample.type, sample.value, sample.invert))
  /\ UNCHANGED <<sample, operation, group, sent, arrived, parsed, value>>

(* KnxPeer::sendPacket hands the object to one interface after the other:  *)
(* each sets its own address, which discards the octets made for the last. *)
SendPacket ==
  /\ stage = "send"
  /\ LET i == Len(sent) + 1
         own == SetSourceAddress(frame, Addresses[i])
         octets == GetBinary(own)
     IN  /\ frame' = [own EXCEPT !.raw = octets]
         /\ sent' = Append(sent, TunnelingRequestBinary(i % 256, (10 * i) % 256, octets))
         /\ stage' = IF i = Len(Addresses) THEN "relay" ELSE "send"
  /\ UNCHANGED <<sample, operation, group, arrived, parsed, value>>

(* The gateway: it knows the packet by its lengths, and another gateway    *)
(* gives the frame from the bus as an indication, with additional           *)
(* information or without.                                                 *)
Indication(packet, information) ==
  LET cemi == SubSeq(packet, 11, Len(packet))
  IN  <<LDataInd, information>> \o [i \in 1..information |-> i]
      \o SubSeq(cemi, 3, Len(cemi))
Relay(i, information) ==
  /\ stage = "relay" /\ stage' = "parse"
  /\ arrived' = TunnelingRequestBinary(7, 0, Indication(sent[i], information))
  /\ UNCHANGED <<sample, operation, group, frame, sent, parsed, value>>

(* processRawPacket parses, packetReceived converts.                       *)
Receive ==
  /\ stage = "parse" /\ stage' = "end"
  /\ parsed' = ParsePacket(arrived)
  /\ value' = IF parsed'.fails THEN Void
              ELSE GetVariable(sample.type, parsed'.cemi.payload, sample.invert)
  /\ UNCHANGED <<sample, operation, group, frame, sent, arrived>>

Next ==
  \/ Write \/ SendPacket \/ Receive
  \/ \E i \in DOMAIN Addresses, information \in Informations : Relay(i, information)
Spec == Init /\ [][Next]_vars
-----------------------------------------------------------------------------
IsOctets(octets) == \A i \in DOMAIN octets : octets[i] \in 0..255

(* What is sent is made of octets, its header gives its length, the frame   *)
(* gives that of its payload and carries the address of the interface that  *)
(* sent it, though all interfaces share one object that keeps its octets    *)
(* (KnxIpPacket::getBinary, Cemi::getBinary, which shift, mask and count by *)
(* hand, and Cemi::setSourceAddress).                                       *)
WellFormed ==
  \A i \in DOMAIN sent :
    LET packet == sent[i]
    IN  /\ IsOctets(packet) /\ Word(packet, 5) = Len(packet)
        /\ packet[19] = Len(packet) - 20
        /\ Word(packet, 15) = Addresses[i]

(* The sign is lost of DPT-8, which getVariable widens without it, and of a *)
(* DPT-13 of unknown subtype, which is converted as DPT-12.                 *)
SignLost(type) == type[1] \in {8, 12}
(* An angle comes back as the angle of the nearest of 255 steps.            *)
Same(type, v, w) ==
  CASE type = <<5, 3>> -> Low16(v) - Low16(w) \in -1..1
    [] SignLost(type) -> Lowest(WidthOf(type[1]), v) = Lowest(WidthOf(type[1]), w)
    [] OTHER -> v = w
Kept(s, v) ==
  s.type[1] # 9 => v.kind = s.value.kind /\ Same(s.type, v.value, s.value.value)

(* No other number of DPT-9 is between two.                                 *)
Mantissas == -2048..2047
NextTo(n, e) == {m * 2^e : m \in {n \div 2^e, n \div 2^e + 1} \cap Mantissas}
StrictlyNearer(n, low, high) == (low <= n /\ n < high) \/ (high < n /\ n <= low)
Faithful(s, v) ==
  s.type[1] = 9 =>
    LET n == s.value.value[1]
    IN  \A e \in 0..15 : \A m \in NextTo(n, e) : ~StrictlyNearer(m, n, v.value[1])

(* What Delivered asks of the conversions: they make octets, at most 254,    *)
(* one of six bits where it shares the octet of the operation, and undo      *)
(* each other.                                                             *)
Converts(s) ==
  LET payload == GetDpt(s.type, s.value, s.invert)
  IN  /\ payload \in Seq(0..255) /\ Len(payload) \in 1..254
      /\ FitsInFirstByte(s.type) => Len(payload) = 1 /\ payload[1] < 64
      /\ Kept(s, GetVariable(s.type, payload, s.invert))
AllConvert == \A s \in Samples : Converts(s)

(* A value arrives as it was written, with its operation, the address of   *)
(* its group and the address of an interface, whatever the gateway adds:    *)
(* both directions of every type agree (getDpt, getVariable), and nothing   *)
(* Homegear sends is refused by its own parser.                             *)
Delivered ==
  stage = "end" =>
    /\ ~parsed.fails
    /\ parsed.cemi.operation = operation
    /\ FormattedGroupAddress(parsed.cemi.destination) = group
    /\ parsed.cemi.source \in Elements(Addresses)
    /\ Kept(sample, value)

(* A number of DPT-9 arrives as itself when the format has it, and as one   *)
(* of its two neighbours there otherwise.  It need not be the nearer one:   *)
(* between 2047 and 2048 steps getDpt goes on to the next exponent before   *)
(* it rounds.                                                              *)
FaithfulFloat == stage = "end" => Faithful(sample, value)
=============================================================================
