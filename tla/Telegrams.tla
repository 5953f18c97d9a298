------------------------------ MODULE Telegrams ------------------------------
(***************************************************************************)
(* The two formats a value travels in: the cEMI frame of the bus (Cemi)    *)
(* and the KNXnet/IP packet around it (KnxIpPacket), as octets.            *)
(*                                                                         *)
(* A frame that is parsed keeps only the payload, not whether it came in   *)
(* the first octet.  The endpoints of connect, disconnect and              *)
(* connection state packets keep their IP address as octets; knxLayer and  *)
(* knxAddress, which no code reads, are left out.  "fails" stands for the   *)
(* exception of a packet that is refused.                                  *)
(***************************************************************************)
EXTENDS Naturals, Integers, Sequences

High(n) == (n \div 256) % 256
Low(n) == n % 256
Word(octets, i) == 256 * octets[i] + octets[i + 1]
Fails == [fails |-> TRUE]

-----------------------------------------------------------------------------
(* Addresses as they are written: area.line.device and main/middle/sub.    *)
FormattedPhysicalAddress(a) ==
  IF a = 65535 THEN <<>> ELSE <<a \div 4096, (a \div 256) % 16, a % 256>>
ParsePhysicalAddress(parts) ==
  IF Len(parts) # 3 THEN 0
  ELSE (parts[1] % 16) * 4096 + (parts[2] % 16) * 256 + (parts[3] % 256)
FormattedGroupAddress(a) == <<a \div 2048, (a \div 256) % 8, a % 256>>
ParseGroupAddress(parts) ==
  IF Len(parts) # 3 THEN 0
  ELSE (parts[1] % 32) * 2048 + (parts[2] % 8) * 256 + (parts[3] % 256)

-----------------------------------------------------------------------------
GroupValueRead == 0
GroupValueResponse == 1
GroupValueWrite == 2
LDataReq == 17
LDataInd == 41

(* A frame to send.  Without a payload it carries one zero octet.          *)
Frame(operation, destination, fits, payload) ==
  [operation |-> operation, source |-> 0, destination |-> destination,
   fits |-> fits \/ payload = <<>>, payload |-> IF payload = <<>> THEN <<0>> ELSE payload,
   tpci |-> 0, raw |-> <<>>]
(* Numbered frames carry the sequence number of a connection to a device.  *)
Numbered(frame, number) == [frame EXCEPT !.tpci = 64 + 4 * (number % 16)]
SetSourceAddressKeeps(frame, address) == [frame EXCEPT !.source = address]
(* The octets are kept once they are made, until the source changes.       *)
SetSourceAddress(frame, address) == [frame EXCEPT !.source = address, !.raw = <<>>]

(* The payload of one octet shares it with two bits of the operation: the  *)
(* code joins them without a mask.                                         *)
Joined(top, octet) ==
  LET own == octet \div 64
      bit == [one |-> IF top % 2 = 1 \/ own % 2 = 1 THEN 64 ELSE 0,
              two |-> IF top > 1 \/ own > 1 THEN 128 ELSE 0]
  IN  (octet % 64) + bit.one + bit.two
CemiBinary(frame) ==
  LET apci == frame.operation % 4
  IN  <<LDataReq, 0, 180, 224, High(frame.source), Low(frame.source),
        High(frame.destination), Low(frame.destination),
        Low(IF frame.fits THEN 1 ELSE 1 + Len(frame.payload)),
        frame.tpci + (frame.operation \div 4)>>
      \o (IF frame.fits THEN <<Joined(apci, frame.payload[1])>>
          ELSE <<apci * 64>> \o frame.payload)

GetBinary(frame) == IF frame.raw # <<>> THEN frame.raw ELSE CemiBinary(frame)

ParseCemiWithoutInformation(octets) ==
  [fails |-> Len(octets) < 11, code |-> octets[1],
   source |-> Word(octets, 5), destination |-> Word(octets, 7),
   operation |-> 4 * (octets[10] % 4) + (octets[11] \div 64),
   payload |-> IF Len(octets) = 11 THEN <<octets[11] % 64>> ELSE SubSeq(octets, 12, Len(octets))]
(* The frame of received octets: additional information is skipped.  Other *)
(* message codes and short frames leave all but the code unset.            *)
ParseCemi(octets) ==
  LET info == IF Len(octets) > 1 THEN octets[2] ELSE 0
      data == SubSeq(octets, info + 1, Len(octets))
  IN  IF octets = <<>> THEN Fails
      ELSE IF octets[1] \notin {LDataReq, LDataInd} \/ Len(octets) < 11
      THEN [fails |-> FALSE, code |-> octets[1], operation |-> -1]
      ELSE IF Len(octets) < 11 + info THEN Fails
      ELSE [fails |-> FALSE, code |-> octets[1],
            source |-> Word(data, 5), destination |-> Word(data, 7),
            operation |-> 4 * (data[10] % 4) + (data[11] \div 64),
            payload |-> IF Len(data) = 11 THEN <<data[11] % 64>> ELSE SubSeq(data, 12, Len(data))]
-----------------------------------------------------------------------------
TunnelingRequest == 1056
TunnelingAck == 1057
ConfigRequest == 784
ConnectRequest == 517
ConnectResponse == 518
ConnectionStateRequest == 519
ConnectionStateResponse == 520
DisconnectRequest == 521
DisconnectResponse == 522
NoError == 0

Header(service, length) == <<6, 16, High(service), Low(service), High(length), Low(length)>>
TunnelingRequestBinary(channel, counter, cemi) ==
  Header(TunnelingRequest, 10 + Len(cemi)) \o <<4, channel, counter, 0>> \o cemi
TunnelingAckBinary(channel, counter) ==
  Header(TunnelingAck, 10) \o <<4, channel, counter, NoError>>

(* The body of a packet.  A TUNNELING_ACK comes before a second branch for *)
(* that type, so that a CONFIG_ACK is accepted but has no body.            *)
ParseConnection(octets) ==
  [fails |-> Len(octets) < 10 \/ octets[7] # 4,
   channel |-> IF Len(octets) < 10 THEN 0 ELSE octets[8],
   counter |-> IF Len(octets) < 10 THEN 0 ELSE octets[9]]
ParseRequest(octets) ==
  IF ParseConnection(octets).fails THEN Fails
  ELSE LET cemi == ParseCemi(SubSeq(octets, 11, Len(octets)))
       IN  IF cemi.fails THEN Fails
           ELSE [fails |-> FALSE, channel |-> octets[8], counter |-> octets[9], cemi |-> cemi]
ParseAck(octets) ==
  IF ParseConnection(octets).fails THEN Fails
  ELSE [fails |-> FALSE, channel |-> octets[8], counter |-> octets[9], status |-> octets[10]]
Endpoint(octets, first) ==
  [protocol |-> octets[first], ip |-> SubSeq(octets, first + 1, first + 4),
   port |-> Word(octets, first + 5)]
ParseConnectRequest(octets) ==
  IF Len(octets) < 24 THEN Fails
  ELSE [fails |-> FALSE, control |-> Endpoint(octets, 8), data |-> Endpoint(octets, 16),
        type |-> octets[24]]
ParseConnectResponse(octets) ==
  IF octets[8] # NoError
  THEN [fails |-> FALSE, channel |-> octets[7], status |-> octets[8]]
  ELSE IF Len(octets) < 18 THEN Fails
  ELSE [fails |-> FALSE, channel |-> octets[7], status |-> NoError, data |-> Endpoint(octets, 10),
        type |-> octets[18]]
(* DISCONNECT_REQUEST and CONNECTIONSTATE_REQUEST, and their responses.    *)
ParseChannelRequest(octets) ==
  IF Len(octets) < 16 THEN Fails
  ELSE [fails |-> FALSE, channel |-> octets[7], control |-> Endpoint(octets, 10)]
ParseChannelResponse(octets) ==
  [fails |-> FALSE, channel |-> octets[7], status |-> octets[8]]

ParsePacket(octets) ==
  LET service == Word(octets, 3)
  IN  IF \/ Len(octets) < 8
         \/ octets[1] # 6 \/ octets[2] # 16 \/ Word(octets, 5) # Len(octets)
      THEN Fails
      ELSE CASE service \in {TunnelingRequest, ConfigRequest} -> ParseRequest(octets)
             [] service = TunnelingAck -> ParseAck(octets)
             [] service = ConnectRequest -> ParseConnectRequest(octets)
             [] service = ConnectResponse -> ParseConnectResponse(octets)
             [] service \in {DisconnectRequest, ConnectionStateRequest} ->
                  ParseChannelRequest(octets)
             [] service \in {DisconnectResponse, ConnectionStateResponse} ->
                  ParseChannelResponse(octets)
             [] OTHER -> [fails |-> FALSE]
=============================================================================
