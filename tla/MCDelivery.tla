----------------------------- MODULE MCDelivery -----------------------------
(* Three group addresses and two interfaces, 1.1.255 and 15.15.254.  The     *)
(* values are those the parameters declare (DatapointRanges), all            *)
(* percentages and angles, the numbers around each change of DPT-9's         *)
(* exponent, and patterns of octets for the types without a range.  They are *)
(* converted as DeliveryProofs assumes; the layouts, whose fields are        *)
(* converted likewise, are as StructuredValueProofs does.                    *)
EXTENDS Delivery, DatapointRanges, StructuredFields

Sample(type, v) == [type |-> type, value |-> v, invert |-> FALSE]
Number32(n) == Integer(Octets(n))

RangeSamples ==
  UNION {{Sample(row.cast, IF row.cast[1] = 9 THEN Float(n) ELSE Number32(n)) :
            n \in Elements(row.values)} : row \in Elements(Ranges)}
ScaledSamples ==
  {Sample(DPST(5, 1), Number32(n)) : n \in 0..100} \cup
  {Sample(DPST(5, 3), Number32(n)) : n \in 0..360}
FloatSamples ==
  {Sample(DPT(9), Float(n)) : n \in -2100..2100} \cup
  {Sample(DPT(9), Float(n)) :
     n \in UNION {{sign * m * 2^e + d : sign \in {1, -1}, m \in {1023, 1024, 1025, 2047}, d \in -1..1}
                  : e \in 0..15}}
FlagSamples == [type : {DPT(1)}, value : {Boolean(TRUE), Boolean(FALSE)}, invert : BOOLEAN]
(* Zero, all bits, the sign bit, and octets that are all different.        *)
Patterns(width) ==
  {Unsigned([i \in 1..width |-> 0]), Unsigned([i \in 1..width |-> 255]),
   Unsigned([i \in 1..width |-> IF i = 1 THEN 128 ELSE 0]), Unsigned([i \in 1..width |-> 16 * i])}
PatternSamples ==
  UNION {{Sample(DPT(n), Integer(v)) : v \in Patterns(WidthOf(n))} :
           n \in {10, 11, 12, 19, 21, 22, 26, 29, 30} \cup (Functional \ {241})}
SignedSamples ==
  {Sample(DPT(n), Integer(v)) : n \in {15, 27, 241},
     v \in {Signed(Lowest(4, p)) : p \in Patterns(4)}}
OtherSamples ==
  {Sample(DPT(n), Integer(Octets(i))) : n \in {2, 3}, i \in 0..3} \cup
  {Sample(DPT(14), Binary32(p)) : p \in {Lowest(4, q) : q \in Patterns(4)}} \cup
  {Sample(DPT(16), Text(t)) : t \in {<<>>, <<65>>, [i \in 1..14 |-> 64 + i]}}
(* A type without a parser makes no parameter.                             *)
MCSamples ==
  {s \in RangeSamples \cup ScaledSamples \cup FloatSamples \cup FlagSamples \cup PatternSamples
         \cup SignedSamples \cup OtherSamples : Parsed(s.type)}

ASSUME ConversionsFit == AllConvert
ASSUME LayoutsFit == Fit(Layouts)
MCGroups == {<<0, 0, 1>>, <<1, 2, 3>>, <<31, 7, 255>>}
MCAddresses == <<4607, 65534>>
=============================================================================
