---------------------------- MODULE DptConverter ----------------------------
(***************************************************************************)
(* DptConverter: Homegear's values to the octets of a datapoint type       *)
(* (getDpt) and back (getVariable).                                        *)
(*                                                                         *)
(* An integer is its 64-bit two's complement as eight octets, of which     *)
(* integerValue is the lower half.  A floating point number is a number of *)
(* hundredths for DPT-9 and its IEEE 754 pattern for DPT-14, whose         *)
(* conversion is the base library's.  A text is a sequence of characters,  *)
(* each one octet in the device's alphabet.  Of a role only invert is      *)
(* modelled, not the scale.                                                *)
(***************************************************************************)
EXTENDS Naturals, Integers, Sequences, FiniteSets

Boolean(b) == [kind |-> "boolean", value |-> IF b THEN <<1>> ELSE <<0>>]
Integer(octets) == [kind |-> "integer", value |-> octets]
Float(hundredths) == [kind |-> "float", value |-> <<hundredths>>]
Binary32(octets) == [kind |-> "binary32", value |-> octets]
Text(characters) == [kind |-> "text", value |-> characters]

(* The eight octets of a number of 32 bits, and the number of the lowest   *)
(* two.                                                                    *)
Octets(n) ==
  [i \in 1..8 |-> IF i > 4 THEN (n \div 256^(8 - i)) % 256 ELSE IF n < 0 THEN 255 ELSE 0]
Low16(octets) == 256 * octets[7] + octets[8]
(* The lowest octets, and the conversions of fewer octets to eight.        *)
Lowest(width, octets) == SubSeq(octets, 9 - width, 8)
Widened(octets, filler) ==
  [i \in 1..8 - Len(octets) |-> filler] \o octets
Unsigned(octets) == Widened(octets, 0)
Signed(octets) == Widened(octets, IF octets[1] >= 128 THEN 255 ELSE 0)

(* lround of n / d.                                                        *)
Nearest(n, d) == IF n >= 0 THEN (2 * n + d) \div (2 * d) ELSE -((d - 2 * n) \div (2 * d))

-----------------------------------------------------------------------------
FitsInFirstByte(type) == type[1] \in {1, 2, 3, 23}

ExponentTo2048(hundredths) ==
  CHOOSE e \in 0..16 : /\ hundredths <= 2048 * 2^e /\ hundredths >= -2048 * 2^e
                       /\ \A d \in 0..e - 1 : hundredths > 2048 * 2^d \/ hundredths < -2048 * 2^d

(* DPT-9: the value is halved until it fits eleven bits and a sign.        *)
Exponent(hundredths) ==
  CHOOSE e \in 0..16 : /\ hundredths <= 2047 * 2^e /\ hundredths >= -2048 * 2^e
                       /\ \A d \in 0..e - 1 : hundredths > 2047 * 2^d \/ hundredths < -2048 * 2^d
GetFloat16(hundredths) ==
  LET exponent == Exponent(hundredths)
      mantissa == Nearest(hundredths, 2^exponent)
  IN  IF exponent > 15 THEN <<127, 255>>
      ELSE <<(IF mantissa < 0 THEN 128 ELSE 0) + 8 * exponent + (mantissa % 2048) \div 256,
             mantissa % 256>>
GetVariableFloat16(octets) ==
  LET mantissa == 256 * (octets[1] % 8) + octets[2]
      signed == IF octets[1] >= 128 THEN -(2048 - mantissa) ELSE mantissa
  IN  Float(signed * 2^((octets[1] \div 8) % 16))

(* DPST-5-1 and DPST-5-3 stretch a percentage or an angle to an octet.     *)
(* Half of 2.55 is just below, and the product of 50 or 90 is rounded down. *)
Percent(n) == IF n \in {50, 90} THEN (255 * n) \div 100 ELSE Nearest(255 * n, 100)
GetScaled(type, n) == (IF type[2] = 1 THEN Percent(n) ELSE Nearest(255 * n, 360)) % 256
GetVariableScaled(type, octet) == Nearest((IF type[2] = 1 THEN 100 ELSE 360) * octet, 255)
Scaled(type) == type \in {<<5, 1>>, <<5, 3>>}

(* The octets of the other types: of integerValue up to four, ...          *)
WidthBasic(n) == CASE n \in {4, 5, 6} -> 1 [] n \in {7, 8} -> 2
WidthStandard(n) ==
  CASE n \in {17, 18, 20, 21, 25, 26} -> 1 [] n = 22 -> 2 [] n \in {10, 11, 30} -> 3
    [] n \in {12, 13, 15, 27} -> 4 [] n \in {19, 29} -> 8
WidthFunctional(n) ==
  CASE n = 238 -> 1 [] n \in {217, 234, 237, 244} -> 2 [] n \in {206, 232, 240, 250} -> 3
    [] n = 241 -> 4 [] n \in {219, 222, 229, 245, 249, 251} -> 6 [] n = 230 -> 8
Basic == 4..8
Standard == (10..13) \cup {15} \cup (17..22) \cup {25, 26, 27, 29, 30}
Functional == {206, 217, 219, 222, 229, 230, 232, 234, 237, 238, 240, 241, 244, 245, 249, 250, 251}
WidthOf(n) ==
  CASE n \in Basic -> WidthBasic(n) [] n \in Standard -> WidthStandard(n)
    [] n \in Functional -> WidthFunctional(n)

GetDpt(type, value, invert) ==
  LET n == type[1]
      v == value.value
  IN  CASE n = 1 -> <<IF (v = <<1>>) <=> invert THEN 0 ELSE 1>>
        [] n \in {2, 23} -> <<v[8] % 4>>
        [] n = 3 -> <<v[8] % 16>>
        [] type = <<4, 1>> -> <<v[8] % 128>>
        [] Scaled(type) -> <<GetScaled(type, Low16(v))>>
        [] n = 9 -> GetFloat16(v[1])
        [] n = 14 -> v
        [] n = 16 -> [i \in 1..14 |-> IF i <= Len(v) THEN v[i] ELSE 0]
        [] n \in (Basic \cup Standard \cup Functional) /\ type # <<4, 1>> /\ ~Scaled(type) ->
             Lowest(WidthOf(n), v)
        [] OTHER -> <<>>

(* ... and the octets getVariable reads; a shorter payload gives zero.     *)
GetVariableBasic(type, octets) ==
  CASE type = <<4, 1>> -> Unsigned(<<octets[1] % 128>>)
    [] Scaled(type) -> Octets(GetVariableScaled(type, octets[1]))
    [] type[1] \in {4, 5} /\ type # <<4, 1>> /\ ~Scaled(type) -> Unsigned(SubSeq(octets, 1, 1))
    [] type[1] = 6 -> Signed(SubSeq(octets, 1, 1))
    [] type[1] \in {7, 8} -> Unsigned(SubSeq(octets, 1, 2))
GetVariableStandard(n, octets) ==
  CASE n \in {13, 15, 27} -> Signed(SubSeq(octets, 1, 4))
    [] n = 12 -> Unsigned(SubSeq(octets, 1, 4))
    [] n \in {10, 11, 30} -> Unsigned(SubSeq(octets, 1, 3))
    [] n = 22 -> Unsigned(SubSeq(octets, 1, 2))
    [] n \in {17, 18, 20, 21, 25, 26} -> Unsigned(SubSeq(octets, 1, 1))
    [] n \in {19, 29} -> SubSeq(octets, 1, 8)
GetVariableFunctional(n, octets) ==
  CASE n = 241 -> Signed(SubSeq(octets, 1, 4))
    [] n = 230 -> SubSeq(octets, 1, 8)
    [] n \in {219, 222, 229, 245, 249, 251} -> Unsigned(SubSeq(octets, 1, 6))
    [] n \in {206, 232, 240, 250} -> Unsigned(SubSeq(octets, 1, 3))
    [] n \in {217, 234, 237, 244} -> Unsigned(SubSeq(octets, 1, 2))
    [] n = 238 -> Unsigned(SubSeq(octets, 1, 1))

(* DPT-16: the characters of the octets, in their order; zeros are none.    *)
Characters(octets) ==
  LET shown == {i \in DOMAIN octets : octets[i] # 0}
  IN  [k \in 1..Cardinality(shown) |->
         octets[CHOOSE i \in shown : Cardinality({j \in shown : j <= i}) = k]]

TooSmall(n, octets) ==
  \/ n \in {1, 2, 3, 23} /\ octets = <<>>
  \/ n = 9 /\ Len(octets) < 2
  \/ n = 14 /\ Len(octets) < 4
  \/ n \in (Basic \cup Standard \cup Functional) /\ Len(octets) < WidthOf(n)
Default(n) == CASE n = 1 -> Boolean(FALSE) [] n = 9 -> Float(0) [] OTHER -> Integer(Octets(0))
Void == [kind |-> "void", value |-> <<>>]
GetVariable(type, octets, invert) ==
  LET n == type[1]
  IN  IF TooSmall(n, octets) THEN Default(n)
      ELSE CASE n = 1 -> Boolean(~((octets[1] % 2 = 1) <=> invert))
             [] n \in {2, 23} -> Integer(Unsigned(<<octets[1] % 4>>))
             [] n = 3 -> Integer(Unsigned(<<octets[1] % 16>>))
             [] n = 9 -> GetVariableFloat16(octets)
             [] n = 14 -> Binary32(SubSeq(octets, 1, 4))
             [] n = 16 -> Text(Characters(octets))
             [] n \in Basic -> Integer(GetVariableBasic(type, octets))
             [] n \in Standard -> Integer(GetVariableStandard(n, octets))
             [] n \in Functional -> Integer(GetVariableFunctional(n, octets))
             [] OTHER -> Void
=============================================================================
