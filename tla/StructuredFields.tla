-------------------------- MODULE StructuredFields ---------------------------
(***************************************************************************)
(* Where the fields of a structured group variable lie in its value, and   *)
(* how their octets get in and out of it.  A value, .RAW, is the set of    *)
(* its bits that are one, counted from the most significant bit; a field's *)
(* octets are the set of theirs, the lowest of which is 0.                 *)
(***************************************************************************)
EXTENDS DptConverter, DatapointLayouts

Width(l) == 8 * (IF l.type[1] \in {2, 3} THEN 1 ELSE WidthOf(l.type[1]))
Bits(l) == 0..Width(l) - 1
(* A parameter is found by its name: of several of one name the last stays.*)
Named(fields) ==
  {f \in DOMAIN fields : \A g \in DOMAIN fields : g > f => fields[g].id # fields[f].id}
Positions(f) == f.pos..f.pos + f.size - 1

(* BitReaderWriter.                                                        *)
OneBits(octets) ==
  {k \in 0..8 * Len(octets) - 1 : (octets[Len(octets) - (k \div 8)] \div 2^(k % 8)) % 2 = 1}
SetPosition(f, bits, data) ==
  (bits \ Positions(f)) \cup {f.pos + f.size - 1 - k : k \in data \cap (0..f.size - 1)}
GetPosition(f, bits) == {f.pos + f.size - 1 - i : i \in bits \cap Positions(f)}

(* What may be written to a field: the ends of its range, or of its bits.  *)
Values(f) ==
  IF f.range # NoRange THEN {f.range[1], f.range[2]}
  ELSE {0, IF f.size > 16 THEN 65535 ELSE 2^f.size - 1}
Data(f, n) ==
  OneBits(GetDpt(f.type, CASE f.type = DPT(1) -> Boolean(n = 1)
                           [] f.type = DPT(9) -> Float(100 * n)
                           [] OTHER -> Integer(Octets(n)), FALSE))

-----------------------------------------------------------------------------
(* Two positions of blind slats' flag lie inside their percentage, and the *)
(* hours are declared up to 59 but have five bits.                         *)
Clashes(l, f) == l.type = DPST(241, 800) /\ f.id \in {"SLATS_POSITION", "SLATS_POS_VALID"}
Overflows(l, f) == l.type = DPST(10, 1) /\ f.id = "HOURS"

(* What the proofs assume of the layouts: every field lies inside its       *)
(* value, the declared values of every field but the hours fit its bits,   *)
(* and no field but those of the blind slats shares a bit with another.     *)
Inside(l, f) ==
  /\ f.pos \in Nat /\ f.size \in Nat \ {0}
  /\ Positions(f) \subseteq Bits(l)
Holds(l, f) == Overflows(l, f) \/ \A n \in Values(f) : Data(f, n) \subseteq 0..f.size - 1
Apart(f, g) == Positions(f) \cap Positions(g) = {}
Fit(types) ==
  \A i \in DOMAIN types :
    LET l == types[i]
    IN  \A f \in Named(l.fields) :
          /\ Inside(l, l.fields[f]) /\ Holds(l, l.fields[f])
          /\ \A g \in Named(l.fields) :
               f # g => Clashes(l, l.fields[f]) \/ Apart(l.fields[f], l.fields[g])
=============================================================================
