-------------------------- MODULE DatapointRanges ---------------------------
(***************************************************************************)
(* The simple datapoint types: the values the parsers under                *)
(* DatapointTypeParsers declare for them, and the type they are converted  *)
(* with.  Types without a declared range (1, 14, 15, 16, 19, 27, 29, ...)   *)
(* and ranges that end above 2^31 (12, and the .RAW values of 48 bits) are *)
(* not listed.  A parser's last branch stands for the subtypes it does not *)
(* know; units are left out.                                               *)
(***************************************************************************)
EXTENDS Naturals, Integers, Sequences, DatapointLayouts

(* A type with a range.                                                    *)
Between(type, min, max) == [type |-> type, cast |-> type, values |-> <<min, max>>]
(* A type whose parameter is converted with another one.                   *)
As(cast, row) == [row EXCEPT !.cast = cast]
(* An enumeration, with the values it names: its range is checked too.     *)
Enumeration(type, min, max, named) ==
  [type |-> type, cast |-> type, values |-> <<min, max>> \o named]
UpTo(n) == [i \in 1..n + 1 |-> i - 1]
From1To(n) == [i \in 1..n |-> i]

(* Pictures and settings of one octet.                                     *)
Ranges4 == <<Between(DPST(4, 1), 0, 127), Between(DPST(4, 2), 0, 255), Between(DPT(4), 0, 255)>>
Ranges5 == <<Between(DPT(5), 0, 255), Between(DPST(5, 1), 0, 100), Between(DPST(5, 3), 0, 360),
  Between(DPST(5, 4), 0, 255), Between(DPST(5, 6), 0, 254), Between(DPST(5, 10), 0, 255)>>
Ranges6 == <<Between(DPT(6), -128, 127), Between(DPST(6, 1), -128, 127)>>
Ranges7 == <<Between(DPT(7), 0, 65535), Between(DPST(7, 13), 0, 65535)>>
Ranges8 == <<Between(DPT(8), -32768, 32767), Between(DPST(8, 1), -32768, 32767)>>
(* In hundredths.  DPST-9-26 to 28 end at the largest number of the format.*)
Ranges9 == <<Between(DPT(9), -67076000, 67076000), Between(DPST(9, 1), -27300, 67076000),
  Between(DPST(9, 4), 0, 67076000), Between(DPST(9, 26), -67108864, 67076096),
  Between(DPST(9, 27), -45960, 67076096), Between(DPST(9, 28), 0, 67076096)>>
(* An unknown subtype is converted as DPT-12.                              *)
Ranges13 == <<Between(DPST(13, 1), -2147483647 - 1, 2147483647),
  As(DPT(12), Between(DPT(13), -2147483647 - 1, 2147483647))>>
Ranges17 == <<Between(DPT(17), 0, 63)>>
Ranges18 == <<Between(DPT(18), 0, 255)>>
Ranges25 == <<Between(DPT(25), 0, 255)>>

(* Enumerations of one octet: system, ...                                  *)
Ranges20System == <<
  Enumeration(DPST(20, 1), 0, 2, UpTo(2)), Enumeration(DPST(20, 2), 0, 2, UpTo(2)),
  Enumeration(DPST(20, 3), 0, 2, UpTo(2)), Enumeration(DPST(20, 4), 0, 3, UpTo(3)),
  Enumeration(DPST(20, 5), 0, 2, UpTo(2)),
  Enumeration(DPST(20, 6), 0, 50, <<0, 1, 10, 11, 12, 13, 14, 20, 30, 40, 50>>),
  Enumeration(DPST(20, 7), 1, 3, From1To(3)), Enumeration(DPST(20, 8), 0, 2, UpTo(2)),
  Enumeration(DPST(20, 11), 0, 18, UpTo(18)), Enumeration(DPST(20, 12), 0, 4, UpTo(4)),
  Enumeration(DPST(20, 13), 0, 25, UpTo(25)), Enumeration(DPST(20, 14), 0, 12, UpTo(12)),
  Enumeration(DPST(20, 17), 0, 4, UpTo(4)), Enumeration(DPST(20, 20), 1, 2, From1To(2))>>
(* ... heating, ventilation and air conditioning, ...                      *)
Ranges20Hvac == <<
  Enumeration(DPST(20, 100), 0, 3, UpTo(3)), Enumeration(DPST(20, 101), 0, 3, UpTo(3)),
  Enumeration(DPST(20, 102), 0, 4, UpTo(4)), Enumeration(DPST(20, 103), 0, 4, UpTo(4)),
  Enumeration(DPST(20, 104), 0, 2, UpTo(2)),
  Enumeration(DPST(20, 105), 0, 20, UpTo(17) \o <<20>>),
  Enumeration(DPST(20, 106), 0, 5, UpTo(5)), Enumeration(DPST(20, 107), 0, 2, UpTo(2)),
  Enumeration(DPST(20, 108), 1, 5, From1To(5)), Enumeration(DPST(20, 109), 1, 4, From1To(4)),
  Enumeration(DPST(20, 110), 1, 3, From1To(3)), Enumeration(DPST(20, 111), 0, 2, UpTo(2)),
  Enumeration(DPST(20, 112), 0, 2, UpTo(2)), Enumeration(DPST(20, 113), 0, 2, UpTo(2)),
  Enumeration(DPST(20, 114), 0, 255, UpTo(13) \o <<32, 33, 40, 41, 255>>),
  Enumeration(DPST(20, 120), 1, 2, From1To(2)), Enumeration(DPST(20, 121), 0, 1, UpTo(1)),
  Enumeration(DPST(20, 122), 0, 2, UpTo(2))>>
(* ... lighting, ...                                                       *)
Ranges20Lighting == <<
  Enumeration(DPST(20, 600), 0, 6, UpTo(6)), Enumeration(DPST(20, 601), 0, 4, UpTo(4)),
  Enumeration(DPST(20, 602), 0, 15, UpTo(15)), Enumeration(DPST(20, 603), 0, 2, UpTo(2)),
  Enumeration(DPST(20, 604), 0, 1, UpTo(1)), Enumeration(DPST(20, 605), 1, 2, From1To(2)),
  Enumeration(DPST(20, 606), 0, 3, UpTo(3)), Enumeration(DPST(20, 607), 1, 4, From1To(4)),
  Enumeration(DPST(20, 608), 0, 2, UpTo(2)), Enumeration(DPST(20, 609), 0, 2, UpTo(2)),
  Enumeration(DPST(20, 610), 0, 3, UpTo(3))>>
(* ... shutters and the interface itself.                                  *)
Ranges20Shutter == <<
  Enumeration(DPST(20, 801), 0, 4, UpTo(4)), Enumeration(DPST(20, 802), 0, 6, UpTo(6)),
  Enumeration(DPST(20, 803), 1, 4, From1To(4)), Enumeration(DPST(20, 804), 0, 1, UpTo(1)),
  Enumeration(DPST(20, 1000), 0, 255, <<0, 1, 2, 6, 255>>),
  Enumeration(DPST(20, 1001), 1, 7, From1To(7)), Enumeration(DPST(20, 1002), 0, 2, UpTo(2)),
  Enumeration(DPST(20, 1003), 0, 3, UpTo(3))>>
(* Enumerations of two bits.                                               *)
Ranges23 == <<
  Enumeration(DPST(23, 1), 0, 3, UpTo(3)), Enumeration(DPST(23, 2), 0, 2, UpTo(2)),
  Enumeration(DPST(23, 3), 0, 3, UpTo(3)), Enumeration(DPST(23, 102), 0, 3, UpTo(3)),
  Between(DPT(23), 0, 3)>>

Ranges == Ranges4 \o Ranges5 \o Ranges6 \o Ranges7 \o Ranges8 \o Ranges9 \o Ranges13
  \o Ranges17 \o Ranges18 \o Ranges25 \o Ranges20System \o Ranges20Hvac \o Ranges20Lighting
  \o Ranges20Shutter \o Ranges23

(* getParsers: the main types there is a parser for.                       *)
Registered == 1..23 \cup {25, 26, 27, 29, 30, 206, 217, 219, 222, 229, 230, 232, 234, 237, 238,
  240, 241, 244, 245, 249, 250, 251}
(* parse: the type is looked up by what stands before the subtype.         *)
Parsed(type) == type[1] \in Registered
=============================================================================
