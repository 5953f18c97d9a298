------------------------- MODULE MCStructuredValue --------------------------
(* Every layout there is; things overlap in one layout of each kind: two     *)
(* flags, a flag and a number, one flag alone, two numbers, two of octets.    *)
EXTENDS StructuredValue, TLC
CONSTANTS t1, t2
MCTypes == Layouts
MCOverlapping ==
  {i \in DOMAIN Layouts : Layouts[i] \in {Dpt2, Dpt3, Dpst21_101, Dpst25_1000, Dpst206_100}}
Symmetry == Permutations(Threads)
=============================================================================
