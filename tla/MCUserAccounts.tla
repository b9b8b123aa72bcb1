--------------------------- MODULE MCUserAccounts ---------------------------
(***************************************************************************)
(* One user with a maximum of 12 units, charged by itself and by three     *)
(* others.  An unsigned int holds 0 .. 31, so that the product of the      *)
(* quota check overflows for some of the charges.                          *)
(***************************************************************************)
EXTENDS UserAccounts, TLC

CONSTANTS u0, u1, u2, u3, c0, c1, c2, c3, c4, bytes, objects

\* Charge objects are interchangeable.
Symmetry == Permutations(Charges) \cup Permutations(Uids \ Accounted)

MCMaximum == [s \in Slots |-> 12]

=============================================================================
