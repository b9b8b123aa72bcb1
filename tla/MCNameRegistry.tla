--------------------------- MODULE MCNameRegistry ---------------------------
(***************************************************************************)
(* A small registry: three peers of one user (every peer of this build has *)
(* uid 0), two names, and every combination of the three flags.  The quota *)
(* is below the six ownerships the peers could hold, so that requests run  *)
(* into it.                                                                *)
(***************************************************************************)
EXTENDS NameRegistry, TLC

CONSTANTS n1, n2, p1, p2, p3, u

MCNames == {n1, n2}
MCOwners == {p1, p2, p3}
MCUsers == {u}
MCUserOf == [o \in MCOwners |-> u]
MCFlagSets == SUBSET Flags

\* Peers share the user and names carry no data, so both sets are symmetric.
Symmetry == Permutations(MCNames) \cup Permutations(MCOwners)

=============================================================================
