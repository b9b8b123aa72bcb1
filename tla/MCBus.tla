------------------------------- MODULE MCBus --------------------------------
(***************************************************************************)
(* Three peers, each of which may be the service.  Peer a sends two calls  *)
(* with the same serial, peer b a message that expects no reply.  Two      *)
(* activations, so that a report may come late.                            *)
(***************************************************************************)
EXTENDS Bus

CONSTANTS n1, a, b, c, m1, m2, m3

MCFrom == [m \in Messages |-> IF m \in {m1, m2} THEN a ELSE b]
MCSerial == [m \in Messages |-> IF m = m3 THEN 0 ELSE 1]

=============================================================================
