---------------------------- MODULE MCConnection ----------------------------
(***************************************************************************)
(* The event loop, a connection it drives, and the authentication that     *)
(* comes first on it.  They share no state; a behaviour exercises one of   *)
(* them, chosen at the start, under the fairness of that one.              *)
(*                                                                         *)
(* Socket: two or three messages to the client, one of them with file      *)
(* descriptors, and up to two messages from it.                            *)
(***************************************************************************)
EXTENDS MCDispatch, Socket, Sasl

CONSTANTS m1, m2, m3

VARIABLE part

MCLength == [m \in Messages |-> IF m = m1 THEN 1 ELSE 2]

ConnectionInit ==
    /\ part \in {"loop", "socket", "sasl"}
    /\ DInit /\ SInit /\ Init
    /\ part # "sasl" => client = "ANY"

ConnectionNext ==
    \/ part = "loop" /\ DNext /\ UNCHANGED <<part, svars, vars>>
    \/ part = "socket" /\ SNext /\ UNCHANGED <<part, dvars, vars>>
    \/ part = "sasl" /\ Next /\ UNCHANGED <<part, dvars, svars>>

\* The broker is one thread, the honest client another.
Broker ==
    \/ part = "loop" /\ Loop /\ UNCHANGED <<svars, vars>>
    \/ part = "socket" /\ Dispatched /\ UNCHANGED <<dvars, vars>>
    \/ part = "sasl" /\ Server /\ UNCHANGED <<dvars, svars>>

Client == part = "sasl" /\ (ClientOpen \/ ClientReads)

ConnectionSpec ==
    /\ ConnectionInit
    /\ [][ConnectionNext]_<<part, dvars, svars, vars>>
    /\ WF_<<dvars, svars, vars>>(Broker)
    /\ WF_vars(Client)
=============================================================================
