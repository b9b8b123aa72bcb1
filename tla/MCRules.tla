------------------------------ MODULE MCRules -------------------------------
(***************************************************************************)
(* The match rules and what they are made of: rules and where they are     *)
(* linked (MatchRules), and the trees, lists, messages and buffers of the  *)
(* libraries.  They share no state; a behaviour exercises one of them,     *)
(* chosen at the start.                                                    *)
(***************************************************************************)
EXTENDS MCMatchRules, MCLibraries

libVars == <<rbVars, listVars, wireVars, messageVars, iqVars>>

RulesInit ==
    /\ part \in {"rules"} \cup LibParts
    /\ Init /\ LibInit

RulesNext ==
    \/ part = "rules" /\ Next /\ UNCHANGED <<part, libVars>>
    \/ LibNext /\ UNCHANGED vars

RulesSpec == RulesInit /\ [][RulesNext]_<<part, vars, libVars>>
=============================================================================
