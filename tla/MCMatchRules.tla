---------------------------- MODULE MCMatchRules ----------------------------
(***************************************************************************)
(* Instances of MatchRules: rules for the first peers that connect, one of *)
(* each kind that peer_link_match() tells apart.                           *)
(***************************************************************************)
EXTENDS MatchRules

CONSTANTS w1, odd

Key(sender, noc, path, member) ==
    [sender |-> sender, noc |-> noc,
     fields |-> [path |-> path, interface |-> "", member |-> member]]
Name(n) == [kind |-> "name", of |-> n]

MCKeys == {Key(NoAddress, NoAddress, "a", ""),
           Key(Id(1), NoAddress, "", "a"),
           Key(Name(w1), NoAddress, "", ""),
           Key(Driver, Id(1), "", "noc"),
           Key(Driver, Name(w1), "", "noc"),
           Key([kind |-> "other", of |-> odd], NoAddress, "", "")}
MCMonitorKeys == {Key(Name(w1), NoAddress, "a", ""), Key(Driver, Id(1), "", "noc")}

\* Rules about a peer that nobody has been told of.
MCPeerKeys == {Key(Id(1), NoAddress, "", ""), Key(Driver, Id(1), "", "noc"),
               Key(NoAddress, Id(1), "", "noc")}
MCNoKeys == {}
=============================================================================
