----------------------------- MODULE MCControl ------------------------------
(***************************************************************************)
(* Two service directories and two names, one of which (b) the broker      *)
(* refuses to activate.  launcher_run() found a file of a; since then it   *)
(* went, or a came to the first directory too and with it a file of b,     *)
(* which makes a reload fail half-way.  One more change, or a SIGHUP, comes *)
(* at any time.                                                            *)
(***************************************************************************)
EXTENDS Control

CONSTANTS a, b

MCDirs == <<"etc", "usr">>
MCRead == <<{}, {a}>>
MCDisks == {<<{}, {}>>, <<{a, b}, {a}>>}
=============================================================================
