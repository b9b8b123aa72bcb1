----------------------------- MODULE MCDispatch -----------------------------
(***************************************************************************)
(* The connection of the controller, a listener, which is only read, and   *)
(* further connections.  EPOLLIN and EPOLLOUT of a connection are treated  *)
(* alike by the event loop, so that one of them stands for both.           *)
(***************************************************************************)
EXTENDS Dispatch, TLC

CONSTANTS controller, listener, c1, c2, EPOLLIN, EPOLLOUT, EPOLLHUP

MCKernelMask ==
    [f \in Files |-> CASE f \in Listeners -> {EPOLLIN}
                      [] f = Controller -> {EPOLLOUT}
                      [] OTHER -> {EPOLLOUT, EPOLLHUP}]
MCInitMask ==
    [f \in Files |-> IF f \in Listeners THEN {EPOLLIN} ELSE {EPOLLOUT}]

=============================================================================
