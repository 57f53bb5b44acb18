------------------------------ MODULE MCSrvctl ------------------------------
(* TLC instances of Srvctl.  A service may have the name 1 as its priority,  *)
(* or its own name.  With one service there is one monitor at a time: the    *)
(* scanner reaps it before it starts the next, so one process is enough.     *)
EXTENDS Srvctl, TLC

CONSTANT A

OneService  == A :> 2
OnePriority == A :> {1}
ClientSymmetry == Permutations(Clients)
=============================================================================
