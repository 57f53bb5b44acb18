----------------------------- MODULE MCTainlog -----------------------------
(* TLC instances of Tainlog.  Loggers are interchangeable.  A logger that    *)
(* runs alone reads one line and meets one event more than two loggers that  *)
(* share a directory; with their event come only lines that never fit, each  *)
(* with a stamp of its own, so that every one of them is archived.           *)
EXTENDS Tainlog, TLC

CONSTANTS l1, l2

LoggerSymmetry == Permutations(Loggers)

OwnStamps == \A i \in 1..Len(input) - 1 : input[i] # input[i + 1]
LongLines == \A l \in Loggers : len[l] # 1
LessShared ==
    overlap' => /\ Len(input') < MaxLines /\ events' < MaxEvents
                /\ events' = 0 \/ (OwnStamps' /\ LongLines')
SafetySpec == Init /\ [][Next /\ LessShared]_vars
=============================================================================
