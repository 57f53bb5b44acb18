----------------------------- MODULE MCMonitor -----------------------------
(* TLC instances of Monitor, with two processes: at most one per child is    *)
(* ever unreaped.  Process identifiers are interchangeable, which the safety *)
(* run uses as a symmetry.  Symmetry is not sound for liveness; there each   *)
(* child always gets the same identifier instead.                            *)
EXTENDS Monitor, TLC

CONSTANTS p1, p2

PidSymmetry == Permutations(Pids)

\* For liveness: both programs are installed and the service is to be up.
LiveInit == Init /\ up /\ \A c \in Child : files[c] = "ok"
ByRole   == pid'["run"] # p2 /\ pid'["log"] # p1
LiveSpec == LiveInit /\ [][Next /\ ByRole]_vars /\ Fairness
=============================================================================
