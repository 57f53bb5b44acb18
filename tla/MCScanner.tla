----------------------------- MODULE MCScanner -----------------------------
(* TLC instances of Scanner.  Service A has two names, as a service whose    *)
(* priority changes does; in SharedNames B may take over one of them.        *)
EXTENDS Scanner, TLC

CONSTANTS A, B, C

OwnNames    == {<<1, A>>, <<2, A>>, <<3, B>>}
ThreeDirs   == {<<1, A>>, <<2, B>>, <<3, C>>, <<4, A>>}
SharedNames == {<<1, A>>, <<2, A>>, <<1, B>>}
PidSymmetry == Permutations(Pids)
=============================================================================
