----------------------------- MODULE MCEventLoop -----------------------------
(* Small instances of EventLoop. *)
EXTENDS EventLoop

CONSTANTS l1, f1, f2, f3, f4, p1, p2, Junk
MCListenFds == <<l1>>
\* Any free descriptor; or, where no symmetry is declared, one representative.
AnyFree(S) == S
OneFree(S) == IF S = {} THEN {} ELSE {CHOOSE f \in S : TRUE}
MCSymmetry == Permutations(Fd) \cup Permutations(Pid)
=============================================================================
