----------------------------- MODULE MCBusyLock -----------------------------
(* Small instances of BusyLock: which process a thread lives in.           *)
EXTENDS BusyLock, TLC

CONSTANTS t1, t2, t3, w1, w2

\* Two processes: one that may be killed, and another with two RPC threads.
TwoProcesses == [t \in Threads |-> IF t = t1 THEN w1 ELSE w2]

Symmetry == Permutations({t2, t3}) \cup Permutations(Projects)
=============================================================================
