------------------------------ MODULE MCSecMsg ------------------------------
(* SecMsg on a small instance: two RPC threads and two bucket windows.     *)
EXTENDS SecMsg, TLC

CONSTANTS t1, t2, T1, T2

MCThreads == {t1, t2}
MCTimes == {T1, T2}

ThreadSymmetry == Permutations(MCThreads)

=============================================================================
