\* Violation run: ReadImpliesDecrypted on the instance of SecMsg.cfg.
CONSTANTS
    t1 = t1  t2 = t2  T1 = T1  T2 = T2
    NoThread = NoThread
    Threads <- MCThreads
    Times <- MCTimes
    MaxMsgs = 2
    MaxCrashes = 1
    RemoveCanFail = TRUE
SYMMETRY ThreadSymmetry
SPECIFICATION Spec
INVARIANT ReadImpliesDecrypted
