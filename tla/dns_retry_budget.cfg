CONSTANTS
    h1 = h1
    h2 = h2
    h3 = h3
    NoReq = NoReq
    W <- MC_W
    Hosts <- MC_Hosts
    Answers <- MC_Answers
    MaxThreads <- MC_MaxThreads
    Tries <- MC_Tries
    CreateMayFail = FALSE
SPECIFICATION Spec
INVARIANT AttemptsWithinBudget
\* dns_done() returning ends the model: ipset_load goes on with the file
\* and the detached workers stay blocked in pthread_cond_wait.
CHECK_DEADLOCK FALSE
