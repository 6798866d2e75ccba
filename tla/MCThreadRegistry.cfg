\* Two threads may be spawned, by main or by one another, and use two addresses,
\* of which malloc may hand one out again; all three join and wait for all, so
\* that two may wait for each other; the capacity goes 0, 1, 2 and every growth
\* may fail.  The main thread may exit: the system may stop.
CONSTANTS
    main = main  t1 = t1  t2 = t2  h1 = h1  h2 = h2
    Threads = {main, t1, t2}
    Main = main
    Joiners = {main, t1, t2}
    Handles = {h1, h2}
    NoThread = NoThread
    NoHandle = NoHandle
    InitialCap = 1
SPECIFICATION FairSpec
CHECK_DEADLOCK FALSE
INVARIANTS RegistryInv NoDoubleJoin NoLeak
PROPERTIES CallsReturn ReturnMeansDone
