\* Three strong variables, two weak ones and two strong members: chains, a cycle,
\* nested destructors.  Threads share the strong pointers only.
CONSTANTS
    r1 = r1  r2 = r2  r3 = r3  w1 = w1  w2 = w2  f1 = f1  f2 = f2  m1 = m1
    b1 = b1  b2 = b2  b3 = b3
    Strongs = {r1, r2, r3, f1, f2}
    Weaks = {w1, w2}
    Blocks = {b1, b2}
    Home <- Members1
    Shared = {r1, r2, r3, f1, f2}
    Null = Null
SPECIFICATION FairSpec
INVARIANTS CountsMatch NoDangling StrongKeepsAlive NoLeak
PROPERTY ReleaseEnds
