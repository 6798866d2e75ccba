\* One thread; the object has a weak member that points to it.
CONSTANTS
    r1 = r1  r2 = r2  r3 = r3  w1 = w1  w2 = w2  f1 = f1  f2 = f2  m1 = m1
    b1 = b1  b2 = b2  b3 = b3
    Strongs = {r1}
    Weaks = {m1}
    Blocks = {b1}
    Home <- Members1
    Shared = {}
    Null = Null
SPECIFICATION Spec
INVARIANT NoDangling
