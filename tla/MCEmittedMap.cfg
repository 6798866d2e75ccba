\* Two maps, three keys; arrays of one slot that grow twice, or of two slots.
CONSTANTS
    m1 = m1  m2 = m2  k1 = k1  k2 = k2  k3 = k3  b1 = b1  b2 = b2  b3 = b3
    Maps = {m1, m2}
    Keys = {k1, k2, k3}
    Values <- SmallValues
    Blocks = {b1, b2, b3}
    Hints = {0, 1}
    MinCapacity = 1
    GrowthFactor = 2
    MaxRows = 3
    Null = Null
    Junk = Junk
CONSTRAINT FewRows
SYMMETRY Symmetry
SPECIFICATION Spec
INVARIANTS MapInv SlotFound CollectFits
PROPERTIES OrderKept RefinesOrderedMap
\* exit(1) ends the program.
CHECK_DEADLOCK FALSE
