\* One producer and a close are enough to lose a value to the sentinel.
CONSTANTS
    Producers = {p1}
    Values = {v1}
    Null = Null
    Capacity = 1
    MaxTimeout = 1
SPECIFICATION Spec
PROPERTY NullMeansClosedAndEmpty
