SPECIFICATION MCSpec
CONSTANTS
  Item = {a, b}
  Capacity = 3
  Undefined = Undefined
  MaxOverflow = 2
INVARIANTS RingTypeOK RingConsistent
PROPERTY ImplementsQueue
