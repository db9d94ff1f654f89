SPECIFICATION Spec
CONSTANTS
  Topic = {t1, t2}
  Message = {m1, m2}
  MaxPerTopic = 3
  Undefined = Undefined
INVARIANTS TypeOK RingsReadable
PROPERTY ImplementsHistory
