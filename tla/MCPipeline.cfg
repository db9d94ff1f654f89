SPECIFICATION Spec
CONSTANTS
  m1 = m1
  m2 = m2
  m3 = m3
  sourceA = sourceA
  sourceB = sourceB
  Message = {m1, m2, m3}
  SourceOf <- MCSourceOf
  IngestionCapacity = 1
  ProcessingCapacity = 2
  IOCapacity = 1
  NoMessage = NoMessage
  MaxStarts = 2
  Faults = {"write", "crash", "process"}
INVARIANTS TypeOK Conserved DurableUntilCompleted SourceOrder
PROPERTY QueuedIsProcessed
CHECK_DEADLOCK FALSE
