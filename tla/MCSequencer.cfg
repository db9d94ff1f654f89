CONSTANTS
    Registers <- MCRegisters
    SetTime = 9000000

SPECIFICATION Spec

INVARIANTS
    EntriesAsConfigured

PROPERTIES
    WritesEveryLine

\* The program ends.
CHECK_DEADLOCK FALSE
