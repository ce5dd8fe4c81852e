SPECIFICATION Spec
CONSTANT Jobs <- All
INVARIANTS RegistersRight MemoryRight ArgumentsArrive GoesOn HostServed
CHECK_DEADLOCK FALSE
