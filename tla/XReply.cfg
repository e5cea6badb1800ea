SPECIFICATION Spec
CONSTANT MaxRequests = 4
CHECK_DEADLOCK FALSE
INVARIANTS TypeOK OneOwner NoNullReply
