SPECIFICATION BridgeSpec
CONSTANTS MaxSession = 2
INVARIANTS WedgeIsSeen
CHECK_DEADLOCK FALSE
