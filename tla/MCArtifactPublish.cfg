SPECIFICATION Spec
CONSTANTS
    MaxVersion = 3
    MaxFaults = 3
INVARIANTS
    TypeOK
    SearchIsOfOneVersion
PROPERTIES
    PublishesAtomically
CHECK_DEADLOCK FALSE
