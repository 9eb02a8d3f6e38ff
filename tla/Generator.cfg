CONSTANT GenSize = 4
SPECIFICATION Spec
INVARIANTS TypeOK KeyNextInObject
PROPERTY ImplementsJsonEvents
CHECK_DEADLOCK FALSE
