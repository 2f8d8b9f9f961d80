SPECIFICATION Spec
CONSTANT Areas = {"keys"}
INVARIANT LegacyIntact
CHECK_DEADLOCK FALSE
