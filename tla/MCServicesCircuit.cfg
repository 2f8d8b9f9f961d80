SPECIFICATION Spec
CONSTANT Areas = {"breaker"}
INVARIANT ProbeAdmitted
CHECK_DEADLOCK FALSE
