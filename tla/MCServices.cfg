SPECIFICATION Spec
CONSTANT
  Areas = {"pool", "hub", "dns", "meter", "rollback", "monitor", "backup", "nightly", "stripe", "invoice",
           "checkout", "webhook", "master", "keys", "schema", "store", "lb", "compose", "topology",
           "scaler", "breaker"}
INVARIANTS StopIsBarrier OneMaster  PlanFollows  RollbacksSpaced
            ResultsExact 
PROPERTY ComesToRest
CHECK_DEADLOCK FALSE
