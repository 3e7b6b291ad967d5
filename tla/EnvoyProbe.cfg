\* A liveness and a readiness probe at the same time.
CONSTANTS
    Probes = {1, 2}
    MaxChanges = 2
    MaxFaults = 1
SPECIFICATION Spec
INVARIANTS SuccessMeansReachable FailureHasCause
