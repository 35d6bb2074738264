SPECIFICATION AppSpec
CONSTANTS
    Callers = {"controller", "api"}
    Interval = 2
    HelperTimeout = 3
    Backoff <- MCBackoff
INVARIANTS Serialized
