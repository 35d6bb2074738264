SPECIFICATION FairApp
CONSTANTS
    Callers = {"controller", "api"}
    Interval = 2
    HelperTimeout = 3
    Backoff <- MCBackoff
INVARIANTS AppTypeOK HelpersApart
PROPERTIES TurnsSpaced OperationsShorten OperationsEnd
