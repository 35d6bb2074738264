SPECIFICATION Spec
CONSTANTS
    N = 1
    Reliable = {1}
    Reported = {"ARMED_AWAY","DISARMED"}
    Events = {"crash", "arm"}
    CooldownEnabled = TRUE
    MaxReconcileAttempts = 2
    MaxTries = 2
    Requests = {}
INVARIANTS NothingLeftRunning
