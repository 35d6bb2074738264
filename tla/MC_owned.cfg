SPECIFICATION Spec
CONSTANTS
    N = 2
    Reliable = {1}
    Reported = {"ARMED_AWAY","DISARMED"}
    Events = {"refused_call", "save_error", "crash", "shutdown", "arm", "finish", "stuck"}
    CooldownEnabled = TRUE
    MaxReconcileAttempts = 2
    MaxTries = 2
    Requests = {}
INVARIANTS ActsOnRecord
PROPERTIES StaysTracked OwnershipKept
