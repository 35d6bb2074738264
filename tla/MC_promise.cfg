SPECIFICATION Spec
CONSTANTS
    N = 1
    Reliable = {1}
    Reported = {"ARMED_AWAY","ARMED_HOME","DISARMED","OTHER",""}
    Events = {"verisure_error", "refused_call", "lost_reply", "save_error", "crash", "shutdown", "arm", "finish", "stuck", "slow_start", "expire"}
    CooldownEnabled = TRUE
    MaxReconcileAttempts = 2
    MaxTries = 2
    Requests = {}
INVARIANTS StatusFollows
PROPERTIES KeepsThePromise CooldownRespected
