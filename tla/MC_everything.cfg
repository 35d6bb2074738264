SPECIFICATION Spec
CONSTANTS
    N = 1
    Reliable = {1}
    Reported = {"ARMED_AWAY","DISARMED"}
    Events = {"verisure_error", "refused_call", "lost_reply", "save_error", "crash", "shutdown", "arm", "finish", "expire", "manual", "stuck", "slow_start"}
    CooldownEnabled = TRUE
    MaxReconcileAttempts = 2
    MaxTries = 2
    Requests = {r1}
    r1 = r1
INVARIANTS TypeOK Phases
PROPERTIES StartsOnlyWhenArmed StopsOnlyWhenDisengaged KeepsThePromise
