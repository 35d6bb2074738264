SPECIFICATION FairSpec
CONSTANTS
    N = 2
    Reliable = {2}
    Reported = {"ARMED_AWAY","DISARMED"}
    Events = {"verisure_error", "refused_call", "lost_reply", "crash", "arm", "finish", "expire"}
    CooldownEnabled = TRUE
    MaxReconcileAttempts = 2
    MaxTries = 2
    Requests = {}
PROPERTIES TickShortens TicksEnd DocksOnDisarm StartsOnArm
