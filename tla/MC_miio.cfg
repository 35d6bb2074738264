SPECIFICATION FairMiio
CONSTANTS
    Callers = {"controller", "api"}
    Regulars = {"controller"}
    MaxReboots = 1
    NetworkEvents = {"unreachable", "garble", "unwritable"}
INVARIANTS MiioTypeOK AnswersOwnRequest
PROPERTIES CallsShorten CallsReturn RobotHeard
