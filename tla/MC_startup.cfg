SPECIFICATION FairStartup
CONSTANTS
    DefaultName <- MCDefaultName
    Sessions = {"s1", "s2", "s3", "s4"}
    Environments <- MCEnvironments
    DeviceLists <- MCDeviceLists
    AppDevices <- MCAppDevices
    StartupEvents = {"outage", "no_cookie", "save_error", "crash", "expire", "lease"}
INVARIANTS StartupTypeOK KeysTellRobotsApart RunsOnOneSession
PROPERTIES StartsShorten StartsAtLast StartsOnCache
