SPECIFICATION StartupSpec
CONSTANTS
    DefaultName <- MCDefaultName
    Sessions = {"s1", "s2", "s3", "s4"}
    Environments <- MCAppEnvironments
    DeviceLists <- MCDeviceLists
    AppDevices <- MCAppDevices
    StartupEvents = {"lease"}
INVARIANTS ConfiguredRobotsFound
