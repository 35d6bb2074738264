SPECIFICATION FairSession
CONSTANTS
    ConfiguredGiid = "none"
    FirstGiid = "giid1"
    SessionEvents = {"outage", "lost_reply", "typo", "untrust", "crash", "move"}
INVARIANTS SessionTypeOK SMSNeeded CodeGoesToItsServer
PROPERTIES CallsShorten CallsEnd PollingRecovers FollowsAccount
