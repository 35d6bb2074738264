SPECIFICATION SessionSpec
CONSTANTS
    ConfiguredGiid = "giid2"
    FirstGiid = "giid1"
    SessionEvents = {}
INVARIANTS WatchesConfigured
