SPECIFICATION Spec
CONSTANTS
    None = None
    Starts = {s1, s2, s3}
    Stops = {t1}
    Paths = {x}
    PidFiles = {f}
CHECK_DEADLOCK FALSE

INVARIANTS
    TypeOK
    Stoppable
PROPERTIES
    AdvertisedSocketIsTheChilds
    NoTakeover
    NoForeignUnlink
    StartEnds
    StopStops
