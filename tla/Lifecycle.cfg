\* Two instances, one after the other or at the same time.
SPECIFICATION FairSpec
CONSTANTS
    Inst = {p1, p2}
    None = None
INVARIANTS
    TypeOK
    CleanupSound
    NoFileLeftBehind
    FileNamesServer
    ReportsHeard
PROPERTY SignalEnds
