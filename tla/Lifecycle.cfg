\* One POST, one edit and three signals in every interleaving; slow requests may never end.
CONSTANTS
    Posters = {p1}
    MaxEdits = 1
    MaxSignals = 3
SPECIFICATION FairSpec
INVARIANTS
    GaugeTellsLiveIsLatest
    ReloadAnswerIsTrue
    ServesAValidConfig
    DrainedBeforeReturn
PROPERTIES
    ImplementsAtomicReload
    LiveNeverGoesBack
    ReloadedAfterHUP
    PostsAnswered
    ServeEnds
