\* Two signals: the second, a SIGTERM, finds the channel full.
CONSTANTS
    Posters = {p1}
    MaxEdits = 0
    MaxSignals = 2
SPECIFICATION FairSpec
PROPERTIES
    TerminationSignalTerminates
