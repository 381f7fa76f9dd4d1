\* A limit of four, and lines that exceed it by up to three.
CONSTANTS
    maxIdentificationLen = 4
    MaxLine = 7
    MaxOtherLines = 1
SPECIFICATION Spec
INVARIANTS
    ExportedAsSent
    OnlyPrintableExported
    ConformanceOfTheLine
PROPERTIES
    NoIdentificationMissed
