SPECIFICATION Spec
CONSTANTS
    WordSize = 1764
    Volumes <- MCVolumes
    Counts <- MCCounts
    Moves <- MCMoves
INVARIANT
    TypeOK
PROPERTIES
    IsByteFile
    ReadEnds
