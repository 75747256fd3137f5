SPECIFICATION Spec
CONSTANTS
    WordSize = 16777216
    Macs <- MCMacs
    Funnyarches <- MCFunnyarches
INVARIANTS
    TypeOK
    MapSound
    MapTilesRam
PROPERTY
    IterEnds
