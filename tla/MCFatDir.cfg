SPECIFICATION Spec
CONSTANTS
    NameSize = 3
    ExtSize = 2
    PerCluster = 2
    Capital <- MCCapital
    Volumes <- MCVolumes
    Paths <- MCPaths
INVARIANTS TypeOK OpensNamed FindsNamed
PROPERTY SearchEnds
