SPECIFICATION Spec
CONSTANTS
    Contents <- MCContents
    Keys <- MCKeys
    Lengths <- MCLengths
INVARIANTS TypeOK FirstValue AllValues
PROPERTY CallEnds
