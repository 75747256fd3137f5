SPECIFICATION Spec
CONSTANTS
    WordSize = 67108864
    Disks <- MCDisks
    Bpbs <- MCBpbs
    Ebpbs <- MCEbpbs
INVARIANTS TypeOK MountsFormatted SafeToUse TablesFit
