SPECIFICATION Spec
CONSTANTS
    WordSize = 128
    G = 3
    Machines <- MCMachines
    Texts <- MCTexts
    Operands <- MCOperands
INVARIANTS TypeOK MathRight InFramebuffer FontInBounds
PROPERTIES IsTerminal PutsEnds
