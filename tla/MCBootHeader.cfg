SPECIFICATION Spec
CONSTANTS
    WordSize = 16777216
    Machines <- MCMachines
    Disks <- MCDisks
    Headers <- MCHeaders
    Files <- MCFiles
    RequestLists <- MCRequestLists
    MaxModules <- MCMaxModules
INVARIANT
    LoadedInUsableMemory
