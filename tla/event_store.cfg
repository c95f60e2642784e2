SPECIFICATION StoreSpec
CONSTANTS
    p1 = p1
    p2 = p2
    record = record
    claim = claim
    old = old
    grown = grown
    line1 = line1
    line2 = line2
    v1 = v1
    v2 = v2
    secret = secret
    leaky = leaky
    twice = twice
    StoreProcesses <- MCProcesses
    Records <- MCRecords
    Claims <- MCClaims
    Values <- MCValues
    Secrets <- MCSecrets
    Files <- MCFiles
    Lines <- MCLines
    MaxEvents = 5
SYMMETRY Symmetry
INVARIANTS
    HistoryHasOneLine
    ReadsAreCommitted
    ImportIsWhole
