\* Accounts, transactions of the system program, snapshots, crashes.
SPECIFICATION Spec
CONSTANTS
    Keys <- MCKeys
    System = "system"
    Owners = {"system", "prog"}
    Spaces = {0, 1, 2}
    Lamports = 6
    CountWrap = 8
    NonceSize = 2
    Rent <- MCRent
    SeedAddress <- MCSeedAddress
    Txs <- MCTxs
    Sources <- MCSources
    BatchSize = 2
    MaxSlot = 2
    MaxFaults = 2
INVARIANTS
    TypeOK CountExact SlotMeansLoaded
PROPERTIES
    NativeLoadExact OnlyWritableChange DebitsAreAuthorized SupplyConserved
