CONSTANTS
    ByteBits = 3
    Size <- MCSize
    StackFrameSize = 8
    StackGap = 8
    StackDepth = 2
    NoName = NoName
    CuLimit = 40
    CuBase = 3
    CuPda = 10
    CuCpi = 10
    MaxLogMsgLen = 6
    MaxReturnData = 4
    MaxMemOpSize = 16
    MaxSlices = 2
    MaxSeeds = 3
    MaxSeedLen = 4
    MaxBump = 3
    MaxCPIAccountInfos = 2
    MaxCPIInstructionSize = 8
    HeapMax = 20
    KeySize = 4
    Digest <- MCDigest
    OnCurve = {3}
    Elfs <- MCElfs
    Upgrades <- MCUpgrades
    Inputs <- MCInputs
    ProgramKey <- MCKey
    ComputeLimit = 24
    HeapDefault = 8
    InsSize = 8
    MinELFSize = 1
    MaxELFSize = 10
    MaxSections = 5
    MaxSymbols = 2
    MaxRelocations = 4
    MaxInstructions = 20
    MaxInstructionDataSize = 1
    NoProgram = NoProgram
    Reused <- MCReused
    MaxRuns = 2
SPECIFICATION Spec
INVARIANTS TypeOK AllocsSound
PROPERTIES CallsReturn InputIsKept Halts
CHECK_DEADLOCK FALSE
