\* Is a slot passed whose block the endpoints call unavailable?
SPECIFICATION Spec
CONSTANTS
    None = None
    Failed = Failed
    Garbled = Garbled
    Zero = Zero
    VoteProgram = VoteProgram
    Good = Good
    Dead = Dead
    N1 = N1
    N2 = N2
    SigA = SigA
    SigB = SigB
    Payer = Payer
    Friend = Friend
    HashA = HashA
    HashB = HashB
    Ids = {N1, N2}
    Infos <- MCInfos
    ClusterViews <- MCViews
    Shred = 0
    MaxNodes = 1
    MaxMessages = 3
    Down <- MCDown
    References <- MCReferences
    Threshold = 0
    FirstTip = 2
    MaxSlot = 3
    WrongSlots = {1, 3}
    MaxFaults = 1
    FromSlots = {None, 1}
    ChanSize = 1
    BlockAt <- MCBlockAt
    BadAnswers <- MCBadAnswers
    SkipReplies = {"unavailable"}
PROPERTY EverySlotFetched
