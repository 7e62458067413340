\* The remote alone, with two saved signals and room for three events.
SPECIFICATION Spec
CONSTANTS
    Services = {"irapp"}
    NameLimit = 4
    Parts = 2
    MaxSaves = 3
    MaxMounts = 3
    LogFiles = 3
    LogLimit = 4
    RingBytes = 5
    ChunkBytes = 3
    LineSizes = {1, 3}
    MaxLines = 4
    Debounce = 2
    LongPress = 3
    Timings <- MCTimings
    Hands <- MCHands
    Gaps = {1, 3}
    MaxHold = 4
    RepeatCap = 2
    NoteTicks = {5, 6}
    MaxNotes = 2
    MaxDelay = 3
    SettingKeys <- MCKeys
    SettingMax <- MCMax
    SettingDef <- MCMax
    MaxSets = 3
    Script <- MCScript
    Retries = 2
    Resends = 2
    IrQueueLen = 2
    CaptureSlots = 2
    IrSignals <- MCSignals
    IrRepeats = {0, 4}
    MinInterval = 1
    SavedSignals = {s1, s2}
    Captured = c
    NoWork = none
    LauncherRows = 5
    Headers = {0, 2}
    AppRows = 1
    CapSets <- MCCapSets
    CardStates = {"absent", "mounted", "removed"}
    VisibleRows = 3
    DamageMax = 2
    MaxEvents = 2
    MaxFails = 1
    MaxKeys = 3
PROPERTY SentIsConfirmed
CHECK_DEADLOCK FALSE
