\* Each service on its own: three saves of captures, four lines of the log, keys held for four
\* samples, two notes, three changes of a setting, four reader commands, a queue of
\* two, two events between two frames; and the codecs over their bounded inputs.
SPECIFICATION Spec
CONSTANTS
    Services = {"captures", "log", "input", "buzzer", "settings", "pn532", "ir", "irapp", "screens", "codecs"}
    NameLimit = 4
    Parts = 2
    MaxSaves = 3
    MaxMounts = 3
    LogFiles = 3
    LogLimit = 4
    RingBytes = 5
    ChunkBytes = 3
    LineSizes = {1, 3}
    MaxLines = 4
    Debounce = 2
    LongPress = 3
    Timings <- MCTimings
    Hands <- MCHands
    Gaps = {1, 3}
    MaxHold = 4
    RepeatCap = 2
    NoteTicks = {5, 6}
    MaxNotes = 2
    MaxDelay = 3
    SettingKeys <- MCKeys
    SettingMax <- MCMax
    SettingDef <- MCMax
    MaxSets = 3
    Script <- MCScript
    Retries = 2
    Resends = 2
    IrQueueLen = 2
    CaptureSlots = 2
    IrSignals <- MCSignals
    IrRepeats = {0, 4}
    MinInterval = 1
    SavedSignals = {s1}
    Captured = c
    NoWork = none
    LauncherRows = 5
    Headers = {0, 2}
    AppRows = 1
    CapSets <- MCCapSets
    CardStates = {"absent", "mounted", "removed"}
    VisibleRows = 3
    DamageMax = 2
    MaxEvents = 2
    MaxFails = 1
    MaxKeys = 2
INVARIANT CardIsSound
PROPERTY CapturesKept
INVARIANT LogIsSound
INVARIANT KeysTellTheirStory
INVARIANT EveryNoteEnds
INVARIANT SettingsKept
INVARIANT AnswersAreCurrent
INVARIANT NeverDeaf
PROPERTY TransmitAnswered
PROPERTY BrowseBusyEnds
INVARIANT ScreenIsCurrent
INVARIANT IrCodecsInvert
INVARIANT NfcCodecsInvert
\* A service may come to rest, and the bounds end behaviours.
CHECK_DEADLOCK FALSE
