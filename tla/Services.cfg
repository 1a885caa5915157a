SPECIFICATION ServicesSpec
CONSTANTS
  Directories <- MCDirectories
  NotAssets = {"m", "m2"}
  BuiltInNames <- MCBuiltInNames
  MovedNames <- MCMovedNames
  MaxPageEntries = 3
  FileSize = 5
  BlockSize = 2
  Unknown = Unknown
  BufferSize = 2
  GetSize = 2
  MaxBytes = 4
  Sources = {"p", "q"}
  SlotCount = 1
  SequenceCount = 4
  FramesOf <- MCFramesOf
  MaxBurst = 2
  Addresses = {1, 2}
  FrameCount = 3
  BurstFrames = 2
  MaxQueued = 2
  HeadSize = 2
  BodyOf <- MCBodyOf
  MaxWrite = 3
  ResponseSize = 3
  MaxFragment = 2
  MaxPending = 2
  MaxConnection = 2
  Probes = {"sensors"}
  ClockWrap = 16
  BootDeadline = 3
  ConfirmDelay = 2
  WatchdogTimeout = 4
  TickInterval = 1
  MaxLate = 3
  Images = {"ours", "theirs", "bare"}
  Size <- MCSize
  Verdict <- MCVerdict
  HeaderSize = 2
  TlvStart = 3
  TlvSize = 2
  MaxChunk = 5
  Channels <- MCChannels
  Capacity = 2
  Subscribers = {"x"}
  ChannelOf <- MCChannelOf
  MaxPublished = 3
  Handlers = {"com", "smp", "isr", "raw"}
  FilterOf <- MCFilterOf
  Rates <- MCRates
  BusRate = 250
  MaxMaskFilters = 1
  FrameQueueSize = 2
  Routes = 2
  QueueCapacity = 2
  MaxInputs = 4
  Periods <- MCPeriods
  MaxUptime = 6
  Modes <- MCModes
  Debounce <- MCDebounce
  SensorLists <- MCSensorLists
  MaxSensors = 3
  HashOf <- MCHashOf
  MaxNans = 1
  Spellings <- MCSpellings
  Inside = {"a", "A", "./a", "a.", "b", "c"}
  Plain = {"a", "A", "./a", "b", "c"}
  FoldedOf <- MCFoldedOf
  EntryOf <- MCEntryOf
  MaxFiles = 3
INVARIANTS
  SmpPacketsWhole
  EventBusSafe
  
PROPERTIES
  AssetFilesSafe
  ImagesSafe
  
  UnhealthyImageEnds
  EventsAreDrained
