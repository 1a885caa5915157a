SPECIFICATION ControlSpec
CHECK_DEADLOCK FALSE
CONSTANTS
  Triggers = {"s1"}
  Target <- MCTarget
  TriggerEvents = 3
  Writers = {"a", "b"}
  Reader = "r"
  Length = 2
  SessionTimeout = 1
  Local = "local"
  Configurations = {"c1", "c2"}
  Default = "default"
  NoFile = "none"
  Torn = "torn"
  Layouts <- MCLayouts
  RawSensors = {"r"}
  Throwing = {"b"}
  MaxCount = 2
  ChannelSize = 3
  RawQueueSize = 2
  MaxCommits = 2
  MaxRawCommits = 3
  MaxSubscriptions = 2
  MaxCentrals = 2
  AdcChannels = {"x", "y"}
  LiveCapacities = {1, 2}
  MaxListed = 2
  SequenceSize = 4
  LiveBuffers = 2
  LiveCentrals = 3
  ValueSensors = {"v", "n"}
  OnlyNew = {"n"}
  CanSensors = {"c"}
  PayloadSizes = {0, 8}
  OffsetSpan = 16
  LastInstant = 2
  MaxRecords = 4
  LogCount = 5
  MaxEntries = 1
  MaxFileLines = 4
  KindsOf <- MCKindsOf
  SensorLists <- MCSensorLists
  Rooms = {0, 1, 3, 8, 17, 30}
  MaxOneByteId = 3
  TextSize = 8
PROPERTIES
  KeepsStored
