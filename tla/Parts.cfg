SPECIFICATION PartsSpec
CONSTANTS
  Builds = {b1, b2}
  None = None
  Torn = Torn
  Rot = Rot
  N = 2
  K = 2
  Sample = {2}
  Edits = FALSE
  MaxBoots = 4
  MaxRot = 1
  Block = {"b1", "b2", "b3", "b4"}
  First <- MCFirst
  FakeHead = FakeHead
  FakeTail = FakeTail
  Null = Null
  Layers = 5
  Drafts = {0, 1}
  Memories = {20, 60}
  Overrides = {0, 9}
  MaxLen = 6
  MlaPage = 3
  IdxPage = 1
  DraftPage = 1
  AttnPages <- MCAttn
  DraftPages <- MCDraft
  MambaPages = 1
  Tools = {"Write"}
  Props <- MCProps
  Required <- MCRequired
  Invented = "Invented"
  Garbage = "Garbage"
  NoName = ""
  HasTools = {TRUE, FALSE}
  HAREM_GLM47_REQUIRED = TRUE
  MaxItems = 3
  GroupSets <- MCGroups
  Units = {0, 1, 2}
  Plain <- MCPlain
  MaxPrompt = 5
  MaxTokens = 9
  MaxStep = 3
  MaxInputs = 2
  KeptTensors = {kept1, kept2}
  Fused = {qkv}
  Dead = {vision}
  Stray = stray
  ShardFiles = {s1, s2}
  PerFile = 2
  MaxBuilds = 3
  NoDir = NoDir
  MESH_MAX_NICS = 4
  MaxAddrs = 2
  Caps = {0, 2}
  MaxChannels = 6
  Bufs = {"host", "device", "managed"}
  KindOf <- MCKindOf
  NoHandle = NoHandle
  MaxRecvs = 2
INVARIANTS
  IInv
  SidecarWhole
  NoDrift
  QueueInv
  PlanSound
  FitIsLongest
  PrefixHashed
  SoundCallsOnly
  NothingLost
  ContentOrder
  BootsWhole
  LinksSpread
  FlushedReads
PROPERTIES
  LoaderSpec
  NoFalseRefusal
  DumpLeavesSidecar
  QueueIsALine
  NeverOverwritten
CHECK_DEADLOCK FALSE
