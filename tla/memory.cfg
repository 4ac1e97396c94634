\* Two near hooks and a long one, on either platform.
SPECIFICATION Spec
CONSTANTS
  PageSize = 16
  Pages = 7
  Regions <- ProgramRegions
  Zeros <- CodeZeros
  Hooks <- ThreeHooks
  InvokeSize <- InvokeWords
  BranchRange = 20
  ImmBits = 6
  Backends = {"linux", "darwin"}
  StoreAddresses <- DataStores
  NULL = NULL
INVARIANTS
  TypeOK
  TrampolinesIntact
  ProgramIntact
  CodeExecutable
  CavesInReach
