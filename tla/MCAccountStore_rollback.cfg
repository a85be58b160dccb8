SPECIFICATION Spec
CONSTANTS
  None = None
  p = p
  k = k
  a = a
  b = b
  Plus = {p, k}
  KeyLogins = {k}
  Apis = {a, b}
  MaxToken = 1
  Faults = {"write", "landed", "keyring"}
  Interleave = {}
  Windows = FALSE
SYMMETRY Symmetry
INVARIANT TypeOK
INVARIANT ActiveConnectionInstalled
INVARIANT RouteFollowsConfig
INVARIANT BaselineIsPlusConfig
INVARIANT KeyOnlyWhileActive
INVARIANT SelectedCatalogExists
PROPERTY FailedSwitchRestores
PROPERTY SwitchInstallsOneConnection
PROPERTY SavedProvidersStayDefined
PROPERTY ImplementsDirectory
