CONSTANTS
  Names = {n1, n2}
  Host = host
  Endpoints = {e1, e2}
  FlushFirst = {e1, e2}
  Jobs = {1, 2, 3}
  NoJob = 0
SYMMETRY Symmetry
SPECIFICATION Spec
INVARIANT CallbackIdsLive
PROPERTY RegistryUsedWell
