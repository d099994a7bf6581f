CONSTANTS
  Names = {n1, n2, n3}
  Holders = {h1, h2}
  Callbacks = {c1}
SYMMETRY Symmetry
SPECIFICATION Spec
INVARIANTS
  NamesUnique
  IdDenotesName
  RefCounted
  SubscribersHold
PROPERTY BusSpec
CHECK_DEADLOCK TRUE
