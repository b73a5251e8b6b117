SPECIFICATION Spec
CONSTANTS
  p = p  q = q
  a = a  b = b
  r = r  t = t
  Process = {p, q}
  Modes = {"build", "update", "offline", "editor"}
  Source = {a, b}
  Repo = {r, t}
  RepoOf <- MCRepo
  Revision <- MCRevision
  Root <- MCRoot
  Deps <- MCDeps
  MaxCommit = 2
  MaxCrashes = 1
  Locks <- MCLocks
  NoLock = NoLock
  Torn = Torn
INVARIANTS
  ClosureWhole
  LockUsable
  OnlyLocksFail
PROPERTIES
  EveryFetchEnds
CHECK_DEADLOCK FALSE
