SPECIFICATION StoreFairSpec
CONSTANTS
  Procs = {server, console}
  Server = server
  Updates = {u1, u2, u3}
  None = None
PROPERTIES ImplementsAtomicStore LeavesWithVisibleSnapshot MemoryCatchesUp
