CONSTANTS
  Kinds = {"inodelk", "entrylk"}
  Client = {c1, c2, c3}
  Owner = {o1}
  Thread = {t1, t2}
  InodeReq <- MCInodeReq
  EntryReq <- MCEntryReq
  AllNames = "all"
  MaxLock = 3
  MaxLeave = 1
SPECIFICATION Spec
SYMMETRY Sym
CHECK_DEADLOCK FALSE
INVARIANTS TypeOK NoConflict RefCounted AnsweredOnce BlockedForReason NoStaleLock
