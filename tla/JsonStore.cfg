SPECIFICATION FairSpec
CONSTANTS
  Loop = Loop
  Flusher = Flusher
  Threads = {t1}
  Remover = Remover
  Nobody = Nobody
  MaxChanges = 2
  MaxCrashes = 1
INVARIANTS TypeOK CommittedIsOnDisk NeverResurrected
PROPERTIES DiskMovesForward PendingEnds
