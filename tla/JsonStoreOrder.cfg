SPECIFICATION Spec
CONSTANTS
  Loop = Loop
  Flusher = Flusher
  Threads = {t1, t2}
  Remover = Remover
  Nobody = Nobody
  MaxChanges = 2
  MaxCrashes = 0
PROPERTY OlderNeverOverwrites
