SPECIFICATION Spec
CONSTANTS
  TvrSize = 2
  TvnSize = 2
  Levels = 2
  Infos = {i1, i2, i3}
  Timers = {t1, t2}
  NoData = NoData
  NoInfo = NoInfo
  RunTime = 1
  MaxLag = 1
  Elapses = {1, 3}
  MaxCount = 1
INVARIANTS OwnersKnow
