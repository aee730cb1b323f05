SPECIFICATION Spec
CONSTANTS
  TvrSize = 4
  TvnSize = 2
  Levels = 3
  Infos = {i1}
  Timers = {t1}
  NoData = NoData
  NoInfo = NoInfo
  RunTime = 1
  MaxLag = 2
  Elapses = {0, 3, 4, 8, 15}
  MaxCount = 1
INVARIANTS TypeOK OnTime
PROPERTIES TimersCome
