SPECIFICATION Spec
CONSTANTS
  Hosts = {h1}
  PauseTime = 3
  Delay = 1
  MaxWait = 2
  SpLimit = 3
  Hdrm = 4
  AlphaInverse = 1
  AlphaEgress = 1
INVARIANT ResumeFindsPaused
