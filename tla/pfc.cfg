SPECIFICATION FairSpec
CONSTANTS
  Hosts = {h1, h2}
  PauseTime = 3
  Delay = 1
  MaxWait = 0
  SpLimit = 3
  Hdrm = 4
  AlphaInverse = 1
  AlphaEgress = 1
INVARIANTS TypeOK HeadroomCharged EgressSplit PauseCovers
PROPERTY PauseEnds
