SPECIFICATION FairSpec
CONSTANTS
  Admins = {a1, a2}
  MaxVersion = 3
  Bindings <- MCBindings
  Tokens = {t1}
  AllowSecondary = FALSE
  Certs = {c1, c2}
  NoCert = NoCert
  Conns <- MCConns
  Checks = {k1}
  MaxRows = 2
  MaxEvents = 3
  Callers = {r1, r2}
  Window = 4
  PerWindow = 2
  Lag = 1
  Burst = 2
  Penalty = 2
  MaxTime = 5
INVARIANTS ActiveSecretIsServed  
PROPERTIES CheckEnds
CHECK_DEADLOCK FALSE
