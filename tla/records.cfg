\* Two purges over two packets, of one tenant or two.
CONSTANTS
  Packets = {k1, k2}
  Purges = {p1, p2}
  Tenants = {t1, t2}
  NoTenant = NoTenant
  Retention <- MCRetention
  MaxDay = 2
SPECIFICATION FairSpec
INVARIANTS TypeOK LossesAreCounted AllowsGoFirst SomePurgeCanGoOn
PROPERTIES KeptItsTerm EveryPurgeEnds ImplementsLedger
CHECK_DEADLOCK FALSE
