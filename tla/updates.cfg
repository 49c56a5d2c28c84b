\* One instance, four seconds, a first query one second back; two restarts.
CONSTANTS
  Workers = {w1}
  Window = 1
  MaxUpdaters = 2
  MaxClock = 4
  MaxRestarts = 2
SPECIFICATION FairSpec
INVARIANT TypeOK
INVARIANT UpdatesAccountedFor
PROPERTY UpdatesOrdered
