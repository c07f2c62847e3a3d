\* From power on to the frontend: a mounted route and one by setting, a fault and a second run of
\* the migration; and, under fairness, whether the box comes up.
CONSTANTS
  Route = {bind, setting}
  Bound = {bind}
  Path = {d, x}
  Above <- DirOnly
  Content = {c1, c2}
  MaxFaults = 1
  MaxReruns = 1
  d = d
  x = x
  c1 = c1
  c2 = c2
  bind = bind
  setting = setting
SPECIFICATION FairBootSpec
INVARIANTS
  RootIsFresh
  NeverStuck
  NothingHidden
PROPERTIES
  NoSaveLost
  RetrySafe
  ComesUp
