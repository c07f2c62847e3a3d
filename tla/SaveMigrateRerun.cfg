\* A second run of the service over a mounted route.
CONSTANTS
  Route = {bind}
  Bound = {bind}
  Path = {d, x}
  Above <- DirOnly
  Content = {c1}
  MaxFaults = 0
  MaxReruns = 1
  d = d
  x = x
  c1 = c1
  bind = bind
SPECIFICATION Spec
PROPERTIES
  SafeToRerun
