CONSTANTS
  d1 = d1
  d2 = d2
  d3 = d3
  near = near
  far = far
  s1 = s1
  s2 = s2
  p1 = p1
  p2 = p2
  p3 = p3
  here = here
  there = there
  Daemons = {d1}
  Desktops = {near}
  Sockets = {s1}
  Pids = {p1, p2}
  Hosts = {here, there}
  Here = here
  HostOf <- MCHostOf
  MaxOpens = 2
SPECIFICATION Spec
CHECK_DEADLOCK FALSE
INVARIANTS
  LiveLockKept
