\* One job or request of each service, and one failure in each.
CONSTANTS
  j1 = j1
  r1 = r1
  q1 = q1
  f1 = f1
  w1 = w1
  a1 = a1
  i1 = i1
  m1 = m1
  u1 = u1
  x1 = x1
  none = none
SPECIFICATION Spec
\* The parts end: bounds on faults, attempts and searches are reached.
CHECK_DEADLOCK FALSE
PROPERTIES
  DeliveryEnds
  ServicesEnd
  OutboxesDrain
