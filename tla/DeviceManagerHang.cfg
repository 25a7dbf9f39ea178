SPECIFICATION Spec
CONSTANTS
  n1 = n1  n2 = n2  n3 = n3
  dongle = dongle  cable = cable
  a1 = a1  a2 = a2
  u1 = u1  u2 = u2  t1 = t1  t2 = t2  t3 = t3
  NoNode = NoNode  NoApp = NoApp
  Nil = Nil  Short = Short  Silent = Silent
  Nodes = {n1, n2, n3}
  Endpoints = {cable, dongle}
  Apps = {a1}
  Ids = {u1, u2, t1, t2, t3}
  EndpointOf <- PairEndpointOf
  Stored <- PairStored
  Wireless = {dongle}
  Pinged = {dongle}
  Local = {a1}
  Asked <- OnlyHandshake
  Named = {}
  MaxReplies = 1
  MaxRequests = 0
  MaxLag = 0
INVARIANTS NeverHangs
CHECK_DEADLOCK FALSE
