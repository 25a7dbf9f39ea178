SPECIFICATION Spec
CONSTANTS
  n1 = n1  n2 = n2  n3 = n3
  dongle = dongle  cable = cable
  a1 = a1  a2 = a2
  u1 = u1  u2 = u2  t1 = t1  t2 = t2  t3 = t3
  NoNode = NoNode  NoApp = NoApp
  Nil = Nil  Short = Short  Silent = Silent
  Nodes = {n1, n2}
  Endpoints = {dongle, cable}
  Apps = {a1, a2}
  Ids = {u1, t1, t2}
  EndpointOf <- MovedEndpointOf
  Stored <- MovedStored
  Wireless = {dongle}
  Pinged = {dongle}
  Local = {a1, a2}
  Asked <- AskRobot
  Named = {}
  MaxReplies = 1
  MaxRequests = 2
  MaxLag = 1
SYMMETRY Symmetry
INVARIANTS LocksAreOwned RegistryCoherent NoOrphanLock
PROPERTY ReleasedByOwner
CHECK_DEADLOCK FALSE
