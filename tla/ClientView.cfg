SPECIFICATION ViewSpec
CONSTANTS
  n1 = n1  cable = cable  a1 = a1  a2 = a2  u1 = u1  t1 = t1
  NoNode = NoNode  NoApp = NoApp
  Nil = Nil  Short = Short  Silent = Silent
  Nodes = {n1}
  Endpoints = {cable}
  Apps = {a1, a2}
  Ids = {u1, t1}
  EndpointOf <- CableEndpointOf
  Stored <- CableStored
  Wireless = {}
  Pinged = {}
  Local = {a1}
  Asked <- AskUpgrade
  Named = {n1}
  MaxReplies = 1
  MaxRequests = 2
  MaxLag = 1
INVARIANTS QuiescentView UpgradeExcludesLock
CHECK_DEADLOCK FALSE
