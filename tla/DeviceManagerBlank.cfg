SPECIFICATION Spec
CONSTANTS
  n1 = n1  n2 = n2  n3 = n3
  dongle = dongle  cable = cable
  a1 = a1  a2 = a2
  u1 = u1  u2 = u2  t1 = t1  t2 = t2  t3 = t3
  NoNode = NoNode  NoApp = NoApp
  Nil = Nil  Short = Short  Silent = Silent
  Nodes = {n1}
  Endpoints = {cable}
  Apps = {a1, a2}
  Ids = {t1, t2, t3}
  EndpointOf <- CableEndpointOf
  Stored <- BlankStored
  Wireless = {}
  Pinged = {}
  Local = {a1, a2}
  Asked <- AskBlank
  Named = {}
  MaxReplies = 2
  MaxRequests = 3
  MaxLag = 1
SYMMETRY BlankSymmetry
PROPERTY LocksSpec
CHECK_DEADLOCK FALSE
