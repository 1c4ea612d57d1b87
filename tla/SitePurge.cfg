SPECIFICATION Spec
CONSTANTS
  Conns = {c1, c2}
  Ids = {s1, s2}
  NoId = NoId
  Templates = {t1, t2}
  Articles = {"a"}
  NoDoc = NoDoc
  MaxVersion = 2
  Malformed <- MCMalformed
  MaxRequests = 2
PROPERTY PurgeSparesReaders
CHECK_DEADLOCK FALSE
