SPECIFICATION FairSpec
CONSTANTS
  Threads = {t1, t2, t3}
  Ids = {r1}
  Texts = {a}
  Unencodable = {}
  Payloads = {p, q}
  Opaque = {q}
  Torn = Torn
  NoId = NoId
  NoThread = NoThread
  NoCall = NoCall
  MaxSeq = 1
  MaxFaults = 1
  MaxCalls = 3
PROPERTIES
  EveryCallReturns
