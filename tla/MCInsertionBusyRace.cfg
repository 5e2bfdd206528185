SPECIFICATION Spec
CONSTANTS
  Threads = {t1, t2}
  Ids = {r1}
  Texts = {a}
  Unencodable = {}
  Payloads = {p}
  Opaque = {}
  Torn = Torn
  NoId = NoId
  NoThread = NoThread
  NoCall = NoCall
  MaxSeq = 1
  MaxFaults = 0
  MaxCalls = 2
INVARIANT
  AlreadyDeliveredWasBegun
