SPECIFICATION Spec
CONSTANTS
  Threads = {t1}
  Ids = {r1}
  Texts = {a}
  Unencodable = {a}
  Payloads = {p}
  Opaque = {}
  Torn = Torn
  NoId = NoId
  NoThread = NoThread
  NoCall = NoCall
  MaxSeq = 2
  MaxFaults = 0
  MaxCalls = 3
INVARIANT
  RetainedIsRestorable
