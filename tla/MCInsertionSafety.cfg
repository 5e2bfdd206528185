SPECIFICATION Spec
CONSTANTS
  Threads = {t1, t2}
  Ids = {r1, r2}
  Texts = {a, b}
  Unencodable = {b}
  Payloads = {p, q}
  Opaque = {q}
  Torn = Torn
  NoId = NoId
  NoThread = NoThread
  NoCall = NoCall
  MaxSeq = 3
  MaxFaults = 2
  MaxCalls = 3
SYMMETRY Interchangeable
INVARIANTS
  TypeOK
  UserDataSafe
  NoUndoAfterSend
  OutcomeTellsRetention
  DeliversRetainedText
  EncodableIsRestorable
PROPERTIES
  PasteFindsOwnText
  SendSeesSafeTarget
  OneShotSpec
