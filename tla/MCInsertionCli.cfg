SPECIFICATION CliFairSpec
CONSTANTS
  Threads = {main}
  Ids = {r1}
  Texts = {a}
  Unencodable = {}
  Payloads = {p, q}
  Opaque = {q}
  Torn = Torn
  NoId = NoId
  NoThread = NoThread
  NoCall = NoCall
  MaxSeq = 2
  MaxFaults = 2
  MaxCalls = 5
  Main = main
  RequestId = r1
  SYNTHETIC_PAYLOAD = a
INVARIANTS
  CliTypeOK
  EndsWithUserContent
  LeavesNothingBehind
  StatusTellsInput
PROPERTIES
  ProgramEnds
CHECK_DEADLOCK FALSE
