CONSTANTS
  Requests = {r1, r2}
  Streams = {s1, s2}
  UnknownId = UnknownId
  MalformedId = MalformedId
  MaxConns = 2
  MaxFaults = 1
  MaxSubmits = 2
  Playback = Playback
  NoRequest = NoRequest
  Orphan = Orphan
  Nothing = Nothing
SPECIFICATION Spec
SYMMETRY SlotSymmetry
INVARIANTS TypeOK AnswerTrue NothingHeld SpansTrue NoStandstill SelectionShown EditsSelected RefetchSeesUpdate
PROPERTY ImplementsRegister
