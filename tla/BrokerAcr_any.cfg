CONSTANTS
  Acrs <- AllAcrs
  LoaMap <- NamedLevels
  Numeric <- Numbers
  Clients <- AllClients
  Enforces = {TRUE, FALSE}
SPECIFICATION Spec
CHECK_DEADLOCK FALSE
INVARIANT LoginAsAsked
INVARIANT HonestLoginGranted
INVARIANT ForwardNeverLowers
