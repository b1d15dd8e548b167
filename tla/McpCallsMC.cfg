CONSTANTS
  Scenes <- MCScenes
  TTL = 1
  MaxAsked = 2
  MaxEdits = 1
  Procs = {p1, p2}
  Denied = {}
  MaxTakes = 3
  MaxCrashes = 1
  Drafts <- MCDrafts
  ServerFlags <- MCServerFlags
  Scopes <- MCScopes
  NoRule = NoRule
SPECIFICATION MCSpec
INVARIANTS KeepsToPolicy NeverUnasked NoClientOutlivesClose MutualExclusion
PROPERTIES ImplementsAtomicEdits WaitIsBounded OpeningIsAsked
CHECK_DEADLOCK FALSE
