CONSTANTS
  Files = {f1}
  MaxPerMessage = 1
  MaxRows = 4
  MaxTurns = 2
  MaxTries = 1
  Callers = {u1}
  c1 = c1
  c2 = c2
  h1 = h1
  h2 = h2
  SiteNames = {n1, n2}
  Urls <- MCUrls
  Adds <- MCAdds
  Does <- MCDoes
  NoSite = NoSite
  NoName = NoName
  Rule = Rule
SPECIFICATION MCSpec
INVARIANTS RequestIsAccepted ShownIsThere
PROPERTIES SitesAreKept
CHECK_DEADLOCK FALSE
