CONSTANTS
  Names = {a, b}
  Urls = {x, y}
  Users = {v1}
  MaxChecks = 1
  None = None
SPECIFICATION LocalSpec
PROPERTIES RenameKeepsLocalOnly
