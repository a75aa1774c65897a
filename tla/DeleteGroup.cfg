SPECIFICATION LiveSpec
CONSTANTS
  Worker = {w1}
  GroupId <- SameId
  UserId <- SameId
  Given <- Command
  NullMatches = TRUE
  DefaultAllow = FALSE
  MaxRows = 3
  None = None
PROPERTY GroupCommandsKeepUsers
