SPECIFICATION TalkingSpec
CONSTANTS
  MaxConn = 2
  MaxProbe = 2
  Servers = 2
  Reachable = {0, 1}
INVARIANTS
  TypeOK
  SessionIsCurrent
  ProbeIsExpected
  MailsAreEarned
PROPERTIES
  SessionSpec
  OfflineDropsLink
CHECK_DEADLOCK FALSE
