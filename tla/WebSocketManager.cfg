SPECIFICATION FairSpec
CONSTANTS
  s1 = s1
  s2 = s2
  s3 = s3
  NoUser = NoUser
  NoSocket = NoSocket
  Sockets = {s1, s2, s3}
  Accounts = {{s1, s2}}
  MaxConnections = 2
INVARIANTS TypeOK WithinLimit UsersMatch LoopsWatch
PROPERTIES ConnectsEnd DeadAreForgotten
CHECK_DEADLOCK FALSE
