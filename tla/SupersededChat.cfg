SPECIFICATION Spec
CONSTANTS
  c1 = c1
  c2 = c2
  c3 = c3
  NoStream = NoStream
  Chats = {c1, c2, c3}
  Streamed = {c1, c2}
  Length <- MCLength
  HistoryLimit = 1
  HistoryKeep = 1
INVARIANTS SilentOnlyIfCancelled
CHECK_DEADLOCK FALSE
