SPECIFICATION Spec
CONSTANTS
  Peers = {p1, p2}
  Parent = sh
  NoPid = nopid
  Data = {d1, d2}
  Eof = eof
  NoRecord = norec
  Directions = {0, 1}
  MaxSent = 3
  MailboxSize = 2
  BufferedWrites = TRUE
  Kills = TRUE
  QioFails = TRUE
CHECK_DEADLOCK FALSE
SYMMETRY ChildSymmetry
INVARIANTS TypeOK OneRequestPerChain StatusTellsOutstanding NothingOutstandingAfterFree ChannelNumberNotReused
