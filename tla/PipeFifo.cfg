SPECIFICATION FairSpec
CONSTANTS
  Peers = {p1}
  Parent = sh
  NoPid = nopid
  Data = {d1, d2}
  Eof = eof
  NoRecord = norec
  Directions = {0, 1}
  MaxSent = 3
  MailboxSize = 2
  BufferedWrites = FALSE
  Kills = TRUE
  QioFails = FALSE
CHECK_DEADLOCK FALSE
PROPERTIES ImplementsFifo EventualDelivery
