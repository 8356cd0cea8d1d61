\* One sender, one message of the queue at a time.
CONSTANTS
  p1 = p1 p2 = p2 c1 = c1 c2 = c2
  None = None
  N = 2
  Senders = {p1}
  Channels = {c1}
  ChannelOf <- Alone
  BatchLimit = 1
  TickBudget = 1
  SendTimeout = 1
  ResultTimeout = 0
  SendClaim = 2
  MaxAttempts = 2
  Backoff <- ShortWaits
  Holds = {"deleted", "above"}
SPECIFICATION FairSpec
PROPERTIES Settles
