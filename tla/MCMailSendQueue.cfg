\* Two processes send the queue of one account.
CONSTANTS
  p1 = p1 p2 = p2 c1 = c1 c2 = c2
  None = None
  N = 2
  Senders = {p1, p2}
  Channels = {c1}
  ChannelOf <- OneChannel
  BatchLimit = 2
  TickBudget = 1
  SendTimeout = 1
  ResultTimeout = 1
  SendClaim = 3
  MaxAttempts = 2
  Backoff <- ShortWaits
  Holds = {"deleted"}
SYMMETRY Symmetry
SPECIFICATION Spec
INVARIANTS TypeOK OneSender SentOnce TriesBounded
PROPERTIES ResultStays SendsAsOne
