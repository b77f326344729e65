SPECIFICATION FairSpec
CONSTANTS
  d1 = d1
  d2 = d2
  Messages = {1, 2, 3}
  Created <- MCCreated
  Poison = {1}
  Dispatchers = {d1, d2}
  Limit = 2
  MaxAttempts = 2
  MaxAborts = 1
INVARIANTS OutboxTypeOK PublishedWasSent DuplicatesExplained
PROPERTIES FailureCostsOneAttempt MessagesSettle
