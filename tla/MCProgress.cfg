SPECIFICATION FairSpec
CONSTANTS
  r1 = r1
  r2 = r2
  w1 = w1
  w2 = w2
  Runs = {r1, r2}
  Workers = {w1}
  NoRun = NoRun
  NoWorker = NoWorker
  NoJob = NoJob
  Kind <- AllClassif
  Steps = 1
  MaxLeases = 1
  MaxVersion = 0
  MaxAttempts = 1
  Env = {"crash", "storage", "template", "db", "broker"}
INVARIANT RetryOfFailed
PROPERTIES AbandonedLeasesReclaimed WorkerComesBack
