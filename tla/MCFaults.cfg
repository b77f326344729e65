SPECIFICATION FairSpec
CONSTANTS
  r1 = r1
  r2 = r2
  w1 = w1
  w2 = w2
  Runs = {r1}
  Workers = {w1}
  NoRun = NoRun
  NoWorker = NoWorker
  NoJob = NoJob
  Kind <- AllSlow
  Steps = 1
  MaxLeases = 2
  MaxVersion = 6
  MaxAttempts = 1
  Env = {"edit", "admin", "delay", "crash", "db", "broker", "storage", "template"}
INVARIANTS TypeOK SucceededHasArtifact CopyIsHistory
PROPERTIES OutcomeUnderLease OutcomeIsFinal CancelHonouredAtCheckpoint
