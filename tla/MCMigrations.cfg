SPECIFICATION Spec
CONSTANTS
  theJob = theJob
  operator = operator
  Migrators = {theJob, operator}
INVARIANTS MigrationTypeOK SchemaMatchesVersion HeadServesModels
PROPERTY RefusedOnlyForOrphans
