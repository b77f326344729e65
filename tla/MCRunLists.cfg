SPECIFICATION Spec
CONSTANTS
  Runs = {1, 2, 3, 4}
  Created <- MCCreated
  Metrics <- MCMetrics
  PageSize = 2
  MaxCompared = 3
INVARIANTS ListsTypeOK CalmWalkIsExact EnteringHidesNothing BestIsFirstMaximum
