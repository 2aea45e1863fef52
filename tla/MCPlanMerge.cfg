SPECIFICATION FairSpec
CONSTANTS
  r0 = r0  r1 = r1  r2 = r2  r3 = r3  r4 = r4
  Reactions = {r0, r1, r2, r3, r4}
  Plans <- MCPlans
  MinLevels = {0, 1, 2, 3, 4}
INVARIANTS TypeOK StaysAscending HintValid MergeComplete NoLevelSkipped
PROPERTY MergeEnds
