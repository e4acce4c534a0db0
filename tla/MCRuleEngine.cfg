CONSTANTS
  l1 = l1
  l2 = l2
  Files = {1, 2}
  Drafts = {}
  Rules <- ManyRules
  Absent = Absent
  Broken = Broken
  Events <- MCEvents
  Loaders <- MCLoaders
  MaxEdits = 1

SPECIFICATION Spec

INVARIANTS
  IdsUnique
  WinnerIsBest
  EveryRuleRecorded
  StandingRulesKept
