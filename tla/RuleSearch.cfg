SPECIFICATION FairSpec
CONSTANTS
  p = p
  q = q
  goal = goal
  Pred = {p, q, goal}
  RuleLists <- AllLists
  Own = 1
  Goals = {goal}
INVARIANTS
  Sound
  ChainsExhaustive
PROPERTY
  Returns
\* The search ends with its answer.
CHECK_DEADLOCK FALSE
