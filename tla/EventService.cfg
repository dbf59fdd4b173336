SPECIFICATION FairSpec
CONSTANTS
  Clients = {"c1", "c2"}
  Tasks = {"r1", "r2", "r3"}
  Requests = {"send", "reserve", "run", "pause", "interrupt", "goal", "resume", "stopgoal", "close"}
  Agents = {"llm", "acp"}
  Capacity = 2
  MaxCalls <- MCMaxCalls
  MaxRounds = 2
INVARIANTS
  SlotsSound
  OneRun
  GoalKeepsPermit
  InputPickedUp
  RestHoldsNothing
  GoalStatusTrue
PROPERTY
  Settles
CHECK_DEADLOCK FALSE
