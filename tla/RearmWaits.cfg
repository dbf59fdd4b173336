SPECIFICATION FairSpec
CONSTANTS
  Clients = {"c1", "c2"}
  Tasks = {"r1", "r2", "r3"}
  Requests = {"send", "reserve", "run"}
  Agents = {"llm"}
  Capacity = 1
  MaxCalls <- MCMaxCalls
  MaxRounds = 2
PROPERTIES
  ParkedRunStarts
CHECK_DEADLOCK FALSE
