\* Turns of two agents, a background summary and two requests, of which one may be forgotten.
CONSTANTS
  r1 = r1
  r2 = r2
  a1 = a1
  a2 = a2
  NoCall = NoCall
  NoRequest = NoRequest
  Requests = {r1, r2}
  Agents = {a1, a2}
  CliAgents = {a2}
  Summarisers = {a1}
  Calls <- MCCalls
  Units = {}
  Figures = {}
  LimitSettings <- MCSettings
  MaxTracked = 1
  MaxCounted = 2
  MaxSettled = 0
SPECIFICATION LSpec
INVARIANT SummaryHeldAtLimit
CHECK_DEADLOCK FALSE
