\* The gate alone, every caller and every order of calls.
CONSTANTS
  r1 = r1
  a1 = a1
  a2 = a2
  u1 = u1
  Requests = {r1}
  Agents = {a1, a2}
  Calls <- MCCalls
  Units = {u1}
  Figures = {1}
  LimitSettings <- MCSettings
  MaxTracked = 2
  MaxCounted = 2
  MaxSettled = 1
SPECIFICATION FairSpec
INVARIANTS
  TypeOK
  HeldBehindDecision
  AllowanceRespected
  CrossingPerAllowance
PROPERTIES
  TrancheAnswersItsDecision
  StoppedIsFinal
  NoOvertaking
  HeldIsAnswered
CHECK_DEADLOCK FALSE
