--------------------------- MODULE MCLimitedTurns ---------------------------
(***************************************************************************)
(* The small instance of LimitedTurns that TLC checks: a gateway agent a1  *)
(* with background summaries and a CLI agent a2, which share the limit of  *)
(* r1.  r2 is the request that begins after it, or before: with MaxTracked *)
(* 1 the gate then forgets the other one if it can, and r2, once limited,  *)
(* gets no further than its start.                                         *)
(***************************************************************************)
EXTENDS LimitedTurns

CONSTANTS r1, r2, a1, a2

Call(r, a, n, kind) ==
  [request |-> r, agent |-> a, n |-> n, kind |-> kind,
   reserves |-> kind = "provider-request" \/ (kind = "turn-start" /\ a = a2)]

MCCalls ==
  {Call(r1, a1, 1, "turn-start"), Call(r1, a1, 2, "provider-request"), Call(r1, a1, 3, "provider-request"),
   Call(r1, a1, 4, "effect"), Call(r1, a2, 1, "turn-start")}

\* No limit, or one provider turn.
MCSettings == [turns : {0, 1}, tokens : {0}]

=============================================================================
