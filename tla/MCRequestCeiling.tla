-------------------------- MODULE MCRequestCeiling --------------------------
(***************************************************************************)
(* The small instance of the request ceiling that TLC checks: one request, *)
(* two calls of a1 that reserve (its counter reaches two), one of a2 that  *)
(* reserves and one effect of a2 that does not.  Requests share nothing    *)
(* but MaxTracked, which MCLimitedTurns exercises with two of them.        *)
(***************************************************************************)
EXTENDS RequestCeiling

CONSTANTS r1, a1, a2, u1

Call(r, a, n, reserves) == [request |-> r, agent |-> a, n |-> n, reserves |-> reserves]

MCCalls ==
  {Call(r1, a1, 1, TRUE), Call(r1, a1, 2, TRUE), Call(r1, a2, 1, TRUE), Call(r1, a2, 2, FALSE)}

\* No limit, one turn, one token, and both.
MCSettings == [turns : {0, 1}, tokens : {0, 1}]

=============================================================================
