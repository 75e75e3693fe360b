------------------------- MODULE MCResultDelivery -------------------------
EXTENDS ResultDelivery

\* Something knows of a second revision, if only what a lost rework left on the disk.
Reworked ==
  \/ ledger.rev = 2 \/ disk.ledger.rev = 2 \/ disk.item[2].saved
  \/ \E a \in Attempts : <<2, a>> \in saved \/ handed[<<2, a>>] > 0

\* A rework is followed alone: one restart, one lane, and no event of the session.
PlainRework ==
  Reworked =>
    /\ restarts <= 1 /\ ~held /\ ~ending /\ ledger.decided = {}
    /\ \A r \in Revisions : ledger.scope[r] = "open"
    /\ \A lane \in Lanes \ {"auto-wake"} : waiting[lane] = None
=============================================================================
