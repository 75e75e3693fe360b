---------------------------- MODULE ResultMailbox ----------------------------
(***************************************************************************)
(* The mailbox of delegated results (src/src/state/                        *)
(* DelegationResultMailbox.ts): rows with a bound on their number and on   *)
(* their bytes, and claims that are taken on a row at its hand-over.       *)
(*                                                                         *)
(* Whether a completion is the current one is the ledger's to say, and it  *)
(* may say otherwise at every call.  Calls are synchronous, but for the    *)
(* archive that a release waits for.                                       *)
(***************************************************************************)
EXTENDS Naturals, FiniteSets, FiniteSetsExt

CONSTANTS
  Keys,          \* results: a coordinator, a handle and a revision
  Completions,   \* attempts at a result, each with its settling event
  Texts,         \* what a result says: state and digest
  None,          \* no text, or no completion
  Size,          \* bytes of a text, as it is kept
  MaxSlots, BodyBytes, TotalBytes,
  MaxMade,       \* bound: rows ever made
  MaxMinted      \* bound: tokens ever made

ASSUME SizesAssumption ==
  /\ MaxSlots \in Nat /\ BodyBytes \in Nat /\ TotalBytes \in Nat /\ MaxMade \in Nat /\ MaxMinted \in Nat
  /\ Size \in [Texts -> 0 .. BodyBytes]
  /\ None \notin Texts \union Completions

NoToken == 0

VARIABLES
  row,        \* the row of a key, or NoRow
  claims,     \* tokens that are known, each with the key it was taken on
  current,    \* the authority: the completion of a key that is current; none is like another one
  archiving,  \* releases that wait for their archive: the key and the row they hold
  made,       \* rows made so far: a row is known by its number
  minted,     \* tokens made so far
  acks        \* history: the deliveries acknowledged, with the row each token was taken on

kernel == <<row, claims, archiving, made, minted>>
vars   == <<kernel, current, acks>>

States == {"reserved", "settled"}
Row ==
  [state : States \union {"none"}, of : Completions \union {None}, text : Texts \union {None}, delivered : BOOLEAN,
   conflict : BOOLEAN, closing : BOOLEAN, claim : Nat, number : Nat]
NoRow ==
  [state |-> "none", of |-> None, text |-> None, delivered |-> FALSE,
   conflict |-> FALSE, closing |-> FALSE, claim |-> NoToken, number |-> 0]

Has(k) == row[k].state # "none"
Held == {k \in Keys : Has(k)}

\* usage(): a reservation takes the room of the longest text.
Bytes(k) == IF row[k].state = "reserved" THEN BodyBytes ELSE Size[row[k].text]
TotalOf(ks) == MapThenSumSet(Bytes, ks)

Room(bytes) == Cardinality(Held) < MaxSlots /\ TotalOf(Held) + bytes <= TotalBytes

\* The row is that of the current completion.
IsCurrent(k) == current[k] = row[k].of

NewRow(k, e, state, text) ==
  /\ made < MaxMade /\ made' = made + 1
  /\ row' = [row EXCEPT ![k] = [NoRow EXCEPT !.state = state, !.of = e, !.text = text, !.number = made + 1]]

Dispute(k) == row' = [row EXCEPT ![k].conflict = TRUE]

-----------------------------------------------------------------------------
(* Rows.                                                                   *)

\* Mutant: the bytes of what an earlier host kept are not counted.
RestoreUnmetered(k, e, t) ==
  /\ current[k] = e /\ ~Has(k) /\ Cardinality(Held) < MaxSlots
  /\ NewRow(k, e, "settled", t)
  /\ UNCHANGED <<claims, current, archiving, minted, acks>>

\* restore(): of a result that was not delivered, as the host calls it.
Restore(k, e, t) ==
  /\ current[k] = e /\ ~Has(k) /\ Room(Size[t])
  /\ NewRow(k, e, "settled", t)
  /\ UNCHANGED <<claims, current, archiving, minted, acks>>

\* reserve(): of a key without a row.
Reserve(k, e) ==
  /\ current[k] = e /\ ~Has(k) /\ Room(BodyBytes)
  /\ NewRow(k, e, "reserved", None)
  /\ UNCHANGED <<claims, current, archiving, minted, acks>>

\* reserve() of a key whose row is that of another completion.
ReserveAgain(k, e) ==
  /\ current[k] = e /\ Has(k) /\ ~row[k].closing /\ (row[k].conflict \/ row[k].of # e)
  /\ Dispute(k)
  /\ UNCHANGED <<claims, current, archiving, made, minted, acks>>

\* Mutant: a second text replaces the first.
SettleReplacing(k, e, t) ==
  /\ current[k] = e /\ Has(k) /\ ~row[k].closing /\ row[k].of = e /\ ~row[k].conflict
  /\ row' = [row EXCEPT ![k].state = "settled", ![k].text = t]
  /\ UNCHANGED <<claims, current, archiving, made, minted, acks>>

\* Mutant: the text of a result that has settled is not kept.
SettleTextless(k, e, t) ==
  /\ current[k] = e /\ Has(k) /\ ~row[k].closing /\ row[k].of = e /\ ~row[k].conflict
  /\ row' = [row EXCEPT ![k].state = "settled"]
  /\ UNCHANGED <<claims, current, archiving, made, minted, acks>>

\* settle(): a second text of the same completion is a conflict, a repeated one is not.
Settle(k, e, t) ==
  /\ current[k] = e /\ Has(k) /\ ~row[k].closing /\ row[k].of = e /\ ~row[k].conflict
  /\ IF row[k].state = "reserved"
       THEN row' = [row EXCEPT ![k].state = "settled", ![k].text = t]
       ELSE row[k].text # t /\ Dispute(k)
  /\ UNCHANGED <<claims, current, archiving, made, minted, acks>>

-----------------------------------------------------------------------------
(* Claims.                                                                 *)

\* Mutant: a delivered result is claimed again.
TryClaimAgain(k) ==
  /\ row[k].state = "settled" /\ ~row[k].closing /\ ~row[k].conflict
  /\ row[k].claim = NoToken /\ IsCurrent(k)
  /\ minted < MaxMinted /\ minted' = minted + 1
  /\ row' = [row EXCEPT ![k].claim = minted + 1]
  /\ claims' = claims \union {[token |-> minted + 1, key |-> k]}
  /\ UNCHANGED <<current, archiving, made, acks>>

TryClaim(k) ==
  /\ row[k].state = "settled" /\ ~row[k].delivered /\ ~row[k].closing /\ ~row[k].conflict
  /\ row[k].claim = NoToken /\ IsCurrent(k)
  /\ minted < MaxMinted /\ minted' = minted + 1
  /\ row' = [row EXCEPT ![k].claim = minted + 1]
  /\ claims' = claims \union {[token |-> minted + 1, key |-> k]}
  /\ UNCHANGED <<current, archiving, made, acks>>

\* The claim is on the row that the key has now.
Claiming(c) == c \in claims /\ row[c.key].claim = c.token

\* releaseClaim()
ReleaseClaim(c) ==
  /\ Claiming(c)
  /\ row' = [row EXCEPT ![c.key].claim = NoToken]
  /\ claims' = claims \ {c}
  /\ UNCHANGED <<current, archiving, made, minted, acks>>

\* ackDelivery(): the row may have become disputed, or its completion stale, since the claim was taken.
Acknowledge(c) ==
  /\ Claiming(c) /\ ~row[c.key].closing
  /\ ~row[c.key].conflict /\ IsCurrent(c.key)
  /\ row' = [row EXCEPT ![c.key].claim = NoToken, ![c.key].delivered = TRUE]
  /\ claims' = claims \ {c}
  /\ acks' = acks \union {[token |-> c.token, number |-> row[c.key].number]}
  /\ UNCHANGED <<current, archiving, made, minted>>

RefuseAck(c) ==
  /\ ~row[c.key].closing
  /\ row[c.key].conflict \/ ~IsCurrent(c.key)
  /\ ReleaseClaim(c)

-----------------------------------------------------------------------------
(* Rows leave.                                                             *)

Without(k) == claims \ {c \in claims : c.key = k /\ c.token = row[k].claim}

\* Mutant: the token of a row that is gone stays known.
ForgetKeepingClaim(k, t) ==
  /\ Has(k) /\ ~row[k].conflict /\ row[k].text = t
  /\ row' = [row EXCEPT ![k] = NoRow]
  /\ UNCHANGED <<claims, current, archiving, made, minted, acks>>

\* forgetArchived(): also while a release of the row waits.
Forget(k, t) ==
  /\ Has(k) /\ ~row[k].conflict /\ row[k].text = t
  /\ row' = [row EXCEPT ![k] = NoRow]
  /\ claims' = Without(k)
  /\ UNCHANGED <<current, archiving, made, minted, acks>>

\* releaseAfterArchive()
StartRelease(k) ==
  /\ Has(k) /\ ~row[k].closing
  /\ row' = [row EXCEPT ![k].closing = TRUE]
  /\ archiving' = archiving \union {[key |-> k, number |-> row[k].number]}
  /\ UNCHANGED <<claims, current, made, minted, acks>>

\* The row that a release holds is still that of its key.
Holds(a) == Has(a.key) /\ row[a.key].number = a.number

\* Mutant: whichever row the key has by now is released.
ReleaseAnyRow(a) ==
  /\ row' = [row EXCEPT ![a.key] = NoRow]
  /\ claims' = Without(a.key)
  /\ archiving' = archiving \ {a}
  /\ UNCHANGED <<current, made, minted, acks>>

\* The archive has taken it: the row leaves, if it is still the same.
Released(a) ==
  /\ Holds(a)
  /\ row' = [row EXCEPT ![a.key] = NoRow]
  /\ claims' = Without(a.key)
  /\ archiving' = archiving \ {a}
  /\ UNCHANGED <<current, made, minted, acks>>

\* Mutant: a failed archive leaves its row closed.
NotReleasedClosed(a) ==
  /\ archiving' = archiving \ {a}
  /\ UNCHANGED <<row, claims, current, made, minted, acks>>

\* The archive has failed, or the row is another one by now.
NotReleased(a) ==
  /\ row' = IF Holds(a) THEN [row EXCEPT ![a.key].closing = FALSE] ELSE row
  /\ archiving' = archiving \ {a}
  /\ UNCHANGED <<claims, current, made, minted, acks>>

\* The ledger moves on to another attempt.
Move(k, e) ==
  /\ current[k] # e
  /\ current' = [current EXCEPT ![k] = e]
  /\ UNCHANGED <<kernel, acks>>

-----------------------------------------------------------------------------
Init ==
  /\ row = [k \in Keys |-> NoRow]
  /\ claims = {} /\ archiving = {} /\ acks = {}
  /\ current \in [Keys -> Completions]
  /\ made = 0 /\ minted = 0

Next ==
  \/ \E k \in Keys, e \in Completions :
       Reserve(k, e) \/ ReserveAgain(k, e) \/ Move(k, e)
  \/ \E k \in Keys, e \in Completions, t \in Texts : Restore(k, e, t) \/ Settle(k, e, t)
  \/ \E k \in Keys : TryClaim(k) \/ StartRelease(k)
  \/ \E k \in Keys, t \in Texts : Forget(k, t)
  \/ \E c \in claims : ReleaseClaim(c) \/ Acknowledge(c) \/ RefuseAck(c)
  \/ \E a \in archiving : Released(a) \/ NotReleased(a)

Spec == Init /\ [][Next]_vars

-----------------------------------------------------------------------------
(* Properties.                                                             *)

MTypeOK ==
  /\ row \in [Keys -> Row]
  /\ claims \subseteq [token : Nat, key : Keys]
  /\ current \in [Keys -> Completions]
  /\ archiving \subseteq [key : Keys, number : Nat]
  /\ made \in Nat /\ minted \in Nat
  /\ acks \subseteq [token : Nat, number : Nat]
  /\ \A k \in Keys : (row[k].text \in Texts) = (row[k].state = "settled")

\* Whatever comes back, settles or is given up, the rows stay within the bounds: a text of any kept length fits where
\* its reservation was (usage, reserve, restore, settle).
WithinBounds == Cardinality(Held) <= MaxSlots /\ TotalOf(Held) <= TotalBytes

\* The known tokens are exactly those the rows hold: no token outlives its row and meets a later row of the same key,
\* and no row waits for a token that is lost (tryClaim, releaseClaim, forgetArchived, releaseAfterArchive).
ClaimsHeld ==
  /\ \A c \in claims : row[c.key].claim = c.token
  /\ \A k \in Keys : row[k].claim # NoToken => [token |-> row[k].claim, key |-> k] \in claims

\* A row is acknowledged once, by one token, whatever claims were taken and given back before.
AckedOnce == \A a, b \in acks : a.number = b.number \/ a.token = b.token => a = b

\* Each release that waits closes its row, and only the row it began with.
ClosingIsReleased ==
  \A k \in Keys : row[k].closing <=> Has(k) /\ [key |-> k, number |-> row[k].number] \in archiving

\* The only copy of a result is not given up for room: a row that is reserved or disputed leaves by a release that
\* closed this very row, not one that began with an earlier row of its key (forgetArchived, releaseAfterArchive).
LeavesByItsRelease ==
  [][\A k \in Keys : Has(k) /\ (row[k].state = "reserved" \/ row[k].conflict) /\ row'[k].state = "none" =>
       [key |-> k, number |-> row[k].number] \in archiving]_vars

\* The state of a slot as the host sees it.
SlotState(k) ==
  IF ~Has(k) THEN "free"
  ELSE IF row[k].conflict THEN "disputed"
  ELSE IF row[k].delivered THEN "delivered"
  ELSE IF row[k].state = "reserved" THEN "reserved" ELSE "pending"

Promise == INSTANCE MailboxPromise WITH
  slots <- [k \in Keys |-> [state |-> SlotState(k), text |-> row[k].text]]

\* The mailbox keeps what it promises its host (MailboxPromise).
PromiseKept == Promise!Spec

=============================================================================
