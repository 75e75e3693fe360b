------------------------ MODULE ResultMailboxProofs ------------------------
(***************************************************************************)
(* Theorems of the mailbox of delegated results, for every set of results, *)
(* completions and texts and for all of its bounds.                        *)
(***************************************************************************)
EXTENDS ResultMailbox, FiniteSetTheorems, TLAPS

-----------------------------------------------------------------------------
(* Type correctness.                                                       *)

LEMMA NoRowType == NoRow \in Row
BY DEF NoRow, Row, States, NoToken

\* One field of one row is changed.
LEMMA RowField ==
  ASSUME row \in [Keys -> Row], NEW k \in Keys
  PROVE  /\ \A v \in BOOLEAN :
              /\ [row EXCEPT ![k].conflict = v] \in [Keys -> Row]
              /\ [row EXCEPT ![k].closing = v] \in [Keys -> Row]
         /\ \A t \in Nat : [row EXCEPT ![k].claim = t] \in [Keys -> Row]
         /\ \A t \in Nat, v \in BOOLEAN : [row EXCEPT ![k].claim = t, ![k].delivered = v] \in [Keys -> Row]
         /\ \A t \in Texts : [row EXCEPT ![k].state = "settled", ![k].text = t] \in [Keys -> Row]
<1>. USE DEF Row, States
<1>1. ASSUME NEW v \in BOOLEAN
      PROVE  [row EXCEPT ![k].conflict = v] \in [Keys -> Row]
  BY <1>1
<1>2. ASSUME NEW v \in BOOLEAN
      PROVE  [row EXCEPT ![k].closing = v] \in [Keys -> Row]
  BY <1>2
<1>3. ASSUME NEW t \in Nat
      PROVE  [row EXCEPT ![k].claim = t] \in [Keys -> Row]
  BY <1>3
<1>4. ASSUME NEW t \in Nat, NEW v \in BOOLEAN
      PROVE  [row EXCEPT ![k].claim = t, ![k].delivered = v] \in [Keys -> Row]
  BY <1>4, ZenonT(30)
<1>5. ASSUME NEW t \in Texts
      PROVE  [row EXCEPT ![k].state = "settled", ![k].text = t] \in [Keys -> Row]
  BY <1>5, ZenonT(30)
<1>. QED BY <1>1, <1>2, <1>3, <1>4, <1>5

LEMMA NewRowType ==
  ASSUME MTypeOK, NEW k \in Keys, NEW e \in Completions,
         NEW s \in States, NEW t \in Texts \union {None}, (t \in Texts) = (s = "settled"), NewRow(k, e, s, t)
  PROVE  /\ row' \in [Keys -> Row] /\ made' \in Nat
         /\ \A j \in Keys : (row'[j].text \in Texts) = (row'[j].state = "settled")
<1>. DEFINE fresh == [NoRow EXCEPT !.state = s, !.of = e, !.text = t, !.number = made + 1]
<1>1. fresh \in Row
  <2>1. made + 1 \in Nat
    BY DEF MTypeOK
  <2>2. e \in Completions \union {None} /\ s \in States \union {"none"}
    OBVIOUS
  <2>. QED BY <2>1, <2>2, NoRowType DEF Row
<1>2. fresh.text = t /\ fresh.state = s
  BY DEF NoRow
<1>3. row' = [row EXCEPT ![k] = fresh] /\ made' = made + 1
  BY DEF NewRow
<1>. QED BY <1>1, <1>2, <1>3 DEF MTypeOK

LEMMA TypeStep ==
  ASSUME MTypeOK, [Next]_vars
  PROVE  MTypeOK'
<1>. USE DEF vars, kernel
<1>1. ASSUME NEW k \in Keys, NEW e \in Completions, Reserve(k, e)
      PROVE  MTypeOK'
  <2>1. /\ row' \in [Keys -> Row] /\ made' \in Nat
        /\ \A j \in Keys : (row'[j].text \in Texts) = (row'[j].state = "settled")
    BY <1>1, NewRowType, SizesAssumption DEF Reserve, States
  <2>. QED BY <1>1, <2>1 DEF MTypeOK, Reserve
<1>2. ASSUME NEW k \in Keys, NEW e \in Completions, ReserveAgain(k, e)
      PROVE  MTypeOK'
  <2>1. row' \in [Keys -> Row]
    BY <1>2, RowField DEF MTypeOK, ReserveAgain, Dispute
  <2>2. \A j \in Keys : (row'[j].text \in Texts) = (row'[j].state = "settled")
    BY <1>2 DEF MTypeOK, ReserveAgain, Dispute, Row
  <2>. QED BY <1>2, <2>1, <2>2 DEF MTypeOK, ReserveAgain
<1>3. ASSUME NEW k \in Keys, NEW e \in Completions, Move(k, e)
      PROVE  MTypeOK'
  BY <1>3 DEF MTypeOK, Move
<1>4. ASSUME NEW k \in Keys, NEW e \in Completions, NEW t \in Texts, Restore(k, e, t)
      PROVE  MTypeOK'
  <2>1. /\ row' \in [Keys -> Row] /\ made' \in Nat
        /\ \A j \in Keys : (row'[j].text \in Texts) = (row'[j].state = "settled")
    BY <1>4, NewRowType DEF Restore, States
  <2>. QED BY <1>4, <2>1 DEF MTypeOK, Restore
<1>5. ASSUME NEW k \in Keys, NEW e \in Completions, NEW t \in Texts, Settle(k, e, t)
      PROVE  MTypeOK'
  <2>1. row' \in [Keys -> Row]
    <3>1. [row EXCEPT ![k].state = "settled", ![k].text = t] \in [Keys -> Row]
      BY RowField DEF MTypeOK
    <3>2. [row EXCEPT ![k].conflict = TRUE] \in [Keys -> Row]
      BY RowField DEF MTypeOK
    <3>. QED BY <1>5, <3>1, <3>2 DEF Settle, Dispute
  <2>2. \A j \in Keys : (row'[j].text \in Texts) = (row'[j].state = "settled")
    BY <1>5 DEF MTypeOK, Settle, Dispute, Row
  <2>. QED BY <1>5, <2>1, <2>2 DEF MTypeOK, Settle
<1>6. ASSUME NEW k \in Keys, TryClaim(k)
      PROVE  MTypeOK'
  <2>1. row' \in [Keys -> Row]
    <3>1. minted + 1 \in Nat
      BY DEF MTypeOK
    <3>2. [row EXCEPT ![k].claim = minted + 1] \in [Keys -> Row]
      BY <3>1 DEF MTypeOK, Row
    <3>. QED BY <1>6, <3>2 DEF TryClaim
  <2>2. \A j \in Keys : (row'[j].text \in Texts) = (row'[j].state = "settled")
    BY <1>6 DEF MTypeOK, TryClaim, Row
  <2>. QED BY <1>6, <2>1, <2>2 DEF MTypeOK, TryClaim
<1>7. ASSUME NEW k \in Keys, StartRelease(k)
      PROVE  MTypeOK'
  <2>1. row' \in [Keys -> Row]
    BY <1>7, RowField DEF MTypeOK, StartRelease
  <2>2. \A j \in Keys : (row'[j].text \in Texts) = (row'[j].state = "settled")
    BY <1>7 DEF MTypeOK, StartRelease, Row
  <2>3. row[k].number \in Nat
    BY DEF MTypeOK, Row
  <2>. QED BY <1>7, <2>1, <2>2, <2>3 DEF MTypeOK, StartRelease
<1>8. ASSUME NEW k \in Keys, NEW t \in Texts, Forget(k, t)
      PROVE  MTypeOK'
  BY <1>8, NoRowType, SizesAssumption DEF MTypeOK, Forget, Without, NoRow
<1>9. ASSUME NEW c \in claims, ReleaseClaim(c)
      PROVE  MTypeOK'
  <2>1. row' \in [Keys -> Row]
    BY <1>9, RowField DEF MTypeOK, ReleaseClaim, NoToken
  <2>2. \A j \in Keys : (row'[j].text \in Texts) = (row'[j].state = "settled")
    BY <1>9 DEF MTypeOK, ReleaseClaim, Row
  <2>. QED BY <1>9, <2>1, <2>2 DEF MTypeOK, ReleaseClaim
<1>10. ASSUME NEW c \in claims, Acknowledge(c)
       PROVE  MTypeOK'
  <2>1. row' \in [Keys -> Row]
    BY <1>10, RowField DEF MTypeOK, Acknowledge, NoToken
  <2>2. \A j \in Keys : (row'[j].text \in Texts) = (row'[j].state = "settled")
    BY <1>10 DEF MTypeOK, Acknowledge, Row
  <2>3. row[c.key].number \in Nat
    BY DEF MTypeOK, Row
  <2>. QED BY <1>10, <2>1, <2>2, <2>3 DEF MTypeOK, Acknowledge
<1>11. ASSUME NEW a \in archiving, Released(a)
       PROVE  MTypeOK'
  BY <1>11, NoRowType, SizesAssumption DEF MTypeOK, Released, Without, NoRow
<1>12. ASSUME NEW a \in archiving, NotReleased(a)
       PROVE  MTypeOK'
  <2>1. row' \in [Keys -> Row]
    BY <1>12, RowField DEF MTypeOK, NotReleased
  <2>2. \A j \in Keys : (row'[j].text \in Texts) = (row'[j].state = "settled")
    BY <1>12 DEF MTypeOK, NotReleased, Row
  <2>. QED BY <1>12, <2>1, <2>2 DEF MTypeOK, NotReleased
<1>13. CASE UNCHANGED vars
  BY <1>13 DEF MTypeOK
<1>. QED
  BY <1>1, <1>2, <1>3, <1>4, <1>5, <1>6, <1>7, <1>8, <1>9, <1>10, <1>11, <1>12, <1>13 DEF Next, RefuseAck

\* The mailbox keeps its types, and a row has a text exactly once it has settled (settle, restore).
THEOREM MTypeCorrect == Spec => []MTypeOK
<1>1. Init => MTypeOK
  BY NoRowType, SizesAssumption DEF Init, MTypeOK, NoRow
<1>. QED BY <1>1, TypeStep, PTL DEF Spec

-----------------------------------------------------------------------------
(* The inductive invariant: rows and tokens are numbered as they are made, *)
(* and a row holds a claim only until it is delivered.                     *)

RowsNumbered ==
  /\ \A k \in Keys : ~Has(k) => row[k] = NoRow
  /\ \A k \in Keys : Has(k) => row[k].number \in 1 .. made
  /\ \A j, k \in Keys : Has(j) /\ Has(k) /\ row[j].number = row[k].number => j = k
  /\ \A a \in archiving : a.number \in 1 .. made

ClaimsPending ==
  /\ \A k \in Keys : row[k].claim # NoToken =>
       row[k].state = "settled" /\ ~row[k].delivered /\ row[k].claim \in 1 .. minted
  /\ \A j, k \in Keys : row[j].claim = row[k].claim /\ row[j].claim # NoToken => j = k
  /\ \A k \in Keys : row[k].delivered => row[k].state = "settled"
  /\ \A c \in claims : c.token # NoToken

AcksPast ==
  /\ \A a \in acks : a.token \in 1 .. minted /\ a.number \in 1 .. made
  /\ \A a \in acks, k \in Keys : row[k].claim # a.token
  /\ \A a \in acks, k \in Keys : Has(k) /\ row[k].number = a.number => row[k].delivered

IInv == MTypeOK /\ RowsNumbered /\ ClaimsPending /\ AcksPast /\ ClaimsHeld /\ ClosingIsReleased /\ AckedOnce

\* What the steps do to the rows of all keys, field by field.
RowIs(k, state, text, delivered, conflict, closing, claim, number) ==
  /\ row'[k].state = state /\ row'[k].text = text /\ row'[k].delivered = delivered
  /\ row'[k].conflict = conflict /\ row'[k].closing = closing
  /\ row'[k].claim = claim /\ row'[k].number = number

OnlyRow(k) == \A j \in Keys \ {k} : row'[j] = row[j]

LEMMA NewRowFields ==
  ASSUME MTypeOK, NEW k \in Keys, NEW e, NEW s, NEW t, NewRow(k, e, s, t)
  PROVE  RowIs(k, s, t, FALSE, FALSE, FALSE, NoToken, made + 1) /\ OnlyRow(k) /\ made' = made + 1
BY DEF MTypeOK, NewRow, NoRow, RowIs, OnlyRow

LEMMA GoneFields ==
  ASSUME MTypeOK, NEW k \in Keys, row' = [row EXCEPT ![k] = NoRow]
  PROVE  /\ RowIs(k, "none", None, FALSE, FALSE, FALSE, NoToken, 0) /\ row'[k] = NoRow
         /\ OnlyRow(k)
BY DEF MTypeOK, NoRow, RowIs, OnlyRow

LEMMA DisputeFields ==
  ASSUME MTypeOK, NEW k \in Keys, Dispute(k)
  PROVE  /\ RowIs(k, row[k].state, row[k].text, row[k].delivered, TRUE, row[k].closing, row[k].claim, row[k].number)
         /\ OnlyRow(k)
BY DEF MTypeOK, Row, Dispute, RowIs, OnlyRow

LEMMA SettledFields ==
  ASSUME MTypeOK, NEW k \in Keys, NEW t, row' = [row EXCEPT ![k].state = "settled", ![k].text = t]
  PROVE  /\ RowIs(k, "settled", t, row[k].delivered, row[k].conflict, row[k].closing, row[k].claim, row[k].number)
         /\ OnlyRow(k)
BY DEF MTypeOK, Row, RowIs, OnlyRow

LEMMA ClosingFields ==
  ASSUME MTypeOK, NEW k \in Keys, NEW v \in BOOLEAN, row' = [row EXCEPT ![k].closing = v]
  PROVE  /\ RowIs(k, row[k].state, row[k].text, row[k].delivered, row[k].conflict, v, row[k].claim, row[k].number)
         /\ OnlyRow(k)
BY DEF MTypeOK, Row, RowIs, OnlyRow

LEMMA ClaimFields ==
  ASSUME MTypeOK, NEW k \in Keys, NEW n \in Nat, row' = [row EXCEPT ![k].claim = n]
  PROVE  /\ RowIs(k, row[k].state, row[k].text, row[k].delivered, row[k].conflict, row[k].closing, n, row[k].number)
         /\ OnlyRow(k)
BY DEF MTypeOK, Row, RowIs, OnlyRow

LEMMA AckFields ==
  ASSUME MTypeOK, NEW k \in Keys, row' = [row EXCEPT ![k].claim = NoToken, ![k].delivered = TRUE]
  PROVE  /\ RowIs(k, row[k].state, row[k].text, TRUE, row[k].conflict, row[k].closing, NoToken, row[k].number)
         /\ OnlyRow(k)
BY DEF MTypeOK, Row, RowIs, OnlyRow

Parts == RowsNumbered /\ ClaimsPending /\ AcksPast /\ ClaimsHeld /\ ClosingIsReleased /\ AckedOnce

\* A new row has a number that nothing has had before.
LEMMA PartsOfNew ==
  ASSUME IInv, NEW k \in Keys, NEW e, NEW s \in States, NEW t, NewRow(k, e, s, t), ~Has(k),
         UNCHANGED <<claims, archiving, minted, acks>>
  PROVE  Parts'
<1>1. RowIs(k, s, t, FALSE, FALSE, FALSE, NoToken, made + 1) /\ OnlyRow(k) /\ made' = made + 1
  BY NewRowFields DEF IInv
<1>2. made \in Nat /\ row[k] = NoRow /\ row[k].claim = NoToken /\ s # "none"
  BY DEF IInv, MTypeOK, RowsNumbered, NoRow, States
<1>3. RowsNumbered'
  BY <1>1, <1>2 DEF IInv, MTypeOK, RowsNumbered, Has, RowIs, OnlyRow
<1>4. ClaimsPending'
  BY <1>1, <1>2 DEF IInv, MTypeOK, ClaimsPending, RowIs, OnlyRow
<1>5. AcksPast'
  BY <1>1, <1>2 DEF IInv, MTypeOK, AcksPast, Has, RowIs, OnlyRow, NoToken
<1>6. ClaimsHeld'
  BY <1>1, <1>2 DEF IInv, MTypeOK, ClaimsHeld, ClaimsPending, RowIs, OnlyRow
<1>7. ClosingIsReleased'
  BY <1>1, <1>2 DEF IInv, MTypeOK, ClosingIsReleased, RowsNumbered, Has, RowIs, OnlyRow
<1>8. AckedOnce'
  BY DEF IInv, AckedOnce
<1>. QED BY <1>3, <1>4, <1>5, <1>6, <1>7, <1>8 DEF Parts

\* A text or a dispute changes neither the claim nor the number of its row.
LEMMA PartsOfText ==
  ASSUME IInv, NEW k \in Keys, NEW s \in States, NEW t, NEW conflict,
         RowIs(k, s, t, row[k].delivered, conflict, row[k].closing, row[k].claim, row[k].number), OnlyRow(k),
         Has(k), row[k].state = "settled" => s = "settled",
         UNCHANGED <<claims, archiving, made, minted, acks>>
  PROVE  Parts'
<1>1. s # "none"
  BY DEF States
<1>3. RowsNumbered'
  BY <1>1 DEF IInv, MTypeOK, RowsNumbered, Has, RowIs, OnlyRow
<1>4. ClaimsPending'
  BY <1>1 DEF IInv, MTypeOK, ClaimsPending, RowIs, OnlyRow
<1>5. AcksPast'
  BY <1>1 DEF IInv, MTypeOK, AcksPast, Has, RowIs, OnlyRow
<1>6. ClaimsHeld'
  BY <1>1 DEF IInv, MTypeOK, ClaimsHeld, RowIs, OnlyRow
<1>7. ClosingIsReleased'
  BY <1>1 DEF IInv, MTypeOK, ClosingIsReleased, Has, RowIs, OnlyRow
<1>8. AckedOnce'
  BY DEF IInv, AckedOnce
<1>. QED BY <1>3, <1>4, <1>5, <1>6, <1>7, <1>8 DEF Parts

\* A claim takes a token that nothing has had before.
LEMMA PartsOfClaim ==
  ASSUME IInv, NEW k \in Keys, TryClaim(k)
  PROVE  Parts'
<1>1. /\ RowIs(k, row[k].state, row[k].text, row[k].delivered, row[k].conflict, row[k].closing, minted + 1, row[k].number)
      /\ OnlyRow(k)
  <2>1. minted + 1 \in Nat
    BY DEF IInv, MTypeOK
  <2>. QED BY <2>1, ClaimFields DEF IInv, TryClaim
<1>2. minted \in Nat /\ minted' = minted + 1 /\ claims' = claims \union {[token |-> minted + 1, key |-> k]}
      /\ UNCHANGED <<archiving, made, acks>>
  BY DEF IInv, MTypeOK, TryClaim
<1>3. RowsNumbered'
  <2>1. \A j \in Keys : ~Has(j)' => row'[j] = NoRow
    BY <1>1 DEF IInv, RowsNumbered, Has, RowIs, OnlyRow, TryClaim
  <2>. QED BY <1>1, <1>2, <2>1 DEF IInv, MTypeOK, RowsNumbered, Has, RowIs, OnlyRow
<1>4. ClaimsPending'
  BY <1>1, <1>2 DEF IInv, MTypeOK, ClaimsPending, RowIs, OnlyRow, TryClaim, NoToken
<1>5. AcksPast'
  BY <1>1, <1>2 DEF IInv, MTypeOK, AcksPast, Has, RowIs, OnlyRow
<1>6. ClaimsHeld'
  BY <1>1, <1>2 DEF IInv, MTypeOK, ClaimsHeld, ClaimsPending, RowIs, OnlyRow, TryClaim
<1>7. ClosingIsReleased'
  BY <1>1, <1>2 DEF IInv, MTypeOK, ClosingIsReleased, Has, RowIs, OnlyRow
<1>8. AckedOnce'
  BY <1>2 DEF IInv, AckedOnce
<1>. QED BY <1>3, <1>4, <1>5, <1>6, <1>7, <1>8 DEF Parts

LEMMA PartsOfReleaseClaim ==
  ASSUME IInv, NEW c \in claims, ReleaseClaim(c)
  PROVE  Parts'
<1>. DEFINE k == c.key
<1>0. k \in Keys /\ row[k].claim = c.token /\ c.token # NoToken /\ c = [token |-> c.token, key |-> k]
  BY DEF IInv, MTypeOK, ClaimsPending, ReleaseClaim, Claiming
<1>1. /\ RowIs(k, row[k].state, row[k].text, row[k].delivered, row[k].conflict, row[k].closing, NoToken, row[k].number)
      /\ OnlyRow(k)
  BY <1>0, ClaimFields DEF IInv, ReleaseClaim, NoToken
<1>2. claims' = claims \ {c} /\ UNCHANGED <<archiving, made, minted, acks>>
  BY DEF ReleaseClaim
<1>3. RowsNumbered'
  <2>1. Has(k)
    BY <1>0 DEF IInv, RowsNumbered, NoRow, Has
  <2>. QED BY <1>0, <1>1, <1>2, <2>1 DEF IInv, MTypeOK, RowsNumbered, Has, RowIs, OnlyRow
<1>4. ClaimsPending'
  BY <1>0, <1>1, <1>2 DEF IInv, MTypeOK, ClaimsPending, RowIs, OnlyRow
<1>5. AcksPast'
  BY <1>0, <1>1, <1>2 DEF IInv, MTypeOK, AcksPast, Has, RowIs, OnlyRow, NoToken
<1>6. ClaimsHeld'
  BY <1>0, <1>1, <1>2 DEF IInv, MTypeOK, ClaimsHeld, ClaimsPending, RowIs, OnlyRow
<1>7. ClosingIsReleased'
  BY <1>0, <1>1, <1>2 DEF IInv, MTypeOK, ClosingIsReleased, Has, RowIs, OnlyRow
<1>8. AckedOnce'
  BY <1>2 DEF IInv, AckedOnce
<1>. QED BY <1>3, <1>4, <1>5, <1>6, <1>7, <1>8 DEF Parts

\* A row that holds a claim has not been delivered, so its number and its token are new among the acknowledged ones.
LEMMA PartsOfAck ==
  ASSUME IInv, NEW c \in claims, Acknowledge(c)
  PROVE  Parts'
<1>. DEFINE k == c.key
            ack == [token |-> c.token, number |-> row[k].number]
<1>0. /\ k \in Keys /\ row[k].claim = c.token /\ c.token # NoToken /\ c = [token |-> c.token, key |-> k]
      /\ row[k].state = "settled" /\ ~row[k].delivered /\ c.token \in 1 .. minted
  BY DEF IInv, MTypeOK, ClaimsPending, Acknowledge, Claiming
<1>1. /\ RowIs(k, row[k].state, row[k].text, TRUE, row[k].conflict, row[k].closing, NoToken, row[k].number)
      /\ OnlyRow(k)
  BY <1>0, AckFields DEF IInv, Acknowledge
<1>2. /\ claims' = claims \ {c} /\ UNCHANGED <<archiving, made, minted>>
      /\ acks' = acks \union {ack}
  BY DEF Acknowledge
<1>3. Has(k) /\ row[k].number \in 1 .. made
  BY <1>0 DEF IInv, RowsNumbered, Has
<1>4. RowsNumbered'
  BY <1>0, <1>1, <1>2, <1>3 DEF IInv, MTypeOK, RowsNumbered, Has, RowIs, OnlyRow
<1>5. ClaimsPending'
  BY <1>0, <1>1, <1>2 DEF IInv, MTypeOK, ClaimsPending, RowIs, OnlyRow
<1>6. AcksPast'
  <2>1. \A a \in acks' : a.token \in 1 .. minted /\ a.number \in 1 .. made
    BY <1>0, <1>2, <1>3 DEF IInv, AcksPast
  <2>2. \A a \in acks', j \in Keys : row'[j].claim # a.token
    BY <1>0, <1>1, <1>2 DEF IInv, MTypeOK, AcksPast, ClaimsPending, RowIs, OnlyRow, NoToken
  <2>3. \A a \in acks', j \in Keys : Has(j)' /\ row'[j].number = a.number => row'[j].delivered
    BY <1>0, <1>1, <1>2, <1>3 DEF IInv, MTypeOK, AcksPast, RowsNumbered, Has, RowIs, OnlyRow
  <2>. QED BY <1>2, <2>1, <2>2, <2>3 DEF AcksPast
<1>7. ClaimsHeld'
  BY <1>0, <1>1, <1>2 DEF IInv, MTypeOK, ClaimsHeld, ClaimsPending, RowIs, OnlyRow
<1>8. ClosingIsReleased'
  BY <1>0, <1>1, <1>2 DEF IInv, MTypeOK, ClosingIsReleased, Has, RowIs, OnlyRow
<1>9. AckedOnce'
  <2>1. \A a \in acks : a.number # ack.number /\ a.token # ack.token
    BY <1>0, <1>3 DEF IInv, AcksPast
  <2>. QED BY <1>2, <2>1 DEF IInv, AckedOnce
<1>. QED BY <1>4, <1>5, <1>6, <1>7, <1>8, <1>9 DEF Parts

\* A row leaves with its claim, and whatever waits for its archive finds it gone.
LEMMA PartsOfGone ==
  ASSUME IInv, NEW k \in Keys, row' = [row EXCEPT ![k] = NoRow], claims' = Without(k),
         archiving' \subseteq archiving,
         \A a \in archiving \ archiving' : a.key = k,
         UNCHANGED <<made, minted, acks>>
  PROVE  Parts'
<1>1. /\ RowIs(k, "none", None, FALSE, FALSE, FALSE, NoToken, 0) /\ row'[k] = NoRow
      /\ OnlyRow(k)
  BY GoneFields DEF IInv
<1>3. RowsNumbered'
  BY <1>1 DEF IInv, MTypeOK, RowsNumbered, Has, RowIs, OnlyRow
<1>4. ClaimsPending'
  BY <1>1 DEF IInv, MTypeOK, ClaimsPending, RowIs, OnlyRow, Without
<1>5. AcksPast'
  BY <1>1 DEF IInv, MTypeOK, AcksPast, Has, RowIs, OnlyRow, NoToken
<1>6. ClaimsHeld'
  BY <1>1 DEF IInv, MTypeOK, ClaimsHeld, RowIs, OnlyRow, Without
<1>7. ClosingIsReleased'
  BY <1>1 DEF IInv, MTypeOK, ClosingIsReleased, Has, RowIs, OnlyRow
<1>8. AckedOnce'
  BY DEF IInv, AckedOnce
<1>. QED BY <1>3, <1>4, <1>5, <1>6, <1>7, <1>8 DEF Parts

LEMMA PartsOfStart ==
  ASSUME IInv, NEW k \in Keys, StartRelease(k)
  PROVE  Parts'
<1>1. /\ RowIs(k, row[k].state, row[k].text, row[k].delivered, row[k].conflict, TRUE, row[k].claim, row[k].number)
      /\ OnlyRow(k)
  BY ClosingFields DEF IInv, StartRelease
<1>2. /\ archiving' = archiving \union {[key |-> k, number |-> row[k].number]} /\ Has(k)
      /\ UNCHANGED <<claims, made, minted, acks>>
  BY DEF StartRelease
<1>3. RowsNumbered'
  BY <1>1, <1>2 DEF IInv, MTypeOK, RowsNumbered, Has, RowIs, OnlyRow
<1>4. ClaimsPending'
  BY <1>1, <1>2 DEF IInv, MTypeOK, ClaimsPending, RowIs, OnlyRow
<1>5. AcksPast'
  BY <1>1, <1>2 DEF IInv, MTypeOK, AcksPast, Has, RowIs, OnlyRow
<1>6. ClaimsHeld'
  BY <1>1, <1>2 DEF IInv, MTypeOK, ClaimsHeld, RowIs, OnlyRow
<1>7. ClosingIsReleased'
  BY <1>1, <1>2 DEF IInv, MTypeOK, ClosingIsReleased, Has, RowIs, OnlyRow
<1>8. AckedOnce'
  BY <1>2 DEF IInv, AckedOnce
<1>. QED BY <1>3, <1>4, <1>5, <1>6, <1>7, <1>8 DEF Parts

LEMMA PartsOfNotReleased ==
  ASSUME IInv, NEW a \in archiving, NotReleased(a)
  PROVE  Parts'
<1>. DEFINE k == a.key
<1>0. k \in Keys /\ a = [key |-> k, number |-> a.number]
  BY DEF IInv, MTypeOK
<1>2. archiving' = archiving \ {a} /\ UNCHANGED <<claims, made, minted, acks>>
  BY DEF NotReleased
<1>a. CASE Holds(a)
  <2>1. /\ RowIs(k, row[k].state, row[k].text, row[k].delivered, row[k].conflict, FALSE, row[k].claim, row[k].number)
        /\ OnlyRow(k)
    BY <1>0, <1>a, ClosingFields DEF IInv, NotReleased
  <2>2. Has(k) /\ row[k].number = a.number
    BY <1>a DEF Holds
  <2>3. RowsNumbered'
    BY <1>0, <1>2, <2>1, <2>2 DEF IInv, MTypeOK, RowsNumbered, Has, RowIs, OnlyRow
  <2>4. ClaimsPending'
    BY <1>0, <1>2, <2>1 DEF IInv, MTypeOK, ClaimsPending, RowIs, OnlyRow
  <2>5. AcksPast'
    BY <1>0, <1>2, <2>1 DEF IInv, MTypeOK, AcksPast, Has, RowIs, OnlyRow
  <2>6. ClaimsHeld'
    BY <1>0, <1>2, <2>1 DEF IInv, MTypeOK, ClaimsHeld, RowIs, OnlyRow
  <2>7. ClosingIsReleased'
    BY <1>0, <1>2, <2>1, <2>2 DEF IInv, MTypeOK, ClosingIsReleased, Has, RowIs, OnlyRow
  <2>8. AckedOnce'
    BY <1>2 DEF IInv, AckedOnce
  <2>. QED BY <2>3, <2>4, <2>5, <2>6, <2>7, <2>8 DEF Parts
<1>b. CASE ~Holds(a)
  <2>1. row' = row
    BY <1>b DEF NotReleased
  <2>2. RowsNumbered'
    BY <1>2, <2>1 DEF IInv, RowsNumbered, Has
  <2>3. ClosingIsReleased'
    BY <1>0, <1>2, <1>b, <2>1 DEF IInv, MTypeOK, ClosingIsReleased, Has, Holds
  <2>. QED BY <1>2, <2>1, <2>2, <2>3 DEF IInv, Parts, ClaimsPending, AcksPast, ClaimsHeld, AckedOnce, Has
<1>. QED BY <1>a, <1>b

LEMMA Inductive ==
  ASSUME IInv, [Next]_vars
  PROVE  IInv'
<1>. USE DEF vars, kernel
<1>0. SUFFICES Parts'
  BY TypeStep DEF IInv, Parts
<1>1. ASSUME NEW k \in Keys, NEW e \in Completions, Reserve(k, e)
      PROVE  Parts'
  BY <1>1, PartsOfNew DEF Reserve, States
<1>2. ASSUME NEW k \in Keys, NEW e \in Completions, ReserveAgain(k, e)
      PROVE  Parts'
  <2>1. row[k].state \in States
    BY <1>2 DEF IInv, MTypeOK, Row, ReserveAgain, Has
  <2>2. /\ RowIs(k, row[k].state, row[k].text, row[k].delivered, TRUE, row[k].closing, row[k].claim, row[k].number)
        /\ OnlyRow(k)
    BY <1>2, DisputeFields DEF IInv, ReserveAgain
  <2>. QED BY <1>2, <2>1, <2>2, PartsOfText DEF ReserveAgain
<1>3. ASSUME NEW k \in Keys, NEW e \in Completions, Move(k, e)
      PROVE  Parts'
  BY <1>3 DEF Move, IInv, Parts, RowsNumbered, ClaimsPending, AcksPast, ClaimsHeld, ClosingIsReleased, AckedOnce, Has
<1>4. ASSUME NEW k \in Keys, NEW e \in Completions, NEW t \in Texts, Restore(k, e, t)
      PROVE  Parts'
  BY <1>4, PartsOfNew DEF Restore, States
<1>5. ASSUME NEW k \in Keys, NEW e \in Completions, NEW t \in Texts, Settle(k, e, t)
      PROVE  Parts'
  <2>1. CASE row[k].state = "reserved"
    <3>1. /\ RowIs(k, "settled", t, row[k].delivered, row[k].conflict, row[k].closing, row[k].claim, row[k].number)
          /\ OnlyRow(k)
      BY <1>5, <2>1, SettledFields DEF IInv, Settle
    <3>. QED BY <1>5, <3>1, PartsOfText DEF Settle, States
  <2>2. CASE row[k].state # "reserved"
    <3>1. row[k].state \in States
      BY <1>5 DEF IInv, MTypeOK, Row, Settle, Has
    <3>2. /\ RowIs(k, row[k].state, row[k].text, row[k].delivered, TRUE, row[k].closing, row[k].claim, row[k].number)
          /\ OnlyRow(k)
      BY <1>5, <2>2, DisputeFields DEF IInv, Settle
    <3>. QED BY <1>5, <3>1, <3>2, PartsOfText DEF Settle
  <2>. QED BY <2>1, <2>2
<1>6. ASSUME NEW k \in Keys, TryClaim(k)
      PROVE  Parts'
  BY <1>6, PartsOfClaim
<1>7. ASSUME NEW k \in Keys, StartRelease(k)
      PROVE  Parts'
  BY <1>7, PartsOfStart
<1>8. ASSUME NEW k \in Keys, NEW t \in Texts, Forget(k, t)
      PROVE  Parts'
  BY <1>8, PartsOfGone DEF Forget
<1>9. ASSUME NEW c \in claims, ReleaseClaim(c)
      PROVE  Parts'
  BY <1>9, PartsOfReleaseClaim
<1>10. ASSUME NEW c \in claims, Acknowledge(c)
       PROVE  Parts'
  BY <1>10, PartsOfAck
<1>11. ASSUME NEW a \in archiving, Released(a)
       PROVE  Parts'
  <2>1. a.key \in Keys
    BY DEF IInv, MTypeOK
  <2>. QED BY <1>11, <2>1, PartsOfGone DEF Released
<1>12. ASSUME NEW a \in archiving, NotReleased(a)
       PROVE  Parts'
  BY <1>12, PartsOfNotReleased
<1>13. CASE UNCHANGED vars
  BY <1>13 DEF IInv, Parts, RowsNumbered, ClaimsPending, AcksPast, ClaimsHeld, ClosingIsReleased, AckedOnce, Has
<1>. QED
  BY <1>1, <1>2, <1>3, <1>4, <1>5, <1>6, <1>7, <1>8, <1>9, <1>10, <1>11, <1>12, <1>13 DEF Next, RefuseAck

LEMMA Invariance == Spec => []IInv
<1>1. Init => IInv
  <2>1. ASSUME Init PROVE MTypeOK
    BY <2>1, NoRowType, SizesAssumption DEF Init, MTypeOK, NoRow
  <2>2. ASSUME Init PROVE RowsNumbered /\ ClaimsPending /\ AcksPast /\ ClaimsHeld /\ ClosingIsReleased /\ AckedOnce
    BY <2>2 DEF Init, NoRow, RowsNumbered, ClaimsPending, AcksPast, ClaimsHeld, ClosingIsReleased, AckedOnce, Has
  <2>. QED BY <2>1, <2>2 DEF IInv
<1>. QED BY <1>1, Inductive, PTL DEF Spec

\* The known tokens are exactly those the rows hold (tryClaim, ackDelivery, releaseClaim, forgetArchived).
THEOREM TokensAreHeld == Spec => []ClaimsHeld
BY Invariance, PTL DEF IInv

\* No result is acknowledged twice, and no token twice (tryClaim, ackDelivery).
THEOREM DeliveredOnce == Spec => []AckedOnce
BY Invariance, PTL DEF IInv

\* A row is closed exactly while a release of this very row waits for its archive (releaseAfterArchive).
THEOREM ClosedWhileReleased == Spec => []ClosingIsReleased
BY Invariance, PTL DEF IInv

-----------------------------------------------------------------------------
(* Action properties and the bound on the slots.                           *)

\* A reserved or a disputed row leaves only by the release that closed it.
THEOREM OnlyByItsRelease == Spec => LeavesByItsRelease
<1>1. ASSUME IInv, [Next]_vars, NEW j \in Keys,
             Has(j), row[j].state = "reserved" \/ row[j].conflict, row'[j].state = "none"
      PROVE  [key |-> j, number |-> row[j].number] \in archiving
  <2>. USE DEF vars, kernel
  <2>1. row \in [Keys -> Row] /\ archiving \subseteq [key : Keys, number : Nat] /\ row'[j] # row[j]
    BY <1>1 DEF IInv, MTypeOK, Has
  <2>2. ASSUME NEW k \in Keys, NEW e, NEW s \in States, NEW t, NewRow(k, e, s, t)
        PROVE  FALSE
    BY <1>1, <2>1, <2>2, NewRowFields DEF IInv, RowIs, OnlyRow, States
  <2>3. ASSUME NEW k \in Keys, Dispute(k)
        PROVE  FALSE
    BY <1>1, <2>1, <2>3, DisputeFields DEF IInv, RowIs, OnlyRow, Has
  <2>4. ASSUME NEW k \in Keys, NEW e \in Completions, NEW t \in Texts, Settle(k, e, t)
        PROVE  FALSE
    BY <1>1, <2>1, <2>3, <2>4, SettledFields DEF IInv, Settle, RowIs, OnlyRow
  <2>5. ASSUME NEW k \in Keys, TryClaim(k) \/ StartRelease(k)
        PROVE  FALSE
    BY <1>1, <2>1, <2>5 DEF TryClaim, StartRelease, Row, Has
  <2>6. ASSUME NEW k \in Keys, NEW t \in Texts, Forget(k, t)
        PROVE  FALSE
    BY <1>1, <2>1, <2>6 DEF Forget, IInv, MTypeOK
  <2>7. ASSUME NEW c \in claims, ReleaseClaim(c) \/ Acknowledge(c)
        PROVE  FALSE
    BY <1>1, <2>1, <2>7 DEF ReleaseClaim, Acknowledge, Row, Has
  <2>8. ASSUME NEW a \in archiving, Released(a)
        PROVE  [key |-> j, number |-> row[j].number] \in archiving
    BY <1>1, <2>1, <2>8 DEF Released, Holds
  <2>9. ASSUME NEW a \in archiving, NotReleased(a)
        PROVE  FALSE
    BY <1>1, <2>1, <2>9 DEF NotReleased, Row, Has
  <2>10. row' # row
    BY <2>1
  <2>. QED
    BY <1>1, <2>2, <2>3, <2>4, <2>5, <2>6, <2>7, <2>8, <2>9, <2>10
    DEF Next, Reserve, ReserveAgain, Restore, Move, RefuseAck, States
<1>2. IInv /\ [Next]_vars =>
        [\A k \in Keys : Has(k) /\ (row[k].state = "reserved" \/ row[k].conflict) /\ row'[k].state = "none" =>
           [key |-> k, number |-> row[k].number] \in archiving]_vars
  BY <1>1
<1>. QED BY <1>2, Invariance, PTL DEF Spec, LeavesByItsRelease

SlotsBounded == IsFiniteSet(Held) /\ Cardinality(Held) <= MaxSlots

\* The mailbox never holds more rows than it has slots (restore, reserve).
THEOREM SlotsAreBounded == Spec => []SlotsBounded
<1>1. Init => SlotsBounded
  <2>1. Init => Held = {}
    BY DEF Init, NoRow, Held, Has
  <2>. QED BY <2>1, FS_EmptySet, SizesAssumption DEF SlotsBounded
<1>2. ASSUME IInv, SlotsBounded, [Next]_vars
      PROVE  SlotsBounded'
  <2>. USE DEF vars, kernel
  <2>1. ASSUME NEW k \in Keys, NEW e, NEW s \in States, NEW t, NewRow(k, e, s, t), NEW bytes, Room(bytes)
        PROVE  SlotsBounded'
    <3>1. Held' \subseteq Held \union {k}
      BY <1>2, <2>1, NewRowFields DEF IInv, OnlyRow, Held, Has
    <3>2. /\ IsFiniteSet(Held \union {k})
          /\ Cardinality(Held \union {k}) <= Cardinality(Held) + 1
      <4>1. IsFiniteSet(Held)
        BY <1>2 DEF SlotsBounded
      <4>2. /\ IsFiniteSet(Held \union {k})
            /\ Cardinality(Held \union {k}) = IF k \in Held THEN Cardinality(Held) ELSE Cardinality(Held) + 1
        BY <4>1, FS_AddElement
      <4>. QED BY <4>1, <4>2, FS_CardinalityType
    <3>3. IsFiniteSet(Held') /\ Cardinality(Held') <= Cardinality(Held \union {k}) /\ Cardinality(Held') \in Nat
      BY <3>1, <3>2, FS_Subset, FS_CardinalityType
    <3>. QED
      BY <1>2, <2>1, <3>2, <3>3, FS_CardinalityType, SizesAssumption DEF SlotsBounded, Room
  <2>2. ASSUME Held' \subseteq Held
        PROVE  SlotsBounded'
    BY <1>2, <2>2, FS_Subset, FS_CardinalityType, SizesAssumption DEF SlotsBounded
  <2>3. ASSUME NEW k \in Keys, NEW e \in Completions, Reserve(k, e)
        PROVE  SlotsBounded'
    BY <2>1, <2>3 DEF Reserve, States
  <2>4. ASSUME NEW k \in Keys, NEW e \in Completions, NEW t \in Texts, Restore(k, e, t)
        PROVE  SlotsBounded'
    BY <2>1, <2>4 DEF Restore, States
  <2>5. ASSUME NEW k \in Keys, row' = [row EXCEPT ![k] = NoRow]
        PROVE  Held' \subseteq Held
    BY <1>2, <2>5, GoneFields DEF IInv, OnlyRow, RowIs, Held, Has
  <2>6. ASSUME NEW k \in Keys, Dispute(k)
        PROVE  Held' \subseteq Held
    BY <1>2, <2>6, DisputeFields DEF IInv, OnlyRow, RowIs, Held, Has
  <2>7. ASSUME NEW k \in Keys, NEW e \in Completions, NEW t \in Texts, Settle(k, e, t)
        PROVE  Held' \subseteq Held
    BY <1>2, <2>6, <2>7, SettledFields DEF IInv, Settle, OnlyRow, RowIs, Held, Has
  <2>8. ASSUME NEW k \in Keys, TryClaim(k) \/ StartRelease(k)
        PROVE  Held' \subseteq Held
    BY <1>2, <2>8 DEF IInv, MTypeOK, Row, TryClaim, StartRelease, Held, Has
  <2>9. ASSUME NEW c \in claims, ReleaseClaim(c) \/ Acknowledge(c)
        PROVE  Held' \subseteq Held
    BY <1>2, <2>9 DEF IInv, MTypeOK, Row, ReleaseClaim, Acknowledge, Held, Has
  <2>10. ASSUME NEW a \in archiving, NotReleased(a)
         PROVE  Held' \subseteq Held
    BY <1>2, <2>10 DEF IInv, MTypeOK, Row, NotReleased, Held, Has
  <2>11. ASSUME UNCHANGED row
         PROVE  Held' \subseteq Held
    BY <2>11 DEF Held, Has
  <2>12. \A a \in archiving : a.key \in Keys
    BY <1>2 DEF IInv, MTypeOK
  <2>. QED
    BY <1>2, <2>2, <2>3, <2>4, <2>5, <2>6, <2>7, <2>8, <2>9, <2>10, <2>11, <2>12
    DEF Next, ReserveAgain, Move, Forget, Released, RefuseAck
<1>. QED BY <1>1, <1>2, Invariance, PTL DEF Spec

-----------------------------------------------------------------------------
(* The mailbox implements its promise.                                     *)

SlotOf(k) == [state |-> SlotState(k), text |-> row[k].text]
slotsBar  == [k \in Keys |-> SlotOf(k)]

\* A step on the row of one key is a step on its slot.
LEMMA OneSlot ==
  ASSUME NEW k \in Keys, OnlyRow(k)
  PROVE  slotsBar' = [slotsBar EXCEPT ![k] = SlotOf(k)']
<1>1. \A j \in Keys \ {k} : SlotOf(j)' = SlotOf(j)
  BY DEF OnlyRow, SlotOf, SlotState, Has
<1>. QED BY <1>1 DEF slotsBar

LEMMA SameSlots ==
  ASSUME NEW k \in Keys, OnlyRow(k), SlotOf(k)' = SlotOf(k)
  PROVE  UNCHANGED slotsBar
BY OneSlot DEF slotsBar

LEMMA TakenIsHeld ==
  ASSUME MTypeOK
  PROVE  Promise!Taken = Held /\ Promise!Cardinality(Held) = Cardinality(Held)
<1>1. \A k \in Keys : SlotState(k) # "free" <=> Has(k)
  BY DEF SlotState, Has
<1>2. Promise!Cardinality(Held) = Cardinality(Held)
  BY DEF Promise!Cardinality, Cardinality
<1>. QED BY <1>1, <1>2 DEF Promise!Taken, Held

\* A new row is the taking of a slot.
LEMMA NewTakes ==
  ASSUME IInv, NEW k \in Keys, NEW e, NEW bytes,
         NEW s \in States, NEW t \in Texts \union {None}, NewRow(k, e, s, t), ~Has(k),
         (s = "reserved" /\ t = None) \/ (s = "settled" /\ t \in Texts), Room(bytes)
  PROVE  Promise!Take(k)
<1>1. RowIs(k, s, t, FALSE, FALSE, FALSE, NoToken, made + 1) /\ OnlyRow(k)
  BY NewRowFields DEF IInv
<1>2. SlotOf(k) = Promise!Free
  BY DEF IInv, RowsNumbered, SlotOf, SlotState, NoRow, Promise!Free, Promise!Slot
<1>3. SlotOf(k)' = Promise!Slot(IF s = "reserved" THEN "reserved" ELSE "pending", t)
  BY <1>1 DEF RowIs, SlotOf, SlotState, Has, States, Promise!Slot
<1>4. Promise!Cardinality(Promise!Taken) < MaxSlots
  BY TakenIsHeld DEF Room, IInv
<1>5. SlotOf(k)' \in {Promise!Slot("reserved", None)} \union {Promise!Slot("pending", x) : x \in Texts}
  BY <1>3 DEF States
<1>6. slotsBar[k] = Promise!Free /\ slotsBar' = [slotsBar EXCEPT ![k] = SlotOf(k)']
  BY <1>1, <1>2, OneSlot DEF slotsBar
<1>. QED BY <1>4, <1>5, <1>6 DEF Promise!Take, slotsBar, SlotOf

LEMMA DisputeDisputes ==
  ASSUME IInv, NEW k \in Keys, Dispute(k), Has(k), ~row[k].conflict
  PROVE  Promise!Dispute(k)
<1>1. /\ RowIs(k, row[k].state, row[k].text, row[k].delivered, TRUE, row[k].closing, row[k].claim, row[k].number)
      /\ OnlyRow(k)
  BY DisputeFields DEF IInv
<1>2. SlotState(k) \in {"reserved", "pending", "delivered"}
  BY DEF SlotState
<1>3. SlotOf(k)' = [SlotOf(k) EXCEPT !.state = "disputed"]
  BY <1>1 DEF RowIs, SlotOf, SlotState, Has
<1>. QED BY <1>1, <1>2, <1>3, OneSlot DEF Promise!Dispute, slotsBar, SlotOf

LEMMA GoneGives ==
  ASSUME IInv, NEW k \in Keys, Has(k), row' = [row EXCEPT ![k] = NoRow]
  PROVE  Promise!Give(k)
<1>1. /\ RowIs(k, "none", None, FALSE, FALSE, FALSE, NoToken, 0)
      /\ OnlyRow(k)
  BY GoneFields DEF IInv
<1>2. SlotState(k) # "free"
  BY DEF SlotState
<1>3. SlotOf(k)' = Promise!Free
  BY <1>1 DEF RowIs, SlotOf, SlotState, Has, Promise!Free, Promise!Slot
<1>. QED BY <1>1, <1>2, <1>3, OneSlot DEF Promise!Give, slotsBar, SlotOf

\* Every step of the mailbox is a step of its promise, or none.
LEMMA PromiseStep ==
  ASSUME IInv, [Next]_vars
  PROVE  Promise!Next \/ UNCHANGED slotsBar
<1>. USE DEF vars, kernel
<1>1. ASSUME NEW k \in Keys, NEW e \in Completions, Reserve(k, e)
      PROVE  Promise!Take(k)
  BY <1>1, NewTakes DEF Reserve, States
<1>2. ASSUME NEW k \in Keys, NEW e \in Completions, NEW t \in Texts, Restore(k, e, t)
      PROVE  Promise!Take(k)
  BY <1>2, NewTakes DEF Restore, States
<1>3. ASSUME NEW k \in Keys, NEW e \in Completions, ReserveAgain(k, e)
      PROVE  Promise!Dispute(k) \/ UNCHANGED slotsBar
  <2>1. CASE ~row[k].conflict
    BY <1>3, <2>1, DisputeDisputes DEF ReserveAgain
  <2>2. CASE row[k].conflict
    <3>1. /\ RowIs(k, row[k].state, row[k].text, row[k].delivered, TRUE, row[k].closing, row[k].claim, row[k].number)
          /\ OnlyRow(k)
      BY <1>3, DisputeFields DEF IInv, ReserveAgain
    <3>2. SlotOf(k)' = SlotOf(k)
      BY <2>2, <3>1 DEF SlotOf, SlotState, Has, RowIs
    <3>. QED BY <3>1, <3>2, SameSlots
  <2>. QED BY <2>1, <2>2
<1>4. ASSUME NEW k \in Keys, NEW e \in Completions, NEW t \in Texts, Settle(k, e, t)
      PROVE  Promise!Fill(k) \/ Promise!Dispute(k)
  <2>1. CASE row[k].state = "reserved"
    <3>1. /\ RowIs(k, "settled", t, row[k].delivered, row[k].conflict, row[k].closing, row[k].claim, row[k].number)
          /\ OnlyRow(k)
      BY <1>4, <2>1, SettledFields DEF IInv, Settle
    <3>2. ~row[k].delivered /\ ~row[k].conflict
      BY <1>4, <2>1 DEF IInv, ClaimsPending, Settle
    <3>3. SlotState(k) = "reserved"
      BY <2>1, <3>2 DEF SlotState, Has
    <3>4. SlotOf(k)' = Promise!Slot("pending", t)
      BY <3>1, <3>2 DEF SlotOf, SlotState, Has, RowIs, Promise!Slot
    <3>. QED BY <3>1, <3>3, <3>4, OneSlot DEF Promise!Fill, slotsBar, SlotOf
  <2>2. CASE row[k].state # "reserved"
    BY <1>4, <2>2, DisputeDisputes DEF Settle
  <2>. QED BY <2>1, <2>2
<1>5. ASSUME NEW k \in Keys, TryClaim(k)
      PROVE  UNCHANGED slotsBar
  <2>1. minted + 1 \in Nat
    BY DEF IInv, MTypeOK
  <2>2. /\ RowIs(k, row[k].state, row[k].text, row[k].delivered, row[k].conflict, row[k].closing, minted + 1, row[k].number)
        /\ OnlyRow(k)
    BY <1>5, <2>1, ClaimFields DEF IInv, TryClaim
  <2>. QED BY <2>2, SameSlots DEF SlotOf, SlotState, Has, RowIs
<1>6. ASSUME NEW k \in Keys, StartRelease(k)
      PROVE  UNCHANGED slotsBar
  <2>1. /\ RowIs(k, row[k].state, row[k].text, row[k].delivered, row[k].conflict, TRUE, row[k].claim, row[k].number)
        /\ OnlyRow(k)
    BY <1>6, ClosingFields DEF IInv, StartRelease
  <2>. QED BY <2>1, SameSlots DEF SlotOf, SlotState, Has, RowIs
<1>7. ASSUME NEW k \in Keys, NEW t \in Texts, Forget(k, t)
      PROVE  Promise!Give(k)
  BY <1>7, GoneGives DEF Forget
<1>8. ASSUME NEW c \in claims, ReleaseClaim(c)
      PROVE  UNCHANGED slotsBar
  <2>1. c.key \in Keys
    BY DEF IInv, MTypeOK
  <2>2. /\ RowIs(c.key, row[c.key].state, row[c.key].text, row[c.key].delivered, row[c.key].conflict,
                 row[c.key].closing, NoToken, row[c.key].number)
        /\ OnlyRow(c.key)
    BY <1>8, <2>1, ClaimFields DEF IInv, ReleaseClaim, NoToken
  <2>. QED BY <2>1, <2>2, SameSlots DEF SlotOf, SlotState, Has, RowIs
<1>9. ASSUME NEW c \in claims, Acknowledge(c)
      PROVE  Promise!Deliver(c.key)
  <2>. DEFINE k == c.key
  <2>1. k \in Keys
    BY DEF IInv, MTypeOK
  <2>2. /\ RowIs(k, row[k].state, row[k].text, TRUE, row[k].conflict, row[k].closing, NoToken, row[k].number)
        /\ OnlyRow(k)
    BY <1>9, <2>1, AckFields DEF IInv, Acknowledge
  <2>3. row[k].state = "settled" /\ ~row[k].delivered /\ ~row[k].conflict
    BY <1>9, <2>1 DEF IInv, ClaimsPending, Acknowledge, Claiming
  <2>4. SlotState(k) = "pending"
    BY <2>3 DEF SlotState, Has
  <2>5. SlotOf(k)' = [SlotOf(k) EXCEPT !.state = "delivered"]
    BY <2>2, <2>3 DEF SlotOf, SlotState, Has, RowIs
  <2>. QED BY <2>1, <2>2, <2>4, <2>5, OneSlot DEF Promise!Deliver, slotsBar, SlotOf
<1>10. ASSUME NEW a \in archiving, Released(a)
       PROVE  Promise!Give(a.key)
  <2>1. a.key \in Keys
    BY DEF IInv, MTypeOK
  <2>. QED BY <1>10, <2>1, GoneGives DEF Released, Holds
<1>11. ASSUME NEW a \in archiving, NotReleased(a)
       PROVE  UNCHANGED slotsBar
  <2>1. a.key \in Keys
    BY DEF IInv, MTypeOK
  <2>2. CASE Holds(a)
    <3>1. /\ RowIs(a.key, row[a.key].state, row[a.key].text, row[a.key].delivered, row[a.key].conflict,
                   FALSE, row[a.key].claim, row[a.key].number)
          /\ OnlyRow(a.key)
      BY <1>11, <2>1, <2>2, ClosingFields DEF IInv, NotReleased
    <3>. QED BY <2>1, <3>1, SameSlots DEF SlotOf, SlotState, Has, RowIs
  <2>3. CASE ~Holds(a)
    BY <1>11, <2>3 DEF NotReleased, slotsBar, SlotOf, SlotState, Has
  <2>. QED BY <2>2, <2>3
<1>12. CASE UNCHANGED row
  BY <1>12 DEF slotsBar, SlotOf, SlotState, Has
<1>13. ASSUME NEW k \in Keys, NEW e \in Completions, Move(k, e)
       PROVE  UNCHANGED row
  BY <1>13 DEF Move
<1>. QED
  <2>1. \A a \in archiving : a.key \in Keys
    BY DEF IInv, MTypeOK
  <2>2. \A c \in claims : c.key \in Keys
    BY DEF IInv, MTypeOK
  <2>. QED
    BY <1>1, <1>2, <1>3, <1>4, <1>5, <1>6, <1>7, <1>8, <1>9, <1>10, <1>11, <1>12, <1>13, <2>1, <2>2
    DEF Next, RefuseAck, Promise!Next

\* The mailbox keeps what it promises its host: every behaviour of it is one of MailboxPromise.
THEOREM Implements == Spec => PromiseKept
<1>1. Init => Promise!Init
  BY DEF Init, NoRow, SlotState, Has, Promise!Init, Promise!Free, Promise!Slot
<1>2. IInv /\ [Next]_vars => [Promise!Next]_slotsBar
  BY PromiseStep
<1>3. IInv /\ [Next]_vars => [Promise!Next]_([k \in Keys |-> [state |-> SlotState(k), text |-> row[k].text]])
  BY <1>2 DEF slotsBar, SlotOf
<1>. QED BY <1>1, <1>3, Invariance, PTL DEF Spec, PromiseKept, Promise!Spec


-----------------------------------------------------------------------------
(* The bytes of the rows.  Their sum is recursive, and the induction over  *)
(* it is in three steps: the cells of a set, one per byte of each of its   *)
(* elements, are counted; that count satisfies the recursion; and nothing  *)
(* else does, for else there were a smallest set where it differs.         *)

\* Of the subsets of a finite set, a collection that is not empty has one that contains no other of them.
LEMMA SmallestSubset ==
  ASSUME NEW S, IsFiniteSet(S), NEW C \in SUBSET SUBSET S, C # {}
  PROVE  \E s \in C : \A t \in C : t \subseteq s => t = s
<1>1. FiniteSubsetsOf(S) = SUBSET S
  BY FS_FiniteSubsetsOfFinite
<1>2. IsWellFoundedOn(StrictSubsetOrdering(S), SUBSET S)
  BY <1>1, FS_StrictSubsetOrderingWellFounded
<1>3. PICK s \in C : \A t \in C : ~(<<t, s>> \in StrictSubsetOrdering(S))
  BY <1>2, WFMin, Zenon
<1>4. ASSUME NEW t \in C, t \subseteq s
      PROVE  t = s
  <2>1. <<t, s>> \in (SUBSET S) \X (SUBSET S)
    OBVIOUS
  <2>. QED BY <1>3, <1>4, <2>1 DEF StrictSubsetOrdering
<1>. QED BY <1>3, <1>4

Cells(f, s) == UNION {{x} \X (1 .. f[x]) : x \in s}

LEMMA CellsOfOne ==
  ASSUME NEW x, NEW n \in Nat
  PROVE  IsFiniteSet({x} \X (1 .. n)) /\ Cardinality({x} \X (1 .. n)) = n
<1>1. IsFiniteSet({x}) /\ Cardinality({x}) = 1
  BY FS_Singleton
<1>2. IsFiniteSet(1 .. n) /\ Cardinality(1 .. n) = n
  BY FS_Interval
<1>3. IsFiniteSet({x} \X (1 .. n)) /\ Cardinality({x} \X (1 .. n)) = Cardinality({x}) * Cardinality(1 .. n)
  BY <1>1, <1>2, FS_Product
<1>. QED BY <1>1, <1>2, <1>3

\* The cells of an element come on top of those of the others.
LEMMA CellsAdd ==
  ASSUME NEW f, NEW s, NEW x \in s, f[x] \in Nat, IsFiniteSet(Cells(f, s \ {x}))
  PROVE  IsFiniteSet(Cells(f, s)) /\ Cardinality(Cells(f, s)) = f[x] + Cardinality(Cells(f, s \ {x}))
<1>. DEFINE a == {x} \X (1 .. f[x])
            b == Cells(f, s \ {x})
<1>1. Cells(f, s) = a \union b
  BY DEF Cells
<1>2. a \cap b = {}
  BY DEF Cells
<1>3. IsFiniteSet(a) /\ Cardinality(a) = f[x]
  BY CellsOfOne
<1>. HIDE DEF a, b
<1>4. /\ IsFiniteSet(a \union b)
      /\ Cardinality(a \union b) = Cardinality(a) + Cardinality(b) - Cardinality(a \cap b)
  BY <1>3, FS_Union DEF b
<1>5. Cardinality(a \cap b) = 0 /\ Cardinality(b) \in Nat
  BY <1>2, FS_EmptySet, FS_CardinalityType DEF b
<1>. QED BY <1>1, <1>3, <1>4, <1>5 DEF b

LEMMA CellsFinite ==
  ASSUME NEW S, IsFiniteSet(S), NEW f \in [S -> Nat]
  PROVE  \A s \in SUBSET S : IsFiniteSet(Cells(f, s))
<1>. DEFINE C == {s \in SUBSET S : ~IsFiniteSet(Cells(f, s))}
<1>1. ASSUME C # {}
      PROVE  FALSE
  <2>0. C \in SUBSET SUBSET S
    OBVIOUS
  <2>1. PICK s \in C : \A t \in C : t \subseteq s => t = s
    <3>. HIDE DEF C
    <3>. QED BY <1>1, <2>0, SmallestSubset
  <2>2. s # {}
    <3>1. Cells(f, {}) = {}
      BY DEF Cells
    <3>. QED BY <2>1, <3>1, FS_EmptySet
  <2>3. PICK x \in s : TRUE
    BY <2>2
  <2>4. s \ {x} \notin C
    BY <2>1, <2>3
  <2>. QED BY <2>1, <2>3, <2>4, CellsAdd
<1>. QED BY <1>1

Element(s) == CHOOSE x \in s : TRUE

\* g is the sum of f over each subset of S, as it is computed.
Sums(S, f, g) == g = [s \in SUBSET S |-> IF s = {} THEN 0 ELSE f[Element(s)] + g[s \ {Element(s)}]]

LEMMA CellsSum ==
  ASSUME NEW S, IsFiniteSet(S), NEW f \in [S -> Nat]
  PROVE  Sums(S, f, [s \in SUBSET S |-> Cardinality(Cells(f, s))])
<1>. DEFINE g == [s \in SUBSET S |-> Cardinality(Cells(f, s))]
<1>1. ASSUME NEW s \in SUBSET S
      PROVE  g[s] = IF s = {} THEN 0 ELSE f[Element(s)] + g[s \ {Element(s)}]
  <2>1. CASE s = {}
    <3>1. Cells(f, {}) = {}
      BY DEF Cells
    <3>. QED BY <2>1, <3>1, FS_EmptySet
  <2>2. CASE s # {}
    <3>1. Element(s) \in s
      BY <2>2 DEF Element
    <3>2. Cardinality(Cells(f, s)) = f[Element(s)] + Cardinality(Cells(f, s \ {Element(s)}))
      BY <3>1, CellsFinite, CellsAdd
    <3>. QED BY <2>2, <3>2
  <2>. QED BY <2>1, <2>2
<1>. HIDE DEF g
<1>2. g = [s \in SUBSET S |-> g[s]]
  BY DEF g
<1>. QED BY <1>1, <1>2 DEF Sums, g

LEMMA SumsUnique ==
  ASSUME NEW S, IsFiniteSet(S), NEW f, NEW g, Sums(S, f, g), NEW h, Sums(S, f, h)
  PROVE  g[S] = h[S]
<1>. DEFINE C == {s \in SUBSET S : g[s] # h[s]}
<1>1. ASSUME C # {}
      PROVE  FALSE
  <2>0. C \in SUBSET SUBSET S
    OBVIOUS
  <2>1. PICK s \in C : \A t \in C : t \subseteq s => t = s
    <3>. HIDE DEF C
    <3>. QED BY <1>1, <2>0, SmallestSubset
  <2>2. /\ g[s] = IF s = {} THEN 0 ELSE f[Element(s)] + g[s \ {Element(s)}]
        /\ h[s] = IF s = {} THEN 0 ELSE f[Element(s)] + h[s \ {Element(s)}]
    BY <2>1 DEF Sums
  <2>3. s # {}
    BY <2>1, <2>2
  <2>4. Element(s) \in s
    BY <2>3 DEF Element
  <2>5. s \ {Element(s)} \notin C
    BY <2>1, <2>4
  <2>. QED BY <2>1, <2>2, <2>3, <2>5
<1>. QED BY <1>1

\* What the rows take, as a function.
Weight == [k \in Held |-> Bytes(k)]

LEMMA TotalIsCells ==
  ASSUME IsFiniteSet(Held), \A k \in Held : Bytes(k) \in Nat
  PROVE  TotalOf(Held) = Cardinality(Cells(Weight, Held))
<1>. DEFINE Body(g) == [s \in SUBSET Held |->
              IF s = {} THEN 0 ELSE Bytes(CHOOSE x \in s : TRUE) + g[s \ {CHOOSE x \in s : TRUE}]]
            iter == CHOOSE g : g = Body(g)
            cells == [s \in SUBSET Held |-> Cardinality(Cells(Weight, s))]
<1>1. Weight \in [Held -> Nat]
  BY DEF Weight
<1>2. ASSUME NEW g
      PROVE  Sums(Held, Weight, g) <=> g = Body(g)
  <2>1. \A s \in SUBSET Held : s # {} => Element(s) \in s /\ Weight[Element(s)] = Bytes(CHOOSE x \in s : TRUE)
    BY DEF Element, Weight
  <2>2. [s \in SUBSET Held |-> IF s = {} THEN 0 ELSE Weight[Element(s)] + g[s \ {Element(s)}]] = Body(g)
    BY <2>1 DEF Element
  <2>. QED BY <2>2 DEF Sums
<1>3. Sums(Held, Weight, cells)
  BY <1>1, CellsSum
<1>4. TotalOf(Held) = iter[Held]
  BY DEF TotalOf, MapThenSumSet, MapThenFoldSet
<1>5. iter = Body(iter)
  <2>1. cells = Body(cells)
    BY <1>2, <1>3
  <2>. HIDE DEF Body, cells
  <2>. QED BY <2>1
<1>6. Sums(Held, Weight, iter)
  <2>. HIDE DEF iter, Body
  <2>. QED BY <1>2, <1>5
<1>. HIDE DEF iter, Body
<1>7. iter[Held] = cells[Held]
  <2>. HIDE DEF cells
  <2>. QED BY <1>3, <1>6, SumsUnique
<1>. QED BY <1>4, <1>7

LEMMA CellsFewer ==
  ASSUME NEW S, IsFiniteSet(S), NEW f \in [S -> Nat], NEW T \in SUBSET S, NEW g \in [T -> Nat], \A x \in T : g[x] <= f[x]
  PROVE  /\ Cardinality(Cells(g, T)) <= Cardinality(Cells(f, S))
         /\ Cardinality(Cells(g, T)) \in Nat /\ Cardinality(Cells(f, S)) \in Nat
<1>1. Cells(g, T) \subseteq Cells(f, S)
  <2>1. ASSUME NEW x \in T, NEW i \in 1 .. g[x]
        PROVE  x \in S /\ i \in 1 .. f[x]
    BY <2>1
  <2>. QED BY <2>1 DEF Cells
<1>2. IsFiniteSet(Cells(f, S))
  BY CellsFinite
<1>. QED BY <1>1, <1>2, FS_Subset, FS_CardinalityType

LEMMA CellsMore ==
  ASSUME NEW S, IsFiniteSet(S), NEW f \in [S -> Nat], NEW x, x \notin S, NEW g \in [S \union {x} -> Nat],
         \A y \in S : g[y] = f[y]
  PROVE  /\ Cardinality(Cells(g, S \union {x})) = g[x] + Cardinality(Cells(f, S))
         /\ Cardinality(Cells(f, S)) \in Nat
<1>1. (S \union {x}) \ {x} = S /\ Cells(g, S) = Cells(f, S)
  BY DEF Cells
<1>2. IsFiniteSet(Cells(f, S))
  BY CellsFinite
<1>. QED BY <1>1, <1>2, CellsAdd, FS_CardinalityType

Weighed == \A k \in Held : Bytes(k) \in Nat

LEMMA RowsWeigh ==
  ASSUME MTypeOK
  PROVE  Weighed /\ Weight \in [Held -> Nat]
<1>1. ASSUME NEW k \in Held
      PROVE  Bytes(k) \in Nat
  <2>1. row[k].state \in {"reserved", "settled"} /\ (row[k].state = "settled" => row[k].text \in Texts)
    BY <1>1 DEF Held, Has, MTypeOK, Row, States
  <2>. QED BY <2>1, SizesAssumption DEF Bytes
<1>. QED BY <1>1 DEF Weighed, Weight

BytesBounded == Cardinality(Cells(Weight, Held)) <= TotalBytes

\* A step that changes no more than what is in a row, gives rows up, or puts a text where it was reserved for.
Lightens ==
  \A k \in Keys :
    \/ row'[k].state = row[k].state /\ row'[k].text = row[k].text
    \/ row'[k].state = "none"
    \/ row[k].state = "reserved" /\ row'[k].state = "settled" /\ row'[k].text \in Texts

LEMMA LightensIs ==
  ASSUME IsFiniteSet(Held), MTypeOK, BytesBounded, Lightens
  PROVE  BytesBounded'
<1>1. Held' \subseteq Held
  BY DEF Lightens, Held, Has
<1>2. ASSUME NEW k \in Held'
      PROVE  Bytes(k)' \in Nat /\ Bytes(k)' <= Bytes(k)
  <2>1. k \in Held /\ row'[k].state # "none"
    BY <1>1 DEF Held, Has
  <2>2. CASE row'[k].state = row[k].state /\ row'[k].text = row[k].text
    <3>1. Bytes(k)' = Bytes(k)
      BY <2>2 DEF Bytes
    <3>2. Bytes(k) \in Nat
      BY <2>1, RowsWeigh DEF Weighed
    <3>. QED BY <3>1, <3>2
  <2>3. CASE row[k].state = "reserved" /\ row'[k].state = "settled" /\ row'[k].text \in Texts
    BY <2>3, SizesAssumption DEF Bytes
  <2>. QED BY <2>1, <2>2, <2>3 DEF Lightens, Held
<1>3. Weight' \in [Held' -> Nat]
  BY <1>2 DEF Weight
<1>4. \A k \in Held' : Weight'[k] <= Weight[k]
  BY <1>1, <1>2 DEF Weight
<1>5. Weight \in [Held -> Nat]
  BY RowsWeigh
<1>. DEFINE f == Weight
            g == Weight'
            S == Held
            T == Held'
<1>6. IsFiniteSet(S) /\ f \in [S -> Nat] /\ T \in SUBSET S /\ g \in [T -> Nat] /\ \A k \in T : g[k] <= f[k]
  BY <1>1, <1>3, <1>4, <1>5
<1>. HIDE DEF f, g, S, T
<1>7. /\ Cardinality(Cells(g, T)) <= Cardinality(Cells(f, S))
      /\ Cardinality(Cells(g, T)) \in Nat /\ Cardinality(Cells(f, S)) \in Nat
  BY <1>6, CellsFewer
<1>. QED BY <1>7, SizesAssumption DEF BytesBounded, f, g, S, T

\* A new row takes what there was room for.
LEMMA NewRowWeighs ==
  ASSUME IsFiniteSet(Held), MTypeOK, NEW k \in Keys, ~Has(k), NEW e, NEW s \in States, NEW t, NewRow(k, e, s, t),
         NEW bytes \in Nat, bytes = (IF s = "reserved" THEN BodyBytes ELSE Size[t]), Room(bytes)
  PROVE  BytesBounded'
<1>1. row'[k].state = s /\ row'[k].text = t /\ \A j \in Keys \ {k} : row'[j] = row[j]
  BY NewRowFields DEF RowIs, OnlyRow
<1>2. Held' = Held \union {k} /\ k \notin Held
  BY <1>1 DEF Held, Has, States
<1>3. Bytes(k)' = bytes /\ \A j \in Held : Bytes(j)' = Bytes(j)
  BY <1>1, <1>2 DEF Bytes, Held
<1>4. Weighed /\ Weight \in [Held -> Nat]
  BY RowsWeigh
<1>. DEFINE f == Weight
            g == Weight'
            S == Held
<1>5. /\ IsFiniteSet(S) /\ f \in [S -> Nat] /\ k \notin S /\ g \in [S \union {k} -> Nat] /\ g[k] = bytes
      /\ \A j \in S : g[j] = f[j]
  BY <1>2, <1>3, <1>4 DEF Weight, Weighed
<1>6. Cardinality(Cells(f, S)) + bytes <= TotalBytes
  <2>1. TotalOf(Held) = Cardinality(Cells(Weight, Held))
    BY <1>4, TotalIsCells DEF Weighed
  <2>. QED BY <2>1 DEF Room
<1>. HIDE DEF f, g, S
<1>7. Cardinality(Cells(g, S \union {k})) = g[k] + Cardinality(Cells(f, S)) /\ Cardinality(Cells(f, S)) \in Nat
  BY <1>5, CellsMore
<1>8. Cardinality(Cells(g, S \union {k})) <= TotalBytes
  BY <1>5, <1>6, <1>7, SizesAssumption
<1>. QED BY <1>2, <1>8 DEF BytesBounded, g, S

LEMMA BytesStep ==
  ASSUME IInv, SlotsBounded, BytesBounded, [Next]_vars
  PROVE  BytesBounded'
<1>. USE DEF vars, kernel
<1>1. MTypeOK /\ IsFiniteSet(Held)
  BY DEF IInv, SlotsBounded
<1>2. ASSUME Lightens
      PROVE  BytesBounded'
  BY <1>1, <1>2, LightensIs
<1>3. ASSUME NEW k \in Keys, NEW e \in Completions, Reserve(k, e)
      PROVE  BytesBounded'
  BY <1>1, <1>3, NewRowWeighs, SizesAssumption DEF Reserve, States
<1>4. ASSUME NEW k \in Keys, NEW e \in Completions, NEW t \in Texts, Restore(k, e, t)
      PROVE  BytesBounded'
  <2>1. Size[t] \in Nat
    BY SizesAssumption
  <2>. QED BY <1>1, <1>4, <2>1, NewRowWeighs DEF Restore, States
<1>5. ASSUME NEW k \in Keys, row' = [row EXCEPT ![k] = NoRow]
      PROVE  Lightens
  BY <1>1, <1>5, GoneFields DEF OnlyRow, RowIs, Lightens
<1>6. ASSUME NEW k \in Keys, Dispute(k)
      PROVE  Lightens
  BY <1>1, <1>6, DisputeFields DEF OnlyRow, RowIs, Lightens
<1>7. ASSUME NEW k \in Keys, NEW e \in Completions, NEW t \in Texts, Settle(k, e, t)
      PROVE  Lightens
  BY <1>1, <1>6, <1>7, SettledFields DEF Settle, OnlyRow, RowIs, Lightens
<1>8. ASSUME NEW k \in Keys, TryClaim(k) \/ StartRelease(k)
      PROVE  Lightens
  BY <1>1, <1>8 DEF MTypeOK, Row, TryClaim, StartRelease, Lightens
<1>9. ASSUME NEW c \in claims, ReleaseClaim(c) \/ Acknowledge(c)
      PROVE  Lightens
  BY <1>1, <1>9 DEF MTypeOK, Row, ReleaseClaim, Acknowledge, Lightens
<1>10. ASSUME NEW a \in archiving, NotReleased(a)
       PROVE  Lightens
  BY <1>1, <1>10 DEF MTypeOK, Row, NotReleased, Lightens
<1>11. ASSUME UNCHANGED row
       PROVE  Lightens
  BY <1>11 DEF Lightens
<1>12. \A a \in archiving : a.key \in Keys
  BY <1>1 DEF MTypeOK
<1>. QED
  BY <1>2, <1>3, <1>4, <1>5, <1>6, <1>7, <1>8, <1>9, <1>10, <1>11, <1>12
  DEF Next, ReserveAgain, Move, Forget, Released, RefuseAck

\* Whatever comes back, settles or is given up, the rows stay within the bounds on their number and on their bytes: the
\* text that settles a row fits where the row was reserved (usage, reserve, restore, settle).
THEOREM RowsStayWithinBounds == Spec => []WithinBounds
<1>1. Init => BytesBounded
  <2>. SUFFICES ASSUME Init PROVE BytesBounded
    OBVIOUS
  <2>1. Held = {}
    BY DEF Init, NoRow, Held, Has
  <2>2. Cells(Weight, Held) = {}
    BY <2>1 DEF Cells
  <2>. QED BY <2>2, FS_EmptySet, SizesAssumption DEF BytesBounded
<1>2. IInv /\ SlotsBounded /\ BytesBounded /\ [Next]_vars => BytesBounded'
  BY BytesStep
<1>3. IInv /\ SlotsBounded /\ BytesBounded => WithinBounds
  <2>. SUFFICES ASSUME IInv, SlotsBounded, BytesBounded PROVE WithinBounds
    OBVIOUS
  <2>1. TotalOf(Held) = Cardinality(Cells(Weight, Held))
    BY RowsWeigh, TotalIsCells DEF IInv, SlotsBounded, Weighed
  <2>. QED BY <2>1 DEF SlotsBounded, BytesBounded, WithinBounds
<1>. QED BY <1>1, <1>2, <1>3, Invariance, SlotsAreBounded, PTL DEF Spec

=============================================================================
