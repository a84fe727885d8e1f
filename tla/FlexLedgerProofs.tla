--------------------------- MODULE FlexLedgerProofs ---------------------------
(***************************************************************************)
(* FlexReservations implements CommissionLedger: whatever the requests do, *)
(* a booking and its commission move together as the commission side is    *)
(* promised.  Every step of a handler that writes rows is an Open, a Move, *)
(* a Cancel or a Hide of the ledger; every other step is a stutter.        *)
(***************************************************************************)
EXTENDS FlexReservationsProofs

-----------------------------------------------------------------------------
(* The ledger's actions, reservation by reservation.                        *)

Amounts == {FlexCommission(m) : m \in Monthly \union {0}}

OthersKept(f) ==
  \A g \in Flex \ {f} : booking'[g] = booking[g] /\ commission'[g] = commission[g]

LEMMA MoveStep ==
  ASSUME NEW f \in Flex, OthersKept(f), NEW b \in Status, NEW a \in Amounts,
         commission[f].status # "ABSENT",
         b \in (Status \ {"CANCELLED"}) \union {booking[f].status},
         commission[f].status # "PENDING" => a = commission[f].amount,
         booking'[f].status = b,
         booking'[f].profile = booking[f].profile,
         booking'[f].deleted = booking[f].deleted,
         commission'[f].status =
           IF b = "CONFIRMED" /\ commission[f].status = "PENDING"
           THEN "APPROVED" ELSE commission[f].status,
         commission'[f].amount = a
  PROVE  Ledger!LedgerNext
<1>1. b \in Ledger!BookingStatus
  BY DEF Ledger!BookingStatus, Status
<1>2. Ledger!Move(f, b, a)
  BY DEF Ledger!Move, Ledger!BookingStatus, Status, OthersKept
<1> QED BY <1>1, <1>2 DEF Ledger!LedgerNext, Amounts

LEMMA CancelStep ==
  ASSUME NEW f \in Flex, OthersKept(f),
         commission[f].status # "ABSENT",
         booking'[f].status = "CANCELLED",
         booking'[f].profile = booking[f].profile,
         booking'[f].deleted = booking[f].deleted,
         commission'[f].status = "CANCELLED",
         commission'[f].amount = commission[f].amount
  PROVE  Ledger!LedgerNext
BY DEF Ledger!LedgerNext, Ledger!Cancel, OthersKept

LEMMA HideStep ==
  ASSUME NEW f \in Flex, OthersKept(f),
         commission[f].status # "ABSENT",
         booking'[f].status = booking[f].status,
         booking'[f].profile = booking[f].profile,
         booking'[f].deleted = TRUE,
         commission'[f] = commission[f]
  PROVE  Ledger!LedgerNext
BY DEF Ledger!LedgerNext, Ledger!Hide, OthersKept

LEMMA OpenStep ==
  ASSUME NEW f \in Flex, OthersKept(f),
         NEW p \in Profile \union {None}, NEW a \in Amounts,
         commission[f].status = "ABSENT",
         booking'[f].status = "PENDING",
         booking'[f].profile = p,
         booking'[f].deleted = booking[f].deleted,
         commission'[f].status = "PENDING",
         commission'[f].amount = a
  PROVE  Ledger!LedgerNext
<1>1. Ledger!Open(f, p, "PENDING", "PENDING", a)
  BY DEF Ledger!Open, OthersKept
<1> QED BY <1>1 DEF Ledger!LedgerNext, Amounts

LEMMA StutterStep ==
  ASSUME UNCHANGED <<booking, commission>>
  PROVE  UNCHANGED Ledger!ledger
BY DEF Ledger!ledger

-----------------------------------------------------------------------------
(* What the invariant says of a reservation that exists.                    *)
LEMMA Existing ==
  ASSUME IInv, NEW f \in Flex, Exists(f)
  PROVE  /\ booking \in [Flex -> BookingRow]
         /\ commission \in [Flex -> CommissionRow]
         /\ booking[f] \in BookingRow
         /\ commission[f] \in CommissionRow
         /\ commission[f].status # "ABSENT"
         /\ commission[f].amount \in Amounts
         /\ booking[f].status \in Status
         /\ booking[f].status = "CONFIRMED" => commission[f].status # "PENDING"
<1>1. Sound(flexBooking[f], booking[f], commission[f], history[f])
  BY RowTypes
<1>2. /\ booking \in [Flex -> BookingRow]
      /\ commission \in [Flex -> CommissionRow]
      /\ history[f] \subseteq Status
  BY DEF IInv, TypeOK
<1>3. booking[f].status \in history[f]
  BY <1>1 DEF Sound, Exists
<1> QED BY <1>1, <1>2, <1>3 DEF Sound, Exists, Amounts

(* A request past its first step works on a reservation that exists.        *)
LEMMA WorksOn ==
  ASSUME IInv, NEW p \in Request, req[p].pc \notin {"idle", "createCommit"}
  PROVE  req[p].flex \in Flex /\ Exists(req[p].flex)
<1>1. TypeOK /\ Informed(req[p])
  BY DEF IInv, AllInformed
<1> QED BY <1>1, RequestFlex DEF Informed

LEMMA ConfirmLedger ==
  ASSUME IInv, NEW f \in Flex, Exists(f),
         booking' = [booking EXCEPT ![f].status = "CONFIRMED"],
         \/ commission' = [commission EXCEPT ![f] = ApprovedOnConfirm(@)]
         \/ booking[f].status = "CONFIRMED" /\ commission' = commission
  PROVE  Ledger!LedgerNext
<1> DEFINE a == commission[f].amount
<1>1. OthersKept(f)
  BY Existing DEF OthersKept
<1>2. booking'[f] = [booking[f] EXCEPT !.status = "CONFIRMED"]
  BY Existing
<1>3. /\ booking'[f].status = "CONFIRMED"
      /\ booking'[f].profile = booking[f].profile
      /\ booking'[f].deleted = booking[f].deleted
  BY <1>2, Existing DEF BookingRow
<1>4. commission'[f] = ApprovedOnConfirm(commission[f])
  BY Existing DEF ApprovedOnConfirm
<1>5. /\ commission'[f].status =
           IF commission[f].status = "PENDING" THEN "APPROVED"
           ELSE commission[f].status
      /\ commission'[f].amount = a
  BY <1>4, Existing DEF ApprovedOnConfirm, CommissionRow
<1>6. "CONFIRMED" \in Status \ {"CANCELLED"}
  BY DEF Status
<1>7. a \in Amounts /\ commission[f].status # "ABSENT"
  BY Existing
<1> QED BY <1>1, <1>3, <1>5, <1>6, <1>7, MoveStep DEF OthersKept

LEMMA UpdateLedger ==
  ASSUME IInv, NEW p \in Request, UpdateCommit(p)
  PROVE  Ledger!LedgerNext
<1> DEFINE r == req[p]
           f == r.flex
           b == NewStatus(r.dto, booking[f].status)
           priced == IF r.dto.monthly # None \/ r.dto.reprices
                     THEN Repriced(commission[f], r.monthly) ELSE commission[f]
           a == priced.amount
           confirms == r.dto.status = "CONFIRMED" /\ booking[f].status # "CONFIRMED"
<1>1. f \in Flex /\ Exists(f)
  BY WorksOn DEF UpdateCommit, At
<1>2. r.dto \in Dto /\ r.monthly \in Monthly \union {0}
  BY RequestAt, DtoAssumption DEF UpdateCommit, At, Updating, IInv, TypeOK
<1>3. b \in (Status \ {"CANCELLED"}) \union {booking[f].status}
  BY <1>2 DEF NewStatus, Dto
<1>4. OthersKept(f)
  BY <1>1, Existing DEF UpdateCommit, OthersKept
<1>5. booking'[f] = BookingUpdated(booking[f], r)
  BY <1>1, Existing DEF UpdateCommit
<1>6. /\ booking'[f].status = b
      /\ booking'[f].profile = booking[f].profile
      /\ booking'[f].deleted = booking[f].deleted
  BY <1>1, <1>5, Existing DEF BookingUpdated, BookingRow
<1>7. commission'[f] = IF confirms THEN ApprovedOnConfirm(priced) ELSE priced
  BY <1>1, Existing DEF UpdateCommit
<1>8. /\ priced \in CommissionRow
      /\ priced.status = commission[f].status
      /\ a \in Amounts
      /\ commission[f].status # "PENDING" => a = commission[f].amount
  BY <1>1, <1>2, Existing, CommissionUpdatedType
     DEF Repriced, CommissionRow, Amounts
<1>9. confirms <=> b = "CONFIRMED" /\ booking[f].status # "CONFIRMED"
  BY <1>2, NoneAssumption DEF NewStatus, Status
<1>10. /\ commission'[f].status =
            IF b = "CONFIRMED" /\ commission[f].status = "PENDING"
            THEN "APPROVED" ELSE commission[f].status
       /\ commission'[f].amount = a
  <2>1. booking[f].status = "CONFIRMED" => commission[f].status # "PENDING"
    BY <1>1, Existing
  <2> HIDE DEF confirms, priced, b
  <2> QED BY <1>7, <1>8, <1>9, <2>1 DEF ApprovedOnConfirm, CommissionRow
<1>11. b \in Status /\ commission[f].status # "ABSENT"
  BY <1>1, <1>3, Existing
<1> HIDE DEF b, a, f
<1> QED BY <1>1, <1>3, <1>4, <1>6, <1>8, <1>10, <1>11, MoveStep DEF OthersKept

LEMMA CreateLedger ==
  ASSUME IInv, NEW p \in Request, NEW f \in Flex, CreateCommit(p, f)
  PROVE  Ledger!LedgerNext
<1> DEFINE r == req[p]
           a == FlexCommission(r.monthly)
<1>1. r.profile \in Profile \union {None} /\ r.monthly \in Monthly
  BY RequestAt DEF CreateCommit, At, Creating, IInv, TypeOK
<1>2. booking \in [Flex -> BookingRow] /\ commission \in [Flex -> CommissionRow]
  BY DEF IInv, TypeOK
<1>3. commission[f].status = "ABSENT" /\ ~booking[f].deleted
  BY RowTypes DEF CreateCommit, Exists, Sound
<1>4. /\ OthersKept(f)
      /\ booking'[f] = [start |-> r.start, end |-> r.end, profile |-> r.profile,
                        deleted |-> FALSE, status |-> "PENDING"]
      /\ commission'[f] = [status |-> "PENDING", amount |-> a]
  BY <1>2 DEF CreateCommit, OthersKept
<1>5. booking[f].deleted = FALSE
  BY <1>2, <1>3 DEF BookingRow
<1>6. a \in Amounts
  BY <1>1 DEF Amounts
<1>7. /\ booking'[f].status = "PENDING"
      /\ booking'[f].profile = r.profile
      /\ booking'[f].deleted = booking[f].deleted
      /\ commission'[f].status = "PENDING"
      /\ commission'[f].amount = a
  <2>1. booking'[f].deleted = FALSE
    BY <1>4
  <2>2. booking'[f].status = "PENDING" /\ booking'[f].profile = r.profile
    BY <1>4
  <2>3. commission'[f].status = "PENDING" /\ commission'[f].amount = a
    BY <1>4
  <2> QED BY <1>5, <2>1, <2>2, <2>3
<1> HIDE DEF a, r
<1> QED BY <1>1, <1>3, <1>4, <1>6, <1>7, OpenStep DEF OthersKept

LEMMA CancelLedger ==
  ASSUME IInv, NEW p \in Request, CancelCommit(p)
  PROVE  Ledger!LedgerNext
<1> DEFINE f == req[p].flex
<1>1. f \in Flex /\ Exists(f)
  BY WorksOn DEF CancelCommit, At
<1>2. /\ OthersKept(f)
      /\ booking'[f] = [booking[f] EXCEPT !.status = "CANCELLED"]
      /\ commission'[f] = [commission[f] EXCEPT !.status = "CANCELLED"]
  BY <1>1, Existing DEF CancelCommit, OthersKept
<1>3. /\ booking'[f].status = "CANCELLED"
      /\ booking'[f].profile = booking[f].profile
      /\ booking'[f].deleted = booking[f].deleted
      /\ commission'[f].status = "CANCELLED"
      /\ commission'[f].amount = commission[f].amount
  BY <1>1, <1>2, Existing DEF BookingRow, CommissionRow
<1>4. commission[f].status # "ABSENT"
  BY <1>1, Existing
<1> HIDE DEF f
<1> QED BY <1>1, <1>2, <1>3, <1>4, CancelStep DEF OthersKept

LEMMA HideLedger ==
  ASSUME IInv, NEW p \in Request, DeleteBooking(p)
  PROVE  Ledger!LedgerNext
<1> DEFINE f == req[p].flex
<1>1. f \in Flex /\ Exists(f)
  BY WorksOn DEF DeleteBooking, At
<1>2. /\ OthersKept(f)
      /\ booking'[f] = [booking[f] EXCEPT !.deleted = TRUE]
      /\ commission'[f] = commission[f]
  BY <1>1, Existing DEF DeleteBooking, OthersKept
<1>3. /\ booking'[f].status = booking[f].status
      /\ booking'[f].profile = booking[f].profile
      /\ booking'[f].deleted = TRUE
  BY <1>1, <1>2, Existing DEF BookingRow
<1>4. commission[f].status # "ABSENT"
  BY <1>1, Existing
<1> HIDE DEF f
<1> QED BY <1>1, <1>2, <1>3, <1>4, HideStep DEF OthersKept

-----------------------------------------------------------------------------
LEMMA InitLedger == Init => Ledger!LedgerInit
<1> SUFFICES ASSUME Init PROVE Ledger!LedgerInit
  OBVIOUS
<1> QED BY DEF Init, Ledger!LedgerInit

LEMMA NextLedger ==
  ASSUME IInv, [Next]_vars
  PROVE  [Ledger!LedgerNext]_(Ledger!ledger)
<1>1. CASE UNCHANGED <<booking, commission>>
  BY <1>1, StutterStep
<1>2. CASE UNCHANGED vars
  BY <1>1, <1>2 DEF vars, tables
<1>3. ASSUME NEW p \in Request, Begin(p) \/ Fail(p)
      PROVE  UNCHANGED <<booking, commission>>
  BY <1>3 DEF Fail, Begin, CreateRead, PayRead, UpdateRead, ConfirmRead,
     CancelStart, DeleteRead, RequestRead, ApproveRead, RejectRead, tables
<1>4. ASSUME NEW p \in Request, Continue(p)
      PROVE  Ledger!LedgerNext \/ UNCHANGED <<booking, commission>>
  <2>1. CASE PayCommit(p) \/ ConfirmCommit(p)
    <3>1. req[p].flex \in Flex /\ Exists(req[p].flex)
      BY <2>1, WorksOn DEF PayCommit, ConfirmCommit, At
    <3> QED BY <2>1, <3>1, ConfirmLedger DEF PayCommit, ConfirmCommit
  <2>2. CASE \/ \E f \in Flex : CreateCommit(p, f)
             \/ UpdateCommit(p)
             \/ CancelCommit(p)
             \/ DeleteBooking(p)
    BY <2>2, CreateLedger, UpdateLedger, CancelLedger, HideLedger
  <2>3. CASE \/ UpdateCheck(p) \/ CancelRead(p) \/ RequestCheck(p)
             \/ DeleteCheck(p) \/ DeleteFlex(p) \/ ApproveWrite(p)
             \/ RejectWrite(p) \/ \E c \in CancelRequest : RequestCommit(p, c)
    BY <2>3 DEF UpdateCheck, CancelRead, RequestCheck, DeleteCheck, DeleteFlex,
       ApproveWrite, RejectWrite, RequestCommit, tables
  <2> QED BY <1>4, <2>1, <2>2, <2>3 DEF Continue
<1> QED BY <1>1, <1>2, <1>3, <1>4 DEF Next

(* The reservation handlers keep the promise of CommissionLedger: a         *)
(* commission is approved exactly when its booking is confirmed first,      *)
(* repriced only while it is pending, and cancelled with its booking.       *)
THEOREM KeepsLedgerPromise == Spec => LedgerPromise
<1>1. Init => Ledger!LedgerInit
  BY InitLedger
<1>2. IInv /\ [Next]_vars => [Ledger!LedgerNext]_(Ledger!ledger)
  BY NextLedger
<1> QED BY <1>1, <1>2, Invariant, PTL DEF Spec, LedgerPromise, Ledger!LedgerSpec
=============================================================================
