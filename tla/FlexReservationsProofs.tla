------------------------ MODULE FlexReservationsProofs ------------------------
(***************************************************************************)
(* Proofs about FlexReservations, for any number of requests, reservations, *)
(* flats, ambassadors and cancellation requests.                           *)
(***************************************************************************)
EXTENDS MCFlexScenes, TLAPS

-----------------------------------------------------------------------------
(* The inductive invariant.                                                 *)

(* One reservation: what its four rows say of each other.                   *)
Sound(flexRow, bookingRow, c, log) ==
  /\ flexRow.status = "ABSENT" =>
       /\ bookingRow.status = "ABSENT"
       /\ log = {}
       /\ ~flexRow.deleted /\ ~bookingRow.deleted
  /\ flexRow.status # "ABSENT" => bookingRow.status \in log
  /\ bookingRow.status \in {flexRow.status, "CONFIRMED"}
  /\ bookingRow.start = flexRow.start /\ bookingRow.end = flexRow.end
  /\ c.status = IF "CANCELLED" \in log THEN "CANCELLED"
                ELSE IF "CONFIRMED" \in log THEN "APPROVED"
                ELSE IF flexRow.status # "ABSENT" THEN "PENDING" ELSE "ABSENT"
  /\ c.amount \in {FlexCommission(m) : m \in Monthly \union {0}}
  /\ flexRow.deleted => "CANCELLED" \in log
  /\ bookingRow.deleted => flexRow.deleted

AllSound ==
  \A f \in Flex : Sound(flexBooking[f], booking[f], commission[f], history[f])

(* The request works on a cancellation request.                             *)
ForReview(r) ==
  \/ r.pc \in {"approveWrite", "rejectWrite"}
  \/ r.pc \in {"cancelRead", "cancelCommit"} /\ r.then = "approveWrite"

(* One request: what it may rely on at the step it stands at, whatever the  *)
(* others have done since it read.                                          *)
Informed(r) ==
  /\ r.pc \notin {"idle", "createCommit"} => Exists(r.flex)
  /\ r.pc \in {"deleteFlex", "approveWrite"} => "CANCELLED" \in history[r.flex]
  /\ r.pc = "deleteBooking" => flexBooking[r.flex].deleted
  /\ ForReview(r) => cancelRequest[r.cr].booking = r.flex

AllInformed == \A p \in Request : Informed(req[p])

(* A cancellation request is about a reservation there is.                  *)
RequestsKnown ==
  \A c \in CancelRequest :
    cancelRequest[c].status # "ABSENT" => Exists(cancelRequest[c].booking)

IInv ==
  /\ TypeOK
  /\ AllSound
  /\ AllInformed
  /\ RequestsKnown
  /\ ApprovedRequestCancelled

-----------------------------------------------------------------------------
(* Helpers keep the rows well formed.                                       *)

(* What a PATCH makes of a flex row is a flex row.                          *)
LEMMA FlexUpdatedType ==
  ASSUME NEW row \in FlexRow, NEW dto \in Dto
  PROVE  FlexUpdated(row, dto) \in FlexRow
<1>1. NewStatus(dto, row.status) \in Status \union {"ABSENT"}
  BY DEF NewStatus, FlexRow, Dto
<1>2. Given(dto.start, row.start) \in Day /\ Given(dto.end, row.end) \in Day
  BY DEF Given, FlexRow, Dto
<1>3. Given(dto.monthly, row.monthly) \in Monthly \union {0}
  BY DEF Given, FlexRow, Dto
<1> QED BY <1>1, <1>2, <1>3 DEF FlexUpdated, FlexRow

(* What a PATCH makes of a registry row is a registry row.                  *)
LEMMA BookingUpdatedType ==
  ASSUME NEW row \in BookingRow, NEW r \in Updating
  PROVE  BookingUpdated(row, r) \in BookingRow
<1>1. r.dto \in Dto
  BY DtoAssumption DEF Updating
<1>2. NewStatus(r.dto, row.status) \in Status \union {"ABSENT"}
  BY <1>1 DEF NewStatus, BookingRow, Dto
<1>3. Given(r.dto.start, row.start) \in Day /\ Given(r.dto.end, row.end) \in Day
  BY <1>1 DEF Given, BookingRow, Dto
<1> QED BY <1>2, <1>3 DEF BookingUpdated, BookingRow

(* Writing a status or hiding a row keeps it a row.                         *)
LEMMA FlexRowWrites ==
  ASSUME NEW row \in FlexRow, NEW s \in Status
  PROVE  /\ [row EXCEPT !.status = s] \in FlexRow
         /\ [row EXCEPT !.deleted = TRUE] \in FlexRow
BY DEF FlexRow

LEMMA BookingRowWrites ==
  ASSUME NEW row \in BookingRow, NEW s \in Status
  PROVE  /\ [row EXCEPT !.status = s] \in BookingRow
         /\ [row EXCEPT !.deleted = TRUE] \in BookingRow
BY DEF BookingRow

(* A commission is a natural number of hundredths.                          *)
LEMMA CommissionIsNat ==
  ASSUME NEW m \in Monthly \union {0}
  PROVE  FlexCommission(m) \in Nat
BY AmountAssumption DEF FlexCommission

(* Approving or repricing a commission gives a commission.                  *)
LEMMA CommissionUpdatedType ==
  ASSUME NEW c \in CommissionRow, NEW m \in Monthly \union {0}
  PROVE  /\ ApprovedOnConfirm(c) \in CommissionRow
         /\ Repriced(c, m) \in CommissionRow
BY CommissionIsNat DEF ApprovedOnConfirm, Repriced, CommissionRow

(* Logging a status of a booking keeps the history well formed.             *)
LEMMA LoggedType ==
  ASSUME history \in [Flex -> SUBSET Status], NEW f \in Flex, NEW s,
         booking[f].status # s => s \in Status
  PROVE  Logged(f, s) \in [Flex -> SUBSET Status]
BY DEF Logged

(* What a request has read, by the step it stands at.                       *)
LEMMA RequestAt ==
  ASSUME req \in [Request -> RequestState], NEW p \in Request
  PROVE  /\ req[p].pc = "createCommit" => req[p] \in Creating
         /\ req[p].pc \in {"updateCheck", "updateCommit"} => req[p] \in Updating
         /\ req[p].pc \in {"payCommit", "confirmCommit", "deleteCheck",
                          "deleteFlex", "deleteBooking", "requestCheck",
                          "requestCommit"}
              => req[p] \in Touching
         /\ req[p].pc \in {"cancelRead", "cancelCommit"} => req[p] \in Cancelling
         /\ req[p].pc \in {"approveWrite", "rejectWrite"} => req[p] \in Reviewing
BY DEF RequestState, Idle, Creating, Updating, Touching, Cancelling, Reviewing

(* Where a request goes after a cancellation is a state of a request.       *)
LEMMA AfterCancellingType ==
  ASSUME NEW r \in Cancelling
  PROVE  AfterCancelling(r) \in RequestState
BY DEF AfterCancelling, Cancelling, RequestState, Idle, Touching, Reviewing

-----------------------------------------------------------------------------
(* Every step keeps TypeOK.                                                 *)

LEMMA TypeOKInit == Init => TypeOK
BY DayAssumption DEF Init, TypeOK, FlexRow, BookingRow, CommissionRow,
   CancelRequestRow, RequestState, Idle

(* Starting a handler writes no table.                                      *)
LEMMA BeginType ==
  ASSUME TypeOK, NEW p \in Request, Begin(p)
  PROVE  TypeOK'
<1>1. SUFFICES ASSUME UNCHANGED tables,
                      NEW s \in RequestState, req' = [req EXCEPT ![p] = s]
               PROVE  TypeOK'
  <2>1. ASSUME NEW flat \in Flat, NEW start \in Day, NEW end \in Day,
               NEW monthly \in Monthly, NEW profile \in Profile \union {None},
               CreateRead(p, flat, start, end, monthly, profile)
        PROVE  TypeOK'
    BY <1>1, <2>1 DEF CreateRead, Starts, RequestState, Creating
  <2>2. ASSUME NEW f \in Flex, PayRead(p, f)
        PROVE  TypeOK'
    BY <1>1, <2>2 DEF PayRead, Starts, RequestState, Touching
  <2>3. ASSUME NEW f \in Flex, NEW dto \in UpdateDto, UpdateRead(p, f, dto)
        PROVE  TypeOK'
    <3>1. dto \in Dto
      BY DtoAssumption
    <3>2. flexBooking[f] \in FlexRow
      BY DEF TypeOK
    <3>3. /\ Given(dto.start, flexBooking[f].start) \in Day
          /\ Given(dto.end, flexBooking[f].end) \in Day
          /\ Given(dto.monthly, flexBooking[f].monthly) \in Monthly \union {0}
      BY <3>1, <3>2 DEF Given, FlexRow, Dto
    <3>4. [pc |-> IF Moves(dto) THEN "updateCheck" ELSE "updateCommit",
           flex |-> f, dto |-> dto,
           start |-> Given(dto.start, flexBooking[f].start),
           end |-> Given(dto.end, flexBooking[f].end),
           monthly |-> Given(dto.monthly, flexBooking[f].monthly)] \in Updating
      BY <3>3 DEF Updating
    <3> QED BY <1>1, <2>3, <3>4 DEF UpdateRead, Starts, RequestState
  <2>4. ASSUME NEW f \in Flex, ConfirmRead(p, f)
        PROVE  TypeOK'
    BY <1>1, <2>4 DEF ConfirmRead, Starts, RequestState, Touching
  <2>5. ASSUME NEW f \in Flex, CancelStart(p, f)
        PROVE  TypeOK'
    BY <1>1, <2>5 DEF CancelStart, Starts, RequestState, Cancelling
  <2>6. ASSUME NEW f \in Flex, DeleteRead(p, f)
        PROVE  TypeOK'
    BY <1>1, <2>6 DEF DeleteRead, Starts, RequestState, Touching
  <2>7. ASSUME NEW f \in Flex, RequestRead(p, f)
        PROVE  TypeOK'
    BY <1>1, <2>7 DEF RequestRead, Starts, RequestState, Touching
  <2>8. ASSUME NEW c \in CancelRequest, ApproveRead(p, c)
        PROVE  TypeOK'
    <3>1. cancelRequest[c].booking \in Flex
      BY <2>8 DEF ApproveRead, Reviewable, TypeOK, CancelRequestRow
    <3> QED BY <1>1, <2>8, <3>1 DEF ApproveRead, Starts, RequestState, Cancelling
  <2>9. ASSUME NEW c \in CancelRequest, RejectRead(p, c)
        PROVE  TypeOK'
    <3>1. cancelRequest[c].booking \in Flex
      BY <2>9 DEF RejectRead, Reviewable, TypeOK, CancelRequestRow
    <3> QED BY <1>1, <2>9, <3>1 DEF RejectRead, Starts, RequestState, Reviewing
  <2> QED BY <2>1, <2>2, <2>3, <2>4, <2>5, <2>6, <2>7, <2>8, <2>9 DEF Begin
<1> QED BY <1>1 DEF TypeOK, tables

(* Every later step of a handler keeps the rows and requests well formed.   *)
LEMMA ContinueType ==
  ASSUME TypeOK, NEW p \in Request, Informed(req[p]), Continue(p)
  PROVE  TypeOK'
<1> DEFINE r == req[p]
<1>0. /\ flexBooking \in [Flex -> FlexRow]
      /\ booking \in [Flex -> BookingRow]
      /\ commission \in [Flex -> CommissionRow]
      /\ history \in [Flex -> SUBSET Status]
      /\ cancelRequest \in [CancelRequest -> CancelRequestRow]
      /\ req \in [Request -> RequestState]
  BY DEF TypeOK
<1>1. ASSUME NEW f \in Flex, CreateCommit(p, f)
      PROVE  TypeOK'
  <2>1. r \in Creating
    BY <1>1, RequestAt, <1>0 DEF CreateCommit, At
  <2>2. flexBooking' \in [Flex -> FlexRow]
    BY <1>0, <1>1, <2>1 DEF CreateCommit, FlexRow, Creating, Status
  <2>3. booking' \in [Flex -> BookingRow]
    BY <1>0, <1>1, <2>1 DEF CreateCommit, BookingRow, Creating, Status
  <2>4. commission' \in [Flex -> CommissionRow]
    <3>1. FlexCommission(r.monthly) \in Nat
      BY <2>1, CommissionIsNat DEF Creating
    <3> QED BY <1>0, <1>1, <3>1 DEF CreateCommit, CommissionRow
  <2>5. history' \in [Flex -> SUBSET Status]
    BY <1>0, <1>1, LoggedType DEF CreateCommit, Status
  <2>6. req' \in [Request -> RequestState]
    BY <1>0, <1>1 DEF CreateCommit, Ends, RequestState
  <2> QED BY <1>0, <1>1, <2>2, <2>3, <2>4, <2>5, <2>6 DEF CreateCommit, TypeOK
<1>2. CASE PayCommit(p)
  <2>1. r \in Touching
    BY <1>2, RequestAt, <1>0 DEF PayCommit, At
  <2>2. flexBooking' \in [Flex -> FlexRow]
    <3>1. r.flex \in Flex /\ flexBooking[r.flex] \in FlexRow
      BY <1>0, <2>1 DEF Touching
    <3>2. [flexBooking[r.flex] EXCEPT !.status = "CONFIRMED"] \in FlexRow
      BY <3>1, FlexRowWrites DEF Status
    <3> QED BY <1>0, <1>2, <3>1, <3>2 DEF PayCommit
  <2>3. booking' \in [Flex -> BookingRow]
    <3>1. r.flex \in Flex /\ booking[r.flex] \in BookingRow
      BY <1>0, <2>1 DEF Touching
    <3>2. [booking[r.flex] EXCEPT !.status = "CONFIRMED"] \in BookingRow
      BY <3>1, BookingRowWrites DEF Status
    <3> QED BY <1>0, <1>2, <3>1, <3>2 DEF PayCommit
  <2>4. commission' \in [Flex -> CommissionRow]
    <3>1. ApprovedOnConfirm(commission[r.flex]) \in CommissionRow
      BY <1>0, <2>1, CommissionUpdatedType DEF Touching
    <3> QED BY <1>0, <1>2, <2>1, <3>1 DEF PayCommit, Touching
  <2>5. history' \in [Flex -> SUBSET Status]
    BY <1>0, <1>2, <2>1, LoggedType DEF PayCommit, Touching, Status
  <2>6. req' \in [Request -> RequestState]
    BY <1>0, <1>2 DEF PayCommit, Ends, RequestState
  <2> QED BY <1>0, <1>2, <2>2, <2>3, <2>4, <2>5, <2>6 DEF PayCommit, TypeOK
<1>3. CASE UpdateCheck(p)
  <2>1. r \in Updating
    BY <1>3, RequestAt, <1>0 DEF UpdateCheck, At
  <2>2. [r EXCEPT !.pc = "updateCommit"] \in Updating
    BY <2>1 DEF Updating
  <2> QED BY <1>0, <1>3, <2>2 DEF UpdateCheck, Goes, Ends, RequestState, TypeOK,
             tables
<1>4. CASE UpdateCommit(p)
  <2>1. r \in Updating /\ r.flex \in Flex /\ r.dto \in Dto
           /\ r.monthly \in Monthly \union {0}
    BY <1>4, RequestAt, <1>0, DtoAssumption DEF UpdateCommit, At, Updating
  <2>2. flexBooking' \in [Flex -> FlexRow]
    BY <1>0, <1>4, <2>1, FlexUpdatedType DEF UpdateCommit
  <2>3. booking' \in [Flex -> BookingRow]
    BY <1>0, <1>4, <2>1, BookingUpdatedType DEF UpdateCommit
  <2>4. commission' \in [Flex -> CommissionRow]
    <3> DEFINE c == commission[r.flex]
               d == IF r.dto.monthly # None \/ r.dto.reprices
                    THEN Repriced(c, r.monthly) ELSE c
    <3>1. c \in CommissionRow
      BY <1>0, <2>1
    <3>2. d \in CommissionRow
      BY <2>1, <3>1, CommissionUpdatedType
    <3>3. ApprovedOnConfirm(d) \in CommissionRow
      <4> HIDE DEF d
      <4> QED BY <2>1, <3>2, CommissionUpdatedType
    <3> QED BY <1>0, <1>4, <2>1, <3>2, <3>3 DEF UpdateCommit
  <2>5. history' \in [Flex -> SUBSET Status]
    <3>1. LET s == NewStatus(r.dto, booking[r.flex].status)
          IN booking[r.flex].status # s => s \in Status
      BY <2>1 DEF NewStatus, Dto
    <3> QED BY <1>0, <1>4, <2>1, <3>1, LoggedType DEF UpdateCommit
  <2>6. req' \in [Request -> RequestState]
    <3>1. [pc |-> "cancelRead", flex |-> r.flex, then |-> "done", cr |-> None]
            \in Cancelling
      BY <2>1 DEF Cancelling
    <3> QED BY <1>0, <1>4, <3>1 DEF UpdateCommit, Goes, Ends, RequestState
  <2> QED BY <1>0, <1>4, <2>2, <2>3, <2>4, <2>5, <2>6 DEF UpdateCommit, TypeOK
<1>5. CASE ConfirmCommit(p)
  <2>1. r \in Touching
    BY <1>5, RequestAt, <1>0 DEF ConfirmCommit, At
  <2>2. booking' \in [Flex -> BookingRow]
    <3>1. r.flex \in Flex /\ booking[r.flex] \in BookingRow
      BY <1>0, <2>1 DEF Touching
    <3>2. [booking[r.flex] EXCEPT !.status = "CONFIRMED"] \in BookingRow
      BY <3>1, BookingRowWrites DEF Status
    <3> QED BY <1>0, <1>5, <3>1, <3>2 DEF ConfirmCommit
  <2>3. commission' \in [Flex -> CommissionRow]
    <3>1. ApprovedOnConfirm(commission[r.flex]) \in CommissionRow
      BY <1>0, <2>1, CommissionUpdatedType DEF Touching
    <3> QED BY <1>0, <1>5, <2>1, <3>1 DEF ConfirmCommit, Touching
  <2>4. history' \in [Flex -> SUBSET Status]
    BY <1>0, <1>5, <2>1 DEF ConfirmCommit, Touching, Status
  <2> QED BY <1>0, <1>5, <2>2, <2>3, <2>4
             DEF ConfirmCommit, TypeOK, Ends, RequestState
<1>6. CASE CancelRead(p)
  <2>1. r \in Cancelling
    BY <1>6, RequestAt, <1>0 DEF CancelRead, At
  <2>2. [r EXCEPT !.pc = "cancelCommit"] \in Cancelling
    BY <2>1 DEF Cancelling
  <2> QED BY <1>0, <1>6, <2>2 DEF CancelRead, Goes, Ends, RequestState, TypeOK,
             tables
<1>7. CASE CancelCommit(p)
  <2>1. r \in Cancelling /\ r.flex \in Flex
    BY <1>7, RequestAt, <1>0 DEF CancelCommit, At, Cancelling
  <2>2. flexBooking' \in [Flex -> FlexRow]
    <3>1. r.flex \in Flex /\ flexBooking[r.flex] \in FlexRow
      BY <1>0, <2>1 DEF Touching
    <3>2. [flexBooking[r.flex] EXCEPT !.status = "CANCELLED"] \in FlexRow
      BY <3>1, FlexRowWrites DEF Status
    <3> QED BY <1>0, <1>7, <3>1, <3>2 DEF CancelCommit, FlexCancelled
  <2>3. booking' \in [Flex -> BookingRow]
    <3>1. r.flex \in Flex /\ booking[r.flex] \in BookingRow
      BY <1>0, <2>1 DEF Touching
    <3>2. [booking[r.flex] EXCEPT !.status = "CANCELLED"] \in BookingRow
      BY <3>1, BookingRowWrites DEF Status
    <3> QED BY <1>0, <1>7, <3>1, <3>2 DEF CancelCommit
  <2>4. commission' \in [Flex -> CommissionRow]
    BY <1>0, <1>7, <2>1 DEF CancelCommit, CommissionRow
  <2>5. history' \in [Flex -> SUBSET Status]
    BY <1>0, <1>7, <2>1 DEF CancelCommit, Status
  <2>6. req' \in [Request -> RequestState]
    BY <1>0, <1>7, <2>1, AfterCancellingType DEF CancelCommit, Goes
  <2> QED BY <1>0, <1>7, <2>2, <2>3, <2>4, <2>5, <2>6 DEF CancelCommit, TypeOK
<1>8. CASE DeleteFlex(p)
  <2>1. r \in Touching
    BY <1>8, RequestAt, <1>0 DEF DeleteFlex, At
  <2>2. flexBooking' \in [Flex -> FlexRow]
    <3>1. r.flex \in Flex /\ flexBooking[r.flex] \in FlexRow
      BY <1>0, <2>1 DEF Touching
    <3>2. [flexBooking[r.flex] EXCEPT !.deleted = TRUE] \in FlexRow
      BY <3>1, FlexRowWrites DEF Status
    <3> QED BY <1>0, <1>8, <3>1, <3>2 DEF DeleteFlex
  <2>3. [r EXCEPT !.pc = "deleteBooking"] \in Touching
    BY <2>1 DEF Touching
  <2> QED BY <1>0, <1>8, <2>2, <2>3 DEF DeleteFlex, Goes, RequestState, TypeOK
<1>9. CASE DeleteBooking(p)
  <2>1. r \in Touching
    BY <1>9, RequestAt, <1>0 DEF DeleteBooking, At
  <2>2. booking' \in [Flex -> BookingRow]
    <3>1. r.flex \in Flex /\ booking[r.flex] \in BookingRow
      BY <1>0, <2>1 DEF Touching
    <3>2. [booking[r.flex] EXCEPT !.deleted = TRUE] \in BookingRow
      BY <3>1, BookingRowWrites DEF Status
    <3> QED BY <1>0, <1>9, <3>1, <3>2 DEF DeleteBooking
  <2> QED BY <1>0, <1>9, <2>2 DEF DeleteBooking, Ends, RequestState, TypeOK
<1>10. CASE RequestCheck(p)
  <2>1. r \in Touching
    BY <1>10, RequestAt, <1>0 DEF RequestCheck, At
  <2>2. [r EXCEPT !.pc = "requestCommit"] \in Touching
    BY <2>1 DEF Touching
  <2> QED BY <1>0, <1>10, <2>2 DEF RequestCheck, Goes, Ends, RequestState,
             TypeOK, tables
<1>11. ASSUME NEW c \in CancelRequest, RequestCommit(p, c)
       PROVE  TypeOK'
  <2>1. r \in Touching
    BY <1>11, RequestAt, <1>0 DEF RequestCommit, At
  <2>2. cancelRequest' \in [CancelRequest -> CancelRequestRow]
    BY <1>0, <1>11, <2>1 DEF RequestCommit, CancelRequestRow, Touching
  <2> QED BY <1>0, <1>11, <2>2 DEF RequestCommit, Ends, RequestState, TypeOK
<1>12. ASSUME NEW w \in {"APPROVED", "REJECTED"},
              At(p, "approveWrite") \/ At(p, "rejectWrite"),
              cancelRequest' = [cancelRequest EXCEPT ![r.cr].status = w],
              Ends(p), UNCHANGED <<flexBooking, booking, commission, history>>
       PROVE  TypeOK'
  <2>1. r \in Reviewing /\ r.cr \in CancelRequest
    BY <1>12, RequestAt, <1>0 DEF At, Reviewing
  <2>2. cancelRequest[r.cr].booking \in Flex
    BY <1>12, <2>1 DEF Informed, ForReview, At, Reviewing
  <2>3. cancelRequest[r.cr] \in CancelRequestRow
    BY <1>0, <2>1
  <2>4. [cancelRequest[r.cr] EXCEPT !.status = w] \in CancelRequestRow
    BY <2>2, <2>3, NoneAssumption DEF CancelRequestRow
  <2>5. cancelRequest' \in [CancelRequest -> CancelRequestRow]
    BY <1>0, <1>12, <2>1, <2>4
  <2> QED BY <1>0, <1>12, <2>5 DEF Ends, RequestState, TypeOK
<1>15. CASE DeleteCheck(p)
  <2>1. r \in Touching /\ r.flex \in Flex
    BY <1>15, RequestAt, <1>0 DEF DeleteCheck, At, Touching
  <2>2. PICK s \in RequestState : req' = [req EXCEPT ![p] = s]
    BY <1>0, <1>15, <2>1
       DEF DeleteCheck, Goes, RequestState, Cancelling, Touching
  <2> QED BY <1>0, <1>15, <2>2 DEF DeleteCheck, TypeOK, tables
<1>13. CASE ApproveWrite(p)
  BY <1>12, <1>13 DEF ApproveWrite
<1>14. CASE RejectWrite(p)
  BY <1>12, <1>14 DEF RejectWrite
<1> QED BY <1>1, <1>2, <1>3, <1>4, <1>5, <1>6, <1>7, <1>8, <1>9, <1>10,
           <1>11, <1>13, <1>14, <1>15 DEF Continue

LEMMA TypeOKStep ==
  ASSUME IInv, [Next]_vars
  PROVE  TypeOK'
<1>1. CASE UNCHANGED vars
  BY <1>1 DEF vars, tables, IInv, TypeOK
<1>2. ASSUME NEW p \in Request, Fail(p)
      PROVE  TypeOK'
  BY <1>2 DEF Fail, Ends, tables, IInv, TypeOK, RequestState
<1> QED BY <1>1, <1>2, BeginType, ContinueType DEF Next, IInv, AllInformed

-----------------------------------------------------------------------------
(* Every write keeps the rows of one reservation sound.                     *)

LEMMA CreateSound ==
  ASSUME NEW fr, NEW br, NEW c, NEW h, Sound(fr, br, c, h),
         fr.status = "ABSENT",
         NEW flat, NEW start, NEW end, NEW m \in Monthly, NEW profile
  PROVE  Sound([flat |-> flat, start |-> start, end |-> end, monthly |-> m,
                deleted |-> FALSE, status |-> "PENDING"],
               [start |-> start, end |-> end, profile |-> profile,
                deleted |-> FALSE, status |-> "PENDING"],
               [status |-> "PENDING", amount |-> FlexCommission(m)],
               h \union {"PENDING"})
BY DEF Sound

(* A confirmation, by a payment (the flex row as well) or by staff (not).   *)
LEMMA ConfirmSound ==
  ASSUME NEW fr \in FlexRow, NEW br \in BookingRow, NEW c \in CommissionRow,
         NEW h, Sound(fr, br, c, h), fr.status # "ABSENT"
  PROVE  /\ Sound([fr EXCEPT !.status = "CONFIRMED"],
                  [br EXCEPT !.status = "CONFIRMED"],
                  ApprovedOnConfirm(c), h \union {"CONFIRMED"})
         /\ Sound(fr, [br EXCEPT !.status = "CONFIRMED"],
                  ApprovedOnConfirm(c), h \union {"CONFIRMED"})
         /\ br.status = "CONFIRMED" =>
              Sound([fr EXCEPT !.status = "CONFIRMED"],
                    [br EXCEPT !.status = "CONFIRMED"], c, h)
BY DEF Sound, ApprovedOnConfirm, FlexRow, BookingRow, CommissionRow

LEMMA CancelSound ==
  ASSUME NEW fr \in FlexRow, NEW br \in BookingRow, NEW c \in CommissionRow,
         NEW h, Sound(fr, br, c, h), fr.status # "ABSENT"
  PROVE  Sound([fr EXCEPT !.status = "CANCELLED"],
               [br EXCEPT !.status = "CANCELLED"],
               [c EXCEPT !.status = "CANCELLED"], h \union {"CANCELLED"})
BY DEF Sound, FlexRow, BookingRow, CommissionRow

LEMMA DeleteSound ==
  ASSUME NEW fr \in FlexRow, NEW br \in BookingRow, NEW c, NEW h,
         Sound(fr, br, c, h), fr.status # "ABSENT"
  PROVE  /\ "CANCELLED" \in h => Sound([fr EXCEPT !.deleted = TRUE], br, c, h)
         /\ fr.deleted => Sound(fr, [br EXCEPT !.deleted = TRUE], c, h)
BY DEF Sound, FlexRow, BookingRow

(* A PATCH: the fields it carries, the commission priced anew and approved, *)
(* the move logged.                                                         *)
LEMMA RepricedSound ==
  ASSUME NEW fr, NEW br, NEW c \in CommissionRow, NEW h, Sound(fr, br, c, h),
         NEW m \in Monthly \union {0}
  PROVE  Sound(fr, br, Repriced(c, m), h)
BY DEF Sound, Repriced, CommissionRow

LEMMA UpdateSound ==
  ASSUME NEW fr \in FlexRow, NEW br \in BookingRow, NEW c \in CommissionRow,
         NEW h, Sound(fr, br, c, h), fr.status # "ABSENT",
         NEW r \in Updating
  PROVE  LET s == NewStatus(r.dto, br.status)
         IN  Sound(FlexUpdated(fr, r.dto), BookingUpdated(br, r),
                   IF r.dto.status = "CONFIRMED" /\ br.status # "CONFIRMED"
                   THEN ApprovedOnConfirm(c) ELSE c,
                   IF br.status = s THEN h ELSE h \union {s})
<1> DEFINE s == NewStatus(r.dto, br.status)
           new == FlexUpdated(fr, r.dto)
           mirror == BookingUpdated(br, r)
           d == IF r.dto.status = "CONFIRMED" /\ br.status # "CONFIRMED"
                THEN ApprovedOnConfirm(c) ELSE c
           log == IF br.status = s THEN h ELSE h \union {s}
<1>1. r.dto \in Dto
  BY DtoAssumption DEF Updating
<1>2. /\ new.status = NewStatus(r.dto, fr.status)
      /\ new.start = Given(r.dto.start, fr.start)
      /\ new.end = Given(r.dto.end, fr.end)
      /\ new.deleted = fr.deleted
  BY DEF FlexUpdated, FlexRow
<1>3. /\ mirror.status = s
      /\ mirror.start = Given(r.dto.start, br.start)
      /\ mirror.end = Given(r.dto.end, br.end)
      /\ mirror.deleted = br.deleted
  BY DEF BookingUpdated, BookingRow
<1>4. s \in log /\ new.status # "ABSENT" /\ mirror.status \in {new.status, "CONFIRMED"}
  BY <1>1, <1>2, <1>3 DEF NewStatus, Sound, Dto, Status
<1>5. d.amount = c.amount
  BY DEF ApprovedOnConfirm, CommissionRow
<1>6. d.status = IF "CANCELLED" \in log THEN "CANCELLED"
                 ELSE IF "CONFIRMED" \in log THEN "APPROVED" ELSE "PENDING"
  <2>1. c.status = IF "CANCELLED" \in h THEN "CANCELLED"
                   ELSE IF "CONFIRMED" \in h THEN "APPROVED" ELSE "PENDING"
    BY DEF Sound
  <2>2. CASE r.dto.status = "CONFIRMED" /\ br.status # "CONFIRMED"
    <3>1. log = h \union {"CONFIRMED"}
      BY <2>2, NoneAssumption DEF NewStatus, Status
    <3> QED BY <2>1, <2>2, <3>1 DEF ApprovedOnConfirm, CommissionRow
  <2>3. CASE ~(r.dto.status = "CONFIRMED" /\ br.status # "CONFIRMED")
    <3>1. ("CANCELLED" \in log <=> "CANCELLED" \in h)
             /\ ("CONFIRMED" \in log <=> "CONFIRMED" \in h)
      BY <2>3 DEF NewStatus
    <3>2. d = c
      BY <2>3
    <3> HIDE DEF d, log
    <3> QED BY <2>1, <3>1, <3>2
  <2> QED BY <2>2, <2>3
<1>7. h \subseteq log
  OBVIOUS
<1> HIDE DEF new, mirror, d, log, s
<1>8. Sound(new, mirror, d, log)
  BY <1>2, <1>3, <1>4, <1>5, <1>6, <1>7 DEF Sound
<1> QED BY <1>8 DEF new, mirror, d, log, s

-----------------------------------------------------------------------------
(* What a step of a handler does to the tables, as far as the others can    *)
(* tell: the rows stay sound, nothing that a request relies on is undone.   *)

RowsGrow ==
  \A f \in Flex : /\ Exists(f) => Exists(f)'
                  /\ history[f] \subseteq history'[f]
                  /\ flexBooking[f].deleted => flexBooking'[f].deleted

ReviewsGrow ==
  \A c \in CancelRequest : cancelRequest[c].status # "ABSENT" =>
    /\ cancelRequest'[c].status # "ABSENT"
    /\ cancelRequest'[c].booking = cancelRequest[c].booking

(* A step that only writes the rows of f, soundly, leaves all sound.        *)
LEMMA OneReservation ==
  ASSUME TypeOK, AllSound, NEW f \in Flex,
         NEW fr, NEW br, NEW c, NEW h, Sound(fr, br, c, h),
         flexBooking' = [flexBooking EXCEPT ![f] = fr],
         booking' = [booking EXCEPT ![f] = br],
         commission' = [commission EXCEPT ![f] = c],
         history' = [history EXCEPT ![f] = h],
         flexBooking[f].status # "ABSENT" => fr.status # "ABSENT",
         history[f] \subseteq h,
         flexBooking[f].deleted => fr.deleted
  PROVE  AllSound' /\ RowsGrow
<1>1. ASSUME NEW g \in Flex
      PROVE  Sound(flexBooking'[g], booking'[g], commission'[g], history'[g])
  <2>1. CASE g = f
    <3>1. /\ flexBooking'[g] = fr /\ booking'[g] = br
          /\ commission'[g] = c /\ history'[g] = h
      BY <2>1 DEF TypeOK
    <3> QED BY <3>1
  <2>2. CASE g # f
    <3>1. /\ flexBooking'[g] = flexBooking[g] /\ booking'[g] = booking[g]
          /\ commission'[g] = commission[g] /\ history'[g] = history[g]
      BY <2>2 DEF TypeOK
    <3>2. Sound(flexBooking[g], booking[g], commission[g], history[g])
      BY DEF AllSound
    <3> QED BY <3>1, <3>2
  <2> QED BY <2>1, <2>2
<1>2. AllSound'
  BY <1>1 DEF AllSound, Sound
<1>3. RowsGrow
  BY DEF TypeOK, RowsGrow, Exists
<1> QED BY <1>2, <1>3

(* The same for a step that leaves some of the tables alone.                *)
LEMMA NoReservation ==
  ASSUME AllSound, UNCHANGED tables
  PROVE  AllSound' /\ RowsGrow /\ ReviewsGrow
BY DEF AllSound, Sound, RowsGrow, ReviewsGrow, Exists, tables

(* A cancellation request that a handler works on is not absent.            *)
LEMMA ForReviewKnown ==
  ASSUME TypeOK, NEW p \in Request, Informed(req[p]), ForReview(req[p])
  PROVE  /\ req[p].cr \in CancelRequest
         /\ req[p].flex \in Flex
         /\ cancelRequest[req[p].cr].booking = req[p].flex
         /\ cancelRequest[req[p].cr].status # "ABSENT"
<1>1. req[p].cr \in CancelRequest /\ req[p].flex \in Flex
  <2>1. CASE req[p].pc \in {"approveWrite", "rejectWrite"}
    BY <2>1, RequestAt DEF TypeOK, Reviewing
  <2>2. CASE req[p].pc \in {"cancelRead", "cancelCommit"}
               /\ req[p].then = "approveWrite"
    BY <2>2, RequestAt DEF TypeOK, Cancelling
  <2> QED BY <2>1, <2>2 DEF ForReview
<1>2. cancelRequest[req[p].cr].booking = req[p].flex
  BY DEF Informed
<1>3. cancelRequest[req[p].cr] \in CancelRequestRow
  BY <1>1 DEF TypeOK
<1> QED BY <1>1, <1>2, <1>3, NoneAssumption DEF CancelRequestRow

(* The reservation a request works on.                                      *)
LEMMA RequestFlex ==
  ASSUME TypeOK, NEW p \in Request, req[p].pc \notin {"idle", "createCommit"}
  PROVE  req[p].flex \in Flex
BY DEF TypeOK, RequestState, Idle, Creating, Updating, Touching, Cancelling,
       Reviewing

(* The other requests may still rely on what they relied on.                *)
LEMMA InformedStep ==
  ASSUME TypeOK, AllInformed, RowsGrow, ReviewsGrow, NEW p \in Request,
         \A q \in Request \ {p} : req'[q] = req[q],
         Informed(req[p])'
  PROVE  AllInformed'
<1> SUFFICES ASSUME NEW q \in Request, q # p
             PROVE  Informed(req[q])'
  BY DEF AllInformed
<1>1. req'[q] = req[q] /\ Informed(req[q])
  BY DEF AllInformed
<1>2. req[q].pc \notin {"idle", "createCommit"} => Exists(req[q].flex)'
  BY <1>1, RequestFlex DEF Informed, RowsGrow, Exists
<1>3. req[q].pc \in {"deleteFlex", "approveWrite"}
        => "CANCELLED" \in history'[req[q].flex]
  BY <1>1, RequestFlex DEF Informed, RowsGrow
<1>4. req[q].pc = "deleteBooking" => flexBooking'[req[q].flex].deleted
  BY <1>1, RequestFlex DEF Informed, RowsGrow
<1>5. ForReview(req[q]) => cancelRequest'[req[q].cr].booking = req[q].flex
  BY <1>1, ForReviewKnown DEF ReviewsGrow
<1> QED BY <1>1, <1>2, <1>3, <1>4, <1>5 DEF Informed, Exists, ForReview

-----------------------------------------------------------------------------
(* Every step keeps the invariant.                                          *)

LEMMA BeginStep ==
  ASSUME IInv, NEW p \in Request, Begin(p)
  PROVE  IInv'
<1>0. TypeOK /\ AllSound /\ AllInformed /\ RequestsKnown
  BY DEF IInv
<1>1. UNCHANGED tables
  BY DEF Begin, CreateRead, PayRead, UpdateRead, ConfirmRead, CancelStart,
         DeleteRead, RequestRead, ApproveRead, RejectRead
<1>2. AllSound' /\ RowsGrow /\ ReviewsGrow
  BY <1>0, <1>1, NoReservation
<1>3. \A q \in Request \ {p} : req'[q] = req[q]
  BY <1>0 DEF TypeOK, Begin, CreateRead, PayRead, UpdateRead, ConfirmRead,
         CancelStart, DeleteRead, RequestRead, ApproveRead, RejectRead, Starts
<1>4. SUFFICES ASSUME NEW s, req'[p] = s, req' = [req EXCEPT ![p] = s]
               PROVE  Informed(s)
  <2>1. PICK s : req' = [req EXCEPT ![p] = s]
    BY DEF Begin, CreateRead, PayRead, UpdateRead, ConfirmRead, CancelStart,
           DeleteRead, RequestRead, ApproveRead, RejectRead, Starts
  <2>2. req'[p] = s
    BY <2>1, <1>0 DEF TypeOK
  <2>3. Informed(s)
    BY <1>4, <2>1, <2>2
  <2>4. Informed(req[p])'
    BY <2>2, <2>3, <1>1 DEF Informed, ForReview, Exists, tables
  <2>5. AllInformed'
    BY <1>0, <1>2, <1>3, <2>4, InformedStep
  <2>6. TypeOK'
    BY <1>0, BeginType
  <2>7. RequestsKnown' /\ ApprovedRequestCancelled'
    BY <1>1 DEF IInv, RequestsKnown, ApprovedRequestCancelled, Exists, tables
  <2> QED BY <1>2, <2>5, <2>6, <2>7 DEF IInv
<1>5. ASSUME NEW flat \in Flat, NEW start \in Day, NEW end \in Day,
             NEW monthly \in Monthly, NEW profile \in Profile \union {None},
             CreateRead(p, flat, start, end, monthly, profile)
      PROVE  Informed(s)
  <2>1. s.pc = "createCommit"
    BY <1>0, <1>4, <1>5 DEF CreateRead, Starts, TypeOK
  <2> QED BY <2>1 DEF Informed, ForReview
<1>6. ASSUME NEW f \in Flex,
             \/ PayRead(p, f) \/ ConfirmRead(p, f)
             \/ DeleteRead(p, f) \/ RequestRead(p, f)
      PROVE  Informed(s)
  <2>1. /\ s.pc \in {"payCommit", "confirmCommit", "deleteCheck", "requestCheck"}
        /\ s.flex = f
    BY <1>0, <1>4, <1>6 DEF PayRead, ConfirmRead, DeleteRead, RequestRead,
       Starts, TypeOK
  <2>2. Exists(f)
    BY <1>6 DEF PayRead, ConfirmRead, DeleteRead, RequestRead, FlexVisible,
       BookingVisible
  <2> QED BY <2>1, <2>2 DEF Informed, ForReview
<1>7. ASSUME NEW f \in Flex, NEW dto \in UpdateDto, UpdateRead(p, f, dto)
      PROVE  Informed(s)
  <2>1. s.pc \in {"updateCheck", "updateCommit"} /\ s.flex = f
    BY <1>0, <1>4, <1>7 DEF UpdateRead, Starts, TypeOK
  <2> QED BY <1>7, <2>1 DEF Informed, ForReview, UpdateRead, FlexVisible
<1>8. ASSUME NEW f \in Flex, CancelStart(p, f)
      PROVE  Informed(s)
  <2>1. s = [pc |-> "cancelRead", flex |-> f, then |-> "done", cr |-> None]
    BY <1>0, <1>4, <1>8 DEF CancelStart, Starts, TypeOK
  <2> QED BY <1>8, <2>1 DEF Informed, ForReview, CancelStart
<1>10. ASSUME NEW c \in CancelRequest, ApproveRead(p, c) \/ RejectRead(p, c)
       PROVE  Informed(s)
  <2>1. /\ s.pc \in {"cancelRead", "rejectWrite"}
        /\ s.flex = cancelRequest[c].booking /\ s.cr = c
    BY <1>0, <1>4, <1>10 DEF ApproveRead, RejectRead, Starts, TypeOK
  <2>2. Exists(cancelRequest[c].booking)
    BY <1>0, <1>10 DEF RequestsKnown, ApproveRead, RejectRead, Reviewable
  <2> QED BY <2>1, <2>2 DEF Informed, ForReview
<1> QED BY <1>5, <1>6, <1>7, <1>8, <1>10 DEF Begin

(* The rows of one reservation are of their types.                          *)
LEMMA RowTypes ==
  ASSUME IInv, NEW f \in Flex
  PROVE  /\ flexBooking[f] \in FlexRow
         /\ booking[f] \in BookingRow
         /\ commission[f] \in CommissionRow
         /\ Sound(flexBooking[f], booking[f], commission[f], history[f])
BY DEF IInv, TypeOK, AllSound

(* A step that goes on to state s and leaves the cancellation requests.     *)
LEMMA RowsStep ==
  ASSUME IInv, NEW p \in Request, TypeOK', AllSound', RowsGrow,
         UNCHANGED cancelRequest,
         \A q \in Request \ {p} : req'[q] = req[q],
         Informed(req[p])'
  PROVE  IInv'
<1>1. TypeOK /\ AllInformed /\ RequestsKnown /\ ApprovedRequestCancelled
  BY DEF IInv
<1>2. ReviewsGrow
  BY DEF ReviewsGrow
<1>3. AllInformed'
  BY <1>1, <1>2, InformedStep
<1>4. \A c \in CancelRequest : cancelRequest[c].status # "ABSENT" =>
        cancelRequest[c].booking \in Flex
  BY <1>1 DEF TypeOK, CancelRequestRow
<1>5. RequestsKnown'
  BY <1>1, <1>4 DEF RequestsKnown, RowsGrow, Exists
<1>6. ApprovedRequestCancelled'
  BY <1>1, <1>4 DEF ApprovedRequestCancelled, RowsGrow
<1> QED BY <1>3, <1>5, <1>6 DEF IInv

(* The steps that write the rows of a reservation.                          *)
LEMMA ContinueRows ==
  ASSUME IInv, NEW p \in Request, Continue(p), UNCHANGED cancelRequest
  PROVE  AllSound' /\ RowsGrow
<1> DEFINE f == req[p].flex
<1>0. /\ TypeOK /\ AllSound /\ Informed(req[p])
      /\ flexBooking \in [Flex -> FlexRow]
      /\ booking \in [Flex -> BookingRow]
      /\ commission \in [Flex -> CommissionRow]
      /\ history \in [Flex -> SUBSET Status]
      /\ req \in [Request -> RequestState]
  BY DEF IInv, AllInformed, TypeOK
<1>1. ASSUME NEW g \in Flex, CreateCommit(p, g)
      PROVE  AllSound' /\ RowsGrow
  <2> DEFINE r == req[p]
             fr == [flat |-> r.flat, start |-> r.start, end |-> r.end,
                    monthly |-> r.monthly, deleted |-> FALSE,
                    status |-> "PENDING"]
             br == [start |-> r.start, end |-> r.end, profile |-> r.profile,
                    deleted |-> FALSE, status |-> "PENDING"]
             c == [status |-> "PENDING", amount |-> FlexCommission(r.monthly)]
             h == history[g] \union {"PENDING"}
  <2>1. r.monthly \in Monthly
    BY <1>0, <1>1, RequestAt DEF CreateCommit, At, Creating
  <2>2. flexBooking[g].status = "ABSENT" /\ booking[g].status = "ABSENT"
          /\ ~flexBooking[g].deleted
    BY <1>1, RowTypes DEF CreateCommit, Exists, Sound
  <2>3. Sound(fr, br, c, h)
    BY <2>1, <2>2, RowTypes, CreateSound
  <2>4. /\ flexBooking' = [flexBooking EXCEPT ![g] = fr]
        /\ booking' = [booking EXCEPT ![g] = br]
        /\ commission' = [commission EXCEPT ![g] = c]
        /\ history' = [history EXCEPT ![g] = h]
    BY <1>0, <1>1, <2>2 DEF CreateCommit, Logged
  <2>5. history[g] \subseteq h
    OBVIOUS
  <2> HIDE DEF fr, br, c, h
  <2> QED BY <1>0, <2>2, <2>3, <2>4, <2>5, OneReservation
<1>2. ASSUME ~At(p, "idle"), ~At(p, "createCommit")
      PROVE  /\ f \in Flex
             /\ flexBooking[f].status # "ABSENT"
             /\ flexBooking[f] \in FlexRow
             /\ booking[f] \in BookingRow
             /\ commission[f] \in CommissionRow
             /\ Sound(flexBooking[f], booking[f], commission[f], history[f])
  <2>1. req[p].pc \notin {"idle", "createCommit"}
    BY <1>2 DEF At
  <2> QED BY <1>0, <2>1, RequestFlex, RowTypes DEF Informed, Exists
<1>3. CASE PayCommit(p)
  <2> DEFINE fr == [flexBooking[f] EXCEPT !.status = "CONFIRMED"]
             br == [booking[f] EXCEPT !.status = "CONFIRMED"]
             c == IF booking[f].status = "CONFIRMED" THEN commission[f]
                  ELSE ApprovedOnConfirm(commission[f])
             h == IF booking[f].status = "CONFIRMED" THEN history[f]
                  ELSE history[f] \union {"CONFIRMED"}
  <2>1. f \in Flex /\ flexBooking[f].status # "ABSENT"
    BY <1>2, <1>3 DEF PayCommit, At
  <2>2. Sound(fr, br, c, h)
    BY <1>2, <1>3, ConfirmSound DEF PayCommit, At
  <2>3. /\ flexBooking' = [flexBooking EXCEPT ![f] = fr]
        /\ booking' = [booking EXCEPT ![f] = br]
        /\ commission' = [commission EXCEPT ![f] = c]
        /\ history' = [history EXCEPT ![f] = h]
    BY <1>0, <1>3, <2>1 DEF PayCommit, Logged
  <2>4. /\ history[f] \subseteq h
        /\ fr.status # "ABSENT"
        /\ flexBooking[f].deleted => fr.deleted
    BY <1>2, <1>3 DEF PayCommit, At, FlexRow
  <2> HIDE DEF fr, br, c, h, f
  <2> QED BY <1>0, <2>1, <2>2, <2>3, <2>4, OneReservation
<1>4. CASE UpdateCommit(p)
  <2> DEFINE r == req[p]
             s == NewStatus(r.dto, booking[f].status)
             priced == IF r.dto.monthly # None \/ r.dto.reprices
                       THEN Repriced(commission[f], r.monthly)
                       ELSE commission[f]
             fr == FlexUpdated(flexBooking[f], r.dto)
             br == BookingUpdated(booking[f], r)
             c == IF r.dto.status = "CONFIRMED"
                       /\ booking[f].status # "CONFIRMED"
                  THEN ApprovedOnConfirm(priced) ELSE priced
             h == IF booking[f].status = s THEN history[f]
                  ELSE history[f] \union {s}
  <2>1. f \in Flex /\ flexBooking[f].status # "ABSENT"
    BY <1>2, <1>4 DEF UpdateCommit, At
  <2>2. r \in Updating /\ r.monthly \in Monthly \union {0} /\ r.dto \in Dto
    BY <1>0, <1>4, RequestAt, DtoAssumption DEF UpdateCommit, At, Updating
  <2>3. /\ priced \in CommissionRow
        /\ Sound(flexBooking[f], booking[f], priced, history[f])
    BY <1>2, <1>4, <2>2, CommissionUpdatedType, RepricedSound
       DEF UpdateCommit, At
  <2>4. Sound(fr, br, c, h)
    <3> HIDE DEF priced
    <3> QED BY <1>2, <1>4, <2>2, <2>3, UpdateSound DEF UpdateCommit, At
  <2>5. /\ flexBooking' = [flexBooking EXCEPT ![f] = fr]
        /\ booking' = [booking EXCEPT ![f] = br]
        /\ commission' = [commission EXCEPT ![f] = c]
        /\ history' = [history EXCEPT ![f] = h]
    BY <1>0, <1>4, <2>1 DEF UpdateCommit, Logged
  <2>6. /\ history[f] \subseteq h
        /\ fr.status # "ABSENT"
        /\ flexBooking[f].deleted => fr.deleted
    <3>1. flexBooking[f] \in FlexRow
      BY <1>2, <1>4 DEF UpdateCommit, At
    <3> QED BY <2>1, <2>2, <3>1 DEF FlexUpdated, FlexRow, NewStatus, Dto, Status
  <2> HIDE DEF fr, br, c, h, f
  <2> QED BY <1>0, <2>1, <2>4, <2>5, <2>6, OneReservation
<1>5. CASE ConfirmCommit(p)
  <2> DEFINE br == [booking[f] EXCEPT !.status = "CONFIRMED"]
             c == ApprovedOnConfirm(commission[f])
             h == history[f] \union {"CONFIRMED"}
  <2>1. f \in Flex /\ flexBooking[f].status # "ABSENT"
    BY <1>2, <1>5 DEF ConfirmCommit, At
  <2>2. Sound(flexBooking[f], br, c, h)
    BY <1>2, <1>5, ConfirmSound DEF ConfirmCommit, At
  <2>3. /\ flexBooking' = [flexBooking EXCEPT ![f] = flexBooking[f]]
        /\ booking' = [booking EXCEPT ![f] = br]
        /\ commission' = [commission EXCEPT ![f] = c]
        /\ history' = [history EXCEPT ![f] = h]
    BY <1>0, <1>5, <2>1 DEF ConfirmCommit
  <2> HIDE DEF br, c, f
  <2> QED BY <1>0, <2>1, <2>2, <2>3, OneReservation
<1>6. CASE CancelCommit(p)
  <2> DEFINE fr == [flexBooking[f] EXCEPT !.status = "CANCELLED"]
             br == [booking[f] EXCEPT !.status = "CANCELLED"]
             c == [commission[f] EXCEPT !.status = "CANCELLED"]
             h == history[f] \union {"CANCELLED"}
  <2>1. f \in Flex /\ flexBooking[f].status # "ABSENT"
    BY <1>2, <1>6 DEF CancelCommit, At
  <2>2. Sound(fr, br, c, h)
    BY <1>2, <1>6, CancelSound DEF CancelCommit, At
  <2>3. /\ flexBooking' = [flexBooking EXCEPT ![f] = fr]
        /\ booking' = [booking EXCEPT ![f] = br]
        /\ commission' = [commission EXCEPT ![f] = c]
        /\ history' = [history EXCEPT ![f] = h]
    BY <1>0, <1>6, <2>1 DEF CancelCommit, FlexCancelled
  <2>4. /\ history[f] \subseteq h
        /\ fr.status # "ABSENT"
        /\ flexBooking[f].deleted => fr.deleted
    BY <1>2, <1>6 DEF CancelCommit, At, FlexRow
  <2> HIDE DEF fr, br, c, h, f
  <2> QED BY <1>0, <2>1, <2>2, <2>3, <2>4, OneReservation
<1>7. CASE DeleteFlex(p)
  <2> DEFINE fr == [flexBooking[f] EXCEPT !.deleted = TRUE]
  <2>1. f \in Flex /\ flexBooking[f].status # "ABSENT"
    BY <1>2, <1>7 DEF DeleteFlex, At
  <2>2. Sound(fr, booking[f], commission[f], history[f])
    BY <1>0, <1>2, <1>7, DeleteSound DEF DeleteFlex, At, Informed
  <2>3. /\ flexBooking' = [flexBooking EXCEPT ![f] = fr]
        /\ booking' = [booking EXCEPT ![f] = booking[f]]
        /\ commission' = [commission EXCEPT ![f] = commission[f]]
        /\ history' = [history EXCEPT ![f] = history[f]]
    BY <1>0, <1>7, <2>1 DEF DeleteFlex
  <2>4. fr.status # "ABSENT" /\ fr.deleted
    BY <1>2, <1>7 DEF DeleteFlex, At, FlexRow
  <2> HIDE DEF fr, f
  <2> QED BY <1>0, <2>1, <2>2, <2>3, <2>4, OneReservation
<1>8. CASE DeleteBooking(p)
  <2> DEFINE br == [booking[f] EXCEPT !.deleted = TRUE]
  <2>1. f \in Flex /\ flexBooking[f].status # "ABSENT"
    BY <1>2, <1>8 DEF DeleteBooking, At
  <2>2. Sound(flexBooking[f], br, commission[f], history[f])
    BY <1>0, <1>2, <1>8, DeleteSound DEF DeleteBooking, At, Informed
  <2>3. /\ flexBooking' = [flexBooking EXCEPT ![f] = flexBooking[f]]
        /\ booking' = [booking EXCEPT ![f] = br]
        /\ commission' = [commission EXCEPT ![f] = commission[f]]
        /\ history' = [history EXCEPT ![f] = history[f]]
    BY <1>0, <1>8, <2>1 DEF DeleteBooking
  <2> HIDE DEF br, f
  <2> QED BY <1>0, <2>1, <2>2, <2>3, OneReservation
<1>9. CASE UNCHANGED tables
  BY <1>0, <1>9, NoReservation
<1>10. CASE \/ UpdateCheck(p) \/ CancelRead(p)
            \/ DeleteCheck(p) \/ RequestCheck(p)
  BY <1>9, <1>10 DEF UpdateCheck, CancelRead, DeleteCheck, RequestCheck
<1>11. ASSUME NEW c \in CancelRequest,
              RequestCommit(p, c) \/ ApproveWrite(p) \/ RejectWrite(p)
       PROVE  AllSound' /\ RowsGrow
  BY <1>9, <1>11 DEF RequestCommit, ApproveWrite, RejectWrite, tables
<1>12. CASE ApproveWrite(p) \/ RejectWrite(p)
  BY <1>9, <1>12 DEF ApproveWrite, RejectWrite, tables
<1> QED BY <1>1, <1>3, <1>4, <1>5, <1>6, <1>7, <1>8, <1>10, <1>11, <1>12
        DEF Continue

(* The steps that write a cancellation request.                             *)
LEMMA ContinueReviews ==
  ASSUME IInv, NEW p \in Request,
         \/ \E c \in CancelRequest : RequestCommit(p, c)
         \/ ApproveWrite(p)
         \/ RejectWrite(p)
  PROVE  IInv'
<1>0. /\ TypeOK /\ AllSound /\ AllInformed /\ Informed(req[p])
      /\ RequestsKnown /\ ApprovedRequestCancelled
      /\ cancelRequest \in [CancelRequest -> CancelRequestRow]
      /\ req \in [Request -> RequestState]
  BY DEF IInv, AllInformed, TypeOK
<1>1. UNCHANGED <<flexBooking, booking, commission, history>>
  BY DEF RequestCommit, ApproveWrite, RejectWrite
<1>2. AllSound' /\ RowsGrow
  BY <1>0, <1>1 DEF AllSound, Sound, RowsGrow, Exists
<1>3. req' = [req EXCEPT ![p] = Idle]
  BY DEF RequestCommit, ApproveWrite, RejectWrite, Ends
<1>4. Informed(req[p])'
  BY <1>0, <1>3 DEF Informed, ForReview, Idle
<1>5. TypeOK'
  BY <1>0, ContinueType DEF Continue
<1>6. ReviewsGrow /\ RequestsKnown' /\ ApprovedRequestCancelled'
  <2>1. ASSUME NEW c \in CancelRequest, RequestCommit(p, c)
        PROVE  ReviewsGrow /\ RequestsKnown' /\ ApprovedRequestCancelled'
    <3>1. Exists(req[p].flex)
      BY <1>0, <2>1 DEF RequestCommit, At, Informed
    <3>2. /\ cancelRequest'[c] = [booking |-> req[p].flex, status |-> "PENDING"]
          /\ \A d \in CancelRequest \ {c} : cancelRequest'[d] = cancelRequest[d]
          /\ cancelRequest[c].status = "ABSENT"
      BY <1>0, <2>1 DEF RequestCommit
    <3> QED BY <1>0, <1>1, <3>1, <3>2
            DEF ReviewsGrow, RequestsKnown, ApprovedRequestCancelled, Exists
  <2>2. CASE ApproveWrite(p) \/ RejectWrite(p)
    <3> DEFINE c == req[p].cr
    <3>1. ForReview(req[p])
      BY <2>2 DEF ForReview, ApproveWrite, RejectWrite, At
    <3>2. /\ c \in CancelRequest
          /\ cancelRequest[c].booking = req[p].flex
          /\ cancelRequest[c].status # "ABSENT"
      BY <1>0, <3>1, ForReviewKnown
    <3>3. Exists(req[p].flex)
      BY <1>0, <2>2 DEF Informed, ApproveWrite, RejectWrite, At
    <3>4. PICK w \in {"APPROVED", "REJECTED"} :
            /\ cancelRequest' = [cancelRequest EXCEPT ![c].status = w]
            /\ w = "APPROVED" => "CANCELLED" \in history[req[p].flex]
      BY <1>0, <2>2 DEF ApproveWrite, RejectWrite, Informed, At
    <3>5. cancelRequest[c] \in CancelRequestRow
      BY <1>0, <3>2
    <3>6. /\ cancelRequest'[c].booking = req[p].flex
          /\ cancelRequest'[c].status = w
      BY <1>0, <3>2, <3>4, <3>5 DEF CancelRequestRow
    <3>7. \A d \in CancelRequest \ {c} : cancelRequest'[d] = cancelRequest[d]
      BY <1>0, <3>4
    <3> HIDE DEF c
    <3> QED BY <1>0, <1>1, <3>2, <3>3, <3>4, <3>6, <3>7
            DEF ReviewsGrow, RequestsKnown, ApprovedRequestCancelled, Exists
  <2> QED BY <2>1, <2>2
<1>7. AllInformed'
  BY <1>0, <1>2, <1>3, <1>4, <1>6, InformedStep
<1> QED BY <1>2, <1>5, <1>6, <1>7 DEF IInv

LEMMA ContinueStep ==
  ASSUME IInv, NEW p \in Request, Continue(p)
  PROVE  IInv'
<1>0. /\ TypeOK /\ AllSound /\ Informed(req[p])
      /\ req \in [Request -> RequestState]
  BY DEF IInv, AllInformed, TypeOK
<1>1. CASE \/ \E c \in CancelRequest : RequestCommit(p, c)
           \/ ApproveWrite(p)
           \/ RejectWrite(p)
  BY <1>1, ContinueReviews
<1>2. ASSUME UNCHANGED cancelRequest,
             NEW s, req' = [req EXCEPT ![p] = s], Informed(req[p])'
      PROVE  IInv'
  <2>1. TypeOK'
    BY <1>0, ContinueType
  <2>2. AllSound' /\ RowsGrow
    BY <1>2, ContinueRows
  <2>3. \A q \in Request \ {p} : req'[q] = req[q]
    BY <1>0, <1>2
  <2> QED BY <1>2, <2>1, <2>2, <2>3, RowsStep
<1>3. ASSUME UNCHANGED cancelRequest, Ends(p)
      PROVE  IInv'
  <2>1. Informed(req[p])'
    BY <1>0, <1>3 DEF Ends, Informed, ForReview, Idle
  <2> QED BY <1>2, <1>3, <2>1 DEF Ends
<1>4. CASE \/ \E f \in Flex : CreateCommit(p, f)
           \/ PayCommit(p)
           \/ ConfirmCommit(p)
           \/ DeleteBooking(p)
  BY <1>3, <1>4 DEF CreateCommit, PayCommit, ConfirmCommit, DeleteBooking
<1>5. CASE UpdateCheck(p) \/ RequestCheck(p)
  <2>1. UNCHANGED tables
    BY <1>5 DEF UpdateCheck, RequestCheck
  <2>2. CASE Ends(p)
    BY <1>3, <2>1, <2>2 DEF tables
  <2>3. CASE ~Ends(p)
    <3>1. PICK pc \in {"updateCommit", "requestCommit"} :
            req' = [req EXCEPT ![p] = [req[p] EXCEPT !.pc = pc]]
      BY <1>5, <2>3 DEF UpdateCheck, RequestCheck, Goes
    <3>2. Exists(req[p].flex)
      BY <1>0, <1>5 DEF UpdateCheck, RequestCheck, At, Informed
    <3>3. req[p] \in Updating \union Touching
      BY <1>0, <1>5, RequestAt DEF UpdateCheck, RequestCheck, At
    <3>4. req'[p].pc = pc /\ req'[p].flex = req[p].flex
      BY <1>0, <3>1, <3>3 DEF Updating, Touching
    <3>5. Informed(req[p])'
      BY <2>1, <3>2, <3>4 DEF Informed, ForReview, Exists, tables
    <3> QED BY <1>2, <2>1, <3>1, <3>5 DEF tables
  <2> QED BY <2>2, <2>3
<1>10. CASE DeleteCheck(p)
  <2> DEFINE f == req[p].flex
  <2>1. f \in Flex /\ Exists(f) /\ UNCHANGED tables
    BY <1>0, <1>10, RequestFlex DEF DeleteCheck, At, Informed
  <2>2. PICK s \in {[pc |-> "cancelRead", flex |-> f, then |-> "deleteFlex",
                     cr |-> None], [pc |-> "deleteFlex", flex |-> f]} :
          /\ req' = [req EXCEPT ![p] = s]
          /\ s.pc = "deleteFlex" => ~NeedsCancelling(f)
    BY <1>10 DEF DeleteCheck, Goes
  <2>3. req'[p] = s
    BY <1>0, <2>2
  <2>4. s.pc = "deleteFlex" => "CANCELLED" \in history[f]
    BY <1>0, <2>1, <2>2 DEF AllSound, Sound, Exists, NeedsCancelling
  <2>5. Informed(req[p])'
    <3> HIDE DEF f
    <3> QED BY <2>1, <2>2, <2>3, <2>4 DEF Informed, ForReview, Exists, tables
  <2> QED BY <1>2, <2>1, <2>2, <2>5 DEF tables
<1>6. CASE UpdateCommit(p)
  <2> DEFINE s == [pc |-> "cancelRead", flex |-> req[p].flex,
                   then |-> "done", cr |-> None]
  <2>1. CASE Ends(p)
    BY <1>3, <1>6, <2>1 DEF UpdateCommit
  <2>2. CASE ~Ends(p)
    <3>1. req' = [req EXCEPT ![p] = s]
      BY <1>6, <2>2 DEF UpdateCommit, Goes
    <3>2. flexBooking'[req[p].flex].status # "ABSENT"
      <4>1. RowsGrow
        BY <1>6, ContinueRows DEF UpdateCommit
      <4>2. req[p].flex \in Flex /\ Exists(req[p].flex)
        BY <1>0, <1>6, RequestFlex DEF UpdateCommit, At, Informed
      <4> QED BY <4>1, <4>2 DEF RowsGrow, Exists
    <3>3. Informed(req[p])'
      BY <1>0, <3>1, <3>2 DEF Informed, ForReview, Exists
    <3> QED BY <1>2, <1>6, <3>1, <3>3 DEF UpdateCommit
  <2> QED BY <2>1, <2>2
<1>7. CASE CancelRead(p)
  <2> DEFINE s == [req[p] EXCEPT !.pc = "cancelCommit"]
  <2>1. CASE Ends(p)
    BY <1>3, <1>7, <2>1 DEF CancelRead, tables
  <2>2. CASE ~Ends(p)
    <3>1. req' = [req EXCEPT ![p] = s]
      BY <1>7, <2>2 DEF CancelRead, Goes
    <3>2. req[p] \in Cancelling
      BY <1>0, <1>7, RequestAt DEF CancelRead, At
    <3>3. /\ req'[p].pc = "cancelCommit" /\ req'[p].flex = req[p].flex
          /\ req'[p].then = req[p].then /\ req'[p].cr = req[p].cr
      BY <1>0, <3>1, <3>2 DEF Cancelling
    <3>4. Informed(req[p])'
      BY <1>0, <1>7, <3>3
         DEF CancelRead, At, Informed, ForReview, Exists, tables
    <3> QED BY <1>2, <1>7, <3>1, <3>4 DEF CancelRead, tables
  <2> QED BY <2>1, <2>2
<1>8. CASE CancelCommit(p)
  <2> DEFINE s == AfterCancelling(req[p])
             f == req[p].flex
  <2>1. req[p] \in Cancelling /\ f \in Flex /\ Exists(f)
    BY <1>0, <1>8, RequestAt DEF CancelCommit, At, Cancelling, Informed
  <2>2. req' = [req EXCEPT ![p] = s] /\ UNCHANGED cancelRequest
    BY <1>8 DEF CancelCommit, Goes
  <2>3. flexBooking'[f].status # "ABSENT" /\ "CANCELLED" \in history'[f]
    <3>2. "CANCELLED" \in history'[f]
      BY <1>0, <1>8, <2>1 DEF CancelCommit, TypeOK
    <3>3. RowsGrow
      BY <2>2, ContinueRows
    <3> QED BY <2>1, <3>2, <3>3 DEF RowsGrow, Exists
  <2>4. ForReview(req[p]) => cancelRequest'[req[p].cr].booking = f
    BY <1>0, <2>2 DEF Informed
  <2>5. \/ s = Idle
        \/ s = [pc |-> "deleteFlex", flex |-> f]
        \/ /\ s = [pc |-> "approveWrite", flex |-> f, cr |-> req[p].cr]
           /\ ForReview(req[p])
    BY <2>1, <1>8 DEF CancelCommit, At, AfterCancelling, Cancelling, ForReview
  <2>6. req'[p] = s
    BY <1>0, <2>2
  <2>7. Informed(req[p])'
    <3> HIDE DEF s
    <3> QED BY <2>3, <2>4, <2>5, <2>6 DEF Informed, ForReview, Exists, Idle
  <2> QED BY <1>2, <2>2, <2>7
<1>9. CASE DeleteFlex(p)
  <2> DEFINE s == [req[p] EXCEPT !.pc = "deleteBooking"]
             f == req[p].flex
  <2>1. req[p] \in Touching /\ f \in Flex /\ Exists(f)
    BY <1>0, <1>9, RequestAt DEF DeleteFlex, At, Touching, Informed
  <2>2. req' = [req EXCEPT ![p] = s] /\ UNCHANGED cancelRequest
    BY <1>9 DEF DeleteFlex, Goes
  <2>3. req'[p].pc = "deleteBooking" /\ req'[p].flex = f
    BY <1>0, <2>1, <2>2 DEF Touching
  <2>4. flexBooking'[f].deleted /\ flexBooking'[f].status # "ABSENT"
    <3>1. flexBooking[f] \in FlexRow /\ flexBooking[f].status # "ABSENT"
      BY <1>0, <2>1 DEF TypeOK, Exists
    <3>2. flexBooking'[f] = [flexBooking[f] EXCEPT !.deleted = TRUE]
      BY <1>0, <1>9, <2>1 DEF DeleteFlex, TypeOK
    <3> QED BY <3>1, <3>2 DEF FlexRow
  <2>5. Informed(req[p])'
    BY <2>3, <2>4 DEF Informed, ForReview, Exists
  <2> QED BY <1>2, <2>2, <2>5
<1> QED BY <1>1, <1>4, <1>5, <1>6, <1>7, <1>8, <1>9, <1>10 DEF Continue

-----------------------------------------------------------------------------
(* The invariant and what follows from it.                                  *)

LEMMA InitInv == Init => IInv
<1> SUFFICES ASSUME Init PROVE IInv
  OBVIOUS
<1>1. TypeOK
  BY TypeOKInit
<1>2. AllSound
  <2>1. FlexCommission(0) = 0
    BY AmountAssumption DEF FlexCommission
  <2>2. 0 \in {FlexCommission(m) : m \in Monthly \union {0}}
    BY <2>1
  <2> QED BY <2>2 DEF Init, AllSound, Sound
<1>3. AllInformed
  BY DEF Init, AllInformed, Informed, ForReview, Idle
<1> QED BY <1>1, <1>2, <1>3
        DEF IInv, Init, RequestsKnown, ApprovedRequestCancelled

LEMMA NextInv == IInv /\ [Next]_vars => IInv'
<1> SUFFICES ASSUME IInv, [Next]_vars PROVE IInv'
  OBVIOUS
<1>1. CASE UNCHANGED vars
  BY <1>1 DEF vars, tables, IInv, TypeOK, AllSound, Sound, AllInformed, Informed,
     ForReview, RequestsKnown, ApprovedRequestCancelled, Exists
<1>2. ASSUME NEW p \in Request, Fail(p)
      PROVE  IInv'
  <2>1. TypeOK /\ AllSound /\ req \in [Request -> RequestState]
    BY DEF IInv, TypeOK
  <2>2. UNCHANGED tables /\ req' = [req EXCEPT ![p] = Idle]
    BY <1>2 DEF Fail, Ends
  <2>3. TypeOK'
    BY <2>1, <2>2 DEF tables, TypeOK, RequestState
  <2>4. AllSound' /\ RowsGrow
    BY <2>1, <2>2, NoReservation
  <2>5. Informed(req[p])'
    BY <2>1, <2>2 DEF Informed, ForReview, Idle
  <2>6. \A q \in Request \ {p} : req'[q] = req[q]
    BY <2>1, <2>2
  <2> QED BY <2>2, <2>3, <2>4, <2>5, <2>6, RowsStep DEF tables
<1> QED BY <1>1, <1>2, BeginStep, ContinueStep DEF Next

LEMMA Invariant == Spec => []IInv
BY InitInv, NextInv, PTL DEF Spec

(* Rows and requests are always well formed.                                *)
THEOREM TypeCorrect == Spec => []TypeOK
<1>1. IInv => TypeOK
  BY DEF IInv
<1> QED BY <1>1, Invariant, PTL

(* The registry is never behind the operational row, however confirmations, *)
(* payments, PATCHes, cancellations and deletions interleave or fail.       *)
THEOREM RegistryCorrect == Spec => []RegistryNeverBehind
<1>1. IInv => RegistryNeverBehind
  BY DEF IInv, AllSound, Sound, RegistryNeverBehind
<1> QED BY <1>1, Invariant, PTL

(* Rival date changes land alike in both tables.                            *)
THEOREM DatesCorrect == Spec => []DatesMirrored
<1>1. IInv => DatesMirrored
  BY DEF IInv, AllSound, Sound, DatesMirrored
<1> QED BY <1>1, Invariant, PTL

(* A commission is what the history of its booking makes it.                *)
THEOREM CommissionCorrect == Spec => []CommissionTellsHistory
<1>1. IInv => CommissionTellsHistory
  BY DEF IInv, AllSound, Sound, CommissionTellsHistory, Exists
<1> QED BY <1>1, Invariant, PTL

(* The history knows every status the registry shows.                       *)
THEOREM AuditCorrect == Spec => []AuditTrail
<1>1. IInv => AuditTrail
  BY DEF IInv, AllSound, Sound, AuditTrail, Exists
<1> QED BY <1>1, Invariant, PTL

(* An approved cancellation request is about a booking that was cancelled.  *)
THEOREM ApprovalCorrect == Spec => []ApprovedRequestCancelled
<1>1. IInv => ApprovedRequestCancelled
  BY DEF IInv
<1> QED BY <1>1, Invariant, PTL

(* What is soft-deleted was cancelled before, the registry row last.        *)
THEOREM DeletionCorrect == Spec => []DeletedWasCancelled
<1>1. IInv => DeletedWasCancelled
  BY DEF IInv, AllSound, Sound, DeletedWasCancelled
<1> QED BY <1>1, Invariant, PTL

(* The two tables of a reservation agree: the registry is never behind, and *)
(* the dates are the same in both.                                          *)
THEOREM RowsCorrect == Spec => []RowsAgree
<1>1. RegistryNeverBehind /\ DatesMirrored => RowsAgree
  BY DEF RowsAgree
<1> QED BY <1>1, RegistryCorrect, DatesCorrect, PTL

(* The commission, the reviewed requests and the deletion of a booking are  *)
(* what its history tells.                                                  *)
THEOREM HistoryCorrect == Spec => []HistoryTold
<1>1. CommissionTellsHistory /\ AuditTrail /\ ApprovedRequestCancelled
        /\ DeletedWasCancelled => HistoryTold
  BY DEF HistoryTold
<1> QED BY <1>1, CommissionCorrect, AuditCorrect, ApprovalCorrect,
           DeletionCorrect, PTL

-----------------------------------------------------------------------------
(* Requests that are served one at a time                                   *)

Alone == \A p, q \in Request : req[p] # Idle /\ req[q] # Idle => p = q

(* A row of F, but for those of except, holds the flat for one of the days.  *)
Clashes(F, flat, start, end, except) ==
  \E g \in Flex \ except :
    /\ F[g].status \notin {"ABSENT", "CANCELLED"} /\ ~F[g].deleted
    /\ F[g].flat = flat /\ F[g].start < end /\ F[g].end > start

(* What the one request served has read of the rows F and B and of the       *)
(* cancellation requests C, and nobody changes meanwhile.                    *)
Relies(r, F, B, C) ==
  /\ r.pc = "createCommit" =>
       r.start < r.end /\ ~Clashes(F, r.flat, r.start, r.end, {})
  /\ r.pc \in {"updateCheck", "updateCommit"} =>
       /\ ~F[r.flex].deleted /\ r.start < r.end
       /\ r.start = Given(r.dto.start, F[r.flex].start)
       /\ r.end = Given(r.dto.end, F[r.flex].end)
       /\ r.monthly = Given(r.dto.monthly, F[r.flex].monthly)
  /\ r.pc = "updateCommit" /\ Moves(r.dto) =>
       ~Clashes(F, F[r.flex].flat, r.start, r.end, {r.flex})
  /\ r.pc = "payCommit" => ~F[r.flex].deleted /\ F[r.flex].status # "CANCELLED"
  /\ r.pc = "confirmCommit" => B[r.flex].status = "PENDING"
  /\ r.pc \in {"deleteFlex", "approveWrite"} => B[r.flex].status = "CANCELLED"
  /\ r.pc = "rejectWrite" => B[r.flex].status # "CANCELLED"
  /\ r.pc = "requestCommit" =>
       \A c \in CancelRequest : C[c] # [booking |-> r.flex, status |-> "PENDING"]

RowsSound ==
  DatesOrdered /\ DeletedStaysCancelled /\ CommissionFollowsRent /\ OneOpenRequest

SerialInv ==
  /\ Alone
  /\ \A p \in Request : Relies(req[p], flexBooking, booking, cancelRequest)
  /\ RowsSound

(* What a step owes to the calendar and to the ambassador who asked.        *)
Kept ==
  /\ \A f, g \in Flex : RevivedOrApart(f, g)
  /\ \A c \in CancelRequest : ReviewedRight(c)

(* At its start, its end and before it reads, a request relies on nothing.  *)
LEMMA NothingReliedOn ==
  ASSUME NEW r, NEW F, NEW B, NEW C,
         r.pc \in {"idle", "cancelRead", "cancelCommit", "deleteCheck",
                   "deleteBooking", "requestCheck"}
  PROVE  Relies(r, F, B, C)
BY DEF Relies

(* The other requests are idle.                                             *)
LEMMA OneMoves ==
  ASSUME TypeOK, SerialInv, OneAtATime, NEW p \in Request, NEW s,
         req' = [req EXCEPT ![p] = s],
         req[p] # Idle \/ UNCHANGED tables,
         Relies(s, flexBooking', booking', cancelRequest')
  PROVE  Alone' /\ \A q \in Request : Relies(req'[q], flexBooking', booking', cancelRequest')
<1>1. Alone'
  BY DEF Alone, OneAtATime
<1>2. req'[p] = s /\ \A q \in Request \ {p} : req'[q] = req[q]
  BY DEF TypeOK
<1>3. ASSUME NEW q \in Request \ {p}
      PROVE  Relies(req'[q], flexBooking', booking', cancelRequest')
  <2>1. CASE req[q] = Idle
    BY <1>2, <2>1, NothingReliedOn DEF Idle
  <2>2. CASE req[q] # Idle
    <3>1. req[p] = Idle
      BY <2>2 DEF SerialInv, Alone
    <3>2. UNCHANGED <<flexBooking, booking, cancelRequest>>
      BY <3>1 DEF tables
    <3> QED BY <1>2, <3>2 DEF SerialInv
  <2> QED BY <2>1, <2>2
<1> QED BY <1>1, <1>2, <1>3

(* A step that writes no row.                                               *)
LEMMA QuietSerial ==
  ASSUME TypeOK, SerialInv, OneAtATime, NEW p \in Request, NEW s,
         req' = [req EXCEPT ![p] = s], UNCHANGED tables,
         Relies(s, flexBooking, booking, cancelRequest)
  PROVE  SerialInv' /\ Kept
<1>1. UNCHANGED <<flexBooking, booking, commission, cancelRequest>>
  BY DEF tables
<1>2. Alone' /\ \A q \in Request : Relies(req'[q], flexBooking', booking', cancelRequest')
  BY <1>1, OneMoves
<1>3. RowsSound'
  BY <1>1 DEF SerialInv, RowsSound, DatesOrdered, DeletedStaysCancelled,
     CommissionFollowsRent, OneOpenRequest, Exists
<1>4. Kept
  BY <1>1 DEF Kept, RevivedOrApart, ReviewedRight, Overlap, Holds
<1> QED BY <1>2, <1>3, <1>4 DEF SerialInv

(* A step that writes the rows of one reservation: its days and its         *)
(* commission are in order, a deleted one is cancelled, and it takes no     *)
(* night it did not hold and no other holds.                                *)
LEMMA WriteSerial ==
  ASSUME TypeOK, SerialInv, OneAtATime, NEW p \in Request, NEW s, req[p] # Idle,
         req' = [req EXCEPT ![p] = s], UNCHANGED cancelRequest,
         NEW f \in Flex, NEW fr \in FlexRow, NEW br, NEW c,
         flexBooking' = [flexBooking EXCEPT ![f] = fr],
         booking' = [booking EXCEPT ![f] = br],
         commission' = [commission EXCEPT ![f] = c],
         Relies(s, flexBooking', booking', cancelRequest),
         fr.status # "ABSENT" => fr.start < fr.end,
         fr.deleted => fr.status = "CANCELLED" /\ br.status = "CANCELLED",
         c.status = "PENDING" => c.amount = FlexCommission(fr.monthly),
         \/ fr.status = "CANCELLED"
         \/ flexBooking[f].status = "CANCELLED"
         \/ Holds(f) /\ fr.flat = flexBooking[f].flat
                     /\ fr.start = flexBooking[f].start /\ fr.end = flexBooking[f].end
         \/ ~Clashes(flexBooking, fr.flat, fr.start, fr.end, {f})
  PROVE  SerialInv' /\ Kept
<1>1. Alone' /\ \A q \in Request : Relies(req'[q], flexBooking', booking', cancelRequest')
  BY OneMoves
<1>2. /\ flexBooking'[f] = fr /\ booking'[f] = br /\ commission'[f] = c
      /\ \A g \in Flex \ {f} : /\ flexBooking'[g] = flexBooking[g]
                               /\ booking'[g] = booking[g]
                               /\ commission'[g] = commission[g]
  BY DEF TypeOK
<1>3. DatesOrdered'
  BY <1>2 DEF SerialInv, RowsSound, DatesOrdered, Exists
<1>4. DeletedStaysCancelled'
  BY <1>2 DEF SerialInv, RowsSound, DeletedStaysCancelled
<1>5. CommissionFollowsRent'
  BY <1>2 DEF SerialInv, RowsSound, CommissionFollowsRent, FlexCommission
<1>6. OneOpenRequest'
  BY DEF SerialInv, RowsSound, OneOpenRequest
<1>7. ASSUME NEW g \in Flex, g # f, Overlap(f, g)' \/ Overlap(g, f)',
             flexBooking[f].status # "CANCELLED"
      PROVE  Overlap(f, g) /\ Overlap(g, f)
  <2>1. /\ fr.status # "CANCELLED" /\ fr.flat = flexBooking[g].flat
        /\ fr.start < flexBooking[g].end /\ flexBooking[g].start < fr.end
        /\ Holds(g)
    BY <1>2, <1>7 DEF Overlap, Holds
  <2>2. Clashes(flexBooking, fr.flat, fr.start, fr.end, {f})
    <3>1. flexBooking[g].end > fr.start
      BY <2>1, DayAssumption DEF FlexRow, TypeOK
    <3> QED BY <1>7, <2>1, <3>1 DEF Clashes, Holds
  <2>3. /\ Holds(f) /\ fr.flat = flexBooking[f].flat
        /\ fr.start = flexBooking[f].start /\ fr.end = flexBooking[f].end
    BY <1>7, <2>1, <2>2
  <2> QED BY <1>7, <2>1, <2>3 DEF Overlap
<1>8. ASSUME NEW g \in Flex, NEW h \in Flex PROVE RevivedOrApart(g, h)
  <2>1. CASE g # f /\ h # f
    BY <1>2, <2>1 DEF RevivedOrApart, Overlap, Holds
  <2>2. CASE g = f /\ h # f
    BY <1>7, <2>2 DEF RevivedOrApart
  <2>3. CASE g # f /\ h = f
    BY <1>7, <2>3 DEF RevivedOrApart
  <2>4. CASE g = f /\ h = f
    BY <2>4 DEF RevivedOrApart, Overlap
  <2> QED BY <2>1, <2>2, <2>3, <2>4
<1>9. \A d \in CancelRequest : ReviewedRight(d)
  BY DEF ReviewedRight
<1>10. Kept
  BY <1>8, <1>9 DEF Kept
<1> QED BY <1>1, <1>3, <1>4, <1>5, <1>6, <1>10 DEF SerialInv, RowsSound

(* What a request reads first is what it relies on.                         *)
LEMMA BeginSerial ==
  ASSUME IInv, SerialInv, OneAtATime, NEW p \in Request, Begin(p)
  PROVE  SerialInv' /\ Kept
<1>0. TypeOK /\ UNCHANGED tables
  BY DEF IInv, Begin, CreateRead, PayRead, UpdateRead, ConfirmRead, CancelStart,
         DeleteRead, RequestRead, ApproveRead, RejectRead
<1>1. ASSUME NEW s, Starts(p, s), Relies(s, flexBooking, booking, cancelRequest)
      PROVE  SerialInv' /\ Kept
  BY <1>0, <1>1, QuietSerial DEF Starts
<1>2. ASSUME NEW flat \in Flat, NEW start \in Day, NEW end \in Day,
             NEW monthly \in Monthly, NEW profile \in Profile \union {None},
             CreateRead(p, flat, start, end, monthly, profile)
      PROVE  SerialInv' /\ Kept
  <2> DEFINE s == [pc |-> "createCommit", flat |-> flat, start |-> start,
                   end |-> end, monthly |-> monthly, profile |-> profile]
  <2>1. /\ s.pc = "createCommit" /\ s.flat = flat /\ s.start = start /\ s.end = end
        /\ Starts(p, s)
    BY <1>2 DEF CreateRead
  <2>2. start < end /\ ~Clashes(flexBooking, flat, start, end, {})
    BY <1>2 DEF CreateRead, ValidPeriod, Conflict, Holds, Clashes
  <2> HIDE DEF s
  <2>3. Relies(s, flexBooking, booking, cancelRequest)
    BY <2>1, <2>2 DEF Relies
  <2> QED BY <1>1, <2>1, <2>3
<1>3. ASSUME NEW f \in Flex, PayRead(p, f)
      PROVE  SerialInv' /\ Kept
  <2> DEFINE s == [pc |-> "payCommit", flex |-> f]
  <2>1. s.pc = "payCommit" /\ s.flex = f /\ Starts(p, s)
    BY <1>3 DEF PayRead
  <2> HIDE DEF s
  <2>2. Relies(s, flexBooking, booking, cancelRequest)
    BY <1>3, <2>1 DEF Relies, PayRead, FlexVisible
  <2> QED BY <1>1, <2>1, <2>2
<1>4. ASSUME NEW f \in Flex, NEW dto \in UpdateDto, UpdateRead(p, f, dto)
      PROVE  SerialInv' /\ Kept
  <2> DEFINE start == Given(dto.start, flexBooking[f].start)
             end == Given(dto.end, flexBooking[f].end)
             s == [pc |-> IF Moves(dto) THEN "updateCheck" ELSE "updateCommit",
                   flex |-> f, dto |-> dto, start |-> start, end |-> end,
                   monthly |-> Given(dto.monthly, flexBooking[f].monthly)]
  <2>1. /\ s.pc \in {"updateCheck", "updateCommit"} /\ s.flex = f /\ s.dto = dto
        /\ s.pc = "updateCommit" => ~Moves(dto)
        /\ s.start = start /\ s.end = end
        /\ s.monthly = Given(dto.monthly, flexBooking[f].monthly)
        /\ Starts(p, s)
    BY <1>4 DEF UpdateRead
  <2>2. ~flexBooking[f].deleted /\ start < end
    BY <1>4 DEF UpdateRead, FlexVisible, ValidPeriod
  <2> HIDE DEF s
  <2>3. Relies(s, flexBooking, booking, cancelRequest)
    BY <2>1, <2>2 DEF Relies
  <2> QED BY <1>1, <2>1, <2>3
<1>5. ASSUME NEW f \in Flex, ConfirmRead(p, f)
      PROVE  SerialInv' /\ Kept
  <2> DEFINE s == [pc |-> "confirmCommit", flex |-> f]
  <2>1. s.pc = "confirmCommit" /\ s.flex = f /\ Starts(p, s)
    BY <1>5 DEF ConfirmRead
  <2> HIDE DEF s
  <2>2. Relies(s, flexBooking, booking, cancelRequest)
    BY <1>5, <2>1 DEF Relies, ConfirmRead
  <2> QED BY <1>1, <2>1, <2>2
<1>6. ASSUME NEW f \in Flex, CancelStart(p, f) \/ DeleteRead(p, f) \/ RequestRead(p, f)
      PROVE  SerialInv' /\ Kept
  <2>1. \E s : Starts(p, s) /\ s.pc \in {"cancelRead", "deleteCheck", "requestCheck"}
    <3>1. CASE CancelStart(p, f)
      <4> DEFINE s == [pc |-> "cancelRead", flex |-> f, then |-> "done", cr |-> None]
      <4>1. Starts(p, s) /\ s.pc = "cancelRead"
        BY <3>1 DEF CancelStart
      <4> HIDE DEF s
      <4> QED BY <4>1
    <3>2. CASE DeleteRead(p, f)
      <4> DEFINE s == [pc |-> "deleteCheck", flex |-> f]
      <4>1. Starts(p, s) /\ s.pc = "deleteCheck"
        BY <3>2 DEF DeleteRead
      <4> HIDE DEF s
      <4> QED BY <4>1
    <3>3. CASE RequestRead(p, f)
      <4> DEFINE s == [pc |-> "requestCheck", flex |-> f]
      <4>1. Starts(p, s) /\ s.pc = "requestCheck"
        BY <3>3 DEF RequestRead
      <4> HIDE DEF s
      <4> QED BY <4>1
    <3> QED BY <1>6, <3>1, <3>2, <3>3
  <2> QED BY <1>1, <2>1, NothingReliedOn
<1>7. ASSUME NEW c \in CancelRequest, ApproveRead(p, c)
      PROVE  SerialInv' /\ Kept
  <2> DEFINE s == [pc |-> "cancelRead", flex |-> cancelRequest[c].booking,
                   then |-> "approveWrite", cr |-> c]
  <2>1. Starts(p, s) /\ s.pc = "cancelRead"
    BY <1>7 DEF ApproveRead
  <2> HIDE DEF s
  <2> QED BY <1>1, <2>1, NothingReliedOn
<1>8. ASSUME NEW c \in CancelRequest, RejectRead(p, c)
      PROVE  SerialInv' /\ Kept
  <2> DEFINE s == [pc |-> "rejectWrite", flex |-> cancelRequest[c].booking, cr |-> c]
  <2>1. Starts(p, s) /\ s.pc = "rejectWrite" /\ s.flex = cancelRequest[c].booking
    BY <1>8 DEF RejectRead
  <2> HIDE DEF s
  <2>2. Relies(s, flexBooking, booking, cancelRequest)
    BY <1>8, <2>1 DEF Relies, RejectRead, Reviewable
  <2> QED BY <1>1, <2>1, <2>2
<1> QED BY <1>2, <1>3, <1>4, <1>5, <1>6, <1>7, <1>8 DEF Begin

(* A request ends, or reads further and writes no row.                      *)
LEMMA EndsSerial ==
  ASSUME TypeOK, SerialInv, OneAtATime, NEW p \in Request, Ends(p), UNCHANGED tables
  PROVE  SerialInv' /\ Kept
<1>1. Relies(Idle, flexBooking, booking, cancelRequest)
  BY NothingReliedOn DEF Idle
<1> QED BY <1>1, QuietSerial DEF Ends

LEMMA CheckSerial ==
  ASSUME IInv, SerialInv, OneAtATime, NEW p \in Request,
         UpdateCheck(p) \/ CancelRead(p) \/ DeleteCheck(p) \/ RequestCheck(p)
  PROVE  SerialInv' /\ Kept
<1> DEFINE r == req[p]
<1>0. TypeOK /\ UNCHANGED tables /\ req \in [Request -> RequestState]
        /\ Relies(r, flexBooking, booking, cancelRequest)
  BY DEF IInv, TypeOK, UpdateCheck, CancelRead, DeleteCheck, RequestCheck, SerialInv
<1>1. ASSUME NEW s, Goes(p, s), Relies(s, flexBooking, booking, cancelRequest)
      PROVE  SerialInv' /\ Kept
  BY <1>0, <1>1, QuietSerial DEF Goes
<1>2. CASE Ends(p)
  BY <1>0, <1>2, EndsSerial
<1>3. CASE UpdateCheck(p) /\ ~Ends(p)
  <2> DEFINE s == [r EXCEPT !.pc = "updateCommit"]
  <2>1. r \in Updating
    BY <1>0, <1>3, RequestAt DEF UpdateCheck, At
  <2>2. /\ s.pc = "updateCommit" /\ s.flex = r.flex /\ s.dto = r.dto
        /\ s.start = r.start /\ s.end = r.end /\ s.monthly = r.monthly
    BY <2>1 DEF Updating
  <2>3. Goes(p, s) /\ ~Conflict(flexBooking[r.flex].flat, r.start, r.end, {r.flex})
    BY <1>3 DEF UpdateCheck
  <2>4. ~Clashes(flexBooking, flexBooking[r.flex].flat, r.start, r.end, {r.flex})
    BY <2>3 DEF Conflict, Holds, Clashes
  <2>5. r.pc = "updateCheck"
    BY <1>3 DEF UpdateCheck, At
  <2> HIDE DEF s
  <2>6. Relies(s, flexBooking, booking, cancelRequest)
    BY <1>0, <2>2, <2>4, <2>5 DEF Relies
  <2> QED BY <1>1, <2>3, <2>6
<1>4. CASE CancelRead(p) /\ ~Ends(p)
  <2> DEFINE s == [r EXCEPT !.pc = "cancelCommit"]
  <2>1. r \in Cancelling
    BY <1>0, <1>4, RequestAt DEF CancelRead, At
  <2>2. s.pc = "cancelCommit" /\ Goes(p, s)
    BY <1>4, <2>1 DEF Cancelling, CancelRead
  <2> HIDE DEF s
  <2> QED BY <1>1, <2>2, NothingReliedOn
<1>5. CASE DeleteCheck(p)
  <2>1. CASE NeedsCancelling(r.flex)
    <3> DEFINE s == [pc |-> "cancelRead", flex |-> r.flex, then |-> "deleteFlex",
                     cr |-> None]
    <3>1. s.pc = "cancelRead" /\ Goes(p, s)
      BY <1>5, <2>1 DEF DeleteCheck
    <3> HIDE DEF s
    <3> QED BY <1>1, <3>1, NothingReliedOn
  <2>2. CASE ~NeedsCancelling(r.flex)
    <3> DEFINE s == [pc |-> "deleteFlex", flex |-> r.flex]
    <3>1. s.pc = "deleteFlex" /\ s.flex = r.flex /\ Goes(p, s)
      BY <1>5, <2>2 DEF DeleteCheck
    <3> HIDE DEF s
    <3>2. Relies(s, flexBooking, booking, cancelRequest)
      BY <2>2, <3>1 DEF Relies, NeedsCancelling
    <3> QED BY <1>1, <3>1, <3>2
  <2> QED BY <2>1, <2>2
<1>6. CASE RequestCheck(p) /\ ~Ends(p)
  <2> DEFINE s == [r EXCEPT !.pc = "requestCommit"]
  <2>1. r \in Touching
    BY <1>0, <1>6, RequestAt DEF RequestCheck, At
  <2>2. s.pc = "requestCommit" /\ s.flex = r.flex
    BY <2>1 DEF Touching
  <2>3. Goes(p, s) /\ ~PendingRequest(r.flex)
    BY <1>6 DEF RequestCheck
  <2> HIDE DEF s
  <2>4. Relies(s, flexBooking, booking, cancelRequest)
    BY <2>2, <2>3 DEF Relies, PendingRequest
  <2> QED BY <1>1, <2>3, <2>4
<1> QED BY <1>2, <1>3, <1>4, <1>5, <1>6

-----------------------------------------------------------------------------
(* Steps that write the rows of a reservation, one request at a time        *)
LEMMA CreateSerial ==
  ASSUME IInv, SerialInv, OneAtATime, NEW p \in Request, NEW f \in Flex,
         CreateCommit(p, f)
  PROVE  SerialInv' /\ Kept
<1> DEFINE r == req[p]
           fr == [flat |-> r.flat, start |-> r.start, end |-> r.end,
                  monthly |-> r.monthly, deleted |-> FALSE, status |-> "PENDING"]
           br == [start |-> r.start, end |-> r.end, profile |-> r.profile,
                  deleted |-> FALSE, status |-> "PENDING"]
           c == [status |-> "PENDING", amount |-> FlexCommission(r.monthly)]
<1>1. /\ TypeOK /\ r \in Creating /\ r.pc = "createCommit"
      /\ Relies(r, flexBooking, booking, cancelRequest)
  BY RequestAt DEF IInv, TypeOK, CreateCommit, At, SerialInv
<1>2. /\ flexBooking' = [flexBooking EXCEPT ![f] = fr]
      /\ booking' = [booking EXCEPT ![f] = br]
      /\ commission' = [commission EXCEPT ![f] = c]
      /\ UNCHANGED cancelRequest /\ req' = [req EXCEPT ![p] = Idle]
      /\ r # Idle
  BY <1>1 DEF CreateCommit, Ends, Idle
<1>3. fr \in FlexRow
  BY <1>1 DEF Creating, FlexRow, Status
<1>4. /\ fr.start = r.start /\ fr.end = r.end /\ fr.flat = r.flat
      /\ ~fr.deleted /\ c.amount = FlexCommission(fr.monthly)
  OBVIOUS
<1> HIDE DEF fr, br, c
<1>5. r.start < r.end /\ ~Clashes(flexBooking, r.flat, r.start, r.end, {f})
  BY <1>1 DEF Relies, Clashes
<1>6. Relies(Idle, flexBooking', booking', cancelRequest)
  BY NothingReliedOn DEF Idle
<1> QED BY <1>1, <1>2, <1>3, <1>4, <1>5, <1>6, WriteSerial

(* A payment or staff confirms a reservation.                               *)
LEMMA ConfirmSerial ==
  ASSUME IInv, SerialInv, OneAtATime, NEW p \in Request,
         PayCommit(p) \/ ConfirmCommit(p)
  PROVE  SerialInv' /\ Kept
<1> DEFINE f == req[p].flex
           br == [booking[f] EXCEPT !.status = "CONFIRMED"]
<1>1. /\ TypeOK /\ Informed(req[p])
      /\ req[p].pc \in {"payCommit", "confirmCommit"}
      /\ Relies(req[p], flexBooking, booking, cancelRequest)
  BY DEF IInv, AllInformed, PayCommit, ConfirmCommit, At, SerialInv
<1>2. f \in Flex /\ Exists(f) /\ req[p] # Idle
  BY <1>1, RequestFlex DEF Informed, Idle
<1>3. /\ flexBooking[f] \in FlexRow /\ booking[f] \in BookingRow
      /\ commission[f] \in CommissionRow
      /\ Sound(flexBooking[f], booking[f], commission[f], history[f])
  BY <1>2, RowTypes
<1>4. /\ Exists(f) => flexBooking[f].start < flexBooking[f].end
      /\ flexBooking[f].deleted => booking[f].status = "CANCELLED"
      /\ commission[f].status = "PENDING" =>
           commission[f].amount = FlexCommission(flexBooking[f].monthly)
  BY <1>2 DEF SerialInv, RowsSound, DatesOrdered, DeletedStaysCancelled,
     CommissionFollowsRent
<1>5. ASSUME NEW c \in {commission[f], ApprovedOnConfirm(commission[f])}
      PROVE  c.status = "PENDING" =>
               c.amount = FlexCommission(flexBooking[f].monthly)
  BY <1>3, <1>4 DEF ApprovedOnConfirm, CommissionRow
<1>6. Relies(Idle, flexBooking', booking', cancelRequest)
  BY NothingReliedOn DEF Idle
<1>7. req' = [req EXCEPT ![p] = Idle] /\ UNCHANGED cancelRequest
        /\ booking' = [booking EXCEPT ![f] = br]
  BY DEF PayCommit, ConfirmCommit, Ends
<1>8. CASE PayCommit(p)
  <2> DEFINE fr == [flexBooking[f] EXCEPT !.status = "CONFIRMED"]
             c == IF booking[f].status = "CONFIRMED" THEN commission[f]
                  ELSE ApprovedOnConfirm(commission[f])
  <2>1. flexBooking' = [flexBooking EXCEPT ![f] = fr]
          /\ commission' = [commission EXCEPT ![f] = c]
    BY <1>1, <1>2, <1>8 DEF PayCommit, TypeOK
  <2>2. fr \in FlexRow /\ fr.start = flexBooking[f].start
          /\ fr.end = flexBooking[f].end /\ fr.flat = flexBooking[f].flat
          /\ fr.monthly = flexBooking[f].monthly /\ fr.deleted = flexBooking[f].deleted
    BY <1>3 DEF FlexRow, Status
  <2>3. ~flexBooking[f].deleted /\ flexBooking[f].status # "CANCELLED"
    BY <1>1, <1>8 DEF Relies, PayCommit, At
  <2>4. Holds(f)
    BY <1>2, <2>3 DEF Holds, Exists
  <2>5. c.status = "PENDING" => c.amount = FlexCommission(fr.monthly)
    <3>1. c \in {commission[f], ApprovedOnConfirm(commission[f])}
      OBVIOUS
    <3> HIDE DEF c, fr
    <3> QED BY <1>5, <2>2, <3>1
  <2> HIDE DEF f, fr, br, c
  <2> QED BY <1>1, <1>2, <1>4, <1>6, <1>7, <2>1, <2>2, <2>3, <2>4, <2>5, WriteSerial
<1>9. CASE ConfirmCommit(p)
  <2> DEFINE fr == flexBooking[f]
             c == ApprovedOnConfirm(commission[f])
  <2>1. flexBooking' = [flexBooking EXCEPT ![f] = fr]
          /\ commission' = [commission EXCEPT ![f] = c]
    BY <1>1, <1>2, <1>9 DEF ConfirmCommit, TypeOK
  <2>2. booking[f].status = "PENDING"
    BY <1>1, <1>9 DEF Relies, ConfirmCommit, At
  <2>3. ~fr.deleted /\ fr.status # "CANCELLED" /\ Holds(f)
    BY <1>2, <1>3, <1>4, <2>2 DEF Holds, Exists, Sound
  <2>4. c.status = "PENDING" => c.amount = FlexCommission(fr.monthly)
    BY <1>5
  <2> HIDE DEF f, br, c
  <2> QED BY <1>1, <1>2, <1>3, <1>4, <1>6, <1>7, <2>1, <2>3, <2>4, WriteSerial
<1> QED BY <1>8, <1>9

(* A PATCH writes what it validated.                                        *)
LEMMA UpdateSerial ==
  ASSUME IInv, SerialInv, OneAtATime, NEW p \in Request, UpdateCommit(p)
  PROVE  SerialInv' /\ Kept
<1> DEFINE r == req[p]
           f == r.flex
           fr == FlexUpdated(flexBooking[f], r.dto)
           br == BookingUpdated(booking[f], r)
           d == IF r.dto.monthly # None \/ r.dto.reprices
                THEN Repriced(commission[f], r.monthly) ELSE commission[f]
           c == IF r.dto.status = "CONFIRMED" /\ booking[f].status # "CONFIRMED"
                THEN ApprovedOnConfirm(d) ELSE d
           s == IF r.dto.status = "CANCELLED"
                THEN [pc |-> "cancelRead", flex |-> f, then |-> "done", cr |-> None]
                ELSE Idle
<1>1. /\ TypeOK /\ Informed(r) /\ r \in Updating /\ r.pc = "updateCommit"
      /\ Relies(r, flexBooking, booking, cancelRequest)
  BY RequestAt DEF IInv, TypeOK, AllInformed, UpdateCommit, At, SerialInv
<1>2. f \in Flex /\ Exists(f) /\ r # Idle /\ r.dto \in Dto
        /\ r.monthly \in Monthly \union {0}
  BY <1>1, DtoAssumption DEF Informed, Idle, Updating
<1>3. /\ flexBooking[f] \in FlexRow /\ booking[f] \in BookingRow
      /\ commission[f] \in CommissionRow
      /\ Sound(flexBooking[f], booking[f], commission[f], history[f])
  BY <1>2, RowTypes
<1>4. /\ flexBooking' = [flexBooking EXCEPT ![f] = fr]
      /\ booking' = [booking EXCEPT ![f] = br]
      /\ commission' = [commission EXCEPT ![f] = c]
      /\ req' = [req EXCEPT ![p] = s] /\ UNCHANGED cancelRequest
  BY <1>1, <1>2 DEF UpdateCommit, TypeOK, Goes, Ends
<1>5. /\ fr \in FlexRow
      /\ fr.start = r.start /\ fr.end = r.end /\ fr.monthly = r.monthly
      /\ fr.flat = flexBooking[f].flat /\ ~fr.deleted /\ fr.start < fr.end
      /\ r.monthly = Given(r.dto.monthly, flexBooking[f].monthly)
      /\ r.start = Given(r.dto.start, flexBooking[f].start)
      /\ r.end = Given(r.dto.end, flexBooking[f].end)
  <2>1. fr \in FlexRow
    BY <1>2, <1>3, FlexUpdatedType
  <2>2. /\ ~flexBooking[f].deleted /\ r.start < r.end
        /\ r.start = Given(r.dto.start, flexBooking[f].start)
        /\ r.end = Given(r.dto.end, flexBooking[f].end)
        /\ r.monthly = Given(r.dto.monthly, flexBooking[f].monthly)
    BY <1>1 DEF Relies
  <2>3. /\ fr.start = Given(r.dto.start, flexBooking[f].start)
        /\ fr.end = Given(r.dto.end, flexBooking[f].end)
        /\ fr.monthly = Given(r.dto.monthly, flexBooking[f].monthly)
        /\ fr.flat = flexBooking[f].flat /\ fr.deleted = flexBooking[f].deleted
    BY <1>3 DEF FlexUpdated, FlexRow
  <2> HIDE DEF fr
  <2> QED BY <2>1, <2>2, <2>3
<1>6. c.status = "PENDING" => c.amount = FlexCommission(fr.monthly)
  <2>1. commission[f].status = "PENDING" =>
          commission[f].amount = FlexCommission(flexBooking[f].monthly)
    BY <1>2 DEF SerialInv, RowsSound, CommissionFollowsRent
  <2>2. d \in CommissionRow
    BY <1>2, <1>3, CommissionUpdatedType
  <2>3. d.status = "PENDING" => d.amount = FlexCommission(r.monthly)
    <3>1. CASE r.dto.monthly # None \/ r.dto.reprices
      BY <1>3, <3>1 DEF Repriced, CommissionRow
    <3>2. CASE ~(r.dto.monthly # None \/ r.dto.reprices)
      <4>1. r.monthly = flexBooking[f].monthly /\ d = commission[f]
        BY <1>5, <3>2 DEF Given
      <4> QED BY <2>1, <4>1
    <3> QED BY <3>1, <3>2
  <2> HIDE DEF d, fr
  <2> QED BY <1>5, <2>2, <2>3 DEF ApprovedOnConfirm, CommissionRow
<1>7. \/ flexBooking[f].status = "CANCELLED"
      \/ Holds(f) /\ fr.start = flexBooking[f].start /\ fr.end = flexBooking[f].end
      \/ ~Clashes(flexBooking, fr.flat, fr.start, fr.end, {f})
  <2>1. CASE Moves(r.dto)
    BY <1>1, <1>5, <2>1 DEF Relies
  <2>2. CASE ~Moves(r.dto)
    <3>1. r.start = flexBooking[f].start /\ r.end = flexBooking[f].end
      BY <1>5, <2>2 DEF Moves, Given
    <3>2. ~flexBooking[f].deleted
      BY <1>1 DEF Relies
    <3> HIDE DEF fr
    <3> QED BY <1>2, <1>5, <3>1, <3>2 DEF Holds, Exists
  <2> QED BY <2>1, <2>2
<1>8. Relies(s, flexBooking', booking', cancelRequest)
  <2>1. s.pc \in {"idle", "cancelRead"}
    BY DEF Idle
  <2> HIDE DEF s
  <2> QED BY <2>1, NothingReliedOn
<1> HIDE DEF f, fr, br, c, d, s
<1> QED BY <1>1, <1>2, <1>4, <1>5, <1>6, <1>7, <1>8, WriteSerial

(* A cancellation, and the two updates of a deletion that follow it.        *)
LEMMA CancelSerial ==
  ASSUME IInv, SerialInv, OneAtATime, NEW p \in Request,
         CancelCommit(p) \/ DeleteFlex(p) \/ DeleteBooking(p)
  PROVE  SerialInv' /\ Kept
<1> DEFINE r == req[p]
           f == r.flex
<1>1. /\ TypeOK /\ Informed(r)
      /\ r.pc \in {"cancelCommit", "deleteFlex", "deleteBooking"}
      /\ Relies(r, flexBooking, booking, cancelRequest)
  BY DEF IInv, AllInformed, CancelCommit, DeleteFlex, DeleteBooking, At, SerialInv
<1>2. f \in Flex /\ Exists(f) /\ r # Idle
  BY <1>1, RequestFlex DEF Informed, Idle
<1>3. /\ flexBooking[f] \in FlexRow /\ booking[f] \in BookingRow
      /\ commission[f] \in CommissionRow
      /\ Sound(flexBooking[f], booking[f], commission[f], history[f])
  BY <1>2, RowTypes
<1>4. /\ flexBooking[f].start < flexBooking[f].end
      /\ flexBooking[f].deleted => /\ flexBooking[f].status = "CANCELLED"
                                   /\ booking[f].status = "CANCELLED"
      /\ commission[f].status = "PENDING" =>
           commission[f].amount = FlexCommission(flexBooking[f].monthly)
  BY <1>2 DEF SerialInv, RowsSound, DatesOrdered, DeletedStaysCancelled,
     CommissionFollowsRent
<1>5. CASE CancelCommit(p)
  <2> DEFINE fr == [flexBooking[f] EXCEPT !.status = "CANCELLED"]
             br == [booking[f] EXCEPT !.status = "CANCELLED"]
             c == [commission[f] EXCEPT !.status = "CANCELLED"]
             s == AfterCancelling(r)
  <2>1. /\ flexBooking' = [flexBooking EXCEPT ![f] = fr]
        /\ booking' = [booking EXCEPT ![f] = br]
        /\ commission' = [commission EXCEPT ![f] = c]
        /\ req' = [req EXCEPT ![p] = s] /\ UNCHANGED cancelRequest
    BY <1>1, <1>2, <1>5 DEF CancelCommit, FlexCancelled, TypeOK, Goes
  <2>2. /\ fr \in FlexRow /\ fr.status = "CANCELLED" /\ br.status = "CANCELLED"
        /\ fr.start = flexBooking[f].start /\ fr.end = flexBooking[f].end
        /\ c.status = "CANCELLED"
    BY <1>3 DEF FlexRow, BookingRow, CommissionRow, Status
  <2>3. r \in Cancelling
    BY <1>1, <1>5, RequestAt DEF CancelCommit, At, TypeOK
  <2>4. booking'[f].status = "CANCELLED"
    BY <1>1, <1>2, <2>1, <2>2 DEF TypeOK
  <2>5. Relies(s, flexBooking', booking', cancelRequest)
    <3>1. CASE r.then = "done"
      BY <3>1, NothingReliedOn DEF AfterCancelling, Idle
    <3>2. CASE r.then = "deleteFlex"
      <4>1. s.pc = "deleteFlex" /\ s.flex = f
        BY <3>2 DEF AfterCancelling
      <4> HIDE DEF s, f
      <4> QED BY <2>4, <4>1 DEF Relies
    <3>3. CASE r.then = "approveWrite"
      <4>1. s.pc = "approveWrite" /\ s.flex = f
        BY <3>3 DEF AfterCancelling
      <4> HIDE DEF s, f
      <4> QED BY <2>4, <4>1 DEF Relies
    <3> QED BY <2>3, <3>1, <3>2, <3>3 DEF Cancelling
  <2> HIDE DEF f, fr, br, c, s
  <2> QED BY <1>1, <1>2, <1>4, <2>1, <2>2, <2>5, WriteSerial
<1>6. CASE DeleteFlex(p)
  <2> DEFINE fr == [flexBooking[f] EXCEPT !.deleted = TRUE]
             br == booking[f]
             c == commission[f]
             s == [r EXCEPT !.pc = "deleteBooking"]
  <2>1. /\ flexBooking' = [flexBooking EXCEPT ![f] = fr]
        /\ booking' = [booking EXCEPT ![f] = br]
        /\ commission' = [commission EXCEPT ![f] = c]
        /\ req' = [req EXCEPT ![p] = s] /\ UNCHANGED cancelRequest
    BY <1>1, <1>2, <1>6 DEF DeleteFlex, TypeOK, Goes
  <2>2. /\ fr \in FlexRow /\ fr.status = flexBooking[f].status
        /\ fr.start = flexBooking[f].start /\ fr.end = flexBooking[f].end
        /\ fr.monthly = flexBooking[f].monthly
    BY <1>3 DEF FlexRow
  <2>3. r.pc = "deleteFlex" /\ br.status = "CANCELLED"
    BY <1>1, <1>6 DEF DeleteFlex, At, Relies
  <2>4. fr.status = "CANCELLED"
    BY <1>3, <2>2, <2>3 DEF Sound
  <2>5. r \in Touching
    BY <1>1, <2>3, RequestAt DEF TypeOK
  <2>6. s.pc = "deleteBooking"
    BY <2>5 DEF Touching
  <2> HIDE DEF f, fr, br, s
  <2>7. Relies(s, flexBooking', booking', cancelRequest)
    BY <2>6, NothingReliedOn
  <2>8. c.status = "PENDING" => c.amount = FlexCommission(fr.monthly)
    BY <1>4, <2>2
  <2> HIDE DEF c
  <2> QED BY <1>1, <1>2, <1>4, <2>1, <2>2, <2>3, <2>4, <2>7, <2>8, WriteSerial
<1>7. CASE DeleteBooking(p)
  <2> DEFINE fr == flexBooking[f]
             br == [booking[f] EXCEPT !.deleted = TRUE]
             c == commission[f]
  <2>1. /\ flexBooking' = [flexBooking EXCEPT ![f] = fr]
        /\ booking' = [booking EXCEPT ![f] = br]
        /\ commission' = [commission EXCEPT ![f] = c]
        /\ req' = [req EXCEPT ![p] = Idle] /\ UNCHANGED cancelRequest
    BY <1>1, <1>2, <1>7 DEF DeleteBooking, TypeOK, Ends
  <2>2. br.status = booking[f].status
    BY <1>3 DEF BookingRow
  <2>3. fr.deleted
    BY <1>1, <1>7 DEF DeleteBooking, At, Informed
  <2>4. Relies(Idle, flexBooking', booking', cancelRequest)
    BY NothingReliedOn DEF Idle
  <2> HIDE DEF f, br
  <2> QED BY <1>1, <1>2, <1>3, <1>4, <2>1, <2>2, <2>3, <2>4, WriteSerial
<1> QED BY <1>5, <1>6, <1>7

(* The request to cancel is filed and reviewed.                             *)
LEMMA ReviewSerial ==
  ASSUME IInv, SerialInv, OneAtATime, NEW p \in Request,
         \/ \E c \in CancelRequest : RequestCommit(p, c)
         \/ ApproveWrite(p) \/ RejectWrite(p)
  PROVE  SerialInv' /\ Kept
<1> DEFINE r == req[p]
<1>1. /\ TypeOK /\ Informed(r) /\ Relies(r, flexBooking, booking, cancelRequest)
      /\ r # Idle /\ UNCHANGED <<flexBooking, booking, commission>>
      /\ req' = [req EXCEPT ![p] = Idle]
  BY DEF IInv, AllInformed, RequestCommit, ApproveWrite, RejectWrite, At, SerialInv,
     Idle, Ends
<1>2. Relies(Idle, flexBooking', booking', cancelRequest')
  BY NothingReliedOn DEF Idle
<1>3. Alone' /\ \A q \in Request : Relies(req'[q], flexBooking', booking', cancelRequest')
  BY <1>1, <1>2, OneMoves
<1>4. DatesOrdered' /\ DeletedStaysCancelled' /\ CommissionFollowsRent'
  BY <1>1 DEF SerialInv, RowsSound, DatesOrdered, DeletedStaysCancelled,
     CommissionFollowsRent, Exists
<1>5. \A f, g \in Flex : RevivedOrApart(f, g)
  BY <1>1 DEF RevivedOrApart, Overlap, Holds
<1>6. SUFFICES OneOpenRequest' /\ \A c \in CancelRequest : ReviewedRight(c)
  BY <1>3, <1>4, <1>5, <1>6 DEF SerialInv, RowsSound, Kept
<1>7. ASSUME NEW c \in CancelRequest, RequestCommit(p, c)
      PROVE  OneOpenRequest' /\ \A d \in CancelRequest : ReviewedRight(d)
  <2> DEFINE row == [booking |-> r.flex, status |-> "PENDING"]
  <2>1. /\ cancelRequest'[c] = row
        /\ \A d \in CancelRequest \ {c} : cancelRequest'[d] = cancelRequest[d]
    BY <1>1, <1>7 DEF RequestCommit, TypeOK
  <2>2. \A d \in CancelRequest : cancelRequest[d] # row
    BY <1>1, <1>7 DEF Relies, RequestCommit, At
  <2>3. row.status = "PENDING"
    OBVIOUS
  <2> HIDE DEF row
  <2>4. OneOpenRequest'
    BY <2>1, <2>2 DEF SerialInv, RowsSound, OneOpenRequest
  <2>5. \A d \in CancelRequest : ReviewedRight(d)
    BY <2>1, <2>3 DEF ReviewedRight
  <2> QED BY <2>4, <2>5
<1>8. CASE ApproveWrite(p) \/ RejectWrite(p)
  <2> DEFINE c == r.cr
  <2>1. PICK w \in {"APPROVED", "REJECTED"} :
          /\ cancelRequest' = [cancelRequest EXCEPT ![c].status = w]
          /\ w = "APPROVED" <=> booking[r.flex].status = "CANCELLED"
    BY <1>1, <1>8 DEF ApproveWrite, RejectWrite, At, Relies
  <2>2. c \in CancelRequest /\ cancelRequest[c].booking = r.flex
    BY <1>1, <1>8, ForReviewKnown DEF ForReview, ApproveWrite, RejectWrite, At
  <2>3. cancelRequest[c] \in CancelRequestRow
    BY <1>1, <2>2 DEF TypeOK
  <2>4. /\ cancelRequest'[c].status = w
        /\ \A d \in CancelRequest \ {c} : cancelRequest'[d] = cancelRequest[d]
    BY <1>1, <2>1, <2>2, <2>3 DEF TypeOK, CancelRequestRow
  <2> HIDE DEF c
  <2>5. OneOpenRequest'
    BY <2>4 DEF SerialInv, RowsSound, OneOpenRequest
  <2>6. \A d \in CancelRequest : ReviewedRight(d)
    BY <2>1, <2>2, <2>4 DEF ReviewedRight
  <2> QED BY <2>5, <2>6
<1> QED BY <1>7, <1>8

LEMMA SerialStep ==
  ASSUME IInv, SerialInv, Next, OneAtATime
  PROVE  SerialInv' /\ Kept
<1>1. ASSUME NEW p \in Request, Fail(p)
      PROVE  SerialInv' /\ Kept
  BY <1>1, EndsSerial DEF Fail, IInv
<1> QED BY <1>1, BeginSerial, CheckSerial, CreateSerial, ConfirmSerial, UpdateSerial,
           CancelSerial, ReviewSerial DEF Next, Continue

LEMMA SerialInit == Init => SerialInv
<1> SUFFICES ASSUME Init PROVE SerialInv
  OBVIOUS
<1>1. Relies(Idle, flexBooking, booking, cancelRequest)
  BY NothingReliedOn DEF Idle
<1>2. \A p \in Request : Relies(req[p], flexBooking, booking, cancelRequest)
  BY <1>1 DEF Init
<1> QED BY <1>2 DEF Init, SerialInv, Alone, RowsSound, DatesOrdered,
     DeletedStaysCancelled, CommissionFollowsRent, OneOpenRequest, Exists

(* Any behaviour in which requests are served one at a time, without the      *)
(* bounds of the scenes.                                                      *)
SerialSpec == Init /\ [][Next /\ OneAtATime]_vars

LEMMA SerialInvStep ==
  ASSUME IInv, SerialInv, [Next /\ OneAtATime]_vars
  PROVE  IInv' /\ SerialInv' /\ (Kept \/ UNCHANGED vars)
<1>1. CASE Next /\ OneAtATime
  BY <1>1, NextInv, SerialStep
<1>2. CASE UNCHANGED vars
  <2>1. IInv'
    BY <1>2, NextInv
  <2>2. SerialInv'
    BY <1>2 DEF vars, SerialInv, Alone, RowsSound, DatesOrdered,
       DeletedStaysCancelled, CommissionFollowsRent, OneOpenRequest, Exists
  <2> QED BY <1>2, <2>1, <2>2
<1> QED BY <1>1, <1>2

(* For any number of reservations, with any dates, rents and bodies of PATCH: *)
(* while requests are served one at a time the rows of a reservation stay     *)
(* sound, only a revival double-books, and a review tells the truth.          *)
THEOREM ServedOneAtATime == SerialSpec => []RowsSound /\ [][Kept]_vars
<1>1. Init => IInv /\ SerialInv
  BY InitInv, SerialInit
<1>2. IInv /\ SerialInv /\ [Next /\ OneAtATime]_vars => (IInv /\ SerialInv)' /\ [Kept]_vars
  BY SerialInvStep
<1>3. SerialInv => RowsSound
  BY DEF SerialInv
<1> QED BY <1>1, <1>2, <1>3, PTL DEF SerialSpec

-----------------------------------------------------------------------------
(* The scenes of the instance are behaviours of the specification.          *)
SceneInv == IInv /\ (Serial => SerialInv)

LEMMA SceneStep ==
  ASSUME SceneInv, [MCNext]_<<vars, scene>>, scene \in {"concurrent", "calendar", "review"}
  PROVE  /\ SceneInv'
         /\ Serial => Kept \/ UNCHANGED vars
<1>1. CASE MCNext
  <2>1. Next /\ scene' = scene /\ (Serial => OneAtATime)
    BY <1>1 DEF MCNext, CalendarScene, ReviewScene, Serial
  <2> QED BY <2>1, NextInv, SerialStep DEF SceneInv, Serial
<1>2. CASE UNCHANGED <<vars, scene>>
  <2>1. IInv'
    BY <1>2, NextInv DEF SceneInv
  <2>2. SerialInv => SerialInv'
    BY <1>2 DEF vars, SerialInv, Alone, RowsSound, DatesOrdered,
       DeletedStaysCancelled, CommissionFollowsRent, OneOpenRequest, Exists
  <2> QED BY <1>2, <2>1, <2>2 DEF SceneInv, Serial
<1> QED BY <1>1, <1>2

LEMMA SceneInvariant ==
  MCSpec => [](SceneInv /\ scene \in {"concurrent", "calendar", "review"})
<1> DEFINE Inv == SceneInv /\ scene \in {"concurrent", "calendar", "review"}
<1>1. MCInit => Inv
  BY InitInv, SerialInit DEF MCInit, SceneInv
<1>2. Inv /\ [MCNext]_<<vars, scene>> => Inv'
  BY SceneStep DEF MCNext
<1> QED BY <1>1, <1>2, PTL DEF MCSpec

(* While requests are served one at a time, and whichever of them dies      *)
(* between two awaits: a reservation starts before it ends and stays        *)
(* cancelled once deleted, its commission follows its rent, and one request *)
(* to cancel it is open.                                                    *)
THEOREM SerialRows == MCSpec => []SerialRowsSound
<1>1. SceneInv => SerialRowsSound
  BY DEF SceneInv, SerialInv, RowsSound, SerialRowsSound
<1> QED BY <1>1, SceneInvariant, PTL

(* While requests are served one at a time, no request but a PATCH that     *)
(* revives a cancelled reservation puts two on one flat for one night.      *)
THEOREM SerialCalendar == MCSpec => SerialOnlyRevivalDoubleBooks
<1>1. ASSUME SceneInv, [MCNext]_<<vars, scene>>,
             scene \in {"concurrent", "calendar", "review"}
      PROVE  [Serial => \A f, g \in Flex : RevivedOrApart(f, g)]_vars
  BY <1>1, SceneStep DEF Kept
<1> QED BY <1>1, SceneInvariant, PTL DEF MCSpec, SerialOnlyRevivalDoubleBooks

(* While requests are served one at a time, a request to cancel is approved *)
(* when its booking is cancelled and rejected when it is not.               *)
THEOREM SerialReview == MCSpec => SerialReviewIsTruthful
<1>1. ASSUME SceneInv, [MCNext]_<<vars, scene>>,
             scene \in {"concurrent", "calendar", "review"}
      PROVE  [Serial => \A c \in CancelRequest : ReviewedRight(c)]_vars
  BY <1>1, SceneStep DEF Kept
<1> QED BY <1>1, SceneInvariant, PTL DEF MCSpec, SerialReviewIsTruthful
=============================================================================
