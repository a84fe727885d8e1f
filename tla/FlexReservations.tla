--------------------------- MODULE FlexReservations ---------------------------
(***************************************************************************)
(* The life of a FLEX reservation.  A reservation is three rows that share *)
(* one identifier here: the FlexBooking (operational detail), its mirror   *)
(* in the Booking registry and the Commission of its ambassador.           *)
(*                                                                         *)
(* Every HTTP request is a process.  An `await` outside a transaction is a *)
(* step of its own, and what it read is kept in req[p] and may be stale    *)
(* when it is used; a Prisma `$transaction` (PostgreSQL, READ COMMITTED)   *)
(* is one step: those that write a FlexBooking lock it first, and          *)
(* BookingsService.confirm, which does not, leaves the rows as one of the  *)
(* two serial orders would.  A request may die between two of its steps.   *)
(*                                                                         *)
(* Sources: flex-bookings.service.ts, bookings.service.ts,                 *)
(* booking-cancellation-requests.service.ts, commission-workflow.service.ts*)
(***************************************************************************)
EXTENDS Integers

CONSTANTS
  Request,        \* concurrent requests (request slots) of the API
  Flex,           \* identifiers of reservations
  Flat,           \* PropertyFlex identifiers
  Day,            \* days a stay may start or end on
  Monthly,        \* monthly amounts
  Rate,           \* commission rate, in percent
  Profile,        \* ambassador profiles
  CancelRequest,  \* identifiers of BookingCancellationRequest rows
  UpdateDto,      \* bodies of PATCH /flex-bookings/:id
  None            \* an absent (null, undefined) value

Status == {"PENDING", "CONFIRMED", "CANCELLED", "COMPLETED"}

(* A body of PATCH: each field given or absent; `reprices` stands for a     *)
(* body with totalAmount or totalMonths.                                    *)
Dto == [status : Status \union {None}, start : Day \union {None},
        end : Day \union {None}, monthly : Monthly \union {None},
        reprices : BOOLEAN]

ASSUME DayAssumption == Day \subseteq Nat /\ 0 \in Day
ASSUME AmountAssumption == Monthly \subseteq Nat /\ Rate \in Nat
ASSUME DtoAssumption == UpdateDto \subseteq Dto
ASSUME NoneAssumption ==
  /\ None \notin Status /\ None \notin Day /\ None \notin Monthly
  /\ None \notin Flat \union Profile \union CancelRequest \union Flex

VARIABLES
  flexBooking,    \* the flex_bookings table
  booking,        \* the bookings table (rows with source FLEX)
  commission,     \* the commissions table
  history,        \* the statuses booking_status_history records, per booking
  cancelRequest,  \* the booking_cancellation_requests table
  req             \* what each request is doing and what it has read

tables == <<flexBooking, booking, commission, history, cancelRequest>>
vars == <<flexBooking, booking, commission, history, cancelRequest, req>>

-----------------------------------------------------------------------------
(* Rows.  Status "ABSENT" marks an identifier no row uses yet.              *)

FlexRow == [flat : Flat \union {None}, start : Day, end : Day,
            monthly : Monthly \union {0}, deleted : BOOLEAN,
            status : Status \union {"ABSENT"}]
BookingRow == [start : Day, end : Day, profile : Profile \union {None},
               deleted : BOOLEAN, status : Status \union {"ABSENT"}]
CommissionRow == [status : {"ABSENT", "PENDING", "APPROVED", "CANCELLED"},
                  amount : Nat]
CancelRequestRow ==
  [booking : {None}, status : {"ABSENT"}]
    \union [booking : Flex, status : {"PENDING", "APPROVED", "REJECTED"}]

Idle == [pc |-> "idle"]

(* Where a request stands, with the values it read and will use later.      *)
Creating == [pc : {"createCommit"}, flat : Flat, start : Day, end : Day,
             monthly : Monthly, profile : Profile \union {None}]
Updating == [pc : {"updateCheck", "updateCommit"}, flex : Flex,
             dto : UpdateDto, start : Day, end : Day,
             monthly : Monthly \union {0}]
Touching == [pc : {"payCommit", "confirmCommit", "deleteCheck", "deleteFlex",
                   "deleteBooking", "requestCheck", "requestCommit"},
             flex : Flex]
Cancelling ==
  [pc : {"cancelRead", "cancelCommit"}, flex : Flex,
   then : {"done", "deleteFlex"}, cr : {None}]
    \union [pc : {"cancelRead", "cancelCommit"}, flex : Flex,
            then : {"approveWrite"}, cr : CancelRequest]
Reviewing == [pc : {"approveWrite", "rejectWrite"}, flex : Flex,
              cr : CancelRequest]

RequestState ==
  {Idle} \union Creating \union Updating \union Touching
         \union Cancelling \union Reviewing

TypeOK ==
  /\ flexBooking \in [Flex -> FlexRow]
  /\ booking \in [Flex -> BookingRow]
  /\ commission \in [Flex -> CommissionRow]
  /\ history \in [Flex -> SUBSET Status]
  /\ cancelRequest \in [CancelRequest -> CancelRequestRow]
  /\ req \in [Request -> RequestState]

Init ==
  /\ flexBooking = [f \in Flex |-> [flat |-> None, start |-> 0, end |-> 0,
                                    monthly |-> 0, deleted |-> FALSE,
                                    status |-> "ABSENT"]]
  /\ booking = [f \in Flex |-> [start |-> 0, end |-> 0, profile |-> None,
                                deleted |-> FALSE, status |-> "ABSENT"]]
  /\ commission = [f \in Flex |-> [status |-> "ABSENT", amount |-> 0]]
  /\ history = [f \in Flex |-> {}]
  /\ cancelRequest = [c \in CancelRequest |->
                        [booking |-> None, status |-> "ABSENT"]]
  /\ req = [p \in Request |-> Idle]

-----------------------------------------------------------------------------
(* Queries and writes the handlers share.  A definition named like another   *)
(* with a suffix is a variant of it that a mistake would give; no action      *)
(* uses it, and each is paired with the property that rules it out.           *)

Exists(f) == flexBooking[f].status # "ABSENT"
FlexVisible_Deleted(f) == Exists(f)
FlexVisible(f) == Exists(f) /\ ~flexBooking[f].deleted
BookingVisible(f) == Exists(f) /\ ~booking[f].deleted

(* A row that takes its flat for its days: neither deleted nor cancelled.   *)
Holds(f) ==
  /\ flexBooking[f].status \notin {"ABSENT", "CANCELLED"}
  /\ ~flexBooking[f].deleted

ValidPeriod_Empty(start, end) == start <= end
ValidPeriod(start, end) == start < end

(* The conflict query: startDate < end and endDate > start.                 *)
Conflict_Contained(flat, start, end, except) ==
  \E g \in Flex \ except :
    /\ Holds(g)
    /\ flexBooking[g].flat = flat
    /\ flexBooking[g].start <= start
    /\ flexBooking[g].end >= end
Conflict(flat, start, end, except) ==
  \E g \in Flex \ except :
    /\ Holds(g)
    /\ flexBooking[g].flat = flat
    /\ flexBooking[g].start < end
    /\ flexBooking[g].end > start

FlexCommission_Minus(monthly) == monthly - Rate
FlexCommission(monthly) == monthly * Rate

(* Commission updates: `updateMany`s that test the status they find.  The    *)
(* test settlementId = null is left out: a PENDING commission is in no      *)
(* settlement (CommissionSettlements, PendingUnassigned).                   *)
ApprovedOnConfirm_Any(c) == [c EXCEPT !.status = "APPROVED"]
ApprovedOnConfirm(c) ==
  IF c.status = "PENDING" THEN [c EXCEPT !.status = "APPROVED"] ELSE c

Repriced_Never(c, monthly) == c
Repriced(c, monthly) ==
  IF c.status = "PENDING"
  THEN [c EXCEPT !.amount = FlexCommission(monthly)] ELSE c

(* The registry moves to a status and the move is logged, if it is a move.  *)
Logged_Never(f, status) == history
Logged(f, status) ==
  [history EXCEPT ![f] = IF booking[f].status = status THEN @
                         ELSE @ \union {status}]

Starts(p, state) == req[p] = Idle /\ req' = [req EXCEPT ![p] = state]
Goes(p, state) == req' = [req EXCEPT ![p] = state]
Ends(p) == req' = [req EXCEPT ![p] = Idle]
At(p, pc) == req[p].pc = pc

-----------------------------------------------------------------------------
(* POST /flex-bookings                                                      *)

CreateRead(p, flat, start, end, monthly, profile) ==
  /\ ValidPeriod(start, end)
  /\ ~Conflict(flat, start, end, {})
  /\ Starts(p, [pc |-> "createCommit", flat |-> flat, start |-> start,
                end |-> end, monthly |-> monthly, profile |-> profile])
  /\ UNCHANGED tables

CreateCommit(p, f) ==
  LET r == req[p] IN
  /\ At(p, "createCommit")
  /\ ~Exists(f)
  /\ flexBooking' = [flexBooking EXCEPT ![f] =
       [flat |-> r.flat, start |-> r.start, end |-> r.end,
        monthly |-> r.monthly, deleted |-> FALSE, status |-> "PENDING"]]
  /\ booking' = [booking EXCEPT ![f] =
       [start |-> r.start, end |-> r.end, profile |-> r.profile,
        deleted |-> FALSE, status |-> "PENDING"]]
  /\ commission' = [commission EXCEPT ![f] =
       [status |-> "PENDING", amount |-> FlexCommission(r.monthly)]]
  /\ history' = Logged(f, "PENDING")
  /\ Ends(p)
  /\ UNCHANGED cancelRequest

(* FlexBookingsService.confirmFromPayment, called when a payment is approved *)

PayRead(p, f) ==
  /\ FlexVisible(f)
  /\ flexBooking[f].status \notin {"CONFIRMED", "CANCELLED"}
  /\ Starts(p, [pc |-> "payCommit", flex |-> f])
  /\ UNCHANGED tables

PayCommit(p) ==
  LET f == req[p].flex IN
  /\ At(p, "payCommit")
  /\ flexBooking' = [flexBooking EXCEPT ![f].status = "CONFIRMED"]
  /\ booking' = [booking EXCEPT ![f].status = "CONFIRMED"]
  /\ commission' = IF booking[f].status = "CONFIRMED" THEN commission
                   ELSE [commission EXCEPT ![f] = ApprovedOnConfirm(@)]
  /\ history' = Logged(f, "CONFIRMED")
  /\ Ends(p)
  /\ UNCHANGED cancelRequest

-----------------------------------------------------------------------------
(* PATCH /flex-bookings/:id                                                 *)

Given(new, old) == IF new # None THEN new ELSE old
Moves(dto) == dto.start # None \/ dto.end # None

UpdateRead(p, f, dto) ==
  LET start == Given(dto.start, flexBooking[f].start)
      end   == Given(dto.end, flexBooking[f].end)
  IN
  /\ FlexVisible(f)
  /\ ValidPeriod(start, end)
  /\ Starts(p, [pc |-> IF Moves(dto) THEN "updateCheck" ELSE "updateCommit",
                flex |-> f, dto |-> dto, start |-> start, end |-> end,
                monthly |-> Given(dto.monthly, flexBooking[f].monthly)])
  /\ UNCHANGED tables

UpdateCheck(p) ==
  LET r == req[p] IN
  /\ At(p, "updateCheck")
  /\ IF Conflict(flexBooking[r.flex].flat, r.start, r.end, {r.flex})
     THEN Ends(p)
     ELSE Goes(p, [r EXCEPT !.pc = "updateCommit"])
  /\ UNCHANGED tables

(* What the body changes of the flex row and of the registry row.            *)
NewStatus(dto, old) ==
  IF dto.status \notin {None, "CANCELLED"} THEN dto.status ELSE old
FlexUpdated(row, dto) ==
  [row EXCEPT !.status = NewStatus(dto, row.status),
              !.start = Given(dto.start, row.start),
              !.end = Given(dto.end, row.end),
              !.monthly = Given(dto.monthly, row.monthly)]
BookingUpdated_Both(row, r) ==
  [row EXCEPT !.status = NewStatus(r.dto, row.status),
              !.start = r.start, !.end = r.end]
BookingUpdated(row, r) ==
  [row EXCEPT !.status = NewStatus(r.dto, row.status),
              !.start = Given(r.dto.start, row.start),
              !.end = Given(r.dto.end, row.end)]

(* The transaction; a cancellation writes the other fields here and goes on *)
(* to executeCancellation after the transaction has committed.              *)
UpdateCommit(p) ==
  LET r == req[p]
      f == r.flex
      dto == r.dto
      repriced == IF dto.monthly # None \/ dto.reprices
                  THEN Repriced(commission[f], r.monthly) ELSE commission[f]
      approves == dto.status = "CONFIRMED" /\ booking[f].status # "CONFIRMED"
  IN
  /\ At(p, "updateCommit")
  /\ flexBooking' = [flexBooking EXCEPT ![f] = FlexUpdated(@, dto)]
  /\ booking' = [booking EXCEPT ![f] = BookingUpdated(@, r)]
  /\ commission' = [commission EXCEPT ![f] =
       IF approves THEN ApprovedOnConfirm(repriced) ELSE repriced]
  /\ history' = Logged(f, NewStatus(dto, booking[f].status))
  /\ IF dto.status = "CANCELLED"
     THEN Goes(p, [pc |-> "cancelRead", flex |-> f, then |-> "done",
                   cr |-> None])
     ELSE Ends(p)
  /\ UNCHANGED cancelRequest

-----------------------------------------------------------------------------
(* BookingsService.confirm: POST /bookings/:id/confirm, which does not ask   *)
(* for the source of the booking                                            *)

ConfirmRead(p, f) ==
  /\ BookingVisible(f)
  /\ booking[f].status = "PENDING"
  /\ Starts(p, [pc |-> "confirmCommit", flex |-> f])
  /\ UNCHANGED tables

ConfirmCommit(p) ==
  LET f == req[p].flex IN
  /\ At(p, "confirmCommit")
  /\ booking' = [booking EXCEPT ![f].status = "CONFIRMED"]
  /\ commission' = [commission EXCEPT ![f] = ApprovedOnConfirm(@)]
  /\ history' = [history EXCEPT ![f] = @ \union {"CONFIRMED"}]
  /\ Ends(p)
  /\ UNCHANGED <<flexBooking, cancelRequest>>

-----------------------------------------------------------------------------
(* BookingsService.executeCancellation, a subroutine of POST                *)
(* /bookings/:id/cancel, PATCH and DELETE /flex-bookings/:id and the        *)
(* approval of a cancellation request; `then` is where its caller goes on.  *)

CancelStart(p, f) ==
  /\ Exists(f)
  /\ Starts(p, [pc |-> "cancelRead", flex |-> f, then |-> "done", cr |-> None])
  /\ UNCHANGED tables

(* Where the caller goes on once the booking is cancelled.                   *)
AfterCancelling(r) ==
  CASE r.then = "done" -> Idle
    [] r.then = "deleteFlex" -> [pc |-> "deleteFlex", flex |-> r.flex]
    [] r.then = "approveWrite" ->
         [pc |-> "approveWrite", flex |-> r.flex, cr |-> r.cr]

Cancellable(f) ==
  BookingVisible(f) /\ booking[f].status \notin {"CANCELLED", "COMPLETED"}

CancelRead_Quiet(p) ==
  LET r == req[p] IN
  /\ At(p, "cancelRead")
  /\ Goes(p, IF Cancellable(r.flex) THEN [r EXCEPT !.pc = "cancelCommit"]
             ELSE AfterCancelling(r))
  /\ UNCHANGED tables
CancelRead(p) ==
  LET r == req[p] IN
  /\ At(p, "cancelRead")
  /\ IF Cancellable(r.flex)
     THEN Goes(p, [r EXCEPT !.pc = "cancelCommit"])
     ELSE Ends(p)
  /\ UNCHANGED tables

FlexCancelled_Forgotten(f) == flexBooking
FlexCancelled(f) == [flexBooking EXCEPT ![f].status = "CANCELLED"]

CancelCommit(p) ==
  LET r == req[p]
      f == r.flex
  IN
  /\ At(p, "cancelCommit")
  /\ flexBooking' = FlexCancelled(f)
  /\ booking' = [booking EXCEPT ![f].status = "CANCELLED"]
  /\ commission' = [commission EXCEPT ![f].status = "CANCELLED"]
  /\ history' = [history EXCEPT ![f] = @ \union {"CANCELLED"}]
  /\ Goes(p, AfterCancelling(r))
  /\ UNCHANGED cancelRequest

-----------------------------------------------------------------------------
(* DELETE /flex-bookings/:id: cancellation, then two separate updates       *)

NeedsCancelling_Confirmed(f) == booking[f].status = "CONFIRMED"
NeedsCancelling(f) == booking[f].status # "CANCELLED"

DeleteRead(p, f) ==
  /\ FlexVisible(f)
  /\ Starts(p, [pc |-> "deleteCheck", flex |-> f])
  /\ UNCHANGED tables

DeleteCheck(p) ==
  LET f == req[p].flex IN
  /\ At(p, "deleteCheck")
  /\ Goes(p, IF NeedsCancelling(f)
             THEN [pc |-> "cancelRead", flex |-> f, then |-> "deleteFlex",
                   cr |-> None]
             ELSE [pc |-> "deleteFlex", flex |-> f])
  /\ UNCHANGED tables

DeleteFlex(p) ==
  /\ At(p, "deleteFlex")
  /\ flexBooking' = [flexBooking EXCEPT ![req[p].flex].deleted = TRUE]
  /\ Goes(p, [req[p] EXCEPT !.pc = "deleteBooking"])
  /\ UNCHANGED <<booking, commission, history, cancelRequest>>

DeleteBooking(p) ==
  /\ At(p, "deleteBooking")
  /\ booking' = [booking EXCEPT ![req[p].flex].deleted = TRUE]
  /\ Ends(p)
  /\ UNCHANGED <<flexBooking, commission, history, cancelRequest>>

-----------------------------------------------------------------------------
(* Cancellation requests of ambassadors                                     *)

PendingRequest_Rejected(f) ==
  \E c \in CancelRequest : cancelRequest[c] = [booking |-> f,
                                               status |-> "REJECTED"]
PendingRequest(f) ==
  \E c \in CancelRequest : cancelRequest[c] = [booking |-> f,
                                               status |-> "PENDING"]

RequestRead(p, f) ==
  /\ BookingVisible(f)
  /\ booking[f].profile # None
  /\ booking[f].status \in {"PENDING", "CONFIRMED"}
  /\ Starts(p, [pc |-> "requestCheck", flex |-> f])
  /\ UNCHANGED tables

RequestCheck(p) ==
  LET r == req[p] IN
  /\ At(p, "requestCheck")
  /\ IF PendingRequest(r.flex)
     THEN Ends(p)
     ELSE Goes(p, [r EXCEPT !.pc = "requestCommit"])
  /\ UNCHANGED tables

RequestCommit(p, c) ==
  /\ At(p, "requestCommit")
  /\ cancelRequest[c].status = "ABSENT"
  /\ cancelRequest' = [cancelRequest EXCEPT ![c] =
                         [booking |-> req[p].flex, status |-> "PENDING"]]
  /\ Ends(p)
  /\ UNCHANGED <<flexBooking, booking, commission, history>>

(* findPendingRequest                                                       *)
Reviewable_Cancelled(c) ==
  /\ cancelRequest[c].status = "PENDING"
  /\ ~booking[cancelRequest[c].booking].deleted
Reviewable(c) ==
  /\ cancelRequest[c].status = "PENDING"
  /\ ~booking[cancelRequest[c].booking].deleted
  /\ booking[cancelRequest[c].booking].status # "CANCELLED"

ApproveRead(p, c) ==
  /\ Reviewable(c)
  /\ Starts(p, [pc |-> "cancelRead", flex |-> cancelRequest[c].booking,
                then |-> "approveWrite", cr |-> c])
  /\ UNCHANGED tables

RejectRead(p, c) ==
  /\ Reviewable(c)
  /\ Starts(p, [pc |-> "rejectWrite", flex |-> cancelRequest[c].booking,
                cr |-> c])
  /\ UNCHANGED tables

ApproveWrite(p) ==
  /\ At(p, "approveWrite")
  /\ cancelRequest' = [cancelRequest EXCEPT ![req[p].cr].status = "APPROVED"]
  /\ Ends(p)
  /\ UNCHANGED <<flexBooking, booking, commission, history>>

RejectWrite(p) ==
  /\ At(p, "rejectWrite")
  /\ cancelRequest' = [cancelRequest EXCEPT ![req[p].cr].status = "REJECTED"]
  /\ Ends(p)
  /\ UNCHANGED <<flexBooking, booking, commission, history>>

-----------------------------------------------------------------------------
(* The process dies, the client is cut off by an error of the database: the  *)
(* rest of the handler is not run and nothing resumes it.                   *)
Fail(p) ==
  /\ req[p] # Idle
  /\ Ends(p)
  /\ UNCHANGED tables

Begin(p) ==
  \/ \E flat \in Flat, start, end \in Day, monthly \in Monthly,
        profile \in Profile \union {None} :
       CreateRead(p, flat, start, end, monthly, profile)
  \/ \E f \in Flex :
       \/ PayRead(p, f)
       \/ \E dto \in UpdateDto : UpdateRead(p, f, dto)
       \/ ConfirmRead(p, f)
       \/ CancelStart(p, f)
       \/ DeleteRead(p, f)
       \/ RequestRead(p, f)
  \/ \E c \in CancelRequest : ApproveRead(p, c) \/ RejectRead(p, c)

Continue(p) ==
  \/ \E f \in Flex : CreateCommit(p, f)
  \/ PayCommit(p)
  \/ UpdateCheck(p)
  \/ UpdateCommit(p)
  \/ ConfirmCommit(p)
  \/ CancelRead(p)
  \/ CancelCommit(p)
  \/ DeleteCheck(p)
  \/ DeleteFlex(p)
  \/ DeleteBooking(p)
  \/ RequestCheck(p)
  \/ \E c \in CancelRequest : RequestCommit(p, c)
  \/ ApproveWrite(p)
  \/ RejectWrite(p)

Next == \E p \in Request : Begin(p) \/ Continue(p) \/ Fail(p)

Spec == Init /\ [][Next]_vars

-----------------------------------------------------------------------------
(* Properties that hold however the requests interleave or fail             *)

(* The registry is never behind the operational row: where the two disagree  *)
(* it is because the registry says CONFIRMED.  So a reservation confirmed,   *)
(* completed by a transaction of flex-bookings.service.ts or still pending   *)
(* in the registry is so in flex_bookings, and one the registry shows        *)
(* cancelled no longer blocks the calendar.                                  *)
RegistryNeverBehind ==
  \A f \in Flex : booking[f].status \in {flexBooking[f].status, "CONFIRMED"}

(* Both tables give the same dates: partial date changes of rival PATCHes    *)
(* land field by field in the two tables alike.                              *)
DatesMirrored ==
  \A f \in Flex : /\ booking[f].start = flexBooking[f].start
                  /\ booking[f].end = flexBooking[f].end

(* What the ambassador is owed follows from what happened to the booking:    *)
(* nothing once it was ever cancelled, the commission once it was ever       *)
(* confirmed, a pending commission until then.                               *)
CommissionTellsHistory ==
  \A f \in Flex :
    commission[f].status =
      IF "CANCELLED" \in history[f] THEN "CANCELLED"
      ELSE IF "CONFIRMED" \in history[f] THEN "APPROVED"
      ELSE IF Exists(f) THEN "PENDING" ELSE "ABSENT"

(* The audit trail is complete: booking_status_history knows every status    *)
(* the registry shows, whichever service wrote it.                           *)
AuditTrail ==
  \A f \in Flex : Exists(f) => booking[f].status \in history[f]

(* A cancellation request is only ever marked APPROVED after its booking was *)
(* cancelled, whatever else happened to either in the meantime.              *)
ApprovedRequestCancelled ==
  \A c \in CancelRequest :
    cancelRequest[c].status = "APPROVED" =>
      "CANCELLED" \in history[cancelRequest[c].booking]

(* No reservation disappears with its commission alive: what is soft-deleted *)
(* was cancelled first, and the registry row is hidden last.                 *)
DeletedWasCancelled ==
  \A f \in Flex :
    /\ flexBooking[f].deleted => "CANCELLED" \in history[f]
    /\ booking[f].deleted => flexBooking[f].deleted

(* The two tables agree on the days, and on the status but for a reservation *)
(* that the booking routes confirmed: the mirror that the transactions of     *)
(* flex-bookings.service.ts keep by hand, row by row.                        *)
RowsAgree == RegistryNeverBehind /\ DatesMirrored

(* What the history of a booking tells is what the other tables follow: its  *)
(* commission, the review of its cancellation requests and its deletion.     *)
HistoryTold ==
  CommissionTellsHistory /\ AuditTrail /\ ApprovedRequestCancelled /\ DeletedWasCancelled

-----------------------------------------------------------------------------
(* Properties that hold when requests are served one at a time (one request  *)
(* slot, which may still fail between two steps)                             *)

Overlap(f, g) ==
  /\ f # g
  /\ Holds(f) /\ Holds(g)
  /\ flexBooking[f].flat = flexBooking[g].flat
  /\ flexBooking[f].start < flexBooking[g].end
  /\ flexBooking[g].start < flexBooking[f].end

(* Only bringing a cancelled reservation back with PATCH, which checks no    *)
(* calendar, can put two reservations on the same flat for the same night.   *)
RevivedOrApart(f, g) ==
  Overlap(f, g)' => \/ Overlap(f, g)
                    \/ flexBooking[f].status = "CANCELLED"
                    \/ flexBooking[g].status = "CANCELLED"
OnlyRevivalDoubleBooks == [][\A f, g \in Flex : RevivedOrApart(f, g)]_vars

(* A reservation starts before it ends.                                      *)
DatesOrdered ==
  \A f \in Flex : Exists(f) => flexBooking[f].start < flexBooking[f].end

(* A commission not yet earned is computed from the rent the reservation has *)
(* now.                                                                      *)
CommissionFollowsRent ==
  \A f \in Flex : commission[f].status = "PENDING" =>
    commission[f].amount = FlexCommission(flexBooking[f].monthly)

(* A deleted reservation stays cancelled in both tables.                     *)
DeletedStaysCancelled ==
  \A f \in Flex : flexBooking[f].deleted =>
    flexBooking[f].status = "CANCELLED" /\ booking[f].status = "CANCELLED"

(* An ambassador has at most one open cancellation request per booking.      *)
OneOpenRequest ==
  \A c, d \in CancelRequest :
    /\ cancelRequest[c].status = "PENDING"
    /\ cancelRequest[d] = cancelRequest[c]
    => c = d

(* A request is approved when its booking is cancelled and rejected when it  *)
(* is not.                                                                   *)
ReviewedRight(c) ==
  LET cancelled == booking[cancelRequest[c].booking].status = "CANCELLED"
  IN cancelRequest'[c].status # cancelRequest[c].status =>
       /\ cancelRequest'[c].status = "APPROVED" => cancelled
       /\ cancelRequest'[c].status = "REJECTED" => ~cancelled
ReviewIsTruthful == [][\A c \in CancelRequest : ReviewedRight(c)]_vars

-----------------------------------------------------------------------------
(* What a doc or a message of the code says and concurrent requests, or the  *)
(* flex routes and the booking routes together, do not keep                  *)

(* "FlexBookingStatus -> BookingStatus: PENDING -> PENDING, ...": the mirror *)
(* has the status of the flex row.                                           *)
RegistryMirrors ==
  \A f \in Flex : booking[f].status = flexBooking[f].status

(* Creating a FlexBooking makes sure that no other that is not cancelled     *)
(* overlaps its period: a row that appears overlaps none.                    *)
CreatedWithoutOverlap ==
  [][\A f, g \in Flex : ~Exists(f) => ~Overlap(f, g)']_vars

(* What the commission side is promised: see CommissionLedger.               *)
Ledger == INSTANCE CommissionLedger
  WITH Id <- Flex, Amount <- {FlexCommission(m) : m \in Monthly \union {0}},
       profile <- [f \in Flex |-> booking[f].profile],
       stay <- [f \in Flex |-> booking[f].status],
       shown <- [f \in Flex |-> ~booking[f].deleted],
       status <- [f \in Flex |-> commission[f].status],
       amount <- [f \in Flex |-> commission[f].amount]

(* The reservation handlers keep the promise of CommissionLedger.            *)
LedgerPromise == Ledger!LedgerSpec
=============================================================================
