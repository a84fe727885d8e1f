----------------------------- MODULE FlexPayments -----------------------------
(***************************************************************************)
(* Paying a FLEX reservation through Mercado Pago: the checkout the guest  *)
(* opens, the notifications Mercado Pago sends (late, twice, never, in any *)
(* order), the sync the guest's browser asks for and the reconcile job.    *)
(*                                                                         *)
(* A handler is a worker; every `await` is a step.  All three ways to learn *)
(* of a payment end in processPaymentNotification, so a worker carries the *)
(* bookings it has still to search (flexes) and the payments it has still  *)
(* to process (todo, the first of which it is processing).                 *)
(*                                                                         *)
(* Sources: flex-booking-payments.service.ts, confirmFromPayment of        *)
(* flex-bookings.service.ts, flex-booking-payments-reconcile.job.ts.       *)
(* External: Mercado Pago, as those sources use it.                        *)
(***************************************************************************)
EXTENDS Naturals, Sequences, SequencesExt

CONSTANTS
  Worker,        \* handlers that run at the same time
  Cron,          \* the workers the scheduler starts, and nobody else
  Flex,          \* reservations that ask for a payment
  MaxCheckouts,  \* bound: checkouts ever created
  MaxPayments,   \* bound: payments ever made at Mercado Pago
  Batch,         \* reservations a run of the job takes (50 in the code)
  StaffStatus,   \* bound: statuses staff sets meanwhile
  LinkExpires,   \* bound: whether a link gets older than its 7 days
  MaxFailures,   \* bound: crashes and failed calls of Mercado Pago
  None

Status == {"PENDING", "CONFIRMED", "CANCELLED", "COMPLETED"}
MpStatus == {"pending", "approved", "rejected", "cancelled", "refunded"}

ASSUME BoundsAssumption ==
  MaxCheckouts \in Nat /\ MaxPayments \in Nat /\ Batch \in Nat /\ MaxFailures \in Nat
ASSUME WorkerAssumption == Cron \subseteq Worker
ASSUME StaffAssumption == StaffStatus \subseteq Status /\ LinkExpires \in BOOLEAN
ASSUME NoneAssumption == None \notin Nat /\ None \notin Flex

(* Checkouts and payments are numbered in the order they are created; the   *)
(* row that confirmApprovedPayment creates for payment m has a number of its *)
(* own.                                                                      *)
Checkout == 1..MaxCheckouts
MpPayment == 1..MaxPayments
CreditRow(m) == MaxCheckouts + m
Row == 1..(MaxCheckouts + MaxPayments)

VARIABLES
  stay,         \* flex_bookings.status
  gone,         \* flex_bookings.deletedAt is set
  payment,      \* the flex_booking_payments table
  mp,           \* the payments Mercado Pago knows
  confirmedBy,  \* the payments a reservation was confirmed for
  work,         \* what each worker is doing and what it has read
  failures      \* crashes and failed calls so far

vars == <<stay, gone, payment, mp, confirmedBy, work, failures>>
tables == <<stay, gone, payment, confirmedBy>>

-----------------------------------------------------------------------------
PaymentRow ==
  [status : {"ABSENT", "PENDING", "APPROVED", "REJECTED", "CANCELLED", "REFUNDED"},
   booking : Flex \union {None}, mp : MpPayment \union {None}, fresh : BOOLEAN]
NoRow == [status |-> "ABSENT", booking |-> None, mp |-> None, fresh |-> FALSE]

MpRow == [status : MpStatus \union {"none"}, booking : Flex \union {None},
          fits : BOOLEAN]

Idle == [pc |-> "idle"]
CheckingOut == [pc : {"checkoutPaid", "checkoutReuse", "checkoutCancel",
                      "checkoutCreate"}, flex : Flex]
Processing == [pc : {"next", "confirmRead", "repeatWrite", "creditRead",
                     "creditWrite", "payRead", "payCommit", "refundWrite",
                     "noteWrite"},
               flexes : SUBSET Flex, todo : Seq(MpPayment),
               row : Row \union {None},
               status : {"PENDING", "REJECTED", "CANCELLED", None}]

TypeOK ==
  /\ stay \in [Flex -> Status]
  /\ gone \in [Flex -> BOOLEAN]
  /\ payment \in [Row -> PaymentRow]
  /\ mp \in [MpPayment -> MpRow]
  /\ confirmedBy \in [Flex -> SUBSET MpPayment]
  /\ work \in [Worker -> {Idle} \union CheckingOut \union Processing]
  /\ failures \in 0..MaxFailures

Init ==
  /\ stay = [b \in Flex |-> "PENDING"]
  /\ gone = [b \in Flex |-> FALSE]
  /\ payment = [r \in Row |-> NoRow]
  /\ mp = [m \in MpPayment |-> [status |-> "none", booking |-> None, fits |-> FALSE]]
  /\ confirmedBy = [b \in Flex |-> {}]
  /\ work = [p \in Worker |-> Idle]
  /\ failures = 0

-----------------------------------------------------------------------------
RowsOf(b, status) ==
  {r \in Row : payment[r].booking = b /\ payment[r].status = status}
(* @unique mpPaymentId: a row other than those of R already names payment m. *)
Taken(m, R) == \E r \in Row \ R : payment[r].mp = m
WithStatus(R, status) ==
  [r \in Row |-> IF r \in R THEN [payment[r] EXCEPT !.status = status]
                 ELSE payment[r]]

At(p, pc) == work[p].pc = pc
Starts(p, state) == work[p] = Idle /\ work' = [work EXCEPT ![p] = state]
Goes(p, pc) == work' = [work EXCEPT ![p].pc = pc]
Ends(p) == work' = [work EXCEPT ![p] = Idle]

(* What a worker still has to do; one with nothing left is done.            *)
Pending(flexes, todo) ==
  IF flexes = {} /\ todo = <<>> THEN Idle
  ELSE [pc |-> "next", flexes |-> flexes, todo |-> todo, row |-> None,
        status |-> None]

Current(p) == Head(work[p].todo)
(* The payment is done with; an exception instead skips the other payments   *)
(* of the booking too (the job catches it for each booking).                *)
Done(p) ==
  work' = [work EXCEPT ![p] = Pending(work[p].flexes, Tail(work[p].todo))]
Throws(p) == work' = [work EXCEPT ![p] = Pending(work[p].flexes, <<>>)]

-----------------------------------------------------------------------------
(* POST /public/flex-bookings/pay/:token/checkout                            *)

(* Bound: there will be a number for it.                                     *)
CheckoutLeft ==
  Cardinality({r \in Checkout : payment[r].status # "ABSENT"})
    + Cardinality({p \in Worker : work[p] \in CheckingOut}) < MaxCheckouts

CheckoutRead(p, b) ==
  /\ ~gone[b] /\ stay[b] \notin {"CONFIRMED", "CANCELLED"}
  /\ CheckoutLeft
  /\ Starts(p, [pc |-> "checkoutPaid", flex |-> b])
  /\ UNCHANGED tables

AlreadyPaid_Fresh(b) == \E r \in RowsOf(b, "APPROVED") : payment[r].fresh
AlreadyPaid(b) == RowsOf(b, "APPROVED") # {}

CheckoutPaid(p) ==
  /\ At(p, "checkoutPaid")
  /\ IF AlreadyPaid(work[p].flex) THEN Ends(p)
     ELSE Goes(p, "checkoutReuse")
  /\ UNCHANGED tables

(* A link younger than its validity is given out again.                     *)
CheckoutReuse(p) ==
  /\ At(p, "checkoutReuse")
  /\ IF \E r \in RowsOf(work[p].flex, "PENDING") : payment[r].fresh THEN Ends(p)
     ELSE Goes(p, "checkoutCancel")
  /\ UNCHANGED tables

Superseded_None(b) == payment
Superseded(b) == WithStatus(RowsOf(b, "PENDING"), "CANCELLED")

CheckoutCancel(p) ==
  /\ At(p, "checkoutCancel")
  /\ payment' = Superseded(work[p].flex)
  /\ Goes(p, "checkoutCreate")
  /\ UNCHANGED <<stay, gone, confirmedBy>>

CheckoutCreate(p) ==
  /\ At(p, "checkoutCreate")
  /\ \E r \in Checkout :
       /\ payment[r].status = "ABSENT"
       /\ \A q \in 1..(r - 1) : payment[q].status # "ABSENT"
       /\ payment' = [payment EXCEPT ![r] =
            [status |-> "PENDING", booking |-> work[p].flex, mp |-> None,
             fresh |-> TRUE]]
  /\ Ends(p)
  /\ UNCHANGED <<stay, gone, confirmedBy>>

-----------------------------------------------------------------------------
(* The three ways to learn of a payment                                      *)

PaymentsOf_Known(b) == {m \in MpPayment : \E r \in RowsOf(b, "PENDING") : payment[r].mp = m}
PaymentsOf(b) == {m \in MpPayment : mp[m].booking = b}

(* A notification of a payment, or of a merchant order with its payments; the *)
(* guest's browser may name them too.                                        *)
Webhook(p, b) ==
  /\ \E M \in (SUBSET PaymentsOf(b)) \ {{}} :
       \E todo \in SetToSeqs(M) : Starts(p, Pending({}, todo))
  /\ UNCHANGED tables

(* The guest's browser asks, or a merchant order names no payment yet.       *)
SyncStart(p, b) ==
  /\ Starts(p, Pending({b}, <<>>))
  /\ UNCHANGED tables

(* The job takes the first Batch pending reservations, in no stated order.   *)
Reconcile(p) ==
  LET pending == {b \in Flex : stay[b] = "PENDING" /\ ~gone[b]} IN
  /\ \E flexes \in SUBSET pending :
       /\ flexes # {}
       /\ \/ flexes = pending /\ Cardinality(pending) <= Batch
          \/ Cardinality(flexes) = Batch
       /\ Starts(p, Pending(flexes, <<>>))
  /\ UNCHANGED tables

(* searchPaymentsByExternalReference: newest first.                          *)
NewestFirst(todo) == \A i, j \in DOMAIN todo : i < j => todo[i] > todo[j]

Search(p) ==
  /\ At(p, "next") /\ work[p].todo = <<>>
  /\ \E b \in work[p].flexes : \E todo \in SetToSeqs(PaymentsOf(b)) :
       /\ NewestFirst(todo)
       /\ work' = [work EXCEPT ![p] = Pending(work[p].flexes \ {b}, todo)]
  /\ UNCHANGED tables

-----------------------------------------------------------------------------
(* processPaymentNotification                                                *)

(* mapMpStatus                                                               *)
MapMpStatus_Raw(s) == s
MapMpStatus(s) ==
  CASE s = "rejected" -> "REJECTED"
    [] s = "cancelled" -> "CANCELLED"
    [] s = "pending" -> "PENDING"

IsApproved_Pending(s) == s \in {"approved", "pending"}
IsApproved(s) == s = "approved"

(* The status Mercado Pago reports now.                                      *)
Fetch(p) ==
  /\ At(p, "next") /\ work[p].todo # <<>>
  /\ LET s == mp[Current(p)].status IN
     CASE IsApproved(s) -> Goes(p, "confirmRead")
       [] s = "refunded" -> Goes(p, "refundWrite")
       [] OTHER -> work' = [work EXCEPT ![p].pc = "noteWrite",
                                        ![p].status = MapMpStatus(s)]
  /\ UNCHANGED tables

(* Any other status goes to the checkout that no payment has claimed.        *)
NoteWrite(p) ==
  LET m == Current(p)
      R == {r \in RowsOf(mp[m].booking, "PENDING") : payment[r].mp = None}
  IN
  /\ At(p, "noteWrite")
  /\ IF Cardinality(R) > 1 \/ (R # {} /\ Taken(m, R))
     THEN Throws(p) /\ UNCHANGED payment
     ELSE /\ payment' = [r \in Row |->
               IF r \in R
               THEN [payment[r] EXCEPT !.mp = m, !.status = work[p].status]
               ELSE payment[r]]
          /\ Done(p)
  /\ UNCHANGED <<stay, gone, confirmedBy>>

RefundWrite(p) ==
  /\ At(p, "refundWrite")
  /\ payment' = WithStatus({r \in Row : payment[r].mp = Current(p)}, "REFUNDED")
  /\ Done(p)
  /\ UNCHANGED <<stay, gone, confirmedBy>>

(* confirmApprovedPayment                                                    *)
Fits_Any(m) == TRUE
Fits(m) == mp[m].fits

ConfirmRead(p) ==
  LET m == Current(p)
      b == mp[m].booking
  IN
  /\ At(p, "confirmRead")
  /\ CASE gone[b] -> Done(p)
       [] ~gone[b] /\ stay[b] = "CONFIRMED" -> Goes(p, "repeatWrite")
       [] ~gone[b] /\ stay[b] # "CONFIRMED" ->
            IF Fits(m) THEN Goes(p, "creditRead") ELSE Done(p)
  /\ UNCHANGED tables

RepeatWrite(p) ==
  /\ At(p, "repeatWrite")
  /\ payment' = WithStatus({r \in Row : payment[r].mp = Current(p)}, "APPROVED")
  /\ Done(p)
  /\ UNCHANGED <<stay, gone, confirmedBy>>

(* The transaction reads without a lock, so its two statements are two steps. *)
Creditable_AnyStatus(b) == {r \in Checkout : payment[r].booking = b}
Creditable(b) == RowsOf(b, "PENDING")

IsNewest(r, R) ==
  IF R = {} THEN r = None ELSE r \in R /\ \A q \in R : q <= r

CreditRead(p) ==
  /\ At(p, "creditRead")
  /\ \E r \in Row \union {None} :
       /\ IsNewest(r, Creditable(mp[Current(p)].booking))
       /\ work' = [work EXCEPT ![p].pc = "creditWrite", ![p].row = r]
  /\ UNCHANGED tables

Credited_Unnamed(row, b, m) == [row EXCEPT !.status = "APPROVED", !.booking = b]
Credited(row, b, m) ==
  [row EXCEPT !.status = "APPROVED", !.booking = b, !.mp = m]

CreditWrite(p) ==
  LET m == Current(p)
      r == IF work[p].row = None THEN CreditRow(m) ELSE work[p].row
  IN
  /\ At(p, "creditWrite")
  /\ IF Taken(m, {work[p].row})
     THEN Throws(p) /\ UNCHANGED payment
     ELSE /\ payment' = [payment EXCEPT ![r] = Credited(@, mp[m].booking, m)]
          /\ Goes(p, "payRead")
  /\ UNCHANGED <<stay, gone, confirmedBy>>

(* confirmFromPayment                                                        *)
PayRead(p) ==
  LET b == mp[Current(p)].booking IN
  /\ At(p, "payRead")
  /\ CASE gone[b] \/ stay[b] = "CANCELLED" -> Throws(p)
       [] ~gone[b] /\ stay[b] = "CONFIRMED" -> Done(p)
       [] ~gone[b] /\ stay[b] \in {"PENDING", "COMPLETED"} -> Goes(p, "payCommit")
  /\ UNCHANGED tables

PayCommit(p) ==
  LET b == mp[Current(p)].booking IN
  /\ At(p, "payCommit")
  /\ stay' = [stay EXCEPT ![b] = "CONFIRMED"]
  /\ confirmedBy' = [confirmedBy EXCEPT ![b] = @ \union {Current(p)}]
  /\ Done(p)
  /\ UNCHANGED <<gone, payment>>

-----------------------------------------------------------------------------
(* The rest of the world: the guest and Mercado Pago, staff (whose handlers  *)
(* are in FlexReservations), time, failures.                                *)

(* The guest pays with any checkout page ever given out, also a superseded   *)
(* one.                                                                      *)
GuestPays(m, b) ==
  /\ mp[m].status = "none"
  /\ \A n \in 1..(m - 1) : mp[n].status # "none"
  /\ \E r \in Checkout : payment[r].booking = b
  /\ \E s \in {"pending", "approved", "rejected"}, fits \in BOOLEAN :
       mp' = [mp EXCEPT ![m] = [status |-> s, booking |-> b, fits |-> fits]]
  /\ UNCHANGED <<tables, work, failures>>

MpMoves(m) ==
  /\ \/ /\ mp[m].status = "pending"
        /\ \E s \in {"approved", "rejected", "cancelled"} :
             mp' = [mp EXCEPT ![m].status = s]
     \/ /\ mp[m].status = "approved"
        /\ mp' = [mp EXCEPT ![m].status = "refunded"]
  /\ UNCHANGED <<tables, work, failures>>

StaffMoves(b) ==
  /\ \E s \in StaffStatus : stay' = [stay EXCEPT ![b] = s]
  /\ UNCHANGED <<gone, payment, confirmedBy, mp, work, failures>>

StaffDeletes(b) ==
  /\ gone' = [gone EXCEPT ![b] = TRUE]
  /\ UNCHANGED <<stay, payment, confirmedBy, mp, work, failures>>

LinkAges(r) ==
  /\ LinkExpires
  /\ payment[r].status = "PENDING" /\ payment[r].fresh
  /\ payment' = [payment EXCEPT ![r].fresh = FALSE]
  /\ UNCHANGED <<stay, gone, confirmedBy, mp, work, failures>>

(* A worker dies, or a call of Mercado Pago fails.                           *)
Fail(p) ==
  /\ failures < MaxFailures
  /\ work[p] # Idle
  /\ failures' = failures + 1
  /\ \/ Ends(p)
     \/ At(p, "next") /\ work[p].todo # <<>> /\ Throws(p)
     \/ /\ At(p, "next") /\ work[p].todo = <<>>
        /\ \E b \in work[p].flexes :
             work' = [work EXCEPT ![p] = Pending(work[p].flexes \ {b}, <<>>)]
  /\ UNCHANGED <<tables, mp>>

Step(p) ==
  /\ \/ CheckoutPaid(p) \/ CheckoutReuse(p) \/ CheckoutCancel(p)
     \/ CheckoutCreate(p)
     \/ Search(p) \/ Fetch(p) \/ NoteWrite(p) \/ RefundWrite(p)
     \/ ConfirmRead(p) \/ RepeatWrite(p) \/ CreditRead(p) \/ CreditWrite(p)
     \/ PayRead(p) \/ PayCommit(p)
  /\ UNCHANGED <<mp, failures>>

Begin(p) ==
  /\ IF p \in Cron THEN Reconcile(p)
     ELSE \E b \in Flex : CheckoutRead(p, b) \/ Webhook(p, b) \/ SyncStart(p, b)
  /\ UNCHANGED <<mp, failures>>

World ==
  \/ \E m \in MpPayment : (\E b \in Flex : GuestPays(m, b)) \/ MpMoves(m)
  \/ \E b \in Flex : StaffMoves(b) \/ StaffDeletes(b)
  \/ \E r \in Checkout : LinkAges(r)

Next == World \/ \E p \in Worker : Begin(p) \/ Step(p) \/ Fail(p)

Spec == Init /\ [][Next]_vars

(* A handler that runs goes on (Node runs its continuations), and the        *)
(* scheduler starts the job again and again.                                 *)
FairSpec ==
  /\ Spec
  /\ \A p \in Worker : WF_vars(Step(p))
  /\ \A p \in Cron : WF_vars(Begin(p))

-----------------------------------------------------------------------------
(* Properties that hold however handlers, notifications and failures fall    *)

(* The table never shows money that was not paid: an APPROVED row names a    *)
(* payment of that reservation which Mercado Pago approved (and may have     *)
(* refunded since).                                                          *)
ApprovedIsReal ==
  \A r \in Row : payment[r].status \in {"APPROVED", "REFUNDED"} =>
    /\ payment[r].mp # None
    /\ mp[payment[r].mp].booking = payment[r].booking
    /\ mp[payment[r].mp].status \in {"approved", "refunded"}

(* A reservation is confirmed for no payment but one of its own, of the      *)
(* right amount, that was approved.                                          *)
ConfirmedIsPaid ==
  \A b \in Flex : \A m \in confirmedBy[b] :
    mp[m].booking = b /\ mp[m].fits /\ mp[m].status \in {"approved", "refunded"}

(* Nothing is credited or confirmed without money of its own.                *)
NothingForNothing == ApprovedIsReal /\ ConfirmedIsPaid

-----------------------------------------------------------------------------
(* Properties that hold when handlers run one at a time                      *)

(* A guest has one open checkout, whose row the next notification finds.     *)
OneOpenCheckout ==
  \A b \in Flex : \A q, r \in RowsOf(b, "PENDING") : q = r

(* A payment once credited stays credited, until it is refunded.             *)
CreditIsKept(r) ==
  payment[r].status = "APPROVED" =>
    /\ payment'[r].mp = payment[r].mp
    /\ payment'[r].status \in {"APPROVED", "REFUNDED"}

(* What a reservation was confirmed for is credited to it.                   *)
ConfirmedIsCredited ==
  \A b \in Flex : \A m \in confirmedBy[b] :
    \E r \in Row : /\ payment[r].booking = b /\ payment[r].mp = m
                   /\ payment[r].status \in {"APPROVED", "REFUNDED"}

(* A refund is not forgotten.                                                *)
RefundIsKept(r) == payment[r].status = "REFUNDED" => payment'[r].status = "REFUNDED"

(* "The payment of this reservation was already registered": no checkout is  *)
(* made for a reservation with an approved payment.                          *)
PaidOnce(r) ==
  payment[r].status = "ABSENT" /\ payment'[r].status = "PENDING" =>
    RowsOf(payment'[r].booking, "APPROVED") = {}

-----------------------------------------------------------------------------
(* Liveness                                                                  *)

Unconfirmed(m, b) ==
  /\ mp[m].booking = b /\ mp[m].status = "approved" /\ mp[m].fits
  /\ stay[b] = "PENDING" /\ ~gone[b]

(* "Syncing with Mercado Pago (fallback)": a payment it approved confirms    *)
(* its reservation, also when no notification arrives.                       *)
ApprovedConfirms ==
  \A m \in MpPayment, b \in Flex : Unconfirmed(m, b) ~> ~Unconfirmed(m, b)

(* ... which the code keeps while nothing fails ...                          *)
ConfirmsUnlessFailed == [](failures = 0) => ApprovedConfirms

(* ... and with failures the payment is at least credited.                   *)
ApprovedIsCredited ==
  \A m \in MpPayment, b \in Flex :
    Unconfirmed(m, b) ~>
      \/ ~Unconfirmed(m, b)
      \/ \E r \in Row : payment[r].mp = m /\ payment[r].status = "APPROVED"

(* What the job and the handlers owe a guest who paid.                       *)
PaidIsNotForgotten == ConfirmsUnlessFailed /\ ApprovedIsCredited
=============================================================================
