-------------------------- MODULE FlexPaymentsProofs --------------------------
(***************************************************************************)
(* Proofs about FlexPayments, for any number of handlers, reservations,    *)
(* checkouts, payments and failures.                                       *)
(***************************************************************************)
EXTENDS MCPaymentScenes, FiniteSetTheorems, TLAPS

-----------------------------------------------------------------------------
(* The inductive invariant.                                                 *)

PaymentPc == {"next", "confirmRead", "repeatWrite", "creditRead", "creditWrite",
              "payRead", "payCommit", "refundWrite", "noteWrite"}
Processes(w) == w.pc \in PaymentPc

WorkState == {Idle} \union CheckingOut \union Processing

(* What the payments M know of a payment that is made and approved.         *)
Made(m, M) == M[m].status # "none"
Approved(m, M) == M[m].status \in {"approved", "refunded"}

(* What a handler may rely on of the payments it carries.                   *)
InFlight(w, M) ==
  Processes(w) =>
    /\ \A i \in DOMAIN w.todo : Made(w.todo[i], M)
    /\ w.pc # "next" => w.todo # <<>>
    /\ w.pc \in {"confirmRead", "repeatWrite", "creditRead", "creditWrite",
                 "payRead", "payCommit"} => Approved(Head(w.todo), M)
    /\ w.pc \in {"creditRead", "creditWrite", "payRead", "payCommit"} =>
         M[Head(w.todo)].fits
    /\ w.pc = "refundWrite" => M[Head(w.todo)].status = "refunded"
    /\ w.pc = "noteWrite" => w.status \in {"PENDING", "REJECTED", "CANCELLED"}

AllInFlight == \A p \in Worker : InFlight(work[p], mp)

(* A payment that is made is somebody's.                                    *)
MadeIsSomebodys ==
  \A m \in MpPayment : mp[m].status = "none" <=> mp[m].booking = None

(* A row names a payment of its own reservation, and a row with money one   *)
(* that was approved.                                                       *)
RowReal(row, M) ==
  /\ row.mp # None => Made(row.mp, M) /\ M[row.mp].booking = row.booking
  /\ row.status \in {"APPROVED", "REFUNDED"} =>
       row.mp # None /\ Approved(row.mp, M)

RowsReal == \A r \in Row : RowReal(payment[r], mp)

IInv ==
  /\ TypeOK
  /\ AllInFlight
  /\ MadeIsSomebodys
  /\ RowsReal
  /\ ConfirmedIsPaid

-----------------------------------------------------------------------------
(* What a worker is, by where it stands.                                    *)
LEMMA WorkAt ==
  ASSUME TypeOK, NEW p \in Worker
  PROVE  /\ work \in [Worker -> WorkState]
         /\ Processes(work[p]) => work[p] \in Processing
         /\ work[p].pc \in {"checkoutPaid", "checkoutReuse", "checkoutCancel",
                            "checkoutCreate"} => work[p] \in CheckingOut
<1>1. work \in [Worker -> WorkState] /\ work[p] \in WorkState
  BY DEF TypeOK, WorkState
<1>2. Processes(work[p]) => work[p] \in Processing
  BY <1>1 DEF WorkState, Idle, CheckingOut, Processes, PaymentPc
<1>3. work[p].pc \in {"checkoutPaid", "checkoutReuse", "checkoutCancel",
                      "checkoutCreate"} => work[p] \in CheckingOut
  BY <1>1 DEF WorkState, Idle, Processing
<1> QED BY <1>1, <1>2, <1>3

(* The payment a worker processes.                                          *)
LEMMA CurrentIsPayment ==
  ASSUME TypeOK, AllInFlight, NEW p \in Worker, Processes(work[p]),
         work[p].pc # "next"
  PROVE  /\ work[p] \in Processing
         /\ Current(p) \in MpPayment
         /\ Made(Current(p), mp)
         /\ mp[Current(p)] \in MpRow
<1>1. work[p] \in Processing /\ InFlight(work[p], mp)
  BY WorkAt DEF AllInFlight
<1>2. /\ work[p].todo \in Seq(MpPayment)
      /\ work[p].todo # <<>>
      /\ \A i \in DOMAIN work[p].todo : Made(work[p].todo[i], mp)
  BY <1>1 DEF Processing, InFlight
<1>3. Current(p) \in MpPayment /\ Made(Current(p), mp)
  BY <1>2 DEF Current
<1> QED BY <1>1, <1>3 DEF TypeOK

(* What a worker goes on with, once it has done with some payments.         *)
LEMMA PendingIsInFlight ==
  ASSUME NEW F \in SUBSET Flex, NEW todo \in Seq(MpPayment),
         \A i \in DOMAIN todo : Made(todo[i], mp)
  PROVE  /\ Pending(F, todo) \in WorkState
         /\ InFlight(Pending(F, todo), mp)
<1>1. CASE F = {} /\ todo = <<>>
  BY <1>1 DEF Pending, WorkState, InFlight, Processes, PaymentPc, Idle
<1>2. CASE ~(F = {} /\ todo = <<>>)
  <2> DEFINE w == [pc |-> "next", flexes |-> F, todo |-> todo, row |-> None,
                   status |-> None]
  <2>1. w \in Processing
    BY DEF Processing
  <2>2. InFlight(w, mp)
    BY DEF InFlight
  <2> QED BY <1>2, <2>1, <2>2 DEF Pending, WorkState
<1> QED BY <1>1, <1>2

LEMMA TailKeeps ==
  ASSUME NEW todo \in Seq(MpPayment), todo # <<>>,
         \A i \in DOMAIN todo : Made(todo[i], mp)
  PROVE  /\ Tail(todo) \in Seq(MpPayment)
         /\ \A i \in DOMAIN Tail(todo) : Made(Tail(todo)[i], mp)
OBVIOUS

-----------------------------------------------------------------------------
(* One worker moves; Mercado Pago does not.                                 *)
LEMMA WorkerMoves ==
  ASSUME TypeOK, AllInFlight, NEW p \in Worker, NEW w \in WorkState,
         InFlight(w, mp), work' = [work EXCEPT ![p] = w], mp' = mp
  PROVE  work' \in [Worker -> WorkState] /\ AllInFlight'
<1>1. work \in [Worker -> WorkState]
  BY WorkAt
<1>2. \A q \in Worker : work'[q] = IF q = p THEN w ELSE work[q]
  BY <1>1
<1>3. \A q \in Worker : InFlight(work'[q], mp')
  BY <1>2 DEF AllInFlight
<1> QED BY <1>1, <1>3 DEF AllInFlight

(* ... to the end of its handler, of the payment or of the reservation.     *)
LEMMA MovesOn ==
  ASSUME TypeOK, AllInFlight, NEW p \in Worker, mp' = mp,
         \/ Ends(p)
         \/ Processes(work[p]) /\ work[p].todo # <<>> /\ Done(p)
         \/ Processes(work[p]) /\ Throws(p)
  PROVE  work' \in [Worker -> WorkState] /\ AllInFlight'
<1>1. CASE Ends(p)
  <2>1. Idle \in WorkState /\ InFlight(Idle, mp)
    BY DEF WorkState, InFlight, Processes, PaymentPc, Idle
  <2> QED BY <1>1, <2>1, WorkerMoves DEF Ends
<1>2. ASSUME Processes(work[p])
      PROVE  /\ work[p].flexes \in SUBSET Flex
             /\ work[p].todo \in Seq(MpPayment)
             /\ \A i \in DOMAIN work[p].todo : Made(work[p].todo[i], mp)
  BY <1>2, WorkAt DEF AllInFlight, InFlight, Processing
<1>3. CASE Processes(work[p]) /\ work[p].todo # <<>> /\ Done(p)
  BY <1>2, <1>3, TailKeeps, PendingIsInFlight, WorkerMoves DEF Done
<1>4. CASE Processes(work[p]) /\ Throws(p)
  <2>1. <<>> \in Seq(MpPayment) /\ DOMAIN <<>> = {}
    OBVIOUS
  <2> QED BY <1>2, <1>4, <2>1, PendingIsInFlight, WorkerMoves DEF Throws
<1> QED BY <1>1, <1>3, <1>4

(* ... to another step with the same payments.                              *)
LEMMA GoesOn ==
  ASSUME TypeOK, AllInFlight, NEW p \in Worker, NEW pc \in PaymentPc, mp' = mp,
         Goes(p, pc), Processes(work[p]), work[p].todo # <<>>,
         pc \in {"confirmRead", "repeatWrite", "creditRead", "creditWrite",
                 "payRead", "payCommit"} => Approved(Current(p), mp),
         pc \in {"creditRead", "creditWrite", "payRead", "payCommit"} =>
           mp[Current(p)].fits,
         pc = "refundWrite" => mp[Current(p)].status = "refunded",
         pc # "noteWrite"
  PROVE  work' \in [Worker -> WorkState] /\ AllInFlight'
<1> DEFINE w == [work[p] EXCEPT !.pc = pc]
<1>1. work[p] \in Processing /\ InFlight(work[p], mp)
  BY WorkAt DEF AllInFlight
<1>2. /\ w \in Processing
      /\ w.pc = pc /\ w.todo = work[p].todo
  BY <1>1 DEF Processing, PaymentPc
<1>3. InFlight(w, mp)
  BY <1>1, <1>2 DEF InFlight, Current
<1>4. work' = [work EXCEPT ![p] = w]
  BY WorkAt DEF Goes
<1> HIDE DEF w
<1> QED BY <1>2, <1>3, <1>4, WorkerMoves DEF WorkState

(* Nothing but a worker moves.                                              *)
LEMMA OnlyWorkMoves ==
  ASSUME IInv, UNCHANGED tables, mp' = mp, failures' \in 0..MaxFailures,
         work' \in [Worker -> WorkState], AllInFlight'
  PROVE  IInv'
<1>1. TypeOK'
  BY DEF IInv, TypeOK, tables, WorkState
<1>2. MadeIsSomebodys' /\ RowsReal' /\ ConfirmedIsPaid'
  BY DEF IInv, MadeIsSomebodys, RowsReal, ConfirmedIsPaid, tables
<1> QED BY <1>1, <1>2 DEF IInv

(* Rows are written, and what is written is real.                           *)
LEMMA RowsAreWritten ==
  ASSUME IInv, UNCHANGED <<stay, gone, confirmedBy, mp, failures>>,
         payment' \in [Row -> PaymentRow],
         \A r \in Row : payment'[r] = payment[r] \/ RowReal(payment'[r], mp),
         work' \in [Worker -> WorkState], AllInFlight'
  PROVE  IInv'
<1>1. TypeOK'
  BY DEF IInv, TypeOK, WorkState
<1>2. RowsReal'
  <2>1. \A r \in Row : RowReal(payment'[r], mp')
    BY DEF IInv, RowsReal
  <2> QED BY <2>1 DEF RowsReal
<1>3. MadeIsSomebodys' /\ ConfirmedIsPaid'
  BY DEF IInv, MadeIsSomebodys, ConfirmedIsPaid
<1> QED BY <1>1, <1>2, <1>3 DEF IInv

-----------------------------------------------------------------------------
(* The checkout                                                             *)
LEMMA CheckoutInv ==
  ASSUME IInv, NEW p \in Worker, UNCHANGED <<mp, failures>>,
         \/ \E b \in Flex : CheckoutRead(p, b)
         \/ CheckoutPaid(p) \/ CheckoutReuse(p)
         \/ CheckoutCancel(p) \/ CheckoutCreate(p)
  PROVE  IInv'
<1>0. TypeOK /\ AllInFlight /\ RowsReal /\ failures \in 0..MaxFailures
        /\ payment \in [Row -> PaymentRow]
  BY DEF IInv, TypeOK
<1>1. ASSUME NEW pc \in {"checkoutPaid", "checkoutReuse", "checkoutCancel",
                         "checkoutCreate"}, NEW b \in Flex,
             work' = [work EXCEPT ![p] = [pc |-> pc, flex |-> b]]
      PROVE  work' \in [Worker -> WorkState] /\ AllInFlight'
  <2> DEFINE w == [pc |-> pc, flex |-> b]
  <2>1. w \in WorkState /\ InFlight(w, mp)
    BY DEF WorkState, CheckingOut, InFlight, Processes, PaymentPc
  <2> QED BY <1>0, <1>1, <2>1, WorkerMoves
<1>2. ASSUME NEW pc \in {"checkoutReuse", "checkoutCancel", "checkoutCreate"},
             Goes(p, pc), work[p] \in CheckingOut
      PROVE  work' \in [Worker -> WorkState] /\ AllInFlight'
  <2>1. [work[p] EXCEPT !.pc = pc] = [pc |-> pc, flex |-> work[p].flex]
          /\ work[p].flex \in Flex
    BY <1>2 DEF CheckingOut
  <2>2. work' = [work EXCEPT ![p] = [work[p] EXCEPT !.pc = pc]]
    BY <1>0, <1>2, WorkAt DEF Goes
  <2> QED BY <1>1, <2>1, <2>2
<1>3. ASSUME NEW b \in Flex, CheckoutRead(p, b)
      PROVE  IInv'
  BY <1>0, <1>1, <1>3, OnlyWorkMoves DEF CheckoutRead, Starts
<1>4. CASE CheckoutPaid(p) \/ CheckoutReuse(p)
  <2>1. work[p] \in CheckingOut
    BY <1>0, <1>4, WorkAt DEF CheckoutPaid, CheckoutReuse, At
  <2>2. \/ Ends(p) \/ Goes(p, "checkoutReuse") \/ Goes(p, "checkoutCancel")
    BY <1>4 DEF CheckoutPaid, CheckoutReuse
  <2>3. work' \in [Worker -> WorkState] /\ AllInFlight'
    BY <1>0, <1>2, <2>1, <2>2, MovesOn
  <2> QED BY <1>0, <1>4, <2>3, OnlyWorkMoves DEF CheckoutPaid, CheckoutReuse
<1>5. CASE CheckoutCancel(p)
  <2>1. work[p] \in CheckingOut
    BY <1>0, <1>5, WorkAt DEF CheckoutCancel, At
  <2>2. work' \in [Worker -> WorkState] /\ AllInFlight'
    BY <1>0, <1>2, <1>5, <2>1 DEF CheckoutCancel
  <2>3. \A r \in Row : \/ payment'[r] = payment[r]
                       \/ payment'[r] = [payment[r] EXCEPT !.status = "CANCELLED"]
    BY <1>5 DEF CheckoutCancel, Superseded, WithStatus
  <2>4. payment' \in [Row -> PaymentRow]
    BY <1>0, <1>5 DEF CheckoutCancel, Superseded, WithStatus, PaymentRow
  <2>5. \A r \in Row : payment'[r] = payment[r] \/ RowReal(payment'[r], mp)
    BY <1>0, <2>3 DEF RowsReal, RowReal, PaymentRow
  <2> QED BY <1>0, <1>5, <2>2, <2>4, <2>5, RowsAreWritten DEF CheckoutCancel
<1>6. CASE CheckoutCreate(p)
  <2>1. work[p].flex \in Flex
    BY <1>0, <1>6, WorkAt DEF CheckoutCreate, At, CheckingOut
  <2>2. work' \in [Worker -> WorkState] /\ AllInFlight'
    BY <1>0, <1>6, MovesOn DEF CheckoutCreate
  <2> DEFINE row == [status |-> "PENDING", booking |-> work[p].flex,
                     mp |-> None, fresh |-> TRUE]
  <2>3. PICK r \in Checkout : payment' = [payment EXCEPT ![r] = row]
    BY <1>6 DEF CheckoutCreate
  <2>4. row \in PaymentRow /\ RowReal(row, mp)
    BY <2>1 DEF PaymentRow, RowReal
  <2>5. \A q \in Row : payment'[q] = payment[q] \/ payment'[q] = row
    BY <1>0, <2>3
  <2>6. payment' \in [Row -> PaymentRow]
    BY <1>0, <2>3, <2>4
  <2> HIDE DEF row
  <2> QED BY <1>0, <1>6, <2>2, <2>4, <2>5, <2>6, RowsAreWritten
       DEF CheckoutCreate
<1> QED BY <1>3, <1>4, <1>5, <1>6

-----------------------------------------------------------------------------
(* The ways to learn of a payment                                           *)

(* A sequence that lists a set of payments is one of payments.              *)
LEMMA ListsPayments ==
  ASSUME NEW M \in SUBSET MpPayment, NEW todo \in SetToSeqs(M)
  PROVE  todo \in Seq(MpPayment) /\ \A i \in DOMAIN todo : todo[i] \in M
<1>1. MpPayment = 1..MaxPayments /\ MaxPayments \in Nat
  BY BoundsAssumption DEF MpPayment
<1>2. Cardinality(M) \in Nat
  <2>1. M \in SUBSET Nat /\ \A m \in M : m <= MaxPayments
    BY <1>1
  <2>2. IsFiniteSet(M)
    BY <1>1, <2>1, FS_BoundedSetOfNaturals
  <2> QED BY <2>2, FS_CardinalityType
<1>3. todo \in [1..Cardinality(M) -> M]
  BY DEF SetToSeqs
<1> QED BY <1>2, <1>3

(* A reservation's payments are made.                                       *)
LEMMA PaymentsAreMade ==
  ASSUME IInv, NEW b \in Flex
  PROVE  \A m \in PaymentsOf(b) : m \in MpPayment /\ Made(m, mp)
BY NoneAssumption DEF IInv, MadeIsSomebodys, PaymentsOf, Made

LEMMA BeginInv ==
  ASSUME IInv, NEW p \in Worker, UNCHANGED <<mp, failures>>,
         \/ \E b \in Flex : Webhook(p, b) \/ SyncStart(p, b)
         \/ Reconcile(p) \/ Search(p)
  PROVE  IInv'
<1>0. TypeOK /\ AllInFlight /\ failures' \in 0..MaxFailures
  BY DEF IInv, TypeOK
<1>1. ASSUME NEW F \in SUBSET Flex, NEW b \in Flex,
             NEW M \in SUBSET PaymentsOf(b), NEW todo \in SetToSeqs(M),
             work' = [work EXCEPT ![p] = Pending(F, todo)], UNCHANGED tables
      PROVE  IInv'
  <2>1. M \in SUBSET MpPayment
    BY PaymentsAreMade
  <2>2. todo \in Seq(MpPayment) /\ \A i \in DOMAIN todo : Made(todo[i], mp)
    BY <2>1, ListsPayments, PaymentsAreMade
  <2>3. Pending(F, todo) \in WorkState /\ InFlight(Pending(F, todo), mp)
    BY <2>2, PendingIsInFlight
  <2> QED BY <1>0, <1>1, <2>3, WorkerMoves, OnlyWorkMoves
<1>2. ASSUME NEW F \in SUBSET Flex,
             work' = [work EXCEPT ![p] = Pending(F, <<>>)], UNCHANGED tables
      PROVE  IInv'
  <2>1. <<>> \in Seq(MpPayment) /\ DOMAIN <<>> = {}
    OBVIOUS
  <2>2. Pending(F, <<>>) \in WorkState /\ InFlight(Pending(F, <<>>), mp)
    BY <2>1, PendingIsInFlight
  <2> QED BY <1>0, <1>2, <2>2, WorkerMoves, OnlyWorkMoves
<1>3. ASSUME NEW b \in Flex, Webhook(p, b) PROVE IInv'
  <2>1. PICK M \in SUBSET PaymentsOf(b) : \E todo \in SetToSeqs(M) :
           Starts(p, Pending({}, todo))
    BY <1>3 DEF Webhook
  <2>2. PICK todo \in SetToSeqs(M) : Starts(p, Pending({}, todo))
    BY <2>1
  <2> QED BY <1>1, <1>3, <2>2 DEF Webhook, Starts
<1>4. ASSUME NEW b \in Flex, SyncStart(p, b) PROVE IInv'
  BY <1>2, <1>4 DEF SyncStart, Starts
<1>5. CASE Reconcile(p)
  <2>1. PICK F \in SUBSET Flex : Starts(p, Pending(F, <<>>))
    BY <1>5 DEF Reconcile
  <2> QED BY <1>2, <1>5, <2>1 DEF Reconcile, Starts
<1>6. CASE Search(p)
  <2>1. work[p].flexes \in SUBSET Flex
    BY <1>0, <1>6, WorkAt DEF Search, At, Processes, PaymentPc, Processing
  <2>2. PICK b \in work[p].flexes : \E todo \in SetToSeqs(PaymentsOf(b)) :
          work' = [work EXCEPT ![p] = Pending(work[p].flexes \ {b}, todo)]
    BY <1>6 DEF Search
  <2>3. b \in Flex /\ work[p].flexes \ {b} \in SUBSET Flex
    BY <2>1
  <2> QED BY <1>1, <1>6, <2>2, <2>3 DEF Search
<1> QED BY <1>3, <1>4, <1>5, <1>6

-----------------------------------------------------------------------------
(* Steps that only read                                                     *)
LEMMA ReadInv ==
  ASSUME IInv, NEW p \in Worker, UNCHANGED <<mp, failures>>,
         Fetch(p) \/ ConfirmRead(p) \/ CreditRead(p) \/ PayRead(p)
  PROVE  IInv'
<1>0. TypeOK /\ AllInFlight /\ failures' \in 0..MaxFailures
  BY DEF IInv, TypeOK
<1>1. Processes(work[p]) /\ work[p] \in Processing /\ InFlight(work[p], mp)
  BY <1>0, WorkAt DEF Fetch, ConfirmRead, CreditRead, PayRead, At, Processes,
     PaymentPc, AllInFlight
<1>2. work[p].todo # <<>>
  BY <1>1 DEF Fetch, ConfirmRead, CreditRead, PayRead, At, InFlight
<1>3. Current(p) \in MpPayment /\ Made(Current(p), mp)
        /\ mp[Current(p)] \in MpRow
  <2>1. work[p].todo \in Seq(MpPayment)
    BY <1>1 DEF Processing
  <2>2. \A i \in DOMAIN work[p].todo : Made(work[p].todo[i], mp)
    BY <1>1 DEF InFlight
  <2>3. Current(p) \in MpPayment /\ Made(Current(p), mp)
    BY <1>2, <2>1, <2>2 DEF Current
  <2> QED BY <1>0, <2>3 DEF TypeOK
<1>4. ASSUME UNCHANGED tables, work' \in [Worker -> WorkState], AllInFlight'
      PROVE  IInv'
  BY <1>0, <1>4, OnlyWorkMoves
<1>5. CASE Fetch(p)
  <2> DEFINE s == mp[Current(p)].status
  <2>1. CASE s = "approved"
    <3>1. Goes(p, "confirmRead") /\ UNCHANGED tables
      BY <1>5, <2>1 DEF Fetch, IsApproved
    <3>2. Approved(Current(p), mp)
      BY <2>1 DEF Approved
    <3>3. work' \in [Worker -> WorkState] /\ AllInFlight'
      BY <1>0, <1>1, <1>2, <3>1, <3>2, GoesOn DEF PaymentPc
    <3> QED BY <1>4, <3>1, <3>3
  <2>2. CASE s = "refunded"
    <3>1. Goes(p, "refundWrite") /\ UNCHANGED tables
      BY <1>5, <2>2 DEF Fetch, IsApproved
    <3>2. work' \in [Worker -> WorkState] /\ AllInFlight'
      BY <1>0, <1>1, <1>2, <2>2, <3>1, GoesOn DEF PaymentPc
    <3> QED BY <1>4, <3>1, <3>2
  <2>3. CASE s \notin {"approved", "refunded"}
    <3> DEFINE t == MapMpStatus(s)
               w == [work[p] EXCEPT !.pc = "noteWrite", !.status = t]
    <3>1. work' = [work EXCEPT ![p] = w] /\ UNCHANGED tables
      <4>1. work' = [work EXCEPT ![p].pc = "noteWrite", ![p].status = t]
              /\ UNCHANGED tables
        BY <1>5, <2>3 DEF Fetch, IsApproved
      <4> QED BY <1>0, <4>1, WorkAt
    <3>2. s \in {"pending", "rejected", "cancelled"}
      BY <1>3, <2>3 DEF Made, MpRow, MpStatus
    <3>3. t \in {"PENDING", "REJECTED", "CANCELLED"}
      BY <3>2 DEF MapMpStatus
    <3> HIDE DEF t
    <3>4. w \in Processing /\ w.todo = work[p].todo /\ w.pc = "noteWrite"
            /\ w.status = t
      BY <1>1, <3>3 DEF Processing
    <3> HIDE DEF w
    <3>5. InFlight(w, mp)
      BY <1>1, <1>2, <3>3, <3>4 DEF InFlight
    <3>6. work' \in [Worker -> WorkState] /\ AllInFlight'
      BY <1>0, <3>1, <3>4, <3>5, WorkerMoves DEF WorkState
    <3> QED BY <1>4, <3>1, <3>6
  <2> QED BY <2>1, <2>2, <2>3
<1>6. CASE ConfirmRead(p)
  <2>1. Approved(Current(p), mp) /\ UNCHANGED tables
    BY <1>1, <1>6 DEF ConfirmRead, At, InFlight, Current
  <2>2. \/ Done(p) \/ Goes(p, "repeatWrite")
        \/ Goes(p, "creditRead") /\ mp[Current(p)].fits
    BY <1>6 DEF ConfirmRead, Fits
  <2>3. work' \in [Worker -> WorkState] /\ AllInFlight'
    BY <1>0, <1>1, <1>2, <2>1, <2>2, GoesOn, MovesOn DEF PaymentPc
  <2> QED BY <1>4, <2>1, <2>3
<1>7. CASE CreditRead(p)
  <2>1. PICK row \in Row \union {None} :
          /\ work' = [work EXCEPT ![p].pc = "creditWrite", ![p].row = row]
          /\ UNCHANGED tables
    BY <1>7 DEF CreditRead
  <2> DEFINE w == [work[p] EXCEPT !.pc = "creditWrite", !.row = row]
  <2>2. work' = [work EXCEPT ![p] = w]
    BY <1>0, <2>1, WorkAt
  <2>3. w \in Processing /\ w.todo = work[p].todo /\ w.pc = "creditWrite"
    BY <1>1 DEF Processing
  <2> HIDE DEF w
  <2>4. InFlight(w, mp)
    BY <1>1, <1>7, <2>3 DEF InFlight, CreditRead, At
  <2>5. work' \in [Worker -> WorkState] /\ AllInFlight'
    BY <1>0, <2>2, <2>3, <2>4, WorkerMoves DEF WorkState
  <2> QED BY <1>4, <2>1, <2>5
<1>8. CASE PayRead(p)
  <2>1. Approved(Current(p), mp) /\ mp[Current(p)].fits /\ UNCHANGED tables
    BY <1>1, <1>8 DEF PayRead, At, InFlight, Current
  <2>2. \/ Throws(p) \/ Done(p) \/ Goes(p, "payCommit")
    <3>1. mp[Current(p)].booking \in Flex
      BY <1>3 DEF MpRow, IInv, MadeIsSomebodys, Made
    <3>2. stay[mp[Current(p)].booking] \in Status
      BY <1>0, <3>1 DEF TypeOK
    <3> QED BY <1>8, <3>2 DEF PayRead, Status
  <2>3. work' \in [Worker -> WorkState] /\ AllInFlight'
    BY <1>0, <1>1, <1>2, <2>1, <2>2, GoesOn, MovesOn DEF PaymentPc
  <2> QED BY <1>4, <2>1, <2>3
<1> QED BY <1>5, <1>6, <1>7, <1>8

-----------------------------------------------------------------------------
(* Steps that write                                                         *)

(* Rows that name the payment p processes get a status it may have.         *)
LEMMA NamedRows ==
  ASSUME IInv, NEW m \in MpPayment, NEW s \in {"APPROVED", "REFUNDED"},
         Approved(m, mp),
         payment' = WithStatus({r \in Row : payment[r].mp = m}, s)
  PROVE  /\ payment' \in [Row -> PaymentRow]
         /\ \A r \in Row : payment'[r] = payment[r] \/ RowReal(payment'[r], mp)
<1>1. payment \in [Row -> PaymentRow] /\ RowsReal
  BY DEF IInv, TypeOK
<1>2. payment' \in [Row -> PaymentRow]
  BY <1>1 DEF WithStatus, PaymentRow
<1>3. ASSUME NEW r \in Row, payment'[r] # payment[r]
      PROVE  RowReal(payment'[r], mp)
  <2>1. payment[r].mp = m /\ payment'[r] = [payment[r] EXCEPT !.status = s]
    BY <1>3 DEF WithStatus
  <2>2. payment[r] \in PaymentRow /\ RowReal(payment[r], mp)
    BY <1>1 DEF RowsReal
  <2>3. /\ payment'[r].mp = m /\ payment'[r].mp = payment[r].mp
        /\ payment'[r].booking = payment[r].booking
    BY <2>1, <2>2 DEF PaymentRow
  <2>4. m # None
    BY NoneAssumption, BoundsAssumption DEF MpPayment
  <2> QED BY <2>2, <2>3, <2>4 DEF RowReal
<1> QED BY <1>2, <1>3

(* A row that names a payment.                                              *)
LEMMA NamingRow ==
  ASSUME NEW row \in PaymentRow, NEW m \in MpPayment, Made(m, mp),
         row.mp = m, row.booking = mp[m].booking,
         row.status \in {"APPROVED", "REFUNDED"} => Approved(m, mp)
  PROVE  RowReal(row, mp)
<1>1. Made(row.mp, mp) /\ mp[row.mp].booking = row.booking
  OBVIOUS
<1>2. row.status \in {"APPROVED", "REFUNDED"} => Approved(row.mp, mp)
  OBVIOUS
<1>3. row.mp # None
  BY NoneAssumption, BoundsAssumption DEF MpPayment
<1> QED BY <1>1, <1>2, <1>3 DEF RowReal

LEMMA CreditedIs ==
  ASSUME NEW row \in PaymentRow, NEW b \in Flex, NEW m \in MpPayment
  PROVE  /\ Credited(row, b, m) \in PaymentRow
         /\ Credited(row, b, m).booking = b
         /\ Credited(row, b, m).mp = m
BY DEF Credited, PaymentRow

LEMMA WriteInv ==
  ASSUME IInv, NEW p \in Worker, UNCHANGED <<mp, failures>>,
         NoteWrite(p) \/ RefundWrite(p) \/ RepeatWrite(p) \/ CreditWrite(p)
  PROVE  IInv'
<1> DEFINE m == Current(p)
<1>0. TypeOK /\ AllInFlight /\ failures' \in 0..MaxFailures
        /\ payment \in [Row -> PaymentRow] /\ RowsReal
  BY DEF IInv, TypeOK
<1>1. Processes(work[p]) /\ work[p] \in Processing /\ InFlight(work[p], mp)
  BY <1>0, WorkAt DEF NoteWrite, RefundWrite, RepeatWrite, CreditWrite, At,
     Processes, PaymentPc, AllInFlight
<1>2. work[p].pc # "next" /\ work[p].todo # <<>>
  BY <1>1 DEF NoteWrite, RefundWrite, RepeatWrite, CreditWrite, At, InFlight
<1>3. m \in MpPayment /\ Made(m, mp) /\ m # None
  BY <1>0, <1>1, <1>2, CurrentIsPayment, NoneAssumption, BoundsAssumption
     DEF MpPayment
<1>4. mp[m].booking \in Flex
  BY <1>0, <1>3 DEF TypeOK, MpRow, IInv, MadeIsSomebodys, Made
<1>5. ASSUME Done(p) \/ Throws(p)
      PROVE  work' \in [Worker -> WorkState] /\ AllInFlight'
  BY <1>0, <1>1, <1>2, <1>5, MovesOn
<1>6. CASE NoteWrite(p)
  <2>1. work' \in [Worker -> WorkState] /\ AllInFlight'
    BY <1>5, <1>6 DEF NoteWrite
  <2>2. work[p].status \in {"PENDING", "REJECTED", "CANCELLED"}
    BY <1>1, <1>6 DEF NoteWrite, At, InFlight
  <2>3. \A r \in Row : \/ payment'[r] = payment[r]
                       \/ /\ payment[r].booking = mp[m].booking
                          /\ payment'[r] = [payment[r] EXCEPT
                               !.mp = m, !.status = work[p].status]
    BY <1>6 DEF NoteWrite, RowsOf
  <2>4. ASSUME NEW r \in Row, payment'[r] # payment[r]
        PROVE  payment'[r] \in PaymentRow /\ RowReal(payment'[r], mp)
    <3>1. payment[r] \in PaymentRow
      BY <1>0
    <3>2. /\ payment[r].booking = mp[m].booking
          /\ payment'[r] = [payment[r] EXCEPT !.mp = m, !.status = work[p].status]
      BY <2>3, <2>4
    <3> HIDE DEF m
    <3>3. payment'[r] \in PaymentRow
      BY <1>3, <2>2, <3>1, <3>2 DEF PaymentRow
    <3>4. /\ payment'[r].status = work[p].status
          /\ payment'[r].booking = mp[m].booking
          /\ payment'[r].mp = m
      BY <3>1, <3>2 DEF PaymentRow
    <3> QED BY <1>3, <2>2, <3>3, <3>4, NamingRow
  <2>5. \A r \in Row : payment'[r] = payment[r] \/ RowReal(payment'[r], mp)
    BY <2>4
  <2>6. payment' \in [Row -> PaymentRow]
    <3>1. payment' = [r \in Row |-> payment'[r]]
      BY <1>0, <1>6 DEF NoteWrite
    <3>2. \A r \in Row : payment'[r] \in PaymentRow
      BY <1>0, <2>4
    <3> QED BY <3>1, <3>2
  <2> QED BY <1>0, <1>6, <2>1, <2>5, <2>6, RowsAreWritten DEF NoteWrite
<1>7. CASE RefundWrite(p)
  <2>1. Approved(m, mp)
    BY <1>1, <1>7 DEF RefundWrite, At, InFlight, Current, Approved
  <2> QED BY <1>3, <1>5, <1>7, <2>1, NamedRows, RowsAreWritten DEF RefundWrite
<1>8. CASE RepeatWrite(p)
  <2>1. Approved(m, mp)
    BY <1>1, <1>8 DEF RepeatWrite, At, InFlight, Current
  <2> QED BY <1>3, <1>5, <1>8, <2>1, NamedRows, RowsAreWritten DEF RepeatWrite
<1>9. CASE CreditWrite(p)
  <2>1. Approved(m, mp) /\ mp[m].fits
    BY <1>1, <1>9 DEF CreditWrite, At, InFlight, Current
  <2>2. CASE Taken(m, {work[p].row})
    <3>1. Throws(p) /\ UNCHANGED payment
      BY <1>9, <2>2 DEF CreditWrite
    <3> QED BY <1>0, <1>5, <1>9, <3>1, RowsAreWritten DEF CreditWrite
  <2>3. CASE ~Taken(m, {work[p].row})
    <3> DEFINE r == IF work[p].row = None THEN CreditRow(m) ELSE work[p].row
               row == Credited(payment[r], mp[m].booking, m)
    <3>1. payment' = [payment EXCEPT ![r] = row] /\ Goes(p, "payRead")
      BY <1>9, <2>3 DEF CreditWrite
    <3>2. work' \in [Worker -> WorkState] /\ AllInFlight'
      BY <1>0, <1>1, <1>2, <2>1, <3>1, GoesOn DEF PaymentPc
    <3>3. r \in Row
      <4>1. work[p].row \in Row \union {None}
        BY <1>1 DEF Processing
      <4>2. CreditRow(m) \in Row
        BY <1>3, BoundsAssumption DEF CreditRow, MpPayment, Row
      <4> QED BY <4>1, <4>2
    <3>4. payment[r] \in PaymentRow
      BY <1>0, <3>3
    <3> HIDE DEF r
    <3>5. row \in PaymentRow /\ RowReal(row, mp)
      BY <1>3, <1>4, <2>1, <3>4, CreditedIs, NamingRow
    <3> HIDE DEF row
    <3>6. \A q \in Row : payment'[q] = payment[q] \/ payment'[q] = row
      BY <1>0, <3>1
    <3>7. payment' \in [Row -> PaymentRow]
      BY <1>0, <3>1, <3>5
    <3> QED BY <1>0, <1>9, <3>2, <3>5, <3>6, <3>7, RowsAreWritten
         DEF CreditWrite
  <2> QED BY <2>2, <2>3
<1> QED BY <1>6, <1>7, <1>8, <1>9

(* The reservation is confirmed.                                            *)
LEMMA PayCommitInv ==
  ASSUME IInv, NEW p \in Worker, UNCHANGED <<mp, failures>>, PayCommit(p)
  PROVE  IInv'
<1> DEFINE m == Current(p)
           b == mp[m].booking
<1>0. TypeOK /\ AllInFlight
  BY DEF IInv
<1>1. Processes(work[p]) /\ work[p].pc = "payCommit" /\ InFlight(work[p], mp)
  BY <1>0 DEF PayCommit, At, Processes, PaymentPc, AllInFlight
<1>2. work[p].todo # <<>> /\ Approved(m, mp) /\ mp[m].fits
  BY <1>1 DEF InFlight, Current
<1>3. m \in MpPayment /\ Made(m, mp)
  BY <1>0, <1>1, CurrentIsPayment
<1>4. b \in Flex
  BY <1>0, <1>3 DEF TypeOK, MpRow, IInv, MadeIsSomebodys, Made
<1>5. work' \in [Worker -> WorkState] /\ AllInFlight'
  BY <1>0, <1>1, <1>2, MovesOn DEF PayCommit
<1>6. /\ stay' = [stay EXCEPT ![b] = "CONFIRMED"]
      /\ confirmedBy' = [confirmedBy EXCEPT ![b] = @ \union {m}]
      /\ UNCHANGED <<gone, payment>>
  BY DEF PayCommit
<1> HIDE DEF m, b
<1>7. stay' \in [Flex -> Status] /\ confirmedBy' \in [Flex -> SUBSET MpPayment]
  BY <1>0, <1>3, <1>6 DEF TypeOK, Status
<1>8. TypeOK'
  BY <1>0, <1>5, <1>6, <1>7 DEF TypeOK, WorkState
<1>9. ConfirmedIsPaid'
  <2>1. \A c \in Flex : \A n \in confirmedBy'[c] :
          n \in confirmedBy[c] \/ (n = m /\ c = b)
    BY <1>0, <1>6 DEF TypeOK
  <2> QED BY <1>2, <2>1 DEF ConfirmedIsPaid, IInv, Approved, b
<1>10. MadeIsSomebodys' /\ RowsReal'
  BY <1>6 DEF IInv, MadeIsSomebodys, RowsReal
<1> QED BY <1>5, <1>8, <1>9, <1>10 DEF IInv

-----------------------------------------------------------------------------
(* Failures, and the rest of the world                                      *)
LEMMA FailInv ==
  ASSUME IInv, NEW p \in Worker, Fail(p)
  PROVE  IInv'
<1>1. TypeOK /\ AllInFlight
  BY DEF IInv
<1>2. failures' \in 0..MaxFailures
  BY <1>1, BoundsAssumption DEF TypeOK, Fail
<1>3. work' \in [Worker -> WorkState] /\ AllInFlight'
  <2>1. CASE Ends(p)
    BY <1>1, <2>1, MovesOn DEF Fail
  <2>2. CASE At(p, "next") /\ work[p].todo # <<>> /\ Throws(p)
    BY <1>1, <2>2, MovesOn DEF Fail, At, Processes, PaymentPc
  <2>3. CASE /\ At(p, "next") /\ work[p].todo = <<>>
             /\ \E b \in work[p].flexes :
                  work' = [work EXCEPT ![p] = Pending(work[p].flexes \ {b}, <<>>)]
    <3>1. work[p].flexes \in SUBSET Flex
      BY <1>1, <2>3, WorkAt DEF At, Processes, PaymentPc, Processing
    <3>2. PICK b \in work[p].flexes :
            work' = [work EXCEPT ![p] = Pending(work[p].flexes \ {b}, <<>>)]
      BY <2>3
    <3> DEFINE F == work[p].flexes \ {b}
    <3>3. F \in SUBSET Flex /\ <<>> \in Seq(MpPayment) /\ DOMAIN <<>> = {}
      BY <3>1
    <3>4. Pending(F, <<>>) \in WorkState /\ InFlight(Pending(F, <<>>), mp)
      BY <3>3, PendingIsInFlight
    <3> QED BY <1>1, <3>2, <3>4, WorkerMoves DEF Fail
  <2> QED BY <2>1, <2>2, <2>3 DEF Fail
<1> QED BY <1>2, <1>3, OnlyWorkMoves DEF Fail

(* A payment goes on from what it was: to what a handler, a row or a         *)
(* confirmation relies on.                                                  *)
LEMMA PaymentGoesOn ==
  ASSUME IInv, UNCHANGED <<tables, work, failures>>,
         mp' \in [MpPayment -> MpRow],
         \A m \in MpPayment :
           /\ Made(m, mp) => /\ Made(m, mp') /\ mp'[m].booking = mp[m].booking
                             /\ mp'[m].fits = mp[m].fits
           /\ Approved(m, mp) => Approved(m, mp')
           /\ mp[m].status = "refunded" => mp'[m].status = "refunded"
           /\ mp'[m].status = "none" <=> mp'[m].booking = None
  PROVE  IInv'
<1>1. TypeOK'
  BY DEF IInv, TypeOK, tables
<1>2. AllInFlight'
  <2>1. ASSUME NEW p \in Worker, Processes(work[p])
        PROVE  InFlight(work[p], mp')
    <3>1. work[p] \in Processing /\ InFlight(work[p], mp)
      BY <2>1, WorkAt DEF IInv, AllInFlight
    <3>2. work[p].todo \in Seq(MpPayment)
      BY <3>1 DEF Processing
    <3>3. \A i \in DOMAIN work[p].todo : Made(work[p].todo[i], mp')
      BY <2>1, <3>1, <3>2 DEF InFlight
    <3>4. CASE work[p].pc = "next"
      BY <3>3, <3>4 DEF InFlight
    <3>5. CASE work[p].pc # "next"
      <4> DEFINE m == Head(work[p].todo)
      <4>1. work[p].todo # <<>>
        BY <2>1, <3>1, <3>5 DEF InFlight
      <4>2. m \in MpPayment /\ Made(m, mp)
        BY <2>1, <3>1, <3>2, <4>1 DEF InFlight
      <4> QED BY <2>1, <3>1, <3>3, <4>1, <4>2 DEF InFlight
    <3> QED BY <3>4, <3>5
  <2>2. \A p \in Worker : InFlight(work[p], mp')
    BY <2>1 DEF InFlight
  <2> QED BY <2>2 DEF AllInFlight
<1>3. RowsReal'
  <2>1. ASSUME NEW r \in Row PROVE RowReal(payment[r], mp')
    <3>1. payment[r].mp \in MpPayment \union {None} /\ RowReal(payment[r], mp)
      BY DEF IInv, TypeOK, PaymentRow, RowsReal
    <3> QED BY <3>1 DEF RowReal
  <2> QED BY <2>1 DEF RowsReal, tables
<1>4. MadeIsSomebodys'
  BY DEF MadeIsSomebodys
<1>5. ConfirmedIsPaid'
  <2>1. ASSUME NEW b \in Flex, NEW m \in confirmedBy[b]
        PROVE  /\ mp'[m].booking = b /\ mp'[m].fits
               /\ mp'[m].status \in {"approved", "refunded"}
    <3>1. m \in MpPayment
      BY DEF IInv, TypeOK
    <3>2. mp[m].booking = b /\ mp[m].fits /\ Approved(m, mp)
      BY DEF IInv, ConfirmedIsPaid, Approved
    <3>3. Made(m, mp)
      BY <3>2 DEF Made, Approved
    <3> QED BY <3>1, <3>2, <3>3 DEF Approved
  <2> QED BY <2>1 DEF ConfirmedIsPaid, tables
<1> QED BY <1>1, <1>2, <1>3, <1>4, <1>5 DEF IInv

LEMMA WorldInv ==
  ASSUME IInv, World
  PROVE  IInv'
<1>0. TypeOK /\ AllInFlight /\ RowsReal /\ MadeIsSomebodys
        /\ mp \in [MpPayment -> MpRow] /\ payment \in [Row -> PaymentRow]
  BY DEF IInv, TypeOK
<1>1. ASSUME NEW m \in MpPayment, NEW b \in Flex, GuestPays(m, b)
      PROVE  IInv'
  <2>1. PICK s \in {"pending", "approved", "rejected"}, fits \in BOOLEAN :
          mp' = [mp EXCEPT ![m] = [status |-> s, booking |-> b, fits |-> fits]]
    BY <1>1 DEF GuestPays
  <2> DEFINE row == [status |-> s, booking |-> b, fits |-> fits]
  <2>2. row \in MpRow
    BY DEF MpRow, MpStatus
  <2>3. mp' \in [MpPayment -> MpRow]
    BY <1>0, <2>1, <2>2
  <2>4. mp[m].status = "none" /\ b # None
    BY <1>1, NoneAssumption DEF GuestPays
  <2>5. \A n \in MpPayment : mp'[n] = IF n = m THEN row ELSE mp[n]
    BY <1>0, <2>1
  <2>6. \A n \in MpPayment :
           /\ Made(n, mp) => /\ Made(n, mp') /\ mp'[n].booking = mp[n].booking
                             /\ mp'[n].fits = mp[n].fits
           /\ Approved(n, mp) => Approved(n, mp')
           /\ mp[n].status = "refunded" => mp'[n].status = "refunded"
           /\ mp'[n].status = "none" <=> mp'[n].booking = None
    BY <1>0, <2>4, <2>5 DEF Made, Approved, MadeIsSomebodys
  <2> QED BY <1>1, <2>3, <2>6, PaymentGoesOn DEF GuestPays
<1>2. ASSUME NEW m \in MpPayment, MpMoves(m) PROVE IInv'
  <2>1. PICK s \in {"approved", "rejected", "cancelled", "refunded"} :
          /\ mp' = [mp EXCEPT ![m].status = s]
          /\ \/ mp[m].status = "pending" /\ s # "refunded"
             \/ mp[m].status = "approved" /\ s = "refunded"
    BY <1>2 DEF MpMoves
  <2>2. \A n \in MpPayment :
           mp'[n] = IF n = m
                    THEN [status |-> s, booking |-> mp[m].booking,
                          fits |-> mp[m].fits]
                    ELSE mp[n]
    BY <1>0, <2>1 DEF MpRow
  <2>3. mp' \in [MpPayment -> MpRow]
    BY <1>0, <2>1 DEF MpRow, MpStatus
  <2>4. \A n \in MpPayment :
           /\ Made(n, mp) => /\ Made(n, mp') /\ mp'[n].booking = mp[n].booking
                             /\ mp'[n].fits = mp[n].fits
           /\ Approved(n, mp) => Approved(n, mp')
           /\ mp[n].status = "refunded" => mp'[n].status = "refunded"
           /\ mp'[n].status = "none" <=> mp'[n].booking = None
    BY <1>0, <2>1, <2>2 DEF Made, Approved, MadeIsSomebodys
  <2> QED BY <1>2, <2>3, <2>4, PaymentGoesOn DEF MpMoves
<1>3. ASSUME NEW b \in Flex, StaffMoves(b) \/ StaffDeletes(b) PROVE IInv'
  <2>1. stay' \in [Flex -> Status] /\ gone' \in [Flex -> BOOLEAN]
    BY <1>0, <1>3, StaffAssumption DEF StaffMoves, StaffDeletes, TypeOK
  <2>2. UNCHANGED <<payment, confirmedBy, mp, work, failures>>
    BY <1>3 DEF StaffMoves, StaffDeletes
  <2>3. TypeOK'
    BY <1>0, <2>1, <2>2 DEF TypeOK
  <2> QED BY <2>2, <2>3 DEF IInv, AllInFlight, MadeIsSomebodys, RowsReal,
       ConfirmedIsPaid
<1>4. ASSUME NEW r \in Checkout, LinkAges(r) PROVE IInv'
  <2>1. r \in Row
    BY BoundsAssumption DEF Checkout, Row
  <2> DEFINE row == [payment[r] EXCEPT !.fresh = FALSE]
  <2>2. payment' = [payment EXCEPT ![r] = row]
    BY <1>0, <1>4, <2>1 DEF LinkAges
  <2>3. row \in PaymentRow /\ RowReal(row, mp)
    BY <1>0, <2>1 DEF PaymentRow, RowsReal, RowReal
  <2> HIDE DEF row
  <2>4. payment' \in [Row -> PaymentRow]
          /\ \A q \in Row : payment'[q] = payment[q] \/ RowReal(payment'[q], mp)
    BY <1>0, <2>2, <2>3
  <2>5. UNCHANGED <<stay, gone, confirmedBy, mp, failures, work>>
    BY <1>4 DEF LinkAges
  <2>6. work' \in [Worker -> WorkState] /\ AllInFlight'
    BY <1>0, <2>5, WorkAt DEF AllInFlight, TypeOK, WorkState
  <2> QED BY <2>4, <2>5, <2>6, RowsAreWritten
<1> QED BY <1>1, <1>2, <1>3, <1>4 DEF World

-----------------------------------------------------------------------------
LEMMA InitInv == Init => IInv
<1> SUFFICES ASSUME Init PROVE IInv
  OBVIOUS
<1>1. TypeOK
  BY BoundsAssumption DEF Init, TypeOK, Status, PaymentRow, NoRow, MpRow
<1>2. AllInFlight
  BY DEF Init, AllInFlight, InFlight, Processes, PaymentPc, Idle
<1>3. MadeIsSomebodys /\ RowsReal /\ ConfirmedIsPaid
  BY DEF Init, MadeIsSomebodys, RowsReal, RowReal, NoRow, ConfirmedIsPaid
<1> QED BY <1>1, <1>2, <1>3 DEF IInv

LEMMA NextInv == IInv /\ [Next]_vars => IInv'
<1> SUFFICES ASSUME IInv, [Next]_vars PROVE IInv'
  OBVIOUS
<1>1. CASE World
  BY <1>1, WorldInv
<1>2. ASSUME NEW p \in Worker, Begin(p) PROVE IInv'
  <2>1. UNCHANGED <<mp, failures>>
    BY <1>2 DEF Begin
  <2>2. \/ Reconcile(p)
        \/ \E b \in Flex : CheckoutRead(p, b) \/ Webhook(p, b) \/ SyncStart(p, b)
    BY <1>2 DEF Begin
  <2> QED BY <2>1, <2>2, CheckoutInv, BeginInv
<1>3. ASSUME NEW p \in Worker, Step(p) PROVE IInv'
  <2>1. UNCHANGED <<mp, failures>>
    BY <1>3 DEF Step
  <2>2. \/ CheckoutPaid(p) \/ CheckoutReuse(p) \/ CheckoutCancel(p)
        \/ CheckoutCreate(p)
        \/ Search(p) \/ Fetch(p) \/ NoteWrite(p) \/ RefundWrite(p)
        \/ ConfirmRead(p) \/ RepeatWrite(p) \/ CreditRead(p) \/ CreditWrite(p)
        \/ PayRead(p) \/ PayCommit(p)
    BY <1>3 DEF Step
  <2> QED BY <2>1, <2>2, CheckoutInv, BeginInv, ReadInv, WriteInv, PayCommitInv
<1>4. ASSUME NEW p \in Worker, Fail(p) PROVE IInv'
  BY <1>4, FailInv
<1>5. CASE UNCHANGED vars
  BY <1>5 DEF vars, IInv, TypeOK, AllInFlight, MadeIsSomebodys, RowsReal,
     ConfirmedIsPaid
<1> QED BY <1>1, <1>2, <1>3, <1>4, <1>5 DEF Next

LEMMA IInvHolds == Spec => []IInv
BY InitInv, NextInv, PTL DEF Spec

(* What handlers carry from one await to the next has its type: a payment a *)
(* handler works on is always one that Mercado Pago knows.                  *)
THEOREM PaymentsTypeCorrect == Spec => []TypeOK
<1>1. IInv => TypeOK
  BY DEF IInv
<1> QED BY <1>1, IInvHolds, PTL

(* The table never shows money that was not paid, however handlers,         *)
(* notifications, refunds and failures fall.                                *)
THEOREM ApprovedReal == Spec => []ApprovedIsReal
<1>1. IInv => ApprovedIsReal
  BY DEF IInv, RowsReal, RowReal, Made, Approved, ApprovedIsReal
<1> QED BY <1>1, IInvHolds, PTL

(* A reservation is confirmed only for a payment of its own, of the right   *)
(* amount, that was approved: for any number of handlers at a time.         *)
THEOREM ConfirmedPaid == Spec => []ConfirmedIsPaid
<1>1. IInv => ConfirmedIsPaid
  BY DEF IInv
<1> QED BY <1>1, IInvHolds, PTL

(* Nothing is shown as paid, and no reservation confirmed, without money.   *)
THEOREM NothingFree == Spec => []NothingForNothing
<1>1. ApprovedIsReal /\ ConfirmedIsPaid => NothingForNothing
  BY DEF NothingForNothing
<1> QED BY <1>1, ApprovedReal, ConfirmedPaid, PTL

-----------------------------------------------------------------------------
(* Handlers that run one at a time                                          *)

Alone == \A p, q \in Worker : work[p] # Idle /\ work[q] # Idle => p = q

Money == {"APPROVED", "REFUNDED"}

(* What the one handler that runs has seen of the rows P and the payments M, *)
(* and nobody changes meanwhile.                                            *)
Relies(w, P, M) ==
  /\ w.pc \in {"checkoutReuse", "checkoutCancel", "checkoutCreate"} =>
       \A r \in Row : P[r].booking = w.flex => P[r].status # "APPROVED"
  /\ w.pc = "checkoutCreate" =>
       \A r \in Row : P[r].booking = w.flex => P[r].status # "PENDING"
  /\ w.pc \in {"confirmRead", "repeatWrite"} =>
       \A r \in Row : P[r].mp = Head(w.todo) => P[r].status # "REFUNDED"
  /\ w.pc = "creditWrite" /\ w.row # None => P[w.row].status = "PENDING"
  /\ w.pc \in {"payRead", "payCommit"} =>
       \E r \in Row : /\ P[r].booking = M[Head(w.todo)].booking
                      /\ P[r].mp = Head(w.todo) /\ P[r].status \in Money

(* The row made for a payment is that payment's, and holds money.           *)
CreditRowsOwn ==
  \A m \in MpPayment :
    /\ payment[CreditRow(m)].status \in {"ABSENT", "APPROVED", "REFUNDED"}
    /\ payment[CreditRow(m)].mp \in {None, m}

RefundsReal ==
  \A r \in Row : payment[r].status = "REFUNDED" => mp[payment[r].mp].status = "refunded"

SerialInv ==
  /\ Alone
  /\ \A p \in Worker : Relies(work[p], payment, mp)
  /\ CreditRowsOwn
  /\ RefundsReal
  /\ OneOpenCheckout
  /\ ConfirmedIsCredited

(* What a step owes to the rows with money, and to who has paid.            *)
RowKept(r) ==
  payment[r].status \in Money =>
    /\ payment'[r].status \in Money
    /\ payment[r].status = "REFUNDED" => payment'[r].status = "REFUNDED"
    /\ payment'[r].mp = payment[r].mp
    /\ payment'[r].booking = payment[r].booking

MoneyKept == (\A r \in Row : RowKept(r)) /\ \A r \in Checkout : PaidOnce(r)

(* At its start, its end, and between two payments a handler relies on nothing. *)
LEMMA NothingReliedOn ==
  ASSUME NEW w, NEW P, NEW M,
         w.pc \in {"idle", "next", "checkoutPaid", "noteWrite", "refundWrite",
                   "creditRead"}
  PROVE  Relies(w, P, M)
BY DEF Relies

LEMMA PendingPc ==
  ASSUME NEW F, NEW todo
  PROVE  Pending(F, todo).pc \in {"idle", "next"}
BY DEF Pending, Idle

(* The others of the handler that moves are idle.                           *)
LEMMA OneMoves ==
  ASSUME TypeOK, SerialInv, OneAtATime, NEW p \in Worker, NEW w,
         work' = [work EXCEPT ![p] = w],
         work[p] # Idle \/ UNCHANGED <<payment, mp>>,
         Relies(w, payment', mp')
  PROVE  Alone' /\ \A q \in Worker : Relies(work'[q], payment', mp')
<1>1. Alone'
  BY DEF Alone, OneAtATime
<1>2. work'[p] = w /\ \A q \in Worker \ {p} : work'[q] = work[q]
  BY DEF TypeOK
<1>3. ASSUME NEW q \in Worker \ {p}
      PROVE  Relies(work'[q], payment', mp')
  <2>1. CASE work[q] = Idle
    BY <1>2, <2>1, NothingReliedOn DEF Idle
  <2>2. CASE work[q] # Idle
    <3>1. work[p] = Idle
      BY <2>2 DEF SerialInv, Alone
    <3>2. payment' = payment /\ mp' = mp
      BY <3>1
    <3> QED BY <1>2, <3>2 DEF SerialInv
  <2> QED BY <2>1, <2>2
<1> QED BY <1>1, <1>2, <1>3

LEMMA CreditIsStillThere ==
  ASSUME SerialInv, \A r \in Row : RowKept(r), UNCHANGED confirmedBy
  PROVE  ConfirmedIsCredited'
BY DEF SerialInv, ConfirmedIsCredited, RowKept, Money

(* A step that writes no row.                                               *)
LEMMA QuietSerial ==
  ASSUME TypeOK, SerialInv, OneAtATime, NEW p \in Worker, NEW w,
         work' = [work EXCEPT ![p] = w], UNCHANGED <<payment, mp, confirmedBy>>,
         Relies(w, payment, mp)
  PROVE  SerialInv' /\ MoneyKept
<1>1. Alone' /\ \A q \in Worker : Relies(work'[q], payment', mp')
  BY OneMoves
<1>2. CreditRowsOwn' /\ RefundsReal' /\ OneOpenCheckout'
  BY DEF SerialInv, CreditRowsOwn, RefundsReal, OneOpenCheckout, RowsOf
<1>3. MoneyKept
  BY DEF MoneyKept, RowKept, PaidOnce
<1>4. ConfirmedIsCredited'
  BY <1>3, CreditIsStillThere DEF MoneyKept
<1> QED BY <1>1, <1>2, <1>3, <1>4 DEF SerialInv

(* A step that writes rows.                                                 *)
LEMMA WriteSerial ==
  ASSUME TypeOK, SerialInv, OneAtATime, NEW p \in Worker, NEW w, work[p] # Idle,
         work' = [work EXCEPT ![p] = w], UNCHANGED <<mp, confirmedBy>>,
         Relies(w, payment', mp),
         MoneyKept, CreditRowsOwn', RefundsReal', OneOpenCheckout'
  PROVE  SerialInv'
<1>1. Alone' /\ \A q \in Worker : Relies(work'[q], payment', mp')
  BY OneMoves
<1>2. ConfirmedIsCredited'
  BY CreditIsStillThere DEF MoneyKept
<1> QED BY <1>1, <1>2 DEF SerialInv

-----------------------------------------------------------------------------
(* Steps that write no row, one handler at a time                           *)
LEMMA BeginSerial ==
  ASSUME IInv, SerialInv, OneAtATime, NEW p \in Worker, UNCHANGED mp,
         \/ Reconcile(p)
         \/ \E b \in Flex : CheckoutRead(p, b) \/ Webhook(p, b) \/ SyncStart(p, b)
         \/ Search(p)
  PROVE  SerialInv' /\ MoneyKept
<1>1. ASSUME NEW F, NEW todo, work' = [work EXCEPT ![p] = Pending(F, todo)],
             UNCHANGED tables
      PROVE  SerialInv' /\ MoneyKept
  <2>1. Relies(Pending(F, todo), payment, mp)
    BY PendingPc, NothingReliedOn
  <2> QED BY <1>1, <2>1, QuietSerial DEF IInv, tables
<1>2. CASE Reconcile(p)
  BY <1>1, <1>2 DEF Reconcile, Starts
<1>3. ASSUME NEW b \in Flex, CheckoutRead(p, b)
      PROVE  SerialInv' /\ MoneyKept
  <2> DEFINE w == [pc |-> "checkoutPaid", flex |-> b]
  <2>1. Relies(w, payment, mp)
    BY NothingReliedOn
  <2>2. work' = [work EXCEPT ![p] = w] /\ UNCHANGED tables
    BY <1>3 DEF CheckoutRead, Starts
  <2> HIDE DEF w
  <2> QED BY <2>1, <2>2, QuietSerial DEF IInv, tables
<1>4. ASSUME NEW b \in Flex, Webhook(p, b) \/ SyncStart(p, b)
      PROVE  SerialInv' /\ MoneyKept
  BY <1>1, <1>4 DEF Webhook, SyncStart, Starts
<1>5. CASE Search(p)
  BY <1>1, <1>5 DEF Search
<1> QED BY <1>2, <1>3, <1>4, <1>5

(* A handler ends, or goes on with what is left.                            *)
LEMMA MovesOnSerial ==
  ASSUME TypeOK, SerialInv, OneAtATime, NEW p \in Worker,
         Ends(p) \/ Done(p) \/ Throws(p)
  PROVE  \E w : work' = [work EXCEPT ![p] = w] /\ w.pc \in {"idle", "next"}
<1>1. Idle.pc = "idle"
  BY DEF Idle
<1> QED BY <1>1, PendingPc DEF Ends, Done, Throws

LEMMA FailSerial ==
  ASSUME IInv, SerialInv, OneAtATime, NEW p \in Worker, Fail(p)
  PROVE  SerialInv' /\ MoneyKept
<1>1. \E w : work' = [work EXCEPT ![p] = w] /\ w.pc \in {"idle", "next"}
  <2>1. CASE Ends(p) \/ Throws(p)
    BY <2>1, MovesOnSerial DEF IInv
  <2>2. ASSUME NEW b, work' = [work EXCEPT ![p] = Pending(work[p].flexes \ {b}, <<>>)]
        PROVE  \E w : work' = [work EXCEPT ![p] = w] /\ w.pc \in {"idle", "next"}
    BY <2>2, PendingPc
  <2> QED BY <2>1, <2>2 DEF Fail
<1> PICK w : work' = [work EXCEPT ![p] = w] /\ w.pc \in {"idle", "next"}
  BY <1>1
<1>2. Relies(w, payment, mp)
  BY <1>1, NothingReliedOn
<1>3. UNCHANGED <<payment, mp, confirmedBy>>
  BY DEF Fail, tables
<1> QED BY <1>1, <1>2, <1>3, QuietSerial DEF IInv

(* The handler goes to another step with what it carries.                   *)
LEMMA GoesSerial ==
  ASSUME TypeOK, SerialInv, OneAtATime, NEW p \in Worker, NEW pc, Goes(p, pc),
         UNCHANGED <<payment, mp, confirmedBy>>,
         Relies([work[p] EXCEPT !.pc = pc], payment, mp)
  PROVE  SerialInv' /\ MoneyKept
<1> DEFINE w == [work[p] EXCEPT !.pc = pc]
<1>1. work' = [work EXCEPT ![p] = w]
  BY WorkAt DEF Goes
<1> HIDE DEF w
<1>2. Relies(w, payment, mp)
  BY DEF w
<1> QED BY <1>1, <1>2, QuietSerial

LEMMA EndsSerial ==
  ASSUME TypeOK, SerialInv, OneAtATime, NEW p \in Worker,
         Ends(p) \/ Done(p) \/ Throws(p), UNCHANGED <<payment, mp, confirmedBy>>
  PROVE  SerialInv' /\ MoneyKept
<1> PICK w : work' = [work EXCEPT ![p] = w] /\ w.pc \in {"idle", "next"}
  BY MovesOnSerial
<1> Relies(w, payment, mp)
  BY NothingReliedOn
<1> QED BY QuietSerial

LEMMA CheckoutReadsSerial ==
  ASSUME IInv, SerialInv, OneAtATime, NEW p \in Worker, UNCHANGED mp,
         CheckoutPaid(p) \/ CheckoutReuse(p)
  PROVE  SerialInv' /\ MoneyKept
<1>1. TypeOK /\ UNCHANGED <<payment, mp, confirmedBy>>
  BY DEF IInv, CheckoutPaid, CheckoutReuse, tables
<1>2. work[p] \in CheckingOut /\ Relies(work[p], payment, mp)
  BY <1>1, WorkAt DEF CheckoutPaid, CheckoutReuse, At, SerialInv
<1>3. CASE Ends(p)
  BY <1>1, <1>3, EndsSerial
<1>4. ASSUME NEW pc \in {"checkoutReuse", "checkoutCancel"}, Goes(p, pc),
             \A r \in Row : payment[r].booking = work[p].flex =>
                              payment[r].status # "APPROVED"
      PROVE  SerialInv' /\ MoneyKept
  <2> DEFINE w == [work[p] EXCEPT !.pc = pc]
  <2>1. w.pc = pc /\ w.flex = work[p].flex
    BY <1>2 DEF CheckingOut
  <2> HIDE DEF w
  <2>2. Relies(w, payment, mp)
    BY <1>4, <2>1 DEF Relies
  <2> QED BY <1>1, <1>4, <2>2, GoesSerial DEF w
<1>5. CASE CheckoutPaid(p)
  <2>1. CASE AlreadyPaid(work[p].flex)
    BY <1>3, <1>5, <2>1 DEF CheckoutPaid
  <2>2. CASE ~AlreadyPaid(work[p].flex)
    BY <1>4, <1>5, <2>2 DEF CheckoutPaid, AlreadyPaid, RowsOf
  <2> QED BY <2>1, <2>2
<1>6. CASE CheckoutReuse(p)
  BY <1>2, <1>3, <1>4, <1>6 DEF CheckoutReuse, At, Relies
<1> QED BY <1>5, <1>6

LEMMA FetchSerial ==
  ASSUME IInv, SerialInv, OneAtATime, NEW p \in Worker, UNCHANGED mp, Fetch(p)
  PROVE  SerialInv' /\ MoneyKept
<1> DEFINE m == Current(p)
           s == mp[m].status
<1>1. TypeOK /\ UNCHANGED <<payment, mp, confirmedBy>>
  BY DEF IInv, Fetch, tables
<1>2. work[p] \in Processing
  BY <1>1, WorkAt DEF Fetch, At, Processes, PaymentPc
<1>3. CASE s = "approved"
  <2> DEFINE w == [work[p] EXCEPT !.pc = "confirmRead"]
  <2>1. w.pc = "confirmRead" /\ w.todo = work[p].todo
    BY <1>2 DEF Processing
  <2>2. \A r \in Row : payment[r].mp = m => payment[r].status # "REFUNDED"
    BY <1>3 DEF SerialInv, RefundsReal
  <2> HIDE DEF w
  <2>3. Relies(w, payment, mp)
    BY <2>1, <2>2 DEF Relies, Current
  <2>4. Goes(p, "confirmRead")
    BY <1>3 DEF Fetch, IsApproved
  <2> QED BY <1>1, <2>3, <2>4, GoesSerial DEF w
<1>4. CASE s = "refunded"
  <2> DEFINE w == [work[p] EXCEPT !.pc = "refundWrite"]
  <2>1. w.pc = "refundWrite"
    BY <1>2 DEF Processing
  <2> HIDE DEF w
  <2>2. Relies(w, payment, mp)
    BY <2>1, NothingReliedOn
  <2>3. Goes(p, "refundWrite")
    BY <1>4 DEF Fetch, IsApproved
  <2> QED BY <1>1, <2>2, <2>3, GoesSerial DEF w
<1>5. CASE s \notin {"approved", "refunded"}
  <2> DEFINE t == MapMpStatus(s)
             w == [work[p] EXCEPT !.pc = "noteWrite", !.status = t]
  <2>1. work' = [work EXCEPT ![p].pc = "noteWrite", ![p].status = t]
    BY <1>5 DEF Fetch, IsApproved
  <2> HIDE DEF t
  <2>2. work' = [work EXCEPT ![p] = w]
    BY <1>1, <2>1, WorkAt
  <2>3. w.pc = "noteWrite"
    BY <1>2 DEF Processing
  <2> HIDE DEF w
  <2>4. Relies(w, payment, mp)
    BY <2>3, NothingReliedOn
  <2> QED BY <1>1, <2>2, <2>4, QuietSerial
<1> QED BY <1>3, <1>4, <1>5

LEMMA ReadsSerial ==
  ASSUME IInv, SerialInv, OneAtATime, NEW p \in Worker, UNCHANGED mp,
         ConfirmRead(p) \/ CreditRead(p) \/ PayRead(p)
  PROVE  SerialInv' /\ MoneyKept
<1>1. TypeOK /\ UNCHANGED <<payment, mp, confirmedBy>>
  BY DEF IInv, ConfirmRead, CreditRead, PayRead, tables
<1>2. work[p] \in Processing /\ Relies(work[p], payment, mp)
  BY <1>1, WorkAt DEF ConfirmRead, CreditRead, PayRead, At, Processes, PaymentPc,
     SerialInv
<1>3. CASE ConfirmRead(p)
  <2>1. CASE Done(p)
    BY <1>1, <2>1, EndsSerial
  <2>2. ASSUME NEW pc \in {"repeatWrite", "creditRead"}, Goes(p, pc)
        PROVE  SerialInv' /\ MoneyKept
    <3> DEFINE w == [work[p] EXCEPT !.pc = pc]
    <3>1. w.pc = pc /\ w.todo = work[p].todo
      BY <1>2 DEF Processing
    <3> HIDE DEF w
    <3>2. Relies(w, payment, mp)
      BY <1>2, <1>3, <3>1 DEF Relies, ConfirmRead, At
    <3> QED BY <1>1, <2>2, <3>2, GoesSerial DEF w
  <2> QED BY <1>3, <2>1, <2>2 DEF ConfirmRead
<1>4. CASE CreditRead(p)
  <2>1. PICK row \in Row \union {None} :
          /\ IsNewest(row, Creditable(mp[Current(p)].booking))
          /\ work' = [work EXCEPT ![p].pc = "creditWrite", ![p].row = row]
    BY <1>4 DEF CreditRead
  <2> DEFINE w == [work[p] EXCEPT !.pc = "creditWrite", !.row = row]
  <2>2. work' = [work EXCEPT ![p] = w]
    BY <1>1, <2>1, WorkAt
  <2>3. w.pc = "creditWrite" /\ w.row = row
    BY <1>2 DEF Processing
  <2> HIDE DEF w
  <2>4. row # None => payment[row].status = "PENDING"
    BY <2>1 DEF IsNewest, Creditable, RowsOf
  <2>5. Relies(w, payment, mp)
    BY <2>3, <2>4 DEF Relies
  <2> QED BY <1>1, <2>2, <2>5, QuietSerial
<1>5. CASE PayRead(p)
  <2>1. CASE Done(p) \/ Throws(p)
    BY <1>1, <2>1, EndsSerial
  <2>2. CASE Goes(p, "payCommit")
    <3> DEFINE w == [work[p] EXCEPT !.pc = "payCommit"]
    <3>1. w.pc = "payCommit" /\ w.todo = work[p].todo
      BY <1>2 DEF Processing
    <3> HIDE DEF w
    <3>2. Relies(w, payment, mp)
      BY <1>2, <1>5, <3>1 DEF Relies, PayRead, At
    <3> QED BY <1>1, <2>2, <3>2, GoesSerial DEF w
  <2>3. stay[mp[Current(p)].booking] \in Status
    <3>1. Processes(work[p]) /\ work[p].pc # "next"
      BY <1>5 DEF PayRead, At, Processes, PaymentPc
    <3>2. mp[Current(p)].booking \in Flex
      BY <1>1, <3>1, CurrentIsPayment DEF MpRow, IInv, MadeIsSomebodys, Made
    <3> QED BY <1>1, <3>2 DEF TypeOK
  <2> QED BY <1>5, <2>1, <2>2, <2>3 DEF PayRead, Status
<1> QED BY <1>3, <1>4, <1>5

(* What a reservation is confirmed for was credited a step before.          *)
LEMMA PayCommitSerial ==
  ASSUME IInv, SerialInv, OneAtATime, NEW p \in Worker, UNCHANGED mp, PayCommit(p)
  PROVE  SerialInv' /\ MoneyKept
<1> DEFINE m == Current(p)
           b == mp[m].booking
<1>1. TypeOK /\ UNCHANGED <<payment, mp>>
  BY DEF IInv, PayCommit
<1>2. Relies(work[p], payment, mp) /\ work[p].pc = "payCommit"
  BY DEF PayCommit, At, SerialInv
<1>3. PICK w : work' = [work EXCEPT ![p] = w] /\ w.pc \in {"idle", "next"}
  BY <1>1, MovesOnSerial DEF PayCommit
<1>4. Relies(w, payment', mp')
  BY <1>3, NothingReliedOn
<1>5. Alone' /\ \A q \in Worker : Relies(work'[q], payment', mp')
  BY <1>1, <1>3, <1>4, OneMoves
<1>6. CreditRowsOwn' /\ RefundsReal' /\ OneOpenCheckout'
  BY <1>1 DEF SerialInv, CreditRowsOwn, RefundsReal, OneOpenCheckout, RowsOf
<1>7. MoneyKept
  BY <1>1 DEF MoneyKept, RowKept, PaidOnce
<1>8. ConfirmedIsCredited'
  <2>1. \E r \in Row : /\ payment[r].booking = b /\ payment[r].mp = m
                       /\ payment[r].status \in Money
    BY <1>2 DEF Relies, Current
  <2>2. \A c \in Flex : \A n \in confirmedBy'[c] :
          n \in confirmedBy[c] \/ (n = m /\ c = b)
    BY <1>1 DEF TypeOK, PayCommit
  <2> HIDE DEF m, b
  <2> QED BY <1>1, <2>1, <2>2 DEF ConfirmedIsCredited, SerialInv, Money
<1> QED BY <1>5, <1>6, <1>7, <1>8 DEF SerialInv

-----------------------------------------------------------------------------
(* Steps that write rows, one handler at a time                             *)

(* Only open checkouts are written: no money moves.                         *)
LEMMA OpenRowsSerial ==
  ASSUME TypeOK, SerialInv, UNCHANGED mp,
         \A r \in Row :
           \/ payment'[r] = payment[r]
           \/ /\ payment[r].status = "PENDING" /\ payment'[r].status # "REFUNDED"
              /\ payment'[r].status = "PENDING" =>
                   payment'[r].booking = payment[r].booking
  PROVE  MoneyKept /\ CreditRowsOwn' /\ RefundsReal' /\ OneOpenCheckout'
<1>1. Checkout \subseteq Row /\ \A m \in MpPayment : CreditRow(m) \in Row
  BY BoundsAssumption DEF Checkout, Row, CreditRow, MpPayment
<1>2. MoneyKept
  BY <1>1 DEF MoneyKept, RowKept, PaidOnce, Money
<1>3. CreditRowsOwn'
  <2>1. \A m \in MpPayment : payment[CreditRow(m)].status # "PENDING"
    BY DEF SerialInv, CreditRowsOwn
  <2>2. \A m \in MpPayment : payment'[CreditRow(m)] = payment[CreditRow(m)]
    BY <1>1, <2>1
  <2> QED BY <2>2 DEF SerialInv, CreditRowsOwn
<1>4. RefundsReal'
  BY DEF SerialInv, RefundsReal
<1>5. OneOpenCheckout'
  BY DEF SerialInv, OneOpenCheckout, RowsOf
<1> QED BY <1>2, <1>3, <1>4, <1>5

(* The rows of a payment get a status of money.                             *)
LEMMA NamedRowsSerial ==
  ASSUME TypeOK, SerialInv, UNCHANGED mp, NEW m \in MpPayment, NEW s \in Money,
         payment' = WithStatus({r \in Row : payment[r].mp = m}, s),
         s = "REFUNDED" => mp[m].status = "refunded",
         s = "APPROVED" => \A r \in Row : payment[r].mp = m =>
                                            payment[r].status # "REFUNDED"
  PROVE  MoneyKept /\ CreditRowsOwn' /\ RefundsReal' /\ OneOpenCheckout'
<1>1. Checkout \subseteq Row /\ \A n \in MpPayment : CreditRow(n) \in Row
  BY BoundsAssumption DEF Checkout, Row, CreditRow, MpPayment
<1>2. \A r \in Row :
        /\ payment'[r].mp = payment[r].mp /\ payment'[r].booking = payment[r].booking
        /\ payment'[r].status = IF payment[r].mp = m THEN s ELSE payment[r].status
  BY DEF TypeOK, WithStatus, PaymentRow
<1>3. MoneyKept
  BY <1>1, <1>2 DEF MoneyKept, RowKept, PaidOnce, Money
<1>4. CreditRowsOwn'
  BY <1>1, <1>2 DEF SerialInv, CreditRowsOwn, Money
<1>5. RefundsReal'
  BY <1>2 DEF SerialInv, RefundsReal
<1>6. OneOpenCheckout'
  <2>1. \A r \in Row : payment'[r].status = "PENDING" => payment[r].status = "PENDING"
    BY <1>2 DEF Money
  <2> QED BY <1>2, <2>1 DEF SerialInv, OneOpenCheckout, RowsOf
<1> QED BY <1>3, <1>4, <1>5, <1>6

(* The checkout: old links are cancelled before the new one is made.        *)
LEMMA CheckoutCancelSerial ==
  ASSUME IInv, SerialInv, OneAtATime, NEW p \in Worker, UNCHANGED mp,
         CheckoutCancel(p)
  PROVE  SerialInv' /\ MoneyKept
<1>1. TypeOK /\ work[p] \in CheckingOut /\ Relies(work[p], payment, mp)
  BY WorkAt DEF CheckoutCancel, At, SerialInv, IInv
<1> DEFINE w == [work[p] EXCEPT !.pc = "checkoutCreate"]
<1>2. w.pc = "checkoutCreate" /\ w.flex = work[p].flex
        /\ work' = [work EXCEPT ![p] = w] /\ work[p] # Idle
  BY <1>1, WorkAt DEF CheckingOut, Idle, CheckoutCancel, Goes
<1> HIDE DEF w
<1>3. \A r \in Row :
        /\ payment'[r].booking = payment[r].booking
        /\ \/ payment'[r] = payment[r]
              /\ ~(payment[r].booking = work[p].flex /\ payment[r].status = "PENDING")
           \/ payment[r].status = "PENDING" /\ payment'[r].status = "CANCELLED"
  BY <1>1 DEF CheckoutCancel, Superseded, WithStatus, RowsOf, TypeOK, PaymentRow
<1>4. Relies(w, payment', mp)
  BY <1>1, <1>2, <1>3 DEF Relies, CheckoutCancel, At
<1>5. MoneyKept /\ CreditRowsOwn' /\ RefundsReal' /\ OneOpenCheckout'
  BY <1>1, <1>3, OpenRowsSerial
<1> QED BY <1>1, <1>2, <1>4, <1>5, WriteSerial DEF CheckoutCancel

LEMMA CheckoutCreateSerial ==
  ASSUME IInv, SerialInv, OneAtATime, NEW p \in Worker, UNCHANGED mp,
         CheckoutCreate(p)
  PROVE  SerialInv' /\ MoneyKept
<1>1. TypeOK /\ work[p] \in CheckingOut /\ Relies(work[p], payment, mp)
        /\ work[p].pc = "checkoutCreate"
  BY WorkAt DEF CheckoutCreate, At, SerialInv, IInv
<1>2. Checkout \subseteq Row
        /\ \A n \in MpPayment : CreditRow(n) \in Row /\ CreditRow(n) \notin Checkout
  BY BoundsAssumption DEF Checkout, Row, CreditRow, MpPayment
<1> DEFINE b == work[p].flex
           row == [status |-> "PENDING", booking |-> b, mp |-> None, fresh |-> TRUE]
<1>3. PICK r \in Checkout :
        payment[r].status = "ABSENT" /\ payment' = [payment EXCEPT ![r] = row]
  BY DEF CheckoutCreate
<1>4. row.status = "PENDING" /\ row.booking = b
  OBVIOUS
<1> HIDE DEF row
<1>5. payment'[r] = row /\ \A q \in Row \ {r} : payment'[q] = payment[q]
  BY <1>1, <1>2, <1>3 DEF TypeOK
<1>6. \A q \in Row : payment[q].booking = b =>
                       payment[q].status \notin {"APPROVED", "PENDING"}
  BY <1>1 DEF Relies
<1>7. MoneyKept
  <2>1. \A q \in Row : RowKept(q)
    BY <1>3, <1>5 DEF RowKept, Money
  <2>2. \A q \in Checkout : PaidOnce(q)
    BY <1>2, <1>4, <1>5, <1>6 DEF PaidOnce, RowsOf
  <2> QED BY <2>1, <2>2 DEF MoneyKept
<1>8. CreditRowsOwn'
  BY <1>2, <1>5 DEF SerialInv, CreditRowsOwn
<1>9. RefundsReal'
  BY <1>4, <1>5 DEF SerialInv, RefundsReal
<1>10. OneOpenCheckout'
  BY <1>4, <1>5, <1>6 DEF SerialInv, OneOpenCheckout, RowsOf
<1>11. work' = [work EXCEPT ![p] = Idle] /\ work[p] # Idle
         /\ Relies(Idle, payment', mp)
  BY <1>1, NothingReliedOn DEF CheckoutCreate, Ends, Idle
<1> QED BY <1>1, <1>7, <1>8, <1>9, <1>10, <1>11, WriteSerial DEF CheckoutCreate

LEMMA NotesSerial ==
  ASSUME IInv, SerialInv, OneAtATime, NEW p \in Worker, UNCHANGED mp,
         NoteWrite(p) \/ RefundWrite(p) \/ RepeatWrite(p)
  PROVE  SerialInv' /\ MoneyKept
<1> DEFINE m == Current(p)
<1>1. TypeOK /\ AllInFlight /\ Processes(work[p]) /\ work[p].pc # "next"
        /\ UNCHANGED confirmedBy /\ Relies(work[p], payment, mp)
  BY DEF IInv, NoteWrite, RefundWrite, RepeatWrite, At, Processes, PaymentPc,
     SerialInv
<1>2. work[p] \in Processing /\ m \in MpPayment /\ InFlight(work[p], mp)
        /\ work[p] # Idle
  BY <1>1, CurrentIsPayment DEF AllInFlight, Processes, PaymentPc, Idle
<1>3. ASSUME Done(p) \/ Throws(p), MoneyKept, CreditRowsOwn', RefundsReal',
             OneOpenCheckout'
      PROVE  SerialInv' /\ MoneyKept
  <2>1. PICK w : work' = [work EXCEPT ![p] = w] /\ w.pc \in {"idle", "next"}
    BY <1>1, <1>3, MovesOnSerial
  <2>2. Relies(w, payment', mp)
    BY <2>1, NothingReliedOn
  <2> QED BY <1>1, <1>2, <1>3, <2>1, <2>2, WriteSerial
<1>4. CASE NoteWrite(p)
  <2>1. work[p].status \in {"PENDING", "REJECTED", "CANCELLED"}
    BY <1>1, <1>2, <1>4 DEF NoteWrite, At, InFlight
  <2>2. \A r \in Row : \/ payment'[r] = payment[r]
                       \/ /\ payment[r].status = "PENDING"
                          /\ payment'[r] = [payment[r] EXCEPT
                               !.mp = m, !.status = work[p].status]
    BY <1>4 DEF NoteWrite, RowsOf
  <2>3. \A r \in Row :
          \/ payment'[r] = payment[r]
          \/ /\ payment[r].status = "PENDING" /\ payment'[r].status # "REFUNDED"
             /\ payment'[r].booking = payment[r].booking
    <3> HIDE DEF m
    <3>1. \A r \in Row : payment[r] \in PaymentRow
      BY <1>1 DEF TypeOK
    <3> QED BY <2>1, <2>2, <3>1 DEF PaymentRow
  <2>4. Done(p) \/ Throws(p)
    BY <1>4 DEF NoteWrite
  <2> QED BY <1>1, <1>3, <2>3, <2>4, OpenRowsSerial
<1>5. CASE RefundWrite(p)
  <2>1. mp[m].status = "refunded"
    BY <1>2, <1>5, <1>1 DEF RefundWrite, At, InFlight, Current
  <2>2. payment' = WithStatus({r \in Row : payment[r].mp = m}, "REFUNDED")
          /\ Done(p)
    BY <1>5 DEF RefundWrite
  <2>3. "REFUNDED" \in Money
    BY DEF Money
  <2> HIDE DEF m
  <2>4. MoneyKept /\ CreditRowsOwn' /\ RefundsReal' /\ OneOpenCheckout'
    BY <1>1, <1>2, <2>1, <2>2, <2>3, NamedRowsSerial
  <2> QED BY <1>3, <2>2, <2>4
<1>6. CASE RepeatWrite(p)
  <2>1. \A r \in Row : payment[r].mp = m => payment[r].status # "REFUNDED"
    BY <1>1, <1>6 DEF RepeatWrite, At, Relies, Current
  <2>2. payment' = WithStatus({r \in Row : payment[r].mp = m}, "APPROVED")
          /\ Done(p)
    BY <1>6 DEF RepeatWrite
  <2>3. "APPROVED" \in Money
    BY DEF Money
  <2> HIDE DEF m
  <2>4. MoneyKept /\ CreditRowsOwn' /\ RefundsReal' /\ OneOpenCheckout'
    BY <1>1, <1>2, <2>1, <2>2, <2>3, NamedRowsSerial
  <2> QED BY <1>3, <2>2, <2>4
<1> QED BY <1>4, <1>5, <1>6

(* A credited row was open, or is made for this payment; and it names the   *)
(* payment from now on.                                                     *)
LEMMA CreditSerial ==
  ASSUME IInv, SerialInv, OneAtATime, NEW p \in Worker, UNCHANGED mp,
         CreditWrite(p)
  PROVE  SerialInv' /\ MoneyKept
<1> DEFINE m == Current(p)
           b == mp[m].booking
           r == IF work[p].row = None THEN CreditRow(m) ELSE work[p].row
           row == Credited(payment[r], b, m)
           w == [work[p] EXCEPT !.pc = "payRead"]
<1>1. TypeOK /\ AllInFlight /\ Processes(work[p]) /\ work[p].pc # "next"
        /\ UNCHANGED confirmedBy /\ Relies(work[p], payment, mp)
        /\ work[p].pc = "creditWrite" /\ RowsReal
  BY DEF IInv, CreditWrite, At, Processes, PaymentPc, SerialInv
<1>2. work[p] \in Processing /\ m \in MpPayment /\ Made(m, mp) /\ work[p] # Idle
  BY <1>1, CurrentIsPayment DEF Processes, PaymentPc, Idle
<1>3. b \in Flex
  BY <1>1, <1>2, CurrentIsPayment DEF MpRow, IInv, MadeIsSomebodys, Made
<1>4. CASE Taken(m, {work[p].row})
  BY <1>1, <1>4, EndsSerial DEF CreditWrite
<1>5. CASE ~Taken(m, {work[p].row})
  <2>1. /\ Checkout \subseteq Row
        /\ \A n \in MpPayment : CreditRow(n) \in Row
        /\ \A n, k \in MpPayment : CreditRow(n) = CreditRow(k) => n = k
    BY BoundsAssumption DEF Checkout, Row, CreditRow, MpPayment
  <2>2. work[p].row \in Row \union {None}
    BY <1>2 DEF Processing
  <2>3. r \in Row /\ payment[r] \in PaymentRow
    BY <1>1, <1>2, <2>1, <2>2 DEF TypeOK
  <2>4. \/ payment[r].status = "PENDING"
        \/ r = CreditRow(m) /\ payment[r].status = "ABSENT"
    <3>1. CASE work[p].row # None
      BY <1>1, <3>1 DEF Relies
    <3>2. CASE work[p].row = None
      <4>1. r = CreditRow(m) /\ r # None
        BY <2>3, <3>2, BoundsAssumption, NoneAssumption DEF Row
      <4>2. payment[r].mp = None
        <5>1. payment[r].mp # m
          BY <1>5, <2>3, <3>2, <4>1 DEF Taken
        <5> QED BY <1>2, <4>1, <5>1 DEF SerialInv, CreditRowsOwn
      <4>3. payment[r].status \notin {"APPROVED", "REFUNDED"}
        BY <1>1, <2>3, <4>2 DEF RowsReal, RowReal
      <4> QED BY <1>2, <4>1, <4>3 DEF SerialInv, CreditRowsOwn
    <3> QED BY <3>1, <3>2
  <2>5. payment' = [payment EXCEPT ![r] = row] /\ Goes(p, "payRead")
    BY <1>5 DEF CreditWrite
  <2> HIDE DEF r
  <2>6. row.status = "APPROVED" /\ row.booking = b /\ row.mp = m
    BY <2>3 DEF Credited, PaymentRow
  <2>7. w.pc = "payRead" /\ w.todo = work[p].todo /\ work' = [work EXCEPT ![p] = w]
    BY <1>1, <1>2, <2>5, WorkAt DEF Goes, Processing
  <2> HIDE DEF row, w
  <2>8. payment'[r] = row /\ \A q \in Row \ {r} : payment'[q] = payment[q]
    BY <1>1, <2>3, <2>5 DEF TypeOK
  <2>9. Relies(w, payment', mp)
    BY <2>3, <2>6, <2>7, <2>8 DEF Relies, Money, Current
  <2>10. MoneyKept
    <3>1. \A q \in Row : RowKept(q)
      BY <2>4, <2>8 DEF RowKept, Money
    <3>2. \A q \in Checkout : PaidOnce(q)
      BY <2>1, <2>6, <2>8 DEF PaidOnce
    <3> QED BY <3>1, <3>2 DEF MoneyKept
  <2>11. CreditRowsOwn'
    <3>1. \A n \in MpPayment : CreditRow(n) = r => n = m
      BY <1>2, <2>1, <2>4 DEF SerialInv, CreditRowsOwn
    <3> HIDE DEF m, b
    <3> QED BY <2>1, <2>6, <2>8, <3>1 DEF SerialInv, CreditRowsOwn
  <2>12. RefundsReal'
    BY <2>6, <2>8 DEF SerialInv, RefundsReal
  <2>13. OneOpenCheckout'
    BY <2>6, <2>8 DEF SerialInv, OneOpenCheckout, RowsOf
  <2> QED BY <1>1, <1>2, <2>7, <2>9, <2>10, <2>11, <2>12, <2>13, WriteSerial
<1> QED BY <1>4, <1>5

-----------------------------------------------------------------------------
(* The rest of the world: no money moves, and what a handler relies on stays. *)
LEMMA WorldSerial ==
  ASSUME IInv, SerialInv, OneAtATime, World
  PROVE  SerialInv' /\ MoneyKept
<1>0. TypeOK /\ mp \in [MpPayment -> MpRow] /\ payment \in [Row -> PaymentRow]
        /\ AllInFlight
  BY DEF IInv, TypeOK
<1>1. ASSUME UNCHANGED <<payment, confirmedBy, work>>, mp' \in [MpPayment -> MpRow],
             \A n \in MpPayment :
               Made(n, mp) => /\ mp'[n].booking = mp[n].booking
                              /\ mp[n].status = "refunded" => mp'[n].status = "refunded"
      PROVE  SerialInv' /\ MoneyKept
  <2>1. ASSUME NEW p \in Worker PROVE Relies(work'[p], payment', mp')
    <3>1. Relies(work[p], payment, mp)
      BY DEF SerialInv
    <3>2. work[p].pc \in {"payRead", "payCommit"} =>
            mp'[Head(work[p].todo)].booking = mp[Head(work[p].todo)].booking
      BY <1>0, <1>1, CurrentIsPayment DEF Processes, PaymentPc, Current
    <3> QED BY <1>1, <3>1, <3>2 DEF Relies
  <2>2. RefundsReal'
    <3>1. ASSUME NEW r \in Row, payment[r].status = "REFUNDED"
          PROVE  payment[r].mp \in MpPayment /\ Made(payment[r].mp, mp)
      BY <1>0, <3>1 DEF IInv, RowsReal, RowReal, Made, Approved, PaymentRow
    <3> QED BY <1>1, <3>1 DEF RefundsReal, SerialInv
  <2>3. Alone' /\ CreditRowsOwn' /\ OneOpenCheckout' /\ ConfirmedIsCredited'
    BY <1>1 DEF SerialInv, Alone, CreditRowsOwn, OneOpenCheckout,
       ConfirmedIsCredited, RowsOf
  <2>4. MoneyKept
    BY <1>1 DEF MoneyKept, RowKept, PaidOnce
  <2> QED BY <2>1, <2>2, <2>3, <2>4 DEF SerialInv
<1>2. ASSUME NEW m \in MpPayment, NEW b \in Flex, GuestPays(m, b)
      PROVE  SerialInv' /\ MoneyKept
  <2>1. PICK s \in {"pending", "approved", "rejected"}, fits \in BOOLEAN :
          mp' = [mp EXCEPT ![m] = [status |-> s, booking |-> b, fits |-> fits]]
    BY <1>2 DEF GuestPays
  <2>2. mp' \in [MpPayment -> MpRow]
    BY <1>0, <2>1 DEF MpRow, MpStatus
  <2>3. mp[m].status = "none" /\ UNCHANGED <<payment, confirmedBy, work>>
    BY <1>2 DEF GuestPays, tables
  <2> QED BY <1>0, <1>1, <2>1, <2>2, <2>3 DEF Made
<1>3. ASSUME NEW m \in MpPayment, MpMoves(m)
      PROVE  SerialInv' /\ MoneyKept
  <2>1. PICK s \in {"approved", "rejected", "cancelled", "refunded"} :
          /\ mp' = [mp EXCEPT ![m].status = s]
          /\ mp[m].status # "refunded"
    BY <1>3 DEF MpMoves
  <2>2. \A n \in MpPayment :
           mp'[n] = IF n = m
                    THEN [status |-> s, booking |-> mp[m].booking,
                          fits |-> mp[m].fits]
                    ELSE mp[n]
    BY <1>0, <2>1 DEF MpRow
  <2>3. mp' \in [MpPayment -> MpRow]
    BY <1>0, <2>1 DEF MpRow, MpStatus
  <2>4. UNCHANGED <<payment, confirmedBy, work>>
    BY <1>3 DEF MpMoves, tables
  <2> QED BY <1>0, <1>1, <2>1, <2>2, <2>3, <2>4
<1>4. ASSUME NEW b \in Flex, StaffMoves(b) \/ StaffDeletes(b)
      PROVE  SerialInv' /\ MoneyKept
  BY <1>0, <1>1, <1>4 DEF StaffMoves, StaffDeletes
<1>5. ASSUME NEW r \in Checkout, LinkAges(r)
      PROVE  SerialInv' /\ MoneyKept
  <2>1. UNCHANGED <<confirmedBy, mp, work>> /\ r \in Row
          /\ payment' = [payment EXCEPT ![r].fresh = FALSE]
          /\ payment[r].status = "PENDING"
    BY <1>5, BoundsAssumption DEF LinkAges, Checkout, Row
  <2>2. \A q \in Row : /\ payment'[q].status = payment[q].status
                       /\ payment'[q].booking = payment[q].booking
                       /\ payment'[q].mp = payment[q].mp
    BY <1>0, <2>1 DEF PaymentRow
  <2>3. \A q \in Row : payment'[q] = payment[q] \/ payment[q].status = "PENDING"
    BY <1>0, <2>1
  <2>4. MoneyKept /\ CreditRowsOwn' /\ RefundsReal' /\ OneOpenCheckout'
    BY <1>0, <2>1, <2>2, <2>3, OpenRowsSerial
  <2>5. ASSUME NEW p \in Worker PROVE Relies(work'[p], payment', mp')
    <3>1. Relies(work[p], payment, mp)
      BY DEF SerialInv
    <3>2. work[p].row # None /\ work[p].pc = "creditWrite" => work[p].row \in Row
      BY <1>0, WorkAt DEF Processes, PaymentPc, Processing
    <3> QED BY <2>1, <2>2, <3>1, <3>2 DEF Relies
  <2>6. Alone' /\ ConfirmedIsCredited'
    BY <2>1, <2>2 DEF SerialInv, Alone, ConfirmedIsCredited
  <2> QED BY <2>4, <2>5, <2>6 DEF SerialInv
<1> QED BY <1>2, <1>3, <1>4, <1>5 DEF World

-----------------------------------------------------------------------------
LEMMA SerialStep ==
  ASSUME IInv, SerialInv, Next, OneAtATime
  PROVE  SerialInv' /\ MoneyKept
<1>1. CASE World
  BY <1>1, WorldSerial
<1>2. ASSUME NEW p \in Worker, Begin(p)
      PROVE  SerialInv' /\ MoneyKept
  <2>1. UNCHANGED mp
    BY <1>2 DEF Begin
  <2>2. \/ Reconcile(p)
        \/ \E b \in Flex : CheckoutRead(p, b) \/ Webhook(p, b) \/ SyncStart(p, b)
    BY <1>2 DEF Begin
  <2> QED BY <2>1, <2>2, BeginSerial
<1>3. ASSUME NEW p \in Worker, Step(p)
      PROVE  SerialInv' /\ MoneyKept
  <2>1. UNCHANGED mp
    BY <1>3 DEF Step
  <2>2. \/ CheckoutPaid(p) \/ CheckoutReuse(p) \/ CheckoutCancel(p)
        \/ CheckoutCreate(p)
        \/ Search(p) \/ Fetch(p) \/ NoteWrite(p) \/ RefundWrite(p)
        \/ ConfirmRead(p) \/ RepeatWrite(p) \/ CreditRead(p) \/ CreditWrite(p)
        \/ PayRead(p) \/ PayCommit(p)
    BY <1>3 DEF Step
  <2> QED BY <2>1, <2>2, CheckoutReadsSerial, CheckoutCancelSerial,
       CheckoutCreateSerial, BeginSerial, FetchSerial, NotesSerial, ReadsSerial,
       CreditSerial, PayCommitSerial
<1>4. ASSUME NEW p \in Worker, Fail(p)
      PROVE  SerialInv' /\ MoneyKept
  BY <1>4, FailSerial
<1> QED BY <1>1, <1>2, <1>3, <1>4 DEF Next

LEMMA SerialInit == Init => SerialInv
<1> SUFFICES ASSUME Init PROVE SerialInv
  OBVIOUS
<1>1. \A m \in MpPayment : CreditRow(m) \in Row
  BY BoundsAssumption DEF CreditRow, MpPayment, Row
<1>2. \A p \in Worker : Relies(work[p], payment, mp)
  BY NothingReliedOn DEF Init, Idle
<1> QED BY <1>1, <1>2 DEF Init, SerialInv, Alone, CreditRowsOwn, NoRow, RefundsReal,
     OneOpenCheckout, RowsOf, ConfirmedIsCredited

(* Any behaviour in which handlers run one at a time, without the bounds of   *)
(* the scenes.                                                                *)
SerialSpec == Init /\ [][Next /\ OneAtATime]_vars

LEMMA SerialInvStep ==
  ASSUME IInv, SerialInv, [Next /\ OneAtATime]_vars
  PROVE  IInv' /\ SerialInv' /\ (MoneyKept \/ UNCHANGED vars)
<1>1. CASE Next /\ OneAtATime
  BY <1>1, NextInv, SerialStep
<1>2. CASE UNCHANGED vars
  <2>1. IInv'
    BY <1>2, NextInv
  <2>2. SerialInv'
    BY <1>2 DEF vars, SerialInv, Alone, CreditRowsOwn, RefundsReal, OneOpenCheckout,
       ConfirmedIsCredited, RowsOf
  <2> QED BY <1>2, <2>1, <2>2
<1> QED BY <1>1, <1>2

(* For any reservations, payments and amounts: while handlers run one at a    *)
(* time a guest has one open checkout, who is confirmed is credited, money    *)
(* and refunds are kept, and who has paid is given no other checkout.         *)
THEOREM HandledOneAtATime ==
  SerialSpec => [](OneOpenCheckout /\ ConfirmedIsCredited) /\ [][MoneyKept]_vars
<1>1. Init => IInv /\ SerialInv
  BY InitInv, SerialInit
<1>2. IInv /\ SerialInv /\ [Next /\ OneAtATime]_vars =>
        (IInv /\ SerialInv)' /\ [MoneyKept]_vars
  BY SerialInvStep
<1>3. SerialInv => OneOpenCheckout /\ ConfirmedIsCredited
  BY DEF SerialInv
<1> QED BY <1>1, <1>2, <1>3, PTL DEF SerialSpec

(* The scenes of the instance are behaviours of the specification.          *)
LEMMA SceneIsSpec == MCSpec => Spec
<1>1. MCInit => Init
  BY DEF MCInit
<1>2. [MCNext]_<<vars, scene>> => [Next]_vars
  BY DEF MCNext, Concurrent, Next, World
<1> QED BY <1>1, <1>2, PTL DEF MCSpec, Spec

SceneInv == IInv /\ (scene = "serial" => SerialInv)

LEMMA SceneStep ==
  ASSUME SceneInv, [MCNext]_<<vars, scene>>
  PROVE  /\ SceneInv'
         /\ scene = "serial" => MoneyKept \/ UNCHANGED vars
<1>1. CASE MCNext
  <2>1. [Next]_vars
    BY <1>1 DEF MCNext, Concurrent, Next, World
  <2>2. scene' = scene /\ (scene = "serial" => Next /\ OneAtATime)
    BY <1>1 DEF MCNext
  <2> QED BY <2>1, <2>2, NextInv, SerialStep DEF SceneInv
<1>2. CASE UNCHANGED <<vars, scene>>
  <2>1. IInv'
    BY <1>2, NextInv DEF SceneInv
  <2>2. SerialInv => SerialInv'
    BY <1>2 DEF vars, SerialInv, Alone, CreditRowsOwn, RefundsReal, OneOpenCheckout,
       ConfirmedIsCredited, RowsOf
  <2> QED BY <1>2, <2>1, <2>2 DEF SceneInv
<1> QED BY <1>1, <1>2

LEMMA SceneInvariant == MCSpec => []SceneInv
<1>1. MCInit => SceneInv
  BY InitInv, SerialInit DEF MCInit, SceneInv
<1>2. SceneInv /\ [MCNext]_<<vars, scene>> => SceneInv'
  BY SceneStep
<1> QED BY <1>1, <1>2, PTL DEF MCSpec

(* While handlers run one at a time, a guest has one open checkout and what *)
(* a reservation was confirmed for is credited to it: whatever fails,       *)
(* expires or is decided by staff between two awaits, and for any number of *)
(* reservations, checkouts and payments.                                    *)
THEOREM SerialBooks == MCSpec => []SerialBooksSound
<1>1. SceneInv => SerialBooksSound
  BY DEF SceneInv, SerialInv, SerialBooksSound
<1> QED BY <1>1, SceneInvariant, PTL

(* While handlers run one at a time, no step takes a credit or forgets a    *)
(* refund, and who has paid is given no other checkout.                     *)
THEOREM SerialMoney == MCSpec => SerialMoneyIsKept
<1>1. ASSUME SceneInv, [MCNext]_<<vars, scene>>
      PROVE  [scene = "serial" =>
                /\ \A r \in Row : CreditIsKept(r) /\ RefundIsKept(r)
                /\ \A r \in Checkout : PaidOnce(r)]_vars
  <2>1. MoneyKept => /\ \A r \in Row : CreditIsKept(r) /\ RefundIsKept(r)
                     /\ \A r \in Checkout : PaidOnce(r)
    BY DEF MoneyKept, RowKept, Money, CreditIsKept, RefundIsKept
  <2> QED BY <1>1, <2>1, SceneStep
<1> QED BY <1>1, SceneInvariant, PTL DEF MCSpec, SerialMoneyIsKept
=============================================================================
