------------------------ MODULE CommissionSettlements ------------------------
(***************************************************************************)
(* Settling the commissions of ambassadors: approval by staff, settlement  *)
(* drafts, payment and cancellation of a draft.                            *)
(*                                                                         *)
(* Sources: commission-settlements.service.ts, commission-workflow.service *)
(* .ts.  Each staff request reads, then writes in one transaction; the     *)
(* booking and its commission move meanwhile as CommissionLedger promises  *)
(* (the ledger variables are shared with it).                              *)
(***************************************************************************)
EXTENDS CommissionLedger, FiniteSets, Functions

CONSTANTS Staff,       \* concurrent requests of staff
          Settlement   \* identifiers of CommissionSettlement rows

ASSUME IdsAreFinite == IsFiniteSet(Id)
ASSUME AmountIsNat == Amount \subseteq Nat /\ 0 \in Amount
ASSUME NoneIsNoId == None \notin Profile \union Settlement

VARIABLES
  assigned,    \* settlementId of each commission
  settlement,  \* the commission_settlements table
  job          \* what each staff request is doing and what it has read

settlementVars == <<assigned, settlement, job>>
vars == <<ledger, settlementVars>>

-----------------------------------------------------------------------------
CommissionStatus ==
  {"PENDING", "PENDING_VALIDATION", "APPROVED", "PAID", "CANCELLED"}

SettlementRow == [profile : Profile \union {None}, total : Nat,
                  status : {"ABSENT", "DRAFT", "PAID", "CANCELLED"}]

Idle == [pc |-> "idle"]
Job ==
  {Idle} \union [pc : {"approveCommit"}, commission : Id]
         \union [pc : {"createCommit"}, picked : SUBSET Id,
                 read : [Id -> Amount]]
         \union [pc : {"payCommit"}, settlement : Settlement,
                 listed : SUBSET Id]
         \union [pc : {"dropCommit"}, settlement : Settlement]

TypeOK ==
  /\ profile \in [Id -> Profile \union {None}]
  /\ stay \in [Id -> BookingStatus \union {"ABSENT"}]
  /\ shown \in [Id -> BOOLEAN]
  /\ status \in [Id -> CommissionStatus \union {"ABSENT"}]
  /\ amount \in [Id -> Amount]
  /\ assigned \in [Id -> Settlement \union {None}]
  /\ settlement \in [Settlement -> SettlementRow]
  /\ job \in [Staff -> Job]

Init ==
  /\ LedgerInit
  /\ assigned = [c \in Id |-> None]
  /\ settlement = [s \in Settlement |->
                     [profile |-> None, total |-> 0, status |-> "ABSENT"]]
  /\ job = [p \in Staff |-> Idle]

At(p, pc) == job[p].pc = pc
Starts(p, state) == job[p] = Idle /\ job' = [job EXCEPT ![p] = state]
Ends(p) == job' = [job EXCEPT ![p] = Idle]

(* The commissions of a settlement, and what commissions add up to.  (A      *)
(* definition with a suffix is a variant a mistake would give; no action uses *)
(* it, and each is paired with the property that rules it out.)               *)
Members(s) == {c \in Id : assigned[c] = s}
TotalOf_Negated(C, amounts) == 0 - SumFunction([c \in C |-> amounts[c]])
TotalOf(C, amounts) == SumFunction([c \in C |-> amounts[c]])

-----------------------------------------------------------------------------
(* PATCH /commissions/:id/approve: a read, then an unconditional update      *)

Approvable(c) ==
  /\ status[c] \in {"PENDING", "PENDING_VALIDATION"}
  /\ assigned[c] = None

ApproveRead(p, c) ==
  /\ Approvable(c)
  /\ Starts(p, [pc |-> "approveCommit", commission |-> c])
  /\ UNCHANGED <<ledger, assigned, settlement>>

ApproveCommit(p) ==
  /\ At(p, "approveCommit")
  /\ status' = [status EXCEPT ![job[p].commission] = "APPROVED"]
  /\ Ends(p)
  /\ UNCHANGED <<profile, stay, shown, amount, assigned, settlement>>

-----------------------------------------------------------------------------
(* POST /commission-settlements: the eligible commissions are read first,    *)
(* the drafts are written from that list                                     *)

Eligible_AnyStatus(c) ==
  /\ status[c] # "ABSENT"
  /\ assigned[c] = None
  /\ profile[c] # None
  /\ shown[c]
Eligible_Assigned(c) ==
  /\ status[c] = "APPROVED"
  /\ profile[c] # None
  /\ shown[c]
  /\ stay[c] \in {"CONFIRMED", "COMPLETED"}
Eligible(c) ==
  /\ status[c] = "APPROVED"
  /\ assigned[c] = None
  /\ profile[c] # None
  /\ shown[c]
  /\ stay[c] \in {"CONFIRMED", "COMPLETED"}

(* The body may name the ambassadors to settle.                             *)
CreateRead(p, ambassadors) ==
  LET picked == {c \in Id : Eligible(c) /\ profile[c] \in ambassadors} IN
  /\ picked # {}
  /\ Starts(p, [pc |-> "createCommit", picked |-> picked, read |-> amount])
  /\ UNCHANGED <<ledger, assigned, settlement>>

(* The draft a commission goes to: one draft per ambassador (byProfile).    *)
DraftOf_First(drafts, c) == drafts[CHOOSE a \in DOMAIN drafts : TRUE]
DraftOf(drafts, c) == drafts[profile[c]]

CreateCommit(p, drafts) ==
  LET r == job[p]
      share(a) == {c \in r.picked : profile[c] = a}
  IN
  /\ At(p, "createCommit")
  /\ DOMAIN drafts = {profile[c] : c \in r.picked}
  /\ \A a, b \in DOMAIN drafts : drafts[a] = drafts[b] => a = b
  /\ \A a \in DOMAIN drafts : settlement[drafts[a]].status = "ABSENT"
  /\ settlement' = [s \in Settlement |->
       IF \E a \in DOMAIN drafts : drafts[a] = s
       THEN LET a == CHOOSE a \in DOMAIN drafts : drafts[a] = s
            IN [profile |-> a, total |-> TotalOf(share(a), r.read),
                status |-> "DRAFT"]
       ELSE settlement[s]]
  /\ assigned' = [c \in Id |->
       IF c \in r.picked THEN DraftOf(drafts, c) ELSE assigned[c]]
  /\ Ends(p)
  /\ UNCHANGED ledger

-----------------------------------------------------------------------------
(* PATCH /commission-settlements/:id/mark-paid and /cancel                   *)

IsDraft_Any(s) == settlement[s].status # "ABSENT"
IsDraft(s) == settlement[s].status = "DRAFT"

PayRead(p, s) ==
  /\ IsDraft(s)
  /\ Starts(p, [pc |-> "payCommit", settlement |-> s, listed |-> Members(s)])
  /\ UNCHANGED <<ledger, assigned, settlement>>

PayCommit(p) ==
  LET r == job[p] IN
  /\ At(p, "payCommit")
  /\ settlement' = [settlement EXCEPT ![r.settlement].status = "PAID"]
  /\ status' = [c \in Id |-> IF c \in r.listed THEN "PAID" ELSE status[c]]
  /\ Ends(p)
  /\ UNCHANGED <<profile, stay, shown, amount, assigned>>

DropRead(p, s) ==
  /\ IsDraft(s)
  /\ Starts(p, [pc |-> "dropCommit", settlement |-> s])
  /\ UNCHANGED <<ledger, assigned, settlement>>

Released_None(s) == assigned
Released(s) == [c \in Id |-> IF assigned[c] = s THEN None ELSE assigned[c]]

DropCommit(p) ==
  LET s == job[p].settlement IN
  /\ At(p, "dropCommit")
  /\ assigned' = Released(s)
  /\ settlement' = [settlement EXCEPT ![s].status = "CANCELLED"]
  /\ Ends(p)
  /\ UNCHANGED ledger

-----------------------------------------------------------------------------
(* A staff request dies between its read and its transaction.               *)
Fail(p) ==
  /\ job[p] # Idle
  /\ Ends(p)
  /\ UNCHANGED <<ledger, assigned, settlement>>

StaffStep(p) ==
  \/ \E c \in Id : ApproveRead(p, c)
  \/ ApproveCommit(p)
  \/ \E ambassadors \in (SUBSET Profile) \ {{}} : CreateRead(p, ambassadors)
  \/ \E A \in SUBSET Profile : \E drafts \in [A -> Settlement] :
       CreateCommit(p, drafts)
  \/ \E s \in Settlement : PayRead(p, s) \/ DropRead(p, s)
  \/ PayCommit(p)
  \/ DropCommit(p)
  \/ Fail(p)

(* A step of the reservation services.                                      *)
ReservationStep == LedgerNext /\ UNCHANGED settlementVars

Next == ReservationStep \/ \E p \in Staff : StaffStep(p)

Spec == Init /\ [][Next]_vars

-----------------------------------------------------------------------------
(* Properties that hold however staff requests and reservations interleave   *)

(* A commission that is not yet approved is in no settlement, which is what  *)
(* lets the reservation services update the amount of a PENDING commission   *)
(* without asking.                                                           *)
PendingUnassigned ==
  \A c \in Id :
    status[c] \in {"ABSENT", "PENDING", "PENDING_VALIDATION"} =>
      assigned[c] = None

(* Although the amounts are read before the transaction, the total written   *)
(* is never stale: what a creation in flight has read of its commissions is  *)
(* what they still amount to.                                                *)
PickedNeverStale ==
  \A p \in Staff : At(p, "createCommit") =>
    \A c \in job[p].picked : job[p].read[c] = amount[c]

(* What a commission amounts to is frozen while it is in a settlement.       *)
SettledAmountFrozen ==
  [][\A c \in Id : assigned[c] # None => amount'[c] = amount[c]]_vars

(* A settlement only ever holds commissions of the ambassador it pays.       *)
OneAmbassadorPerSettlement ==
  \A c \in Id : assigned[c] # None =>
    /\ settlement[assigned[c]].status # "ABSENT"
    /\ settlement[assigned[c]].profile = profile[c]

(* A PAID commission was paid to its own ambassador: one of its settlements  *)
(* was marked paid (and perhaps overwritten by a racing cancellation).       *)
PaidToItsAmbassador ==
  \A c \in Id : status[c] = "PAID" =>
    \E s \in Settlement : /\ settlement[s].profile = profile[c]
                          /\ settlement[s].status \in {"PAID", "CANCELLED"}

(* A cancelled settlement holds no commission: all are free for another.     *)
CancelledHoldsNothing ==
  \A s \in Settlement : settlement[s].status = "CANCELLED" => Members(s) = {}

(* Whatever moves a commission outside a settlement cannot disturb one: only  *)
(* what is in none still changes its amount, what a creation is about to take *)
(* has not changed, and a cancelled settlement lets all of its go.            *)
SettledStandApart == PendingUnassigned /\ PickedNeverStale /\ CancelledHoldsNothing

(* Whom a settlement pays is who earned what is in it and what it paid.       *)
PaysWhoEarned == OneAmbassadorPerSettlement /\ PaidToItsAmbassador

-----------------------------------------------------------------------------
(* Properties that hold when staff requests are served one at a time, while  *)
(* reservations move freely                                                  *)

(* A settlement owes or paid exactly what its commissions amount to.         *)
TotalIsSumOfMembers ==
  \A s \in Settlement : settlement[s].status \in {"DRAFT", "PAID"} =>
    settlement[s].total = TotalOf(Members(s), amount)

(* A PAID commission belongs to a settlement marked PAID: none is paid twice *)
(* and none is free to be settled again.                                     *)
PaidInPaidSettlement ==
  \A c \in Id : status[c] = "PAID" =>
    assigned[c] # None /\ settlement[assigned[c]].status = "PAID"

(* A draft takes eligible commissions, so none that is in a settlement: a    *)
(* commission in one leaves it before it enters another.                     *)
KeepsOrLeaves(c) == assigned[c] # None => assigned'[c] \in {assigned[c], None}

(* "Only draft settlements can be cancelled": what was paid stays paid.      *)
PaidIsKept(s) == settlement[s].status = "PAID" => settlement'[s].status # "CANCELLED"

-----------------------------------------------------------------------------
(* What a doc or a message of the code says and the code does not keep       *)

(* Cancelling a reservation cancels its commission: it is not paid later.    *)
CancelledNotPaid ==
  [][\A c \in Id : status[c] = "CANCELLED" => status'[c] # "PAID"]_vars
=============================================================================
