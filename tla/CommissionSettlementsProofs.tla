--------------------- MODULE CommissionSettlementsProofs ---------------------
(***************************************************************************)
(* Proofs about CommissionSettlements, for any number of staff requests,   *)
(* ambassadors, commissions and settlements.                               *)
(***************************************************************************)
EXTENDS MCSettlementScenes, FiniteSetTheorems, TLAPS

-----------------------------------------------------------------------------
(* The inductive invariant.                                                 *)

(* Well-formed tables and jobs.  A total is what TotalOf adds up, which is a *)
(* natural number: see below.                                               *)
Totals == {TotalOf(C, n) : C \in SUBSET Id, n \in [Id -> Amount]} \union {0}
Row == [profile : Profile \union {None}, total : Totals,
        status : {"ABSENT", "DRAFT", "PAID", "CANCELLED"}]

Typed ==
  /\ profile \in [Id -> Profile \union {None}]
  /\ status \in [Id -> CommissionStatus \union {"ABSENT"}]
  /\ amount \in [Id -> Amount]
  /\ assigned \in [Id -> Settlement \union {None}]
  /\ settlement \in [Settlement -> Row]
  /\ job \in [Staff -> Job]

(* The commission is past validation: no step prices it or reopens it.      *)
Decided(c) == status[c] \notin {"ABSENT", "PENDING", "PENDING_VALIDATION"}

(* What a request may rely on at its second step.                           *)
Fits(j) ==
  /\ j.pc = "createCommit" =>
       \A c \in j.picked :
         Decided(c) /\ profile[c] \in Profile /\ j.read[c] = amount[c]
  /\ j.pc = "payCommit" =>
       /\ settlement[j.settlement].status # "ABSENT"
       /\ \A c \in j.listed :
            Decided(c) /\ profile[c] = settlement[j.settlement].profile

AllFit == \A p \in Staff : Fits(job[p])

IInv ==
  /\ Typed
  /\ AllFit
  /\ PendingUnassigned
  /\ OneAmbassadorPerSettlement
  /\ PaidToItsAmbassador
  /\ CancelledHoldsNothing

(* What no step undoes.                                                     *)
DecidedStays ==
  \A c \in Id : Decided(c) =>
    /\ status'[c] \notin {"ABSENT", "PENDING", "PENDING_VALIDATION"}
    /\ profile'[c] = profile[c]
    /\ amount'[c] = amount[c]

SettlementsStay ==
  \A s \in Settlement : settlement[s].status # "ABSENT" =>
    /\ settlement'[s].status # "ABSENT"
    /\ settlement'[s].profile = settlement[s].profile
    /\ settlement[s].status \in {"PAID", "CANCELLED"} =>
         settlement'[s].status \in {"PAID", "CANCELLED"}

-----------------------------------------------------------------------------
LEMMA JobAt ==
  ASSUME job \in [Staff -> Job], NEW p \in Staff
  PROVE  /\ job[p].pc = "approveCommit" => job[p].commission \in Id
         /\ job[p].pc = "createCommit" => /\ job[p].picked \in SUBSET Id
                                          /\ job[p].read \in [Id -> Amount]
         /\ job[p].pc = "payCommit" => /\ job[p].settlement \in Settlement
                                       /\ job[p].listed \in SUBSET Id
         /\ job[p].pc = "dropCommit" => job[p].settlement \in Settlement
BY DEF Job, Idle

(* A request that does not move may still rely on what it relied on.        *)
LEMMA FitStays ==
  ASSUME Typed, AllFit, DecidedStays, SettlementsStay, NEW q \in Staff,
         job'[q] = job[q]
  PROVE  Fits(job[q])'
<1>1. job'[q] = job[q] /\ Fits(job[q]) /\ job \in [Staff -> Job]
  BY DEF AllFit, Typed
<1>2. ASSUME job[q].pc = "createCommit", NEW c \in job[q].picked
      PROVE  /\ status'[c] \notin {"ABSENT", "PENDING", "PENDING_VALIDATION"}
             /\ profile'[c] \in Profile /\ job[q].read[c] = amount'[c]
  <2>1. c \in Id
    BY <1>1, <1>2, JobAt
  <2> QED BY <1>1, <1>2, <2>1 DEF Fits, DecidedStays
<1>3. ASSUME job[q].pc = "payCommit"
      PROVE  /\ settlement'[job[q].settlement].status # "ABSENT"
             /\ \A c \in job[q].listed :
                  /\ status'[c] \notin {"ABSENT", "PENDING", "PENDING_VALIDATION"}
                  /\ profile'[c] = settlement'[job[q].settlement].profile
  <2>1. job[q].settlement \in Settlement /\ job[q].listed \in SUBSET Id
    BY <1>1, <1>3, JobAt
  <2> QED BY <1>1, <1>3, <2>1 DEF Fits, DecidedStays, SettlementsStay
<1> QED BY <1>1, <1>2, <1>3 DEF Fits, Decided

-----------------------------------------------------------------------------
(* A step of the reservation services.                                      *)

LEMMA ReservationMoves ==
  ASSUME Typed, LedgerNext
  PROVE  /\ profile' \in [Id -> Profile \union {None}]
         /\ status' \in [Id -> CommissionStatus \union {"ABSENT"}]
         /\ amount' \in [Id -> Amount]
         /\ DecidedStays
         /\ \A c \in Id : /\ status'[c] = "PAID" => status[c] = "PAID"
                          /\ status[c] # "ABSENT" => profile'[c] = profile[c]
                          /\ status'[c] = "ABSENT" => status[c] = "ABSENT"
<1>0. /\ profile \in [Id -> Profile \union {None}]
      /\ status \in [Id -> CommissionStatus \union {"ABSENT"}]
      /\ amount \in [Id -> Amount]
  BY DEF Typed
<1>1. ASSUME NEW c \in Id, NEW p \in Profile \union {None}, NEW a \in Amount,
             NEW b \in {"PENDING", "CONFIRMED"},
             NEW s \in {"PENDING", "PENDING_VALIDATION"}, Open(c, p, b, s, a)
      PROVE  /\ profile' \in [Id -> Profile \union {None}]
             /\ status' \in [Id -> CommissionStatus \union {"ABSENT"}]
             /\ amount' \in [Id -> Amount]
             /\ DecidedStays
             /\ \A d \in Id : /\ status'[d] = "PAID" => status[d] = "PAID"
                              /\ status[d] # "ABSENT" => profile'[d] = profile[d]
                              /\ status'[d] = "ABSENT" => status[d] = "ABSENT"
  BY <1>0, <1>1 DEF Open, CommissionStatus, DecidedStays, Decided
<1>2. ASSUME NEW c \in Id, NEW b \in BookingStatus, NEW a \in Amount,
             Move(c, b, a)
      PROVE  /\ profile' = profile
             /\ status' \in [Id -> CommissionStatus \union {"ABSENT"}]
             /\ amount' \in [Id -> Amount]
             /\ DecidedStays
             /\ \A d \in Id : /\ status'[d] = "PAID" => status[d] = "PAID"
                              /\ status'[d] = "ABSENT" => status[d] = "ABSENT"
  BY <1>0, <1>2 DEF Move, CommissionStatus, DecidedStays, Decided
<1>3. ASSUME NEW c \in Id, Cancel(c) \/ Hide(c)
      PROVE  /\ profile' = profile
             /\ status' \in [Id -> CommissionStatus \union {"ABSENT"}]
             /\ amount' = amount
             /\ DecidedStays
             /\ \A d \in Id : /\ status'[d] = "PAID" => status[d] = "PAID"
                              /\ status'[d] = "ABSENT" => status[d] = "ABSENT"
  BY <1>0, <1>3 DEF Cancel, Hide, CommissionStatus, DecidedStays, Decided
<1>4. ASSUME NEW c \in Id, NEW a \in Amount, Reprice(c, a)
      PROVE  /\ profile' = profile
             /\ status' = status
             /\ amount' \in [Id -> Amount]
             /\ DecidedStays
  BY <1>0, <1>4 DEF Reprice, DecidedStays, Decided
<1> QED BY <1>0, <1>1, <1>2, <1>3, <1>4 DEF LedgerNext

LEMMA ReservationInv ==
  ASSUME IInv, ReservationStep
  PROVE  IInv'
<1>0. /\ Typed /\ AllFit /\ PendingUnassigned /\ OneAmbassadorPerSettlement
      /\ PaidToItsAmbassador /\ CancelledHoldsNothing
  BY DEF IInv
<1>1. UNCHANGED <<assigned, settlement, job>>
  BY DEF ReservationStep, settlementVars
<1>2. /\ profile' \in [Id -> Profile \union {None}]
      /\ status' \in [Id -> CommissionStatus \union {"ABSENT"}]
      /\ amount' \in [Id -> Amount]
      /\ DecidedStays
      /\ \A c \in Id : status'[c] = "PAID" => status[c] = "PAID"
  BY <1>0, ReservationMoves DEF ReservationStep
<1>3. Typed'
  BY <1>0, <1>1, <1>2 DEF Typed
<1>4. AllFit'
  <2>1. SettlementsStay
    BY <1>1 DEF SettlementsStay
  <2> QED BY <1>0, <1>1, <1>2, <2>1, FitStays DEF AllFit
<1>5. PendingUnassigned'
  BY <1>0, <1>1, <1>2 DEF PendingUnassigned, DecidedStays, Decided
<1>6. OneAmbassadorPerSettlement'
  BY <1>0, <1>1, <1>2
     DEF OneAmbassadorPerSettlement, PendingUnassigned, DecidedStays, Decided
<1>7. PaidToItsAmbassador'
  BY <1>0, <1>1, <1>2 DEF PaidToItsAmbassador, DecidedStays, Decided
<1>8. CancelledHoldsNothing'
  BY <1>0, <1>1 DEF CancelledHoldsNothing, Members
<1> QED BY <1>3, <1>4, <1>5, <1>6, <1>7, <1>8 DEF IInv

-----------------------------------------------------------------------------
(* The steps of staff.                                                      *)

(* A step that leaves the ledger's rows and the settlements alone.          *)
LEMMA QuietInv ==
  ASSUME IInv, NEW p \in Staff, UNCHANGED <<ledger, assigned, settlement>>,
         NEW j \in Job, job' = [job EXCEPT ![p] = j], Fits(job[p])'
  PROVE  IInv'
<1>0. /\ Typed /\ AllFit /\ PendingUnassigned /\ OneAmbassadorPerSettlement
      /\ PaidToItsAmbassador /\ CancelledHoldsNothing
  BY DEF IInv
<1>1. UNCHANGED <<profile, status, amount, assigned, settlement>>
  BY DEF ledger
<1>2. Typed'
  BY <1>0, <1>1 DEF Typed
<1>3. AllFit'
  <2>1. DecidedStays /\ SettlementsStay
    BY <1>1 DEF DecidedStays, Decided, SettlementsStay
  <2>2. \A q \in Staff \ {p} : job'[q] = job[q]
    BY <1>0 DEF Typed
  <2> QED BY <1>0, <2>1, <2>2, FitStays DEF AllFit
<1>4. PendingUnassigned' /\ OneAmbassadorPerSettlement'
  BY <1>0, <1>1 DEF PendingUnassigned, OneAmbassadorPerSettlement
<1>5. PaidToItsAmbassador' /\ CancelledHoldsNothing'
  BY <1>0, <1>1 DEF PaidToItsAmbassador, CancelledHoldsNothing, Members
<1> QED BY <1>2, <1>3, <1>4, <1>5 DEF IInv

(* What a creation picked is decided, and no settlement holds the undecided.*)
LEMMA ReadsInv ==
  ASSUME IInv, NEW p \in Staff,
         \/ \E c \in Id : ApproveRead(p, c)
         \/ \E ambassadors \in (SUBSET Profile) \ {{}} : CreateRead(p, ambassadors)
         \/ \E s \in Settlement : PayRead(p, s) \/ DropRead(p, s)
         \/ Fail(p)
  PROVE  IInv'
<1>0. /\ Typed /\ PendingUnassigned /\ OneAmbassadorPerSettlement
      /\ job \in [Staff -> Job] /\ amount \in [Id -> Amount]
  BY DEF IInv, Typed
<1>1. ASSUME NEW c \in Id, ApproveRead(p, c)
      PROVE  IInv'
  <2> DEFINE j == [pc |-> "approveCommit", commission |-> c]
  <2>1. j \in Job
    BY DEF Job
  <2>2. Fits(job[p])'
    BY <1>0, <1>1 DEF ApproveRead, Starts, Fits
  <2> QED BY <1>1, <2>1, <2>2, QuietInv DEF ApproveRead, Starts
<1>2. ASSUME NEW A \in SUBSET Profile, CreateRead(p, A)
      PROVE  IInv'
  <2> DEFINE picked == {c \in Id : Eligible(c) /\ profile[c] \in A}
             j == [pc |-> "createCommit", picked |-> picked, read |-> amount]
  <2>1. j \in Job
    BY <1>0 DEF Job
  <2>2. job'[p] = j /\ UNCHANGED ledger /\ job' = [job EXCEPT ![p] = j]
    BY <1>0, <1>2 DEF CreateRead, Starts
  <2>3. \A c \in picked : Decided(c) /\ profile[c] \in Profile
    BY DEF Eligible, Decided
  <2>4. Fits(job[p])'
    BY <2>2, <2>3 DEF Fits, Decided, ledger
  <2> QED BY <1>2, <2>1, <2>2, <2>4, QuietInv DEF CreateRead
<1>3. ASSUME NEW s \in Settlement, PayRead(p, s)
      PROVE  IInv'
  <2> DEFINE j == [pc |-> "payCommit", settlement |-> s, listed |-> Members(s)]
  <2>1. j \in Job
    BY DEF Job, Members
  <2>2. job'[p] = j /\ job' = [job EXCEPT ![p] = j]
          /\ UNCHANGED <<ledger, assigned, settlement>>
    BY <1>0, <1>3 DEF PayRead, Starts
  <2>3. settlement[s].status = "DRAFT"
    BY <1>3 DEF PayRead, IsDraft
  <2>4. \A c \in Members(s) :
          Decided(c) /\ profile[c] = settlement[s].profile
    BY <1>0, NoneIsNoId
       DEF Members, PendingUnassigned, OneAmbassadorPerSettlement, Decided
  <2>5. Fits(job[p])'
    BY <2>2, <2>3, <2>4 DEF Fits, Decided, ledger
  <2> QED BY <2>1, <2>2, <2>5, QuietInv
<1>4. ASSUME NEW s \in Settlement, DropRead(p, s)
      PROVE  IInv'
  <2> DEFINE j == [pc |-> "dropCommit", settlement |-> s]
  <2>1. j \in Job
    BY DEF Job
  <2>2. Fits(job[p])'
    BY <1>0, <1>4 DEF DropRead, Starts, Fits
  <2> QED BY <1>4, <2>1, <2>2, QuietInv DEF DropRead, Starts
<1>5. CASE Fail(p)
  <2>1. Idle \in Job
    BY DEF Job
  <2>2. Fits(job[p])'
    BY <1>0, <1>5 DEF Fail, Ends, Fits, Idle
  <2> QED BY <1>5, <2>1, <2>2, QuietInv DEF Fail, Ends
<1> QED BY <1>1, <1>2, <1>3, <1>4, <1>5

(* A step that ends its request.                                            *)
LEMMA EndsFit ==
  ASSUME Typed, AllFit, DecidedStays, SettlementsStay, NEW p \in Staff, Ends(p)
  PROVE  AllFit' /\ job' \in [Staff -> Job]
<1>1. job' \in [Staff -> Job]
  BY DEF Typed, Ends, Job
<1>2. ASSUME NEW q \in Staff
      PROVE  Fits(job[q])'
  <2>1. CASE q = p
    BY <2>1 DEF Typed, Ends, Fits, Idle
  <2>2. CASE q # p
    <3>1. job'[q] = job[q]
      BY <2>2 DEF Typed, Ends
    <3> QED BY <3>1, FitStays
  <2> QED BY <2>1, <2>2
<1> QED BY <1>1, <1>2 DEF AllFit

LEMMA ApproveInv ==
  ASSUME IInv, NEW p \in Staff, ApproveCommit(p)
  PROVE  IInv'
<1>0. /\ Typed /\ AllFit /\ PendingUnassigned /\ OneAmbassadorPerSettlement
      /\ PaidToItsAmbassador /\ CancelledHoldsNothing
  BY DEF IInv
<1>1. /\ UNCHANGED <<profile, amount, assigned, settlement>> /\ Ends(p)
      /\ \A d \in Id : status'[d] \in {status[d], "APPROVED"}
      /\ status' \in [Id -> CommissionStatus \union {"ABSENT"}]
  BY <1>0, JobAt DEF ApproveCommit, At, Typed, CommissionStatus
<1>2. DecidedStays /\ SettlementsStay
  BY <1>1 DEF DecidedStays, Decided, SettlementsStay
<1>3. AllFit' /\ Typed'
  BY <1>0, <1>1, <1>2, EndsFit DEF Typed
<1>4. PendingUnassigned' /\ OneAmbassadorPerSettlement'
  BY <1>0, <1>1 DEF PendingUnassigned, OneAmbassadorPerSettlement
<1>5. PaidToItsAmbassador' /\ CancelledHoldsNothing'
  BY <1>0, <1>1 DEF PaidToItsAmbassador, CancelledHoldsNothing, Members
<1> QED BY <1>3, <1>4, <1>5 DEF IInv

(* Paying writes PAID to what the request listed of its settlement.         *)
LEMMA PayInv ==
  ASSUME IInv, NEW p \in Staff, PayCommit(p)
  PROVE  IInv'
<1> DEFINE r == job[p]
<1>0. /\ Typed /\ AllFit /\ PendingUnassigned /\ OneAmbassadorPerSettlement
      /\ PaidToItsAmbassador /\ CancelledHoldsNothing
  BY DEF IInv
<1>1. /\ UNCHANGED <<profile, amount, assigned>> /\ Ends(p)
      /\ settlement' = [settlement EXCEPT ![r.settlement].status = "PAID"]
      /\ status' = [c \in Id |-> IF c \in r.listed THEN "PAID" ELSE status[c]]
  BY DEF PayCommit
<1>2. /\ r.settlement \in Settlement
      /\ settlement[r.settlement].status # "ABSENT"
      /\ \A c \in r.listed :
           Decided(c) /\ profile[c] = settlement[r.settlement].profile
  BY <1>0, JobAt DEF PayCommit, At, Typed, AllFit, Fits
<1>3. /\ settlement' \in [Settlement -> Row]
      /\ \A s \in Settlement :
           /\ settlement'[s].profile = settlement[s].profile
           /\ settlement'[s].status =
                IF s = r.settlement THEN "PAID" ELSE settlement[s].status
  <2>1. settlement \in [Settlement -> Row] /\ settlement[r.settlement] \in Row
    BY <1>0, <1>2 DEF Typed
  <2>2. LET row == [settlement[r.settlement] EXCEPT !.status = "PAID"]
        IN  /\ row \in Row /\ row.status = "PAID"
            /\ row.profile = settlement[r.settlement].profile
    BY <2>1 DEF Row
  <2> QED BY <1>1, <1>2, <2>1, <2>2
<1>4. DecidedStays /\ SettlementsStay
  BY <1>1, <1>2, <1>3 DEF DecidedStays, Decided, SettlementsStay
<1>5. AllFit' /\ Typed'
  BY <1>0, <1>1, <1>3, <1>4, EndsFit DEF Typed, CommissionStatus
<1>6. PendingUnassigned'
  BY <1>0, <1>1 DEF PendingUnassigned
<1>7. OneAmbassadorPerSettlement'
  BY <1>0, <1>1, <1>3 DEF OneAmbassadorPerSettlement, Typed
<1>8. PaidToItsAmbassador'
  <2>1. ASSUME NEW c \in Id, status'[c] = "PAID"
        PROVE  \E s \in Settlement : /\ settlement'[s].profile = profile[c]
                                     /\ settlement'[s].status \in {"PAID", "CANCELLED"}
    <3>1. CASE c \in r.listed
      BY <1>2, <1>3, <3>1
    <3>2. CASE c \notin r.listed
      BY <1>0, <1>1, <1>3, <2>1, <3>2 DEF PaidToItsAmbassador
    <3> QED BY <3>1, <3>2
  <2> QED BY <1>1, <2>1 DEF PaidToItsAmbassador
<1>9. CancelledHoldsNothing'
  BY <1>0, <1>1, <1>3 DEF CancelledHoldsNothing, Members
<1> QED BY <1>5, <1>6, <1>7, <1>8, <1>9 DEF IInv

LEMMA DropInv ==
  ASSUME IInv, NEW p \in Staff, DropCommit(p)
  PROVE  IInv'
<1> DEFINE d == job[p].settlement
<1>0. /\ Typed /\ AllFit /\ PendingUnassigned /\ OneAmbassadorPerSettlement
      /\ PaidToItsAmbassador /\ CancelledHoldsNothing
  BY DEF IInv
<1>1. /\ UNCHANGED <<profile, status, amount>> /\ Ends(p)
      /\ settlement' = [settlement EXCEPT ![d].status = "CANCELLED"]
      /\ assigned' = [c \in Id |-> IF assigned[c] = d THEN None ELSE assigned[c]]
  BY DEF DropCommit, Released, ledger
<1>2. d \in Settlement
  BY <1>0, JobAt DEF DropCommit, At, Typed
<1>3. /\ settlement' \in [Settlement -> Row]
      /\ \A s \in Settlement :
           /\ settlement'[s].profile = settlement[s].profile
           /\ settlement'[s].status =
                IF s = d THEN "CANCELLED" ELSE settlement[s].status
  <2>1. settlement \in [Settlement -> Row] /\ settlement[d] \in Row
    BY <1>0, <1>2 DEF Typed
  <2>2. LET row == [settlement[d] EXCEPT !.status = "CANCELLED"]
        IN  /\ row \in Row /\ row.status = "CANCELLED"
            /\ row.profile = settlement[d].profile
    BY <2>1 DEF Row
  <2> QED BY <1>1, <1>2, <2>1, <2>2
<1>4. DecidedStays /\ SettlementsStay
  BY <1>1, <1>2, <1>3 DEF DecidedStays, Decided, SettlementsStay
<1>5. AllFit' /\ Typed'
  BY <1>0, <1>1, <1>3, <1>4, EndsFit DEF Typed
<1>6. PendingUnassigned'
  BY <1>0, <1>1 DEF PendingUnassigned
<1>7. OneAmbassadorPerSettlement'
  BY <1>0, <1>1, <1>3 DEF OneAmbassadorPerSettlement, Typed
<1>8. PaidToItsAmbassador'
  BY <1>0, <1>1, <1>3 DEF PaidToItsAmbassador
<1>9. CancelledHoldsNothing'
  BY <1>0, <1>1, <1>2, <1>3, NoneIsNoId DEF CancelledHoldsNothing, Members
<1> QED BY <1>5, <1>6, <1>7, <1>8, <1>9 DEF IInv

LEMMA TotalInTotals ==
  ASSUME NEW C \in SUBSET Id, NEW n \in [Id -> Amount]
  PROVE  TotalOf(C, n) \in Totals
BY DEF Totals

(* The drafts of a creation are new rows, one per ambassador.               *)
LEMMA CreateInv ==
  ASSUME IInv, NEW p \in Staff, NEW A \in SUBSET Profile,
         NEW drafts \in [A -> Settlement], CreateCommit(p, drafts)
  PROVE  IInv'
<1> DEFINE r == job[p]
<1>0. /\ Typed /\ AllFit /\ PendingUnassigned /\ OneAmbassadorPerSettlement
      /\ PaidToItsAmbassador /\ CancelledHoldsNothing
  BY DEF IInv
<1>1. /\ UNCHANGED <<profile, status, amount>> /\ Ends(p)
      /\ DOMAIN drafts = A
      /\ A = {profile[c] : c \in r.picked}
      /\ \A a \in A : settlement[drafts[a]].status = "ABSENT"
      /\ \A a, b \in A : drafts[a] = drafts[b] => a = b
      /\ assigned' = [c \in Id |-> IF c \in r.picked THEN drafts[profile[c]]
                                   ELSE assigned[c]]
  BY DEF CreateCommit, ledger, DraftOf
<1>2. /\ r.picked \in SUBSET Id
      /\ \A c \in r.picked : Decided(c) /\ profile[c] \in A
  BY <1>0, <1>1, JobAt DEF CreateCommit, At, Typed, AllFit, Fits
<1>3. /\ settlement' \in [Settlement -> Row]
      /\ \A a \in A : /\ settlement'[drafts[a]].profile = a
                      /\ settlement'[drafts[a]].status = "DRAFT"
      /\ \A s \in Settlement : (\A a \in A : drafts[a] # s) =>
                                   settlement'[s] = settlement[s]
  <2> DEFINE owner(s) == CHOOSE a \in DOMAIN drafts : drafts[a] = s
             sum(a) == TotalOf({c \in r.picked : profile[c] = a}, r.read)
  <2>1. settlement' = [s \in Settlement |->
          IF \E a \in DOMAIN drafts : drafts[a] = s
          THEN [profile |-> owner(s), total |-> sum(owner(s)),
                status |-> "DRAFT"]
          ELSE settlement[s]]
    BY DEF CreateCommit
  <2>2. ASSUME NEW a \in A
        PROVE  /\ drafts[a] \in Settlement
               /\ owner(drafts[a]) = a
               /\ a \in Profile
               /\ sum(a) \in Totals
    <3>1. r.read \in [Id -> Amount] /\ r.picked \in SUBSET Id
      BY <1>0, JobAt DEF CreateCommit, At, Typed
    <3>2. {c \in r.picked : profile[c] = a} \in SUBSET Id
      BY <3>1
    <3>3. sum(a) \in Totals
      BY <3>1, <3>2, TotalInTotals
    <3> QED BY <1>1, <3>3
  <2> HIDE DEF owner, sum
  <2>3. \A a \in A :
          settlement'[drafts[a]] = [profile |-> a, total |-> sum(a),
                                    status |-> "DRAFT"]
    BY <1>1, <2>1, <2>2
  <2>4. ASSUME NEW s \in Settlement, \A a \in A : drafts[a] # s
        PROVE  settlement'[s] = settlement[s]
    BY <1>1, <2>1, <2>4
  <2>5. ASSUME NEW s \in Settlement
        PROVE  settlement'[s] \in Row
    <3>1. CASE \E a \in A : drafts[a] = s
      <4>1. PICK a \in A : drafts[a] = s
        BY <3>1
      <4>2. a \in Profile /\ sum(a) \in Totals
        BY <2>2
      <4>3. settlement'[s] = [profile |-> a, total |-> sum(a),
                              status |-> "DRAFT"]
        BY <2>3, <4>1
      <4> QED BY <4>2, <4>3 DEF Row
    <3>2. CASE ~ \E a \in A : drafts[a] = s
      BY <1>0, <2>4, <3>2 DEF Typed
    <3> QED BY <3>1, <3>2
  <2>6. settlement' \in [Settlement -> Row]
    BY <2>1, <2>5
  <2>7. ASSUME NEW a \in A
        PROVE  /\ settlement'[drafts[a]].profile = a
               /\ settlement'[drafts[a]].status = "DRAFT"
    <3>1. PICK t : settlement'[drafts[a]] = [profile |-> a, total |-> t,
                                             status |-> "DRAFT"]
      BY <2>3
    <3> QED BY <3>1
  <2> QED BY <2>4, <2>6, <2>7
<1>4. \A s \in Settlement : settlement[s].status # "ABSENT" =>
        settlement'[s] = settlement[s]
  BY <1>1, <1>3
<1>5. DecidedStays /\ SettlementsStay
  BY <1>1, <1>4 DEF DecidedStays, Decided, SettlementsStay
<1>6. assigned' \in [Id -> Settlement \union {None}]
  BY <1>0, <1>1, <1>2 DEF Typed
<1>7. AllFit' /\ Typed'
  BY <1>0, <1>1, <1>3, <1>5, <1>6, EndsFit DEF Typed
<1>8. PendingUnassigned'
  BY <1>0, <1>1, <1>2 DEF PendingUnassigned, Decided
<1>9. OneAmbassadorPerSettlement'
  <2>1. ASSUME NEW c \in Id, assigned'[c] # None
        PROVE  /\ settlement'[assigned'[c]].status # "ABSENT"
               /\ settlement'[assigned'[c]].profile = profile[c]
    <3>1. CASE c \in r.picked
      BY <1>1, <1>2, <1>3, <3>1
    <3>2. CASE c \notin r.picked
      BY <1>0, <1>1, <1>4, <2>1, <3>2 DEF OneAmbassadorPerSettlement, Typed
    <3> QED BY <3>1, <3>2
  <2> QED BY <1>1, <2>1 DEF OneAmbassadorPerSettlement
<1>10. PaidToItsAmbassador'
  BY <1>0, <1>1, <1>4 DEF PaidToItsAmbassador
<1>11. CancelledHoldsNothing'
  <2>1. ASSUME NEW s \in Settlement, settlement'[s].status = "CANCELLED",
               NEW c \in Id, assigned'[c] = s
        PROVE  FALSE
    <3>1. CASE c \in r.picked
      BY <1>1, <1>2, <1>3, <2>1, <3>1
    <3>2. CASE c \notin r.picked
      <4>1. assigned[c] = s
        BY <1>1, <2>1, <3>2
      <4>2. settlement[s].status # "ABSENT"
        BY <1>0, <2>1, <4>1, NoneIsNoId DEF OneAmbassadorPerSettlement
      <4>3. settlement[s].status = "CANCELLED"
        BY <1>4, <2>1, <4>2
      <4> QED BY <1>0, <4>1, <4>3 DEF CancelledHoldsNothing, Members
    <3> QED BY <3>1, <3>2
  <2> QED BY <2>1 DEF CancelledHoldsNothing, Members
<1> QED BY <1>7, <1>8, <1>9, <1>10, <1>11 DEF IInv

-----------------------------------------------------------------------------
LEMMA InitInv == Init => IInv
<1> SUFFICES ASSUME Init PROVE IInv
  OBVIOUS
<1>1. Typed
  <2>1. 0 \in Totals
    BY DEF Totals
  <2>2. settlement \in [Settlement -> Row]
    BY <2>1 DEF Init, Row
  <2> QED BY <2>2, AmountIsNat DEF Init, LedgerInit, Typed, Job
<1>2. AllFit
  BY DEF Init, AllFit, Fits, Idle
<1>3. PendingUnassigned /\ OneAmbassadorPerSettlement /\ PaidToItsAmbassador
  BY DEF Init, LedgerInit, PendingUnassigned, OneAmbassadorPerSettlement,
     PaidToItsAmbassador
<1>4. CancelledHoldsNothing
  BY DEF Init, CancelledHoldsNothing
<1> QED BY <1>1, <1>2, <1>3, <1>4 DEF IInv

LEMMA NextInv == IInv /\ [Next]_vars => IInv'
<1> SUFFICES ASSUME IInv, [Next]_vars PROVE IInv'
  OBVIOUS
<1>1. CASE UNCHANGED vars
  BY <1>1 DEF vars, ledger, settlementVars, IInv, Typed, AllFit, Fits, Decided,
     PendingUnassigned, OneAmbassadorPerSettlement, PaidToItsAmbassador,
     CancelledHoldsNothing, Members, Row
<1>2. ASSUME NEW p \in Staff, StaffStep(p)
      PROVE  IInv'
  BY <1>2, ReadsInv, ApproveInv, CreateInv, PayInv, DropInv DEF StaffStep
<1> QED BY <1>1, <1>2, ReservationInv DEF Next

LEMMA Invariant == Spec => []IInv
BY InitInv, NextInv, PTL DEF Spec

(* A commission that is not approved yet is in no settlement.               *)
THEOREM PendingIsFree == Spec => []PendingUnassigned
<1>1. IInv => PendingUnassigned
  BY DEF IInv
<1> QED BY <1>1, Invariant, PTL

(* A settlement holds commissions of the ambassador it pays only.           *)
THEOREM OneAmbassador == Spec => []OneAmbassadorPerSettlement
<1>1. IInv => OneAmbassadorPerSettlement
  BY DEF IInv
<1> QED BY <1>1, Invariant, PTL

(* A PAID commission was paid to its own ambassador.                        *)
THEOREM PaidRight == Spec => []PaidToItsAmbassador
<1>1. IInv => PaidToItsAmbassador
  BY DEF IInv
<1> QED BY <1>1, Invariant, PTL

(* A cancelled settlement frees its commissions for good.                   *)
THEOREM CancelledIsEmpty == Spec => []CancelledHoldsNothing
<1>1. IInv => CancelledHoldsNothing
  BY DEF IInv
<1> QED BY <1>1, Invariant, PTL

(* The amounts a creation read before its transaction are never stale.      *)
THEOREM TotalsNeverStale == Spec => []PickedNeverStale
<1>1. IInv => PickedNeverStale
  BY DEF IInv, AllFit, Fits, PickedNeverStale, At
<1> QED BY <1>1, Invariant, PTL

(* What a commission amounts to is frozen while it is in a settlement.      *)
THEOREM AmountsFrozen == Spec => SettledAmountFrozen
<1>1. ASSUME IInv, [Next]_vars
      PROVE  [\A c \in Id : assigned[c] # None => amount'[c] = amount[c]]_vars
  <2>1. CASE ReservationStep
    <3>1. DecidedStays
      BY <1>1, <2>1, ReservationMoves DEF ReservationStep, IInv
    <3> QED BY <1>1, <3>1 DEF DecidedStays, Decided, IInv, PendingUnassigned
  <2>2. ASSUME NEW p \in Staff, StaffStep(p)
        PROVE  amount' = amount
    BY <2>2 DEF StaffStep, ApproveRead, ApproveCommit, CreateRead, CreateCommit,
       PayRead, PayCommit, DropRead, DropCommit, Fail, ledger
  <2> QED BY <1>1, <2>1, <2>2 DEF Next
<1> QED BY <1>1, Invariant, PTL DEF Spec, SettledAmountFrozen

(* Nothing that moves a commission outside a settlement disturbs one: only   *)
(* commissions in no settlement are priced or validated, what a creation has *)
(* read is still true when it writes, and a cancelled settlement is empty.   *)
THEOREM SettledApart == Spec => []SettledStandApart
<1>1. PendingUnassigned /\ PickedNeverStale /\ CancelledHoldsNothing
        => SettledStandApart
  BY DEF SettledStandApart
<1> QED BY <1>1, PendingIsFree, TotalsNeverStale, CancelledIsEmpty, PTL

(* Whom a settlement pays is who earned what is in it and what it paid.      *)
THEOREM PaysRight == Spec => []PaysWhoEarned
<1>1. OneAmbassadorPerSettlement /\ PaidToItsAmbassador => PaysWhoEarned
  BY DEF PaysWhoEarned
<1> QED BY <1>1, OneAmbassador, PaidRight, PTL

-----------------------------------------------------------------------------
(* What natural numbers add up to.                                          *)

LessThan == {p \in Nat \X Nat : p[1] < p[2]}

(* What is not empty has a least element: induction, by the first number for *)
(* which something fails.                                                   *)
LEMMA LeastIs ==
  ASSUME NEW T \in SUBSET Nat, T # {}
  PROVE  \E m \in T : \A n \in T : m <= n
PROOF
<1>1. IsWellFoundedOn(LessThan, Nat)
  BY NatLessThanWellFounded DEF OpToRel, LessThan
<1>2. PICK m \in T : \A n \in T : <<n, m>> \notin LessThan
  BY <1>1, WFMin
<1>3. ASSUME NEW n \in T PROVE m <= n
  <2>1. n \in Nat /\ m \in Nat /\ ~ (n < m)
    BY <1>2 DEF LessThan
  <2> QED
    BY <2>1
<1> QED
  BY <1>3

(* The sum of a function is that of one element and that of the others; which *)
(* element, the library leaves open.                                        *)
Pick(s) == CHOOSE x \in s : TRUE
Adds(g, f, s) == g[s] = IF s = {} THEN 0 ELSE f[Pick(s)] + g[s \ {Pick(s)}]
IsSum(g, f) ==
  g = [s \in SUBSET DOMAIN f |-> IF s = {} THEN 0 ELSE f[Pick(s)] + g[s \ {Pick(s)}]]

LEMMA SumIs ==
  ASSUME NEW f
  PROVE  SumFunction(f) = (CHOOSE g : IsSum(g, f))[DOMAIN f]
PROOF
BY DEF SumFunction, SumFunctionOnSet, FoldFunctionOnSet, MapThenFoldSet, IsSum, Pick

LEMMA OneLess ==
  ASSUME NEW D, IsFiniteSet(D), NEW s \in SUBSET D
  PROVE  /\ Cardinality(s) \in Nat /\ Cardinality(s) <= Cardinality(D)
         /\ Cardinality(s) = 0 <=> s = {}
         /\ s # {} => /\ Pick(s) \in D /\ s \ {Pick(s)} \in SUBSET D
                      /\ Cardinality(s \ {Pick(s)}) = Cardinality(s) - 1
PROOF
<1>1. IsFiniteSet(s) /\ Cardinality(s) <= Cardinality(D) /\ Cardinality(s) \in Nat
  BY FS_Subset, FS_CardinalityType
<1>2. Cardinality(s) = 0 <=> s = {}
  BY <1>1, FS_EmptySet
<1>3. s # {} => Pick(s) \in s
  BY DEF Pick
<1> QED
  BY <1>1, <1>2, <1>3, FS_RemoveElement

(* The library's recursion has a solution.                                   *)
LEMMA SumExists ==
  ASSUME NEW D, IsFiniteSet(D), NEW f \in [D -> Nat]
  PROVE  \E g \in [SUBSET D -> Nat] : IsSum(g, f)
PROOF
<1> DEFINE Upto(n) == \E g \in [SUBSET D -> Nat] :
             \A s \in SUBSET D : Cardinality(s) <= n => Adds(g, f, s)
           T == {n \in Nat : ~Upto(n)}
<1>1. \A s \in SUBSET D : Cardinality(s) \in Nat /\ (Cardinality(s) = 0 <=> s = {})
  BY OneLess
<1>2. Upto(0)
  <2> DEFINE g == [s \in SUBSET D |-> 0]
  <2>1. g \in [SUBSET D -> Nat]
    OBVIOUS
  <2>2. ASSUME NEW s \in SUBSET D, Cardinality(s) <= 0 PROVE Adds(g, f, s)
    <3>1. s = {}
      <4>1. Cardinality(s) \in Nat /\ (Cardinality(s) = 0 <=> s = {})
        BY <1>1
      <4> QED
        BY <2>2, <4>1
    <3> QED
      BY <3>1 DEF Adds
  <2> QED
    BY <2>1, <2>2
<1>3. ASSUME NEW n \in Nat, Upto(n) PROVE Upto(n + 1)
  <2>1. PICK g \in [SUBSET D -> Nat] : \A s \in SUBSET D : Cardinality(s) <= n => Adds(g, f, s)
    BY <1>3
  <2> DEFINE h == [s \in SUBSET D |-> IF Cardinality(s) <= n THEN g[s]
                                      ELSE f[Pick(s)] + g[s \ {Pick(s)}]]
  <2>2. ASSUME NEW s \in SUBSET D, ~(Cardinality(s) <= n)
        PROVE  s # {} /\ f[Pick(s)] + g[s \ {Pick(s)}] \in Nat
    <3>1. s # {}
      <4>1. Cardinality(s) \in Nat /\ (Cardinality(s) = 0 <=> s = {})
        BY <1>1
      <4> HIDE DEF Upto, T
      <4> QED
        BY <2>2, <4>1
    <3>2. Pick(s) \in D /\ s \ {Pick(s)} \in SUBSET D
      BY <3>1, OneLess
    <3>3. f[Pick(s)] \in Nat /\ g[s \ {Pick(s)}] \in Nat
      BY <3>2
    <3> QED
      BY <3>1, <3>3
  <2>3. h \in [SUBSET D -> Nat]
    BY <2>2
  <2>4. ASSUME NEW s \in SUBSET D, Cardinality(s) <= n + 1 PROVE Adds(h, f, s)
    <3> DEFINE r == s \ {Pick(s)}
    <3>1. CASE s = {}
      <4>1. Cardinality(s) <= n
        <5>1. Cardinality(s) = 0
          BY <1>1, <3>1
        <5> QED
          BY <5>1
      <4>2. h[s] = g[s] /\ Adds(g, f, s)
        BY <2>1, <4>1
      <4> QED
        BY <3>1, <4>2 DEF Adds
    <3>2. CASE s # {}
      <4>1. r \in SUBSET D /\ Cardinality(r) = Cardinality(s) - 1 /\ Cardinality(s) \in Nat
        BY <3>2, OneLess
      <4>2. Cardinality(r) <= n
        BY <2>4, <4>1
      <4>3. h[r] = g[r]
        BY <4>1, <4>2
      <4>4. h[s] = f[Pick(s)] + g[r]
        <5>1. CASE Cardinality(s) <= n
          BY <2>1, <3>2, <5>1 DEF Adds
        <5>2. CASE ~(Cardinality(s) <= n)
          BY <5>2
        <5> QED
          BY <5>1, <5>2
      <4> HIDE DEF h
      <4> QED
        BY <3>2, <4>3, <4>4 DEF Adds
    <3> QED
      BY <3>1, <3>2
  <2> HIDE DEF h
  <2> QED
    BY <2>3, <2>4
<1>4. \A n \in Nat : Upto(n)
  <2> HIDE DEF Upto
  <2> SUFFICES ASSUME T # {} PROVE FALSE
    OBVIOUS
  <2>1. PICK m \in T : \A n \in T : m <= n
    <3>1. T \in SUBSET Nat
      OBVIOUS
    <3> HIDE DEF T
    <3> QED
      BY <3>1, LeastIs
  <2>2. m # 0 /\ m - 1 \in Nat /\ m - 1 \notin T
    BY <1>2, <2>1
  <2>3. Upto(m - 1) /\ m = (m - 1) + 1
    BY <2>2
  <2> QED
    BY <1>3, <2>1, <2>2, <2>3
<1>5. Cardinality(D) \in Nat
  BY FS_CardinalityType
<1>6. PICK g \in [SUBSET D -> Nat] :
        \A s \in SUBSET D : Cardinality(s) <= Cardinality(D) => Adds(g, f, s)
  BY <1>4, <1>5
<1>7. \A s \in SUBSET D : Adds(g, f, s)
  BY <1>6, OneLess
<1>8. DOMAIN f = D
  OBVIOUS
<1>9. g = [s \in SUBSET D |-> IF s = {} THEN 0 ELSE f[Pick(s)] + g[s \ {Pick(s)}]]
  BY <1>7 DEF Adds
<1> QED
  BY <1>8, <1>9 DEF IsSum

LEMMA SumIsNat ==
  ASSUME NEW D, IsFiniteSet(D), NEW f \in [D -> Nat]
  PROVE  SumFunction(f) \in Nat
PROOF
<1> DEFINE g == CHOOSE h : IsSum(h, f)
<1>1. DOMAIN f = D
  OBVIOUS
<1>2. IsSum(g, f)
  BY SumExists
<1> HIDE DEF g
<1>3. \A s \in SUBSET D : Adds(g, f, s)
  BY <1>1, <1>2 DEF IsSum, Adds
<1> DEFINE T == {n \in Nat : \E s \in SUBSET D : Cardinality(s) = n /\ g[s] \notin Nat}
<1>4. T = {}
  <2> SUFFICES ASSUME T # {} PROVE FALSE
    OBVIOUS
  <2>1. PICK m \in T : \A n \in T : m <= n
    <3>1. T \in SUBSET Nat
      OBVIOUS
    <3> HIDE DEF T
    <3> QED
      BY <3>1, LeastIs
  <2>2. PICK s \in SUBSET D : Cardinality(s) = m /\ g[s] \notin Nat
    BY <2>1
  <2>3. s # {}
    <3>1. Adds(g, f, s)
      BY <1>3
    <3>2. s = {} => g[s] = 0
      BY <3>1 DEF Adds
    <3> QED
      BY <2>2, <3>2
  <2> DEFINE r == s \ {Pick(s)}
  <2>4. /\ Pick(s) \in D /\ r \in SUBSET D /\ Cardinality(r) = m - 1
        /\ Cardinality(r) \in Nat
    BY <2>2, <2>3, OneLess
  <2>5. g[s] = f[Pick(s)] + g[r]
    BY <1>3, <2>3 DEF Adds
  <2> HIDE DEF r
  <2>6. g[r] \notin Nat
    BY <2>2, <2>4, <2>5
  <2>7. m - 1 \in T
    BY <2>4, <2>6
  <2> QED
    BY <2>1, <2>7
<1>5. ASSUME NEW s \in SUBSET D PROVE g[s] \in Nat
  BY <1>4, OneLess
<1> QED
  BY <1>1, <1>5, SumIs DEF g

-----------------------------------------------------------------------------
(* The types of all tables.                                                 *)

LEMMA TotalsAreNumbers == Totals \subseteq Nat
PROOF
<1>1. ASSUME NEW C \in SUBSET Id, NEW n \in [Id -> Amount]
      PROVE  TotalOf(C, n) \in Nat
  <2>1. IsFiniteSet(C)
    BY IdsAreFinite, FS_Subset
  <2>2. [c \in C |-> n[c]] \in [C -> Nat]
    BY AmountIsNat
  <2> QED
    BY <2>1, <2>2, SumIsNat DEF TotalOf
<1> QED
  BY <1>1 DEF Totals

BookingsAreOf ==
  /\ stay \in [Id -> BookingStatus \union {"ABSENT"}]
  /\ shown \in [Id -> BOOLEAN]

LEMMA BookingsStayOf == Spec => []BookingsAreOf
PROOF
<1>1. Init => BookingsAreOf
  BY DEF Init, LedgerInit, BookingsAreOf
<1>2. BookingsAreOf /\ [Next]_vars => BookingsAreOf'
  <2> SUFFICES ASSUME BookingsAreOf, [Next]_vars PROVE BookingsAreOf'
    OBVIOUS
  <2>1. CASE ReservationStep
    <3>1. PICK c \in Id :
            \/ \E p \in Profile \union {None}, a \in Amount,
                  b \in {"PENDING", "CONFIRMED"},
                  s \in {"PENDING", "PENDING_VALIDATION"} : Open(c, p, b, s, a)
            \/ \E b \in BookingStatus, a \in Amount : Move(c, b, a)
            \/ \E a \in Amount : Reprice(c, a)
            \/ Cancel(c)
            \/ Hide(c)
      BY <2>1 DEF ReservationStep, LedgerNext
    <3>2. \/ shown' = shown /\ \E b \in BookingStatus : stay' = [stay EXCEPT ![c] = b]
          \/ stay' = stay /\ shown' \in {shown, [shown EXCEPT ![c] = FALSE]}
      BY <3>1 DEF Open, Move, Reprice, Cancel, Hide, BookingStatus
    <3> QED
      BY <3>2 DEF BookingsAreOf
  <2>2. ASSUME NEW p \in Staff, StaffStep(p) PROVE BookingsAreOf'
    <3>1. UNCHANGED <<stay, shown>>
      BY <2>2 DEF StaffStep, ApproveRead, ApproveCommit, CreateRead, CreateCommit,
         PayRead, PayCommit, DropRead, DropCommit, Fail, ledger
    <3> QED
      BY <3>1 DEF BookingsAreOf
  <2>3. CASE UNCHANGED vars
    BY <2>3 DEF vars, ledger, BookingsAreOf
  <2> QED
    BY <2>1, <2>2, <2>3 DEF Next
<1> QED
  BY <1>1, <1>2, PTL DEF Spec

(* Every table and every request keeps its type; in particular the total of a *)
(* settlement, a sum over the commissions picked for it, is a natural number. *)
THEOREM SettlementsTypeCorrect == Spec => []TypeOK
PROOF
<1>1. IInv /\ BookingsAreOf => TypeOK
  <2> SUFFICES ASSUME IInv, BookingsAreOf PROVE TypeOK
    OBVIOUS
  <2>1. Row \subseteq SettlementRow
    BY TotalsAreNumbers DEF Row, SettlementRow
  <2>2. settlement \in [Settlement -> SettlementRow]
    BY <2>1 DEF IInv, Typed
  <2> QED
    BY <2>2 DEF IInv, Typed, BookingsAreOf, TypeOK
<1> QED
  BY <1>1, Invariant, BookingsStayOf, PTL

-----------------------------------------------------------------------------
(* Staff requests served one at a time.                                     *)

(* What the one request that is being served may rely on: nothing else      *)
(* touches settlements meanwhile.                                           *)
Alone == \A p, q \in Staff : job[p] # Idle /\ job[q] # Idle => p = q

FitsAlone(j) ==
  /\ j.pc = "createCommit" =>
       \A c \in j.picked : assigned[c] = None /\ status[c] # "PAID"
  /\ j.pc = "payCommit" =>
       settlement[j.settlement].status = "DRAFT" /\ j.listed = Members(j.settlement)
  /\ j.pc = "dropCommit" => settlement[j.settlement].status = "DRAFT"

SerialInv ==
  /\ Alone
  /\ \A p \in Staff : FitsAlone(job[p])
  /\ TotalIsSumOfMembers
  /\ PaidInPaidSettlement

(* A total depends on what its own commissions amount to, on nothing else.  *)
LEMMA TotalOfSame ==
  ASSUME NEW C, NEW m, NEW n, \A c \in C : m[c] = n[c]
  PROVE  TotalOf(C, m) = TotalOf(C, n)
<1>1. [c \in C |-> m[c]] = [c \in C |-> n[c]]
  OBVIOUS
<1> QED BY <1>1 DEF TotalOf

LEMMA FitsAloneAt ==
  ASSUME SerialInv, NEW p \in Staff
  PROVE  /\ FitsAlone(job[p])
         /\ job[p] # Idle => \A q \in Staff \ {p} : job[q] = Idle
BY DEF SerialInv, Alone

LEMMA IdleFitsAlone == FitsAlone(Idle)' /\ FitsAlone(Idle)
BY DEF FitsAlone, Idle

(* When the request that is being served ends, none is.                     *)
LEMMA EndsAlone ==
  ASSUME Typed, SerialInv, NEW p \in Staff, job[p] # Idle, Ends(p)
  PROVE  Alone' /\ \A q \in Staff : FitsAlone(job[q])'
<1>1. \A q \in Staff : job'[q] = Idle
  BY FitsAloneAt DEF Ends, Typed
<1> QED BY <1>1, IdleFitsAlone DEF Alone, FitsAlone, Idle

LEMMA SerialReservation ==
  ASSUME IInv, SerialInv, ReservationStep
  PROVE  SerialInv'
<1>0. /\ Typed /\ PendingUnassigned /\ TotalIsSumOfMembers /\ PaidInPaidSettlement
  BY DEF IInv, SerialInv
<1>1. UNCHANGED <<assigned, settlement, job>>
  BY DEF ReservationStep, settlementVars
<1>2. DecidedStays /\ \A c \in Id : status'[c] = "PAID" => status[c] = "PAID"
  BY <1>0, ReservationMoves DEF ReservationStep
<1>3. Alone'
  BY <1>1 DEF SerialInv, Alone
<1>4. ASSUME NEW p \in Staff
      PROVE  FitsAlone(job[p])'
  <2>1. job'[p] = job[p] /\ FitsAlone(job[p]) /\ job \in [Staff -> Job]
    BY <1>0, <1>1, FitsAloneAt DEF Typed
  <2>2. job[p].pc = "createCommit" => job[p].picked \in SUBSET Id
    BY <2>1, JobAt
  <2> QED BY <1>1, <1>2, <2>1, <2>2 DEF FitsAlone, Members
<1>5. TotalIsSumOfMembers'
  <2>1. ASSUME NEW s \in Settlement
        PROVE  TotalOf(Members(s), amount') = TotalOf(Members(s), amount)
    <3>1. \A c \in Members(s) : c \in Id /\ Decided(c)
      BY <1>0, NoneIsNoId DEF Members, PendingUnassigned, Decided
    <3>2. \A c \in Members(s) : amount'[c] = amount[c]
      BY <1>2, <3>1 DEF DecidedStays
    <3> QED BY <3>2, TotalOfSame
  <2>2. \A s \in Settlement : Members(s)' = Members(s)
    BY <1>1 DEF Members
  <2> QED BY <1>0, <1>1, <2>1, <2>2 DEF TotalIsSumOfMembers
<1>6. PaidInPaidSettlement'
  BY <1>0, <1>1, <1>2 DEF PaidInPaidSettlement
<1> QED BY <1>3, <1>4, <1>5, <1>6 DEF SerialInv

(* A step that only reads, or gives up.                                     *)
LEMMA SerialRead ==
  ASSUME IInv, SerialInv, OneAtATime, NEW p \in Staff,
         \/ \E c \in Id : ApproveRead(p, c)
         \/ \E ambassadors \in (SUBSET Profile) \ {{}} : CreateRead(p, ambassadors)
         \/ \E s \in Settlement : PayRead(p, s) \/ DropRead(p, s)
         \/ Fail(p)
  PROVE  SerialInv'
<1>0. UNCHANGED <<ledger, assigned, settlement>>
  BY DEF ApproveRead, CreateRead, PayRead, DropRead, Fail
<1>1. UNCHANGED <<status, amount, assigned, settlement>> /\ job \in [Staff -> Job]
  BY <1>0 DEF ledger, IInv, Typed
<1>2. Alone'
  BY DEF OneAtATime, Alone
<1>3. FitsAlone(job[p])'
  <2>1. ASSUME NEW c \in Id, ApproveRead(p, c)
        PROVE  FitsAlone(job[p])'
    BY <1>1, <2>1 DEF ApproveRead, Starts, FitsAlone
  <2>2. ASSUME NEW A \in SUBSET Profile, CreateRead(p, A)
        PROVE  FitsAlone(job[p])'
    BY <1>1, <2>2 DEF CreateRead, Starts, FitsAlone, Eligible
  <2>3. ASSUME NEW s \in Settlement, PayRead(p, s) \/ DropRead(p, s)
        PROVE  FitsAlone(job[p])'
    BY <1>1, <2>3 DEF PayRead, DropRead, Starts, FitsAlone, IsDraft, Members
  <2>4. CASE Fail(p)
    BY <1>1, <2>4, IdleFitsAlone DEF Fail, Ends
  <2> QED BY <2>1, <2>2, <2>3, <2>4
<1>4. ASSUME NEW q \in Staff \ {p}
      PROVE  FitsAlone(job[q])'
  <2>1. job'[q] = job[q]
    BY <1>1 DEF ApproveRead, CreateRead, PayRead, DropRead, Fail, Starts, Ends
  <2> QED BY <1>1, <2>1, FitsAloneAt DEF FitsAlone, Members
<1>5. TotalIsSumOfMembers' /\ PaidInPaidSettlement'
  BY <1>1 DEF SerialInv, TotalIsSumOfMembers, PaidInPaidSettlement, Members
<1> QED BY <1>2, <1>3, <1>4, <1>5 DEF SerialInv

LEMMA SerialApprove ==
  ASSUME IInv, SerialInv, NEW p \in Staff, ApproveCommit(p)
  PROVE  SerialInv'
<1>1. /\ UNCHANGED <<profile, amount, assigned, settlement>> /\ Ends(p)
      /\ job[p] # Idle /\ status \in [Id -> CommissionStatus \union {"ABSENT"}]
      /\ \A d \in Id : status'[d] \in {status[d], "APPROVED"}
  BY DEF ApproveCommit, At, Idle, IInv, Typed
<1>2. Alone' /\ \A q \in Staff : FitsAlone(job[q])'
  BY <1>1, EndsAlone DEF IInv
<1>3. TotalIsSumOfMembers' /\ PaidInPaidSettlement'
  BY <1>1 DEF SerialInv, TotalIsSumOfMembers, PaidInPaidSettlement, Members
<1> QED BY <1>2, <1>3 DEF SerialInv

(* All members of the draft are paid with it.                               *)
LEMMA SerialPay ==
  ASSUME IInv, SerialInv, NEW p \in Staff, PayCommit(p)
  PROVE  SerialInv'
<1> DEFINE r == job[p]
<1>1. /\ UNCHANGED <<profile, amount, assigned>> /\ Ends(p) /\ r # Idle
      /\ settlement' = [settlement EXCEPT ![r.settlement].status = "PAID"]
      /\ status' = [c \in Id |-> IF c \in r.listed THEN "PAID" ELSE status[c]]
  BY DEF PayCommit, At, Idle
<1>2. /\ r.settlement \in Settlement /\ r.listed = Members(r.settlement)
      /\ settlement[r.settlement].status = "DRAFT"
  BY JobAt, FitsAloneAt DEF PayCommit, At, IInv, Typed, FitsAlone
<1>3. \A s \in Settlement :
        /\ settlement'[s].total = settlement[s].total
        /\ settlement'[s].status =
             IF s = r.settlement THEN "PAID" ELSE settlement[s].status
  BY <1>1, <1>2 DEF IInv, Typed, Row
<1>4. Alone' /\ \A q \in Staff : FitsAlone(job[q])'
  BY <1>1, EndsAlone DEF IInv
<1>5. TotalIsSumOfMembers'
  BY <1>1, <1>2, <1>3 DEF SerialInv, TotalIsSumOfMembers, Members
<1>6. PaidInPaidSettlement'
  <2>1. ASSUME NEW c \in Id, status'[c] = "PAID"
        PROVE  assigned[c] # None /\ settlement'[assigned[c]].status = "PAID"
    <3>1. CASE c \in r.listed
      BY <1>2, <1>3, <3>1, NoneIsNoId DEF Members
    <3>2. CASE c \notin r.listed
      <4>1. assigned[c] # None /\ settlement[assigned[c]].status = "PAID"
        BY <1>1, <2>1, <3>2 DEF SerialInv, PaidInPaidSettlement
      <4> QED BY <1>3, <4>1 DEF IInv, Typed
    <3> QED BY <3>1, <3>2
  <2> QED BY <1>1, <2>1 DEF PaidInPaidSettlement
<1> QED BY <1>4, <1>5, <1>6 DEF SerialInv

(* What leaves the draft was not paid.                                      *)
LEMMA SerialDrop ==
  ASSUME IInv, SerialInv, NEW p \in Staff, DropCommit(p)
  PROVE  SerialInv'
<1> DEFINE d == job[p].settlement
<1>1. /\ UNCHANGED <<profile, status, amount>> /\ Ends(p) /\ job[p] # Idle
      /\ settlement' = [settlement EXCEPT ![d].status = "CANCELLED"]
      /\ assigned' = [c \in Id |-> IF assigned[c] = d THEN None ELSE assigned[c]]
  BY DEF DropCommit, Released, ledger, At, Idle
<1>2. d \in Settlement /\ settlement[d].status = "DRAFT"
  BY JobAt, FitsAloneAt DEF DropCommit, At, IInv, Typed, FitsAlone
<1>3. \A s \in Settlement :
        /\ settlement'[s].total = settlement[s].total
        /\ settlement'[s].status =
             IF s = d THEN "CANCELLED" ELSE settlement[s].status
  BY <1>1, <1>2 DEF IInv, Typed, Row
<1>4. Alone' /\ \A q \in Staff : FitsAlone(job[q])'
  BY <1>1, EndsAlone DEF IInv
<1>5. TotalIsSumOfMembers'
  <2>1. ASSUME NEW s \in Settlement, s # d
        PROVE  Members(s)' = Members(s)
    BY <1>1, <2>1, NoneIsNoId DEF Members
  <2> QED BY <1>1, <1>3, <2>1 DEF SerialInv, TotalIsSumOfMembers
<1>6. PaidInPaidSettlement'
  <2>1. ASSUME NEW c \in Id, status[c] = "PAID"
        PROVE  assigned'[c] # None /\ settlement'[assigned'[c]].status = "PAID"
    <3>1. assigned[c] # None /\ settlement[assigned[c]].status = "PAID"
      BY <2>1 DEF SerialInv, PaidInPaidSettlement
    <3>2. assigned[c] # d
      BY <1>2, <3>1
    <3> QED BY <1>1, <1>3, <3>1, <3>2 DEF IInv, Typed
  <2> QED BY <1>1, <2>1 DEF PaidInPaidSettlement
<1> QED BY <1>4, <1>5, <1>6 DEF SerialInv

(* A creation fills new settlements with commissions that are in none.      *)
LEMMA SerialCreate ==
  ASSUME IInv, SerialInv, NEW p \in Staff, NEW A \in SUBSET Profile,
         NEW drafts \in [A -> Settlement], CreateCommit(p, drafts)
  PROVE  SerialInv'
<1> DEFINE r == job[p]
           share(a) == {c \in r.picked : profile[c] = a}
           sum(a) == TotalOf(share(a), r.read)
<1>1. /\ UNCHANGED <<profile, status, amount>> /\ Ends(p) /\ r # Idle
      /\ DOMAIN drafts = A
      /\ A = {profile[c] : c \in r.picked}
      /\ \A a \in A : settlement[drafts[a]].status = "ABSENT"
      /\ \A a, b \in A : drafts[a] = drafts[b] => a = b
      /\ assigned' = [c \in Id |-> IF c \in r.picked THEN drafts[profile[c]]
                                   ELSE assigned[c]]
  BY DEF CreateCommit, ledger, DraftOf, At, Idle
<1>2. /\ r.picked \in SUBSET Id
      /\ \A c \in r.picked : /\ assigned[c] = None /\ status[c] # "PAID"
                             /\ r.read[c] = amount[c]
                             /\ profile[c] \in A
  BY <1>1, JobAt, FitsAloneAt
     DEF CreateCommit, At, IInv, Typed, FitsAlone, AllFit, Fits
<1>3. /\ \A s \in Settlement : (\A a \in A : drafts[a] # s) =>
           settlement'[s] = settlement[s]
      /\ \A a \in A : settlement'[drafts[a]] =
           [profile |-> a, total |-> sum(a), status |-> "DRAFT"]
  <2> DEFINE owner(s) == CHOOSE a \in DOMAIN drafts : drafts[a] = s
             new(a) == [profile |-> a, total |-> sum(a), status |-> "DRAFT"]
  <2>1. settlement' = [s \in Settlement |->
          IF \E a \in DOMAIN drafts : drafts[a] = s THEN new(owner(s))
          ELSE settlement[s]]
    BY DEF CreateCommit
  <2>2. \A a \in A : drafts[a] \in Settlement /\ owner(drafts[a]) = a
    BY <1>1
  <2> HIDE DEF owner, new
  <2>3. \A a \in A : settlement'[drafts[a]] = new(a)
    BY <1>1, <2>1, <2>2
  <2>4. \A s \in Settlement : (\A a \in A : drafts[a] # s) =>
          settlement'[s] = settlement[s]
    BY <1>1, <2>1
  <2> QED BY <2>3, <2>4 DEF new
<1>4. Alone' /\ \A q \in Staff : FitsAlone(job[q])'
  BY <1>1, EndsAlone DEF IInv
<1>5. \A c \in Id : assigned[c] # None =>
        /\ assigned'[c] = assigned[c]
        /\ settlement[assigned[c]].status # "ABSENT"
        /\ settlement'[assigned[c]] = settlement[assigned[c]]
  BY <1>1, <1>2, <1>3 DEF IInv, Typed, OneAmbassadorPerSettlement
<1>6. TotalIsSumOfMembers'
  <2>1. ASSUME NEW a \in A
        PROVE  settlement'[drafts[a]].total = TotalOf(Members(drafts[a])', amount')
    <3>1. Members(drafts[a])' = share(a)
      BY <1>1, <1>2, <1>5, NoneIsNoId DEF Members, IInv, Typed
    <3>2. TotalOf(share(a), r.read) = TotalOf(share(a), amount)
      BY <1>2, TotalOfSame
    <3>3. TotalOf(Members(drafts[a])', amount') = TotalOf(share(a), amount)
      BY <1>1, <3>1
    <3>4. sum(a) = TotalOf(Members(drafts[a])', amount')
      BY <3>2, <3>3
    <3>5. settlement'[drafts[a]] = [profile |-> a, total |-> sum(a), status |-> "DRAFT"]
      BY <1>3
    <3> HIDE DEF sum
    <3>6. settlement'[drafts[a]].total = sum(a)
      BY <3>5
    <3> QED BY <3>4, <3>6
  <2>2. ASSUME NEW s \in Settlement, \A a \in A : drafts[a] # s
        PROVE  settlement'[s] = settlement[s] /\ Members(s)' = Members(s)
    <3>1. Members(s)' = Members(s)
      BY <1>1, <1>2, <1>5, <2>2, NoneIsNoId DEF Members
    <3> QED BY <1>3, <2>2, <3>1
  <2> QED BY <1>1, <2>1, <2>2 DEF SerialInv, TotalIsSumOfMembers
<1>7. PaidInPaidSettlement'
  BY <1>1, <1>5 DEF SerialInv, PaidInPaidSettlement
<1> QED BY <1>4, <1>6, <1>7 DEF SerialInv

LEMMA SerialStep ==
  ASSUME IInv, SerialInv, [Next /\ OneAtATime]_vars
  PROVE  SerialInv'
<1>1. CASE UNCHANGED vars
  BY <1>1 DEF vars, ledger, settlementVars, SerialInv, Alone, FitsAlone, Members,
     TotalIsSumOfMembers, PaidInPaidSettlement
<1>2. ASSUME NEW p \in Staff, StaffStep(p), OneAtATime
      PROVE  SerialInv'
  BY <1>2, SerialRead, SerialApprove, SerialCreate, SerialPay, SerialDrop
     DEF StaffStep
<1> QED BY <1>1, <1>2, SerialReservation DEF Next

LEMMA SerialInit == Init => SerialInv
BY DEF Init, LedgerInit, SerialInv, Alone, FitsAlone, Idle, TotalIsSumOfMembers,
   PaidInPaidSettlement

(* A scene is a behaviour of the component.                                 *)
LEMMA SceneIsSpec == MCSpec => Spec
<1>1. MCInit => Init
  BY DEF MCInit
<1>2. [MCNext]_<<vars, scene>> => [Next]_vars
  BY DEF MCNext
<1> QED BY <1>1, <1>2, PTL DEF MCSpec, Spec

SceneInv == scene = "serial" => SerialInv

LEMMA SceneInvariant == MCSpec => []SceneInv
<1>1. MCInit => SceneInv
  BY SerialInit DEF MCInit, SceneInv
<1>2. IInv /\ SceneInv /\ [MCNext]_<<vars, scene>> => SceneInv'
  BY SerialStep DEF SceneInv, MCNext
<1> QED BY <1>1, <1>2, SceneIsSpec, Invariant, PTL DEF MCSpec

(* While staff requests are served one at a time, a settlement's total is    *)
(* what its commissions amount to (commission-settlements.service.ts:194-250 *)
(* computes it before the transaction), and what is paid stays in the        *)
(* settlement that paid it.                                                  *)
THEOREM SerialTotals == MCSpec => []SerialTotalsPaid
<1>1. SceneInv => SerialTotalsPaid
  BY DEF SceneInv, SerialInv, SerialTotalsPaid
<1> QED BY <1>1, SceneInvariant, PTL

(* While staff requests are served one at a time, a commission leaves its    *)
(* settlement before it enters another, and a paid settlement stays paid.    *)
THEOREM SerialOnce == MCSpec => SerialNeverResettled
<1> DEFINE Kept == scene = "serial" => /\ \A c \in Id : KeepsOrLeaves(c)
                                       /\ \A s \in Settlement : PaidIsKept(s)
<1>1. ASSUME IInv, SceneInv, [MCNext]_<<vars, scene>>
      PROVE  [Kept]_vars
  <2> SUFFICES ASSUME scene = "serial", vars' # vars, Next
               PROVE  /\ \A c \in Id : KeepsOrLeaves(c)
                      /\ \A s \in Settlement : PaidIsKept(s)
    BY <1>1 DEF MCNext
  <2>0. SerialInv
    BY <1>1 DEF SceneInv
  <2>1. CASE UNCHANGED <<assigned, settlement>>
    BY <2>1 DEF KeepsOrLeaves, PaidIsKept
  <2>2. ASSUME NEW p \in Staff, PayCommit(p)
        PROVE  /\ \A c \in Id : KeepsOrLeaves(c)
               /\ \A s \in Settlement : PaidIsKept(s)
    <3>1. \A s \in Settlement : settlement'[s].status \in {settlement[s].status, "PAID"}
      BY <1>1, <2>2, JobAt DEF PayCommit, At, IInv, Typed, Row
    <3> QED BY <2>2, <3>1 DEF PayCommit, KeepsOrLeaves, PaidIsKept
  <2>3. ASSUME NEW p \in Staff, DropCommit(p)
        PROVE  /\ \A c \in Id : KeepsOrLeaves(c)
               /\ \A s \in Settlement : PaidIsKept(s)
    <3> DEFINE d == job[p].settlement
    <3>1. d \in Settlement /\ settlement[d].status = "DRAFT"
      BY <1>1, <2>0, <2>3, JobAt, FitsAloneAt
         DEF DropCommit, At, IInv, Typed, FitsAlone
    <3>2. \A s \in Settlement \ {d} : settlement'[s] = settlement[s]
      BY <1>1, <2>3 DEF DropCommit, IInv, Typed
    <3> QED BY <2>3, <3>1, <3>2 DEF DropCommit, Released, KeepsOrLeaves, PaidIsKept
  <2>4. ASSUME NEW p \in Staff, NEW A \in SUBSET Profile,
               NEW drafts \in [A -> Settlement], CreateCommit(p, drafts)
        PROVE  /\ \A c \in Id : KeepsOrLeaves(c)
               /\ \A s \in Settlement : PaidIsKept(s)
    <3>1. job[p].picked \in SUBSET Id /\ \A c \in job[p].picked : assigned[c] = None
      BY <1>1, <2>0, <2>4, JobAt, FitsAloneAt
         DEF CreateCommit, At, IInv, Typed, FitsAlone
    <3>2. \A s \in Settlement : settlement[s].status = "PAID" =>
            settlement'[s] = settlement[s]
      BY <2>4 DEF CreateCommit
    <3> QED BY <2>4, <3>1, <3>2 DEF CreateCommit, DraftOf, KeepsOrLeaves, PaidIsKept
  <2> QED BY <2>1, <2>2, <2>3, <2>4
          DEF Next, ReservationStep, settlementVars, StaffStep, ApproveRead,
              ApproveCommit, CreateRead, PayRead, DropRead, Fail
<1>2. IInv /\ SceneInv /\ [MCNext]_<<vars, scene>> => [Kept]_vars
  BY <1>1
<1> QED BY <1>2, SceneInvariant, SceneIsSpec, Invariant, PTL
        DEF MCSpec, SerialNeverResettled
=============================================================================
