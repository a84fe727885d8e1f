--------------------------- MODULE MCTemporalBookings ---------------------------
(***************************************************************************)
(* Instances of TemporalBookings, and of FlexPayments for the other of the *)
(* two scheduled jobs, for TLC.  They share no state: a behaviour is about *)
(* how bookings arrive (two of them, from an intent and a session), about  *)
(* what becomes of one (reported or from a lead), or about the money of a  *)
(* FLEX reservation that the reconcile job brings in.                      *)
(***************************************************************************)
EXTENDS TemporalBookings, TLC

CONSTANTS h1, h2, i1, s1, l1, b1, b2, r1, ambassador1, ambassador2, flex1, w1, job

VARIABLES focus,
          flexStay, flexGone, payment, mp, confirmedBy, work, failures

flexVars == <<flexStay, flexGone, payment, mp, confirmedBy, work, failures>>

OneAmount == {0}
Days == {1, 3}

(* One handler and the job, unpaid links that may expire, a failure at most.  *)
Pay == INSTANCE MCFlexPayments
  WITH w2 <- w1, stay <- flexStay, gone <- flexGone, Worker <- {w1, job}, Cron <- {job},
       Flex <- {flex1}, MaxCheckouts <- 2, MaxPayments <- 1, Batch <- 50,
       StaffStatus <- {"CANCELLED"}, LinkExpires <- TRUE, MaxFailures <- 1

(* Arrivals: no leads, one stay, nothing staff does.  Whom an intent earns    *)
(* for is said when it is confirmed: nobody, or the first ambassador.        *)
Arriving ==
  /\ lead' = lead
  /\ \A i \in Intent : intent'[i].profile = None
  /\ \A h \in Handler :
       \/ handler'[h].pc \in {"idle", "reportCommit"}
       \/ handler'[h].pc = "intentCommit" /\ handler'[h].profile # ambassador2
  /\ \A b \in Booking : ~booking'[b].unit /\ booking'[b].stay = SomeStay

(* Care: one booking, of one ambassador, reported or from a lead.            *)
Caring ==
  /\ intent' = intent
  /\ booking'[b2] = booking[b2]
  /\ \A s \in Session : session'[s].profile \in {None, ambassador1}
  /\ \A l \in Lead : lead'[l].profile \in {None, ambassador1}
  /\ \A h \in Handler : handler'[h].pc # "intentCommit"

(* Handlers are alike, and so are bookings: the first free one is taken.     *)
InOrder ==
  /\ handler[h1].pc = "idle" /\ handler[h2].pc = "idle" => handler'[h2].pc = "idle"
  /\ booking[b1].status = "ABSENT" => booking'[b2] = booking[b2]

BookingsMove ==
  /\ Next
  /\ InOrder
  /\ focus = "arrival" => Arriving
  /\ focus = "care" => Caring
  /\ UNCHANGED <<flexVars, focus>>

PaymentsMove ==
  /\ Pay!LiveNext
  /\ UNCHANGED <<vars, focus>>

MCInit == Init /\ Pay!Init /\ focus \in {"arrival", "care", "payments"}
MCNext ==
  \/ focus \in {"arrival", "care"} /\ BookingsMove
  \/ focus = "payments" /\ PaymentsMove
  \/ focus = "payments" /\ UNCHANGED <<vars, flexVars, focus>>

MCSpec == MCInit /\ [][MCNext]_<<vars, flexVars, focus>>

(* The job that expires intents and the one that reconciles payments run again *)
(* and again, intents fall due, and a handler of a payment goes on.           *)
BookingsOnly == focus # "payments" /\ UNCHANGED <<flexVars, focus>>
PaymentsOnly == focus = "payments" /\ UNCHANGED <<vars, focus>>
MCFairSpec ==
  /\ MCSpec
  /\ \A i \in Intent : WF_vars(FallDue(i) /\ BookingsOnly)
  /\ WF_vars(ExpirePendingIntents /\ BookingsOnly)
  /\ \A p \in {w1, job} : WF_flexVars(Pay!Step(p) /\ PaymentsOnly)
  /\ WF_flexVars(Pay!Begin(job) /\ PaymentsOnly)

(* A payment that Mercado Pago approved is credited, whatever fails, and      *)
(* confirms its reservation unless something does: the job brings it in also  *)
(* when every notification is lost.                                          *)
PaidIsNotForgotten == Pay!PaidIsNotForgotten
=============================================================================
