---------------------------- MODULE MCFlexPayments ----------------------------
(***************************************************************************)
(* Instances of FlexPayments for TLC.                                      *)
(***************************************************************************)
EXTENDS FlexPayments, TLC

CONSTANTS b1, b2, w1, w2, job

Symmetry == Permutations(Worker \ Cron)

(* Nobody pays, or waits for an answer, by a link that turned 7 days old: a   *)
(* link may expire unpaid, and the guest asks for another.                   *)
PaidLinksAreFresh ==
  \A r \in Checkout, m \in MpPayment :
    payment[r].status = "PENDING" /\ mp[m].booking = payment[r].booking =>
      payment[r].fresh
LiveNext == Next /\ PaidLinksAreFresh'
=============================================================================
