--------------------------- MODULE MCPaymentScenes ---------------------------
(***************************************************************************)
(* Instances of FlexPayments for TLC.  A behaviour plays a scene:          *)
(*   "concurrent"  two handlers at a time, while links stay valid, nothing *)
(*                 fails and staff at most delete the reservation;         *)
(*   "serial"      one handler at a time with everything else that can     *)
(*                 happen: a link that expires, staff, a failure.          *)
(* The first checkout's link may expire, the first payment may be of another *)
(* amount.                                                                 *)
(***************************************************************************)
EXTENDS MCFlexPayments, FiniteSets

VARIABLE scene

Concurrent ==
  \/ \E m \in MpPayment : (\E b \in Flex : GuestPays(m, b)) \/ MpMoves(m)
  \/ \E b \in Flex : StaffDeletes(b)
  \/ \E p \in Worker : Begin(p) \/ Step(p)
OneAtATime == \A p, q \in Worker : work'[p] # Idle /\ work'[q] # Idle => p = q

MCInit == Init /\ scene \in {"concurrent", "serial"}
MCNext ==
  /\ \/ scene = "concurrent" /\ Concurrent
     \/ scene = "serial" /\ Next /\ OneAtATime
  /\ payment'[2].status = "PENDING" => payment'[2].fresh
  /\ mp'[2].status # "none" => mp'[2].fits
  /\ UNCHANGED scene
MCSpec == MCInit /\ [][MCNext]_<<vars, scene>>

(* While handlers run one at a time, a guest has one open checkout, and what  *)
(* a reservation was confirmed for is credited to it.                        *)
SerialBooksSound == scene = "serial" => OneOpenCheckout /\ ConfirmedIsCredited

(* While handlers run one at a time, credits and refunds are kept, and who    *)
(* has paid is offered no other checkout.                                    *)
SerialMoneyIsKept ==
  [][scene = "serial" =>
       /\ \A r \in Row : CreditIsKept(r) /\ RefundIsKept(r)
       /\ \A r \in Checkout : PaidOnce(r)]_vars
=============================================================================
