------------------------- MODULE MCSettlementScenes -------------------------
(***************************************************************************)
(* Instances of CommissionSettlements for TLC.  A behaviour plays a scene: *)
(*   "concurrent"  two staff requests at a time on one commission;         *)
(*   "serial"      one staff request at a time on the commissions of two   *)
(*                 ambassadors.                                            *)
(* Reservations move freely, and a request may die, in both.               *)
(***************************************************************************)
EXTENDS MCCommissionSettlements

VARIABLE scene

OneCommission == Cardinality({c \in Id : status'[c] # "ABSENT"}) <= 1
OneAtATime == \A p, q \in Staff : job'[p] # Idle /\ job'[q] # Idle => p = q

MCInit == Init /\ scene \in {"concurrent", "serial"}
MCNext ==
  /\ Next
  /\ IF scene = "concurrent" THEN OneCommission ELSE OneAtATime
  /\ UNCHANGED scene
MCSpec == MCInit /\ [][MCNext]_<<vars, scene>>

(* While staff requests are served one at a time, a settlement owes or paid   *)
(* exactly what its commissions amount to, and what is paid stays in the      *)
(* settlement that paid it: nothing is paid twice.                           *)
SerialTotalsPaid ==
  scene = "serial" => TotalIsSumOfMembers /\ PaidInPaidSettlement

(* While staff requests are served one at a time, a commission leaves its     *)
(* settlement before it enters another, and a paid settlement is not          *)
(* cancelled.                                                                *)
SerialNeverResettled ==
  [][scene = "serial" => /\ \A c \in Id : KeepsOrLeaves(c)
                         /\ \A s \in Settlement : PaidIsKept(s)]_vars
=============================================================================
