--------------------------- MODULE CommissionLedger ---------------------------
(***************************************************************************)
(* What the reservation services promise the commission side: how one of   *)
(* their steps may move a booking and its commission together.             *)
(* FlexReservations and TemporalBookings are shown to implement this       *)
(* module, and CommissionSettlements takes its steps as the environment it *)
(* runs in.                                                                *)
(***************************************************************************)
EXTENDS Naturals

CONSTANTS Id,       \* a booking and its commission
          Profile,  \* ambassador profiles
          Amount,   \* commission amounts
          None

VARIABLES
  profile,  \* the ambassador of the booking and of its commission, or None
  stay,     \* the status of the booking in the registry
  shown,    \* the booking is not soft-deleted
  status,   \* the status of the commission
  amount    \* what the commission amounts to

ledger == <<profile, stay, shown, status, amount>>

BookingStatus == {"PENDING", "CONFIRMED", "CANCELLED", "COMPLETED"}

LedgerInit ==
  /\ profile = [c \in Id |-> None]
  /\ stay = [c \in Id |-> "ABSENT"]
  /\ shown = [c \in Id |-> TRUE]
  /\ status = [c \in Id |-> "ABSENT"]
  /\ amount = [c \in Id |-> 0]

(* The booking and its commission appear together.  The commission of a      *)
(* booking reported by an ambassador's tracking script awaits validation; a *)
(* booking confirmed at Cloudbeds is CONFIRMED at once, its commission not. *)
Open(c, p, b, s, a) ==
  /\ status[c] = "ABSENT"
  /\ profile' = [profile EXCEPT ![c] = p]
  /\ stay' = [stay EXCEPT ![c] = b]
  /\ status' = [status EXCEPT ![c] = s]
  /\ amount' = [amount EXCEPT ![c] = a]
  /\ UNCHANGED shown

(* The booking moves to (or stays at) b without being cancelled.  Confirming *)
(* it approves a commission that is PENDING; only such a commission may get  *)
(* another amount.                                                           *)
Move(c, b, a) ==
  /\ status[c] # "ABSENT"
  /\ b \in (BookingStatus \ {"CANCELLED"}) \union {stay[c]}
  /\ status[c] # "PENDING" => a = amount[c]
  /\ stay' = [stay EXCEPT ![c] = b]
  /\ status' = [status EXCEPT ![c] =
                  IF b = "CONFIRMED" /\ @ = "PENDING" THEN "APPROVED" ELSE @]
  /\ amount' = [amount EXCEPT ![c] = a]
  /\ UNCHANGED <<profile, shown>>

(* A recalculation of rates reaches a commission that is still PENDING.      *)
Reprice(c, a) ==
  /\ status[c] = "PENDING"
  /\ amount' = [amount EXCEPT ![c] = a]
  /\ UNCHANGED <<profile, stay, shown, status>>

(* Cancelling the booking cancels the commission, whatever its status.      *)
Cancel(c) ==
  /\ status[c] # "ABSENT"
  /\ stay' = [stay EXCEPT ![c] = "CANCELLED"]
  /\ status' = [status EXCEPT ![c] = "CANCELLED"]
  /\ UNCHANGED <<profile, shown, amount>>

Hide(c) ==
  /\ status[c] # "ABSENT"
  /\ shown' = [shown EXCEPT ![c] = FALSE]
  /\ UNCHANGED <<profile, stay, status, amount>>

LedgerNext ==
  \E c \in Id :
    \/ \E p \in Profile \union {None}, a \in Amount,
          b \in {"PENDING", "CONFIRMED"},
          s \in {"PENDING", "PENDING_VALIDATION"} : Open(c, p, b, s, a)
    \/ \E b \in BookingStatus, a \in Amount : Move(c, b, a)
    \/ \E a \in Amount : Reprice(c, a)
    \/ Cancel(c)
    \/ Hide(c)

LedgerSpec == LedgerInit /\ [][LedgerNext]_ledger
=============================================================================
