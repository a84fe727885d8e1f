-------------------------- MODULE MCFlexReservations --------------------------
(* Values for the constants of FlexReservations, and instances for TLC.     *)
EXTENDS FlexReservations, TLC

CONSTANTS f1, f2, p1, p2, c1, c2, flat1, ambassador1

Nothing == [status |-> None, start |-> None, end |-> None, monthly |-> None,
            reprices |-> FALSE]
SetStatus == {[Nothing EXCEPT !.status = s] : s \in Status}
SetStart == {[Nothing EXCEPT !.start = d] : d \in Day}
SetEnd == {[Nothing EXCEPT !.end = d] : d \in Day}
SetRent == {[Nothing EXCEPT !.monthly = m] : m \in Monthly}
Reprice == {[Nothing EXCEPT !.reprices = TRUE]}
ConfirmAtRent == {[Nothing EXCEPT !.status = "CONFIRMED", !.monthly = 1]}

StatusDtos == SetStatus \union {[Nothing EXCEPT !.start = 1]} \union ConfirmAtRent
DateDtos == SetStatus \union SetStart \union SetEnd
RentDtos == SetStatus \union SetRent \union Reprice
NoDtos == {Nothing}

Days2 == 0..1
Days3 == 0..2
OneRent == {1}
TwoRents == {1, 2}

(* Every reservation of an instance is of this many months.                  *)
MonthsBooked == 2
TotalAmount(f) == MonthsBooked * flexBooking[f].monthly

(* "baseAmount = totalAmount of the reservation": a pending commission is the *)
(* ambassador's share of all months booked (flex-bookings.service.ts:147).    *)
CommissionIsOfTotal ==
  \A f \in Flex : commission[f].status = "PENDING" =>
    commission[f].amount = Rate * TotalAmount(f)

Symmetry == Permutations(Request) \union Permutations(Flex)
              \union Permutations(CancelRequest)
=============================================================================
