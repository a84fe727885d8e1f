------------------------------ MODULE FlexCalendar ------------------------------
(***************************************************************************)
(* Which days of a FLEX property are taken, and the next day a stay fits.  *)
(*                                                                         *)
(* Sources: flex-availability.util.ts; getBookedPeriods and              *)
(* getNextAvailableFrom of property-flex.service.ts.  A day is its         *)
(* number from the first day of a small calendar whose months differ in    *)
(* length; a period is taken from its start up to, not including, its end. *)
(***************************************************************************)
EXTENDS Integers

CONSTANTS
  MonthStart,  \* the first day of each month, a function from 0
  Today,       \* the day the search starts from
  Horizon,     \* how many months ahead it looks
  StayMonths,  \* lengths of stays
  LastDay      \* bound: the last day a reservation may end

Month == DOMAIN MonthStart
LastMonth == CHOOSE m \in Month : m + 1 \notin Month

ASSUME CalendarRuns ==
  /\ LastMonth \in Nat /\ Month = 0..LastMonth
  /\ \A m \in Month : MonthStart[m] \in Nat
  /\ \A m, k \in Month : m < k => MonthStart[m] < MonthStart[k]
ASSUME StaysAreMonths == StayMonths \subseteq Nat \ {0}
ASSUME DaysAreCounted == LastDay \in Nat

VARIABLE taken  \* the periods of reservations neither cancelled nor deleted

MonthOf(d) == CHOOSE m \in Month :
  MonthStart[m] <= d /\ (m + 1 \in Month => d < MonthStart[m + 1])

(* new Date(y, m + n, d): a day the month has not runs over into the next.   *)
AddMonths(d, n) ==
  LET m == MonthOf(d) IN MonthStart[m + n] + (d - MonthStart[m])

Overlap_Closed(a, b) == a.start <= b.end /\ a.end >= b.start
Overlap_Inside(a, b) == a.start >= b.start /\ a.end <= b.end
Overlap(a, b) == a.start < b.end /\ a.end > b.start

Until == AddMonths(Today, Horizon)
StayAt(d, n) == [start |-> d, end |-> AddMonths(d, n)]

(* The calendar has all days that the search looks at.                       *)
ASSUME CalendarIsLong ==
  /\ Today \in Nat /\ MonthStart[0] <= Today /\ Until \in Nat
  /\ \A d \in Today..(Until - 1), n \in StayMonths : MonthOf(d) + n \in Month

(* getBookedPeriods, from today to the horizon.                              *)
Booked_Starting == {p \in taken : Today <= p.start /\ p.start < Until}
Booked == {p \in taken : p.start < Until /\ p.end > Today}

(* findNextAvailableStart: day after day, among the periods booked.          *)
Fits(d, n) == \A p \in Booked : ~Overlap(StayAt(d, n), p)
NextStarts(n) ==
  {d \in Today..(Until - 1) :
     Fits(d, n) /\ \A e \in Today..(d - 1) : ~Fits(e, n)}

CalendarInit == taken = {}

(* Reservations of any days come and go.  A creation checks the days before   *)
(* it takes them, but another may come between (FlexReservations): they may    *)
(* overlap.                                                                  *)
Take(period) == taken' = taken \union {period}
Release(period) == taken' = taken \ {period}

CalendarNext ==
  \/ \E start, end \in 0..LastDay :
       start < end /\ Take([start |-> start, end |-> end])
  \/ \E period \in taken : Release(period)

CalendarSpec == CalendarInit /\ [][CalendarNext]_taken

-----------------------------------------------------------------------------
TakenOn(d) == {p \in taken : p.start <= d /\ d < p.end}
Stay(d, n) == d..(AddMonths(d, n) - 1)
TrulyFree(d, n) == \A e \in Stay(d, n) : TakenOn(e) = {}

(* The search agrees with the days themselves, though reservations overlap.    *)
(* On the day it finds begins a stay that meets no reservation, but one that   *)
(* starts where the search no longer looks: one that ends by then is free.  No *)
(* earlier day is free for so long, and where it finds none there is none.     *)
NextStartIsFirst ==
  \A n \in StayMonths :
    /\ \A d \in NextStarts(n) :
         /\ \A e \in Stay(d, n) : \A p \in TakenOn(e) : Until <= p.start
         /\ \A e \in Today..(d - 1) : ~TrulyFree(e, n)
    /\ NextStarts(n) = {} => \A e \in Today..(Until - 1) : ~TrulyFree(e, n)
=============================================================================
