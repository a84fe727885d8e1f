------------------------------ MODULE AdminDashboard ------------------------------
(***************************************************************************)
(* The matrix of free units on the administrators' dashboard, counted from *)
(* the bookings and the blocked nights as other services write them.  A    *)
(* booking that staff confirms holds the nights of its unit in a second    *)
(* table: the matrix counts both.                                          *)
(***************************************************************************)
EXTENDS Integers, FiniteSets

CONSTANTS Stay,           \* bookings
          Staff,          \* nights that staff blocks, by hand
          Unit, typeOf,   \* units and their Cloudbeds type or, without one, their name
          Day,            \* the days that matter
          NoUnit
ASSUME DaysAssumption == Day \subseteq Int
ASSUME UnitsAreUnits == NoUnit \notin Unit
ASSUME TablesAreFinite == IsFiniteSet(Stay) /\ IsFiniteSet(Unit)
ASSUME StaffIsNoStay == Stay \intersect Staff = {}

VARIABLES registry,       \* Booking rows
          unit,           \* Unit rows: listed (ACTIVE and not deleted), modality
          block           \* UnitAvailability rows that take a unit away, and for what
tables == <<registry, unit, block>>

NoRow == [status |-> "ABSENT"]
Deleted == [status |-> "DELETED"]
Status == {"PENDING", "CONFIRMED", "CANCELLED", "COMPLETED"}
Spans == {s \in Day \X Day : s[1] < s[2]}
StayRow == [source : {"CLOUDBEDS", "FLEX"}, status : Status, start : Day, end : Day,
            unit : Unit \union {NoUnit}]
UnitRow == [listed : BOOLEAN, modality : {"TEMPORAL", "FLEX"}]
There(i) == registry[i] \notin {NoRow, Deleted}

TablesInit ==
  /\ registry = [i \in Stay |-> NoRow]
  /\ unit \in [Unit -> UnitRow]
  /\ block = {}

(* A FLEX booking is made for no unit; the confirmation of an intent makes one that *)
(* is CONFIRMED, and holds no nights.                                              *)
RecordStay(i, row) ==
  /\ registry[i] = NoRow
  /\ row.start < row.end
  /\ row.status \in {"PENDING", "CONFIRMED"}
  /\ row.source = "FLEX" => row.unit = NoUnit /\ row.status = "PENDING"
  /\ registry' = [registry EXCEPT ![i] = row]
  /\ UNCHANGED <<unit, block>>

(* bookings.service: confirm, executeCancellation, update.                         *)
ConfirmStay(i) ==
  /\ There(i) /\ registry[i].status = "PENDING"
  /\ registry' = [registry EXCEPT ![i].status = "CONFIRMED"]
  /\ block' = IF registry[i].unit = NoUnit THEN block
              ELSE block \union {[of |-> i, unit |-> registry[i].unit,
                                  start |-> registry[i].start, end |-> registry[i].end]}
  /\ UNCHANGED unit

CancelStay(i) ==
  /\ There(i) /\ registry[i].status \in {"PENDING", "CONFIRMED"}
  /\ registry' = [registry EXCEPT ![i].status = "CANCELLED"]
  /\ block' = {b \in block : b.of # i}
  /\ UNCHANGED unit

EditStay(i, span) ==
  /\ There(i) /\ registry[i].source # "FLEX" /\ registry[i].status # "CANCELLED"
  /\ registry' = [registry EXCEPT ![i].start = span[1], ![i].end = span[2]]
  /\ UNCHANGED <<unit, block>>

(* flex-bookings.service: whatever it makes of a reservation, the booking mirrors. *)
MirrorStay(i, st, span) ==
  /\ There(i) /\ registry[i].source = "FLEX"
  /\ registry' = [registry EXCEPT ![i].status = st, ![i].start = span[1], ![i].end = span[2]]
  /\ UNCHANGED <<unit, block>>

DeleteStay(i) ==
  /\ There(i) /\ registry[i].source = "FLEX"
  /\ registry' = [registry EXCEPT ![i] = Deleted]
  /\ UNCHANGED <<unit, block>>

(* units.service: setAvailability, update and softDelete.                          *)
BlockUnit(s, u, span) ==
  /\ \A b \in block : b.of # s
  /\ block' = block \union {[of |-> s, unit |-> u, start |-> span[1], end |-> span[2]]}
  /\ UNCHANGED <<registry, unit>>

UpdateUnit(u, row) ==
  /\ unit' = [unit EXCEPT ![u] = row]
  /\ UNCHANGED <<registry, block>>

TablesNext ==
  \/ \E i \in Stay :
       \/ \E row \in StayRow : RecordStay(i, row)
       \/ ConfirmStay(i)
       \/ CancelStay(i)
       \/ DeleteStay(i)
       \/ \E span \in Spans : \/ EditStay(i, span)
                              \/ \E st \in Status : MirrorStay(i, st, span)
  \/ \E u \in Unit : \/ \E s \in Staff, span \in Spans : BlockUnit(s, u, span)
                     \/ \E row \in UnitRow : UpdateUnit(u, row)

TablesSpec == TablesInit /\ [][TablesNext]_tables

-----------------------------------------------------------------------------
(* loadBookings, loadUnits: each is asked for by its modality; blocks are not. *)
Modality == {"TEMPORAL", "FLEX", "ALL"}
Bookings(m) == {i \in Stay : /\ There(i)
                             /\ m = "TEMPORAL" => registry[i].source # "FLEX"
                             /\ m = "FLEX" => registry[i].source = "FLEX"}
Units(m) == {u \in Unit : unit[u].listed /\ (m \in {"TEMPORAL", "FLEX"} => unit[u].modality = m)}

(* activeBookings, of which buildAvailabilityMatrix counts those of a night.    *)
Active(m) == {i \in Bookings(m) : registry[i].status \in {"CONFIRMED", "COMPLETED"}}
OverlapsNight_Closed(row, d) == row.start <= d /\ row.end >= d
OverlapsNight(row, d) == row.start <= d /\ row.end > d

(* One row for each type of unit, or a "general" one when no unit is listed; it *)
(* counts one unit at least.  A booking of no unit is of the "general" row.     *)
Groups(m) == IF Units(m) = {} THEN {"general"} ELSE {typeOf[u] : u \in Units(m)}
Group(m, k) == {u \in Units(m) : typeOf[u] = k}
TotalUnits_Listed(m, k) == Cardinality(Group(m, k))
TotalUnits(m, k) == IF Group(m, k) = {} THEN 1 ELSE Cardinality(Group(m, k))
IsOf_Anywhere(m, k, i) == registry[i].unit \in Group(m, k) \union {NoUnit}
IsOf(m, k, i) == \/ registry[i].unit \in Group(m, k)
                 \/ registry[i].unit = NoUnit /\ k = "general"
Reserved_Once(m, k, d) ==
  IF \E i \in Active(m) : OverlapsNight(registry[i], d) /\ IsOf(m, k, i) THEN 1 ELSE 0
Reserved(m, k, d) ==
  Cardinality({i \in Active(m) : OverlapsNight(registry[i], d) /\ IsOf(m, k, i)})
Blocked_ByStaff(m, k, d) ==
  Cardinality({b \in block : b.of \in Staff /\ OverlapsNight(b, d) /\ b.unit \in Group(m, k)})
Blocked(m, k, d) == Cardinality({b \in block : OverlapsNight(b, d) /\ b.unit \in Group(m, k)})
Deficit(m, k, d) == Reserved(m, k, d) + Blocked(m, k, d) - TotalUnits(m, k)
Available(m, k, d) == IF Deficit(m, k, d) > 0 THEN 0 ELSE -Deficit(m, k, d)

-----------------------------------------------------------------------------
(* Who claims a unit of the row for the night that begins on a day.              *)
Nights(row) == row.start .. (row.end - 1)
StaysIn(m, k, d) == {i \in Active(m) : d \in Nights(registry[i]) /\ registry[i].unit \in Group(m, k)}
BlocksIn(m, k, d) == {b \in block : d \in Nights(b) /\ b.unit \in Group(m, k)}
FreeUnits(m, k, d) == {u \in Group(m, k) : /\ \A i \in StaysIn(m, k, d) : registry[i].unit # u
                                           /\ \A b \in BlocksIn(m, k, d) : b.unit # u}

(* Nights held for a booking that is itself counted; bookings of no unit.        *)
Twice(m, k, d) == {b \in BlocksIn(m, k, d) : b.of \in StaysIn(m, k, d)}
Unplaced(m, k, d) == {i \in Active(m) : /\ d \in Nights(registry[i])
                                        /\ registry[i].unit = NoUnit /\ k = "general"}

(* No unit is claimed for two: a booking and its own nights are one claim.       *)
Apart(m, k, d) ==
  LET stays == StaysIn(m, k, d)
      blocks == BlocksIn(m, k, d) \ Twice(m, k, d)
  IN /\ \A i, j \in stays : registry[i].unit = registry[j].unit => i = j
     /\ \A b, c \in blocks : b.unit = c.unit => b = c
     /\ \A i \in stays, b \in blocks : registry[i].unit # b.unit

(* A cell never offers more units than are free that night, but for the one that *)
(* a row without units offers.  Where no unit is claimed for two, it hides just  *)
(* one unit for each booking that is counted together with the nights it holds   *)
(* and one for each booking of no unit, and the deficit told is what is then     *)
(* missing: nothing else, through cancellations and revivals and through edits   *)
(* that leave the held nights where they were (admin-dashboard.service.ts:642).  *)
CellsTellFreeUnits ==
  \A m \in Modality, d \in Day : \A k \in Groups(m) :
    LET free == Cardinality(FreeUnits(m, k, d)) + (IF Group(m, k) = {} THEN 1 ELSE 0)
        hidden == Cardinality(Twice(m, k, d)) + Cardinality(Unplaced(m, k, d))
    IN /\ Available(m, k, d) <= free
       /\ Apart(m, k, d) =>
            /\ Available(m, k, d) = (IF hidden > free THEN 0 ELSE free - hidden)
            /\ Deficit(m, k, d) = hidden - free
=============================================================================
