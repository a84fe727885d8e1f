----------------------------- MODULE ServicesProofs -----------------------------
(***************************************************************************)
(* Proofs about the services around the reservations: TrackingReports,     *)
(* AdminDashboard, CloudbedsAvailability, MediaUploads and Notifications.  *)
(***************************************************************************)
EXTENDS MCServices, TLAPS, FiniteSetTheorems

-----------------------------------------------------------------------------
(* TrackingReports.  A report is read in one step, so that what it becomes   *)
(* follows from the types, once a session that is open has a URL.            *)
TrackInv ==
  /\ TrackTypeOK
  /\ opened # Absent => url \in Url
  /\ opened = Absent => parsed = Absent
  /\ ReportToldRight

LEMMA UrlsAreBuilt ==
  /\ \A c \in Context : BuiltUrl(c) \in Url
  /\ \A given \in Legacy : LegacyUrl(given) \in Url
PROOF
<1>1. ASSUME NEW c \in Context PROVE BuiltUrl(c) \in Url
  BY <1>1 DEF Context, BuiltUrl, Url, Maybe
<1>2. ASSUME NEW given \in Legacy PROVE LegacyUrl(given) \in Url
  <2>1. given \in Url
    BY <1>2, LegacyAreUrls DEF Url, Maybe
  <2> QED
    BY <2>1 DEF LegacyUrl, Url
<1> QED
  BY <1>1, <1>2

(* The dates a report becomes.                                               *)
LEMMA StayOfReport ==
  ASSUME NEW page \in Page, NEW u \in Url
  PROVE  /\ ParsedStay(page, u).in \in Nat
         /\ ParsedStay(page, u).out \in Nat
         /\ page.in = Absent /\ u.in # Absent => ParsedStay(page, u).in = u.in
         /\ page.out = Absent /\ u.out # Absent => ParsedStay(page, u).out = u.out
PROOF
<1>1. /\ page.in \in Date \union {Absent, Bad} /\ u.in \in Date \union {Absent}
      /\ page.out \in Date \union {Absent, Bad} /\ u.out \in Date \union {Absent}
  BY DEF Page, Url, Maybe
<1>2. /\ Absent \notin Date /\ Bad \notin Date /\ Date \subseteq Nat /\ Now \in Nat
  BY AbsentIsNone, BadIsNoDate, DatesAreDays
<1> DEFINE in == ParsedDate(OrElse(page.in, u.in), Now)
           out == ParsedDate(OrElse(page.out, u.out), in + 1)
<1>3. /\ in \in Nat
      /\ page.in = Absent /\ u.in # Absent => in = u.in
  BY <1>1, <1>2 DEF ParsedDate, OrElse
<1>4. /\ out \in Nat
      /\ page.out = Absent /\ u.out # Absent => out = u.out
  <2> DEFINE late == OrElse(page.out, u.out)
  <2>1. /\ late \in Date \union {Absent, Bad}
        /\ page.out = Absent /\ u.out # Absent => late = u.out /\ late \in Date
    BY <1>1 DEF OrElse
  <2>2. in + 1 \in Nat
    BY <1>3
  <2> DEFINE next == in + 1
  <2> HIDE DEF next, late
  <2>3. /\ ParsedDate(late, next) \in {late, next}
        /\ late \notin {Absent, Bad} => ParsedDate(late, next) = late
        /\ late \in {Absent, Bad} => ParsedDate(late, next) = next
    BY DEF ParsedDate
  <2>4. out = ParsedDate(late, next)
    BY DEF late, next
  <2> QED
    BY <1>2, <2>1, <2>2, <2>3, <2>4 DEF next
<1>5. ParsedStay(page, u) = [in |-> in, out |-> out]
  BY DEF ParsedStay
<1> QED
  <2> HIDE DEF in, out
  <2> QED
    BY <1>3, <1>4, <1>5

LEMMA NightsOfStay ==
  ASSUME NEW s, s.in \in Nat, s.out \in Nat
  PROVE  /\ StayNights(s) \in Int
         /\ StayNights(s) >= 1
         /\ s.in < s.out => StayNights(s) = s.out - s.in
PROOF
BY DEF StayNights

LEMMA PlacesAreOurs ==
  ASSUME NEW c \in Context, NEW widget \in Maybe(Widget), NEW room
  PROVE  PlacesOf(c, widget, room) \subseteq Maybe(Place)
PROOF
<1>1. c.place \in Maybe(Place)
  BY DEF Context
<1>2. widget # Absent => placeOf[widget] \in Maybe(Place)
  BY PlacesMapped DEF Maybe
<1> DEFINE named == IF widget # Absent THEN placeOf[widget] ELSE c.place
<1>3. named \in Maybe(Place)
  BY <1>1, <1>2
<1>4. PlacesOf(c, widget, room) \in {{named}, RoomPlaces(room), {Absent}}
  BY Zenon DEF PlacesOf
<1>5. RoomPlaces(room) \subseteq Place
  BY DEF RoomPlaces
<1> QED
  <2> HIDE DEF named
  <2> QED
    BY <1>3, <1>4, <1>5 DEF Maybe

LEMMA UnitOfReport ==
  ASSUME NEW place \in Maybe(Place), NEW room \in Maybe(Room)
  PROVE  /\ UnitIn(place, room) \in Maybe(Place \X Room)
         /\ UnitIn(place, room) # Absent => UnitIn(place, room)[1] = place
         /\ place # Absent /\ room # Absent /\ room \in unitsOf[place] =>
              UnitIn(place, room) = <<place, room>>
PROOF
BY DEF UnitIn, Maybe

LEMMA ReportIsTaken ==
  ASSUME TrackInv, NEW page \in Page, TakeReport(page)
  PROVE  TrackInv'
PROOF
<1> DEFINE u == OrElse(page.at, url)
           room == OrElse(page.room, u.room)
           widget == OrElse(page.widget, u.widget)
           stay == ParsedStay(page, u)
<1>1. /\ opened # Absent /\ opened' = opened /\ url' = url /\ said' = page
  BY DEF TakeReport
<1>2. /\ opened \in Context /\ url \in Url
  BY <1>1 DEF TrackInv, TrackTypeOK, Maybe
<1>3. u \in Url
  <2>1. page.at \in Maybe(Legacy)
    BY DEF Page
  <2>2. Legacy \subseteq Url
    BY LegacyAreUrls DEF Url, Maybe
  <2> QED
    BY <1>2, <2>1, <2>2 DEF OrElse, Maybe
<1>4. room \in Maybe(Room) /\ widget \in Maybe(Widget)
  <2>1. /\ page.room \in Maybe(Room) /\ page.widget \in Maybe(Widget)
    BY DEF Page
  <2>2. /\ u.room \in Maybe(Room) /\ u.widget \in Maybe(Widget)
    BY <1>3 DEF Url
  <2> QED
    BY <2>1, <2>2 DEF OrElse
<1>5. PICK place \in PlacesOf(opened, widget, room) :
        parsed' = [in |-> stay.in, out |-> stay.out, nights |-> StayNights(stay),
                   total |-> ParsedTotal(page), place |-> place,
                   unit |-> UnitIn(place, room)]
  BY DEF TakeReport
<1>6. place \in Maybe(Place)
  BY <1>2, <1>4, <1>5, PlacesAreOurs
<1>7. /\ stay.in \in Nat /\ stay.out \in Nat
      /\ page.in = Absent /\ u.in # Absent => stay.in = u.in
      /\ page.out = Absent /\ u.out # Absent => stay.out = u.out
  BY <1>3, StayOfReport
<1>8. /\ StayNights(stay) \in Int /\ StayNights(stay) >= 1
      /\ stay.in < stay.out => StayNights(stay) = stay.out - stay.in
  <2> HIDE DEF stay
  <2> QED
    BY <1>7, NightsOfStay
<1>9. ParsedTotal(page) \in Nat
  <2>1. page.roomTotal \in Maybe(Total)
    BY DEF Page
  <2> QED
    BY <2>1, TotalsAreAmounts DEF ParsedTotal, Maybe
<1>10. /\ UnitIn(place, room) \in Maybe(Place \X Room)
       /\ UnitIn(place, room) # Absent => UnitIn(place, room)[1] = place
       /\ place # Absent /\ room # Absent /\ room \in unitsOf[place] =>
            UnitIn(place, room) = <<place, room>>
  BY <1>4, <1>6, UnitOfReport
<1> DEFINE nights == StayNights(stay)
           total == ParsedTotal(page)
           unitGot == UnitIn(place, room)
<1>11. /\ parsed'.in = stay.in /\ parsed'.out = stay.out /\ parsed'.nights = nights
       /\ parsed'.place = place /\ parsed'.unit = unitGot
  <2> HIDE DEF stay, nights, total, unitGot, room
  <2> QED
    BY <1>5 DEF nights, unitGot, total
<1>12. parsed' \in Parsed
  <2> HIDE DEF stay, room
  <2> QED
    BY <1>5, <1>6, <1>7, <1>8, <1>9, <1>10 DEF Parsed
<1>13. TrackTypeOK'
  BY <1>1, <1>12 DEF TrackInv, TrackTypeOK, Maybe
<1>14. AskedForSurvives'
  <2> SUFFICES ASSUME url = BuiltUrl(opened), page.at = Absent
               PROVE  Kept(opened, page, parsed')
    BY <1>1 DEF AskedForSurvives, BuiltUrl
  <2>1. /\ u = url
        /\ u.in = opened.in /\ u.out = opened.out /\ u.room = opened.room
    BY DEF OrElse, BuiltUrl
  <2>2. page.room = Absent => room = opened.room
    BY <2>1 DEF OrElse
  <2> HIDE DEF stay, nights, total, unitGot, room, u
  <2>3. /\ opened.in # Absent /\ page.in = Absent => parsed'.in = opened.in
        /\ opened.out # Absent /\ page.out = Absent => parsed'.out = opened.out
    BY <1>7, <1>11, <2>1
  <2>4. opened.room # Absent /\ page.room = Absent /\ parsed'.place # Absent
          /\ opened.room \in unitsOf[parsed'.place]
          => parsed'.unit = <<parsed'.place, opened.room>>
    BY <1>10, <1>11, <2>2 DEF unitGot
  <2> QED
    BY <2>3, <2>4 DEF Kept
<1>15. UnitBelongsToPlace' /\ ReportedNights'
  <2> HIDE DEF stay, nights, total, unitGot, room, u
  <2> QED
    BY <1>7, <1>8, <1>10, <1>11 DEF UnitBelongsToPlace, ReportedNights, nights, unitGot
<1> QED
  BY <1>1, <1>2, <1>13, <1>14, <1>15 DEF TrackInv, ReportToldRight

LEMMA TrackInvHolds == TrackSpec => []TrackInv
PROOF
<1>1. TrackInit => TrackInv
  BY DEF TrackInit, TrackInv, TrackTypeOK, Maybe, ReportToldRight, AskedForSurvives,
         UnitBelongsToPlace, ReportedNights
<1>2. TrackInv /\ [TrackNext]_trackVars => TrackInv'
  <2> SUFFICES ASSUME TrackInv, [TrackNext]_trackVars PROVE TrackInv'
    OBVIOUS
  <2> USE DEF TrackInv
  <2>1. CASE NextReport
    BY <2>1 DEF NextReport, TrackTypeOK, Maybe, ReportToldRight, AskedForSurvives,
                UnitBelongsToPlace, ReportedNights
  <2>2. ASSUME NEW c \in Context, NEW v \in Url, opened = Absent, opened' = c,
               url' = v, UNCHANGED <<said, parsed>>
        PROVE  TrackInv'
    BY <2>2 DEF TrackTypeOK, Maybe, ReportToldRight, AskedForSurvives,
                UnitBelongsToPlace, ReportedNights
  <2>3. ASSUME NEW c \in Context, OpenSession(c) PROVE TrackInv'
    BY <2>2, <2>3, UrlsAreBuilt DEF OpenSession
  <2>4. ASSUME NEW c \in Context, NEW given \in Legacy, OpenLegacy(c, given)
        PROVE  TrackInv'
    BY <2>2, <2>4, UrlsAreBuilt DEF OpenLegacy
  <2>5. ASSUME NEW page \in Page, TakeReport(page) PROVE TrackInv'
    BY <2>5, ReportIsTaken
  <2>6. CASE UNCHANGED trackVars
    BY <2>6 DEF trackVars, TrackTypeOK, ReportToldRight, AskedForSurvives, Kept,
                UnitBelongsToPlace, ReportedNights
  <2> QED
    BY <2>1, <2>3, <2>4, <2>5, <2>6 DEF TrackNext
<1> QED
  BY <1>1, <1>2, PTL DEF TrackSpec

(* Whatever dates, rooms, properties and pages there are, a report becomes    *)
(* the stay the session was opened for, as the page amended it, of a night at *)
(* least and of a unit of its own property.                                   *)
THEOREM ReportsAreToldRight == TrackSpec => []ReportToldRight
PROOF
<1>1. TrackInv => ReportToldRight
  BY DEF TrackInv
<1> QED
  BY <1>1, TrackInvHolds, PTL

-----------------------------------------------------------------------------
(* Finite sets.                                                              *)
LEMMA SmallSets ==
  ASSUME NEW S, IsFiniteSet(S)
  PROVE  /\ Cardinality(S) \in Nat
         /\ Cardinality(S) = 0 <=> S = {}
         /\ Cardinality(S) <= 1 <=> \A x, y \in S : x = y
PROOF
<1>1. Cardinality(S) \in Nat /\ (Cardinality(S) = 0 <=> S = {})
  BY FS_CardinalityType, FS_EmptySet
<1>2. Cardinality(S) = 1 <=> \E x : S = {x}
  BY FS_Singleton
<1>3. ASSUME \A x, y \in S : x = y PROVE Cardinality(S) <= 1
  <2>1. CASE S = {}
    BY <1>1, <2>1
  <2>2. CASE S # {}
    <3>1. PICK x \in S : TRUE
      BY <2>2
    <3>2. S = {x}
      BY <1>3, <3>1
    <3> QED
      BY <1>2, <3>2
  <2> QED
    BY <2>1, <2>2
<1>4. ASSUME Cardinality(S) <= 1 PROVE \A x, y \in S : x = y
  <2>1. Cardinality(S) = 0 \/ Cardinality(S) = 1
    BY <1>1, <1>4
  <2> QED
    BY <1>1, <1>2, <2>1
<1> QED
  BY <1>1, <1>3, <1>4

LEMMA DisjointUnion ==
  ASSUME NEW S, NEW T, IsFiniteSet(S), IsFiniteSet(T), S \intersect T = {}
  PROVE  /\ IsFiniteSet(S \union T)
         /\ Cardinality(S \union T) = Cardinality(S) + Cardinality(T)
PROOF
<1>1. /\ IsFiniteSet(S \union T)
      /\ Cardinality(S \union T)
           = Cardinality(S) + Cardinality(T) - Cardinality(S \intersect T)
  BY FS_Union
<1>2. Cardinality(S \intersect T) = 0
  BY FS_EmptySet
<1> QED
  BY <1>1, <1>2, FS_CardinalityType

(* What is left of a set when others take some of it.                        *)
LEMMA LeftOver ==
  ASSUME NEW G, NEW B, NEW K, IsFiniteSet(G), IsFiniteSet(B), IsFiniteSet(K),
         NEW f \in [B -> G], NEW g \in [K -> G],
         NEW Left, Left = {u \in G : /\ \A i \in B : f[i] # u
                                     /\ \A b \in K : g[b] # u}
  PROVE  /\ Cardinality(G) - Cardinality(B) - Cardinality(K) <= Cardinality(Left)
         /\ /\ \A i, j \in B : f[i] = f[j] => i = j
            /\ \A a, b \in K : g[a] = g[b] => a = b
            /\ \A i \in B, b \in K : f[i] # g[b]
            => Cardinality(G) - Cardinality(B) - Cardinality(K) = Cardinality(Left)
PROOF
<1> DEFINE I == {f[i] : i \in B}
           J == {g[b] : b \in K}
<1>1. /\ I \subseteq G /\ J \subseteq G /\ Left \subseteq G
      /\ Left \intersect (I \union J) = {}
      /\ G = Left \union (I \union J)
  OBVIOUS
<1>2. IsFiniteSet(I) /\ IsFiniteSet(J) /\ IsFiniteSet(Left)
  BY <1>1, FS_Subset
<1>3. /\ f \in Surjection(B, I) /\ g \in Surjection(K, J)
  BY DEF Surjection
<1>4. /\ Cardinality(I) <= Cardinality(B)
      /\ Cardinality(I) = Cardinality(B) <=> f \in Injection(B, I)
  BY <1>3, FS_Surjection
<1>5. /\ Cardinality(J) <= Cardinality(K)
      /\ Cardinality(J) = Cardinality(K) <=> g \in Injection(K, J)
  BY <1>3, FS_Surjection
<1>6. /\ IsFiniteSet(I \union J)
      /\ Cardinality(I \union J)
           = Cardinality(I) + Cardinality(J) - Cardinality(I \intersect J)
  BY <1>2, FS_Union
<1>7. Cardinality(G) = Cardinality(Left) + Cardinality(I \union J)
  BY <1>1, <1>2, <1>6, DisjointUnion
<1>8. IsFiniteSet(I \intersect J)
  BY <1>2, FS_Subset
<1>9. /\ Cardinality(G) \in Nat /\ Cardinality(B) \in Nat /\ Cardinality(K) \in Nat
      /\ Cardinality(I) \in Nat /\ Cardinality(J) \in Nat /\ Cardinality(Left) \in Nat
      /\ Cardinality(I \intersect J) \in Nat
      /\ Cardinality(I \union J) \in Nat
  BY <1>2, <1>6, <1>8, FS_CardinalityType
<1>10. Cardinality(G) - Cardinality(B) - Cardinality(K) <= Cardinality(Left)
  <2> HIDE DEF I, J
  <2> QED
    BY <1>4, <1>5, <1>6, <1>7, <1>9
<1>11. ASSUME \A i, j \in B : f[i] = f[j] => i = j,
              \A a, b \in K : g[a] = g[b] => a = b,
              \A i \in B, b \in K : f[i] # g[b]
       PROVE  Cardinality(G) - Cardinality(B) - Cardinality(K) = Cardinality(Left)
  <2>1. /\ f \in Injection(B, I) /\ g \in Injection(K, J)
    BY <1>11 DEF Injection, IsInjective
  <2>2. I \intersect J = {}
    BY <1>11
  <2>3. Cardinality(I \intersect J) = 0
    BY <2>2, FS_EmptySet
  <2> HIDE DEF I, J
  <2> QED
    BY <1>4, <1>5, <1>6, <1>7, <1>9, <2>1, <2>3
<1> QED
  BY <1>10, <1>11

-----------------------------------------------------------------------------
(* AdminDashboard.  What the counts need of the tables: a booking has nights,   *)
(* and nights held for one are of its unit.                                     *)
TablesInv ==
  /\ registry \in [Stay -> StayRow \union {NoRow, Deleted}]
  /\ IsFiniteSet(block)
  /\ \A b \in block : /\ b.of \in Stay \union Staff
                      /\ b.start \in Day /\ b.end \in Day
                      /\ b.of \in Stay => registry[b.of] # NoRow
                      /\ b.of \in Stay /\ registry[b.of] # Deleted =>
                           registry[b.of].unit = b.unit

LEMMA NoStayIsMissing == NoRow \notin StayRow /\ Deleted \notin StayRow /\ NoRow # Deleted
PROOF
<1>1. ASSUME NEW row \in StayRow PROVE row.status \in Status
  BY <1>1 DEF StayRow
<1> QED
  BY <1>1 DEF NoRow, Deleted, Status

(* A booking is written that stays of its unit, or is deleted.                  *)
LEMMA StayIsWritten ==
  ASSUME TablesInv, NEW i \in Stay, registry[i] \in StayRow,
         NEW row, row \in StayRow \union {Deleted},
         row \in StayRow => row.unit = registry[i].unit,
         registry' = [registry EXCEPT ![i] = row], block' = block
  PROVE  TablesInv'
PROOF
<1>1. /\ registry' \in [Stay -> StayRow \union {NoRow, Deleted}]
      /\ registry'[i] = row
      /\ \A j \in Stay : j # i => registry'[j] = registry[j]
  BY DEF TablesInv
<1>2. row # NoRow
  BY NoStayIsMissing
<1>3. ASSUME NEW b \in block
      PROVE  /\ b.of \in Stay \union Staff
             /\ b.start \in Day /\ b.end \in Day
             /\ b.of \in Stay => registry'[b.of] # NoRow
             /\ b.of \in Stay /\ registry'[b.of] # Deleted => registry'[b.of].unit = b.unit
  <2>1. /\ b.of \in Stay \union Staff /\ b.start \in Day /\ b.end \in Day
        /\ b.of \in Stay => registry[b.of] # NoRow
        /\ b.of \in Stay /\ registry[b.of] # Deleted => registry[b.of].unit = b.unit
    BY DEF TablesInv
  <2>2. CASE b.of = i
    BY <1>1, <1>2, <2>1, <2>2, NoStayIsMissing
  <2>3. CASE b.of # i
    BY <1>1, <2>1, <2>3
  <2> QED
    BY <2>2, <2>3
<1> QED
  BY <1>1, <1>3 DEF TablesInv

LEMMA TablesInvHolds == TablesSpec => []TablesInv
PROOF
<1>1. TablesInit => TablesInv
  BY FS_EmptySet DEF TablesInit, TablesInv
<1>2. TablesInv /\ [TablesNext]_tables => TablesInv'
  <2> SUFFICES ASSUME TablesInv, [TablesNext]_tables PROVE TablesInv'
    OBVIOUS
  <2>0. ASSUME NEW i \in Stay, There(i) PROVE registry[i] \in StayRow
    BY <2>0 DEF TablesInv, There
  <2>1. ASSUME NEW i \in Stay, NEW row \in StayRow, RecordStay(i, row)
        PROVE  TablesInv'
    <3>1. /\ registry[i] = NoRow /\ block' = block
          /\ registry' = [registry EXCEPT ![i] = row]
      BY <2>1 DEF RecordStay
    <3>2. /\ registry' \in [Stay -> StayRow \union {NoRow, Deleted}]
          /\ \A j \in Stay : j # i => registry'[j] = registry[j]
      BY <3>1 DEF TablesInv
    <3>3. \A b \in block : b.of # i \/ b.of \notin Stay
      BY <3>1 DEF TablesInv
    <3> QED
      BY <3>1, <3>2, <3>3 DEF TablesInv
  <2>2. ASSUME NEW i \in Stay, ConfirmStay(i) PROVE TablesInv'
    <3> DEFINE row == [registry[i] EXCEPT !.status = "CONFIRMED"]
               mine == [of |-> i, unit |-> registry[i].unit,
                        start |-> registry[i].start, end |-> registry[i].end]
    <3>1. registry[i] \in StayRow
      BY <2>0, <2>2 DEF ConfirmStay
    <3>2. /\ row \in StayRow /\ row.unit = registry[i].unit
          /\ registry[i].start \in Day /\ registry[i].end \in Day
      BY <3>1 DEF StayRow, Status
    <3>3. /\ registry' = [registry EXCEPT ![i] = row]
          /\ block' \in {block, block \union {mine}}
      BY <2>2 DEF ConfirmStay
    <3>4. /\ mine.of = i /\ mine.unit = row.unit
          /\ mine.start \in Day /\ mine.end \in Day
      BY <3>2
    <3> HIDE DEF row, mine
    <3>5. /\ registry' \in [Stay -> StayRow \union {NoRow, Deleted}]
          /\ registry'[i] = row
          /\ \A j \in Stay : j # i => registry'[j] = registry[j]
      BY <3>2, <3>3 DEF TablesInv
    <3>6. IsFiniteSet(block')
      BY <3>3, FS_AddElement DEF TablesInv
    <3>7. row # NoRow /\ registry[i] # Deleted
      BY <3>1, <3>2, NoStayIsMissing
    <3>8. ASSUME NEW b \in block'
          PROVE  /\ b.of \in Stay \union Staff
                 /\ b.start \in Day /\ b.end \in Day
                 /\ b.of \in Stay => registry'[b.of] # NoRow
                 /\ b.of \in Stay /\ registry'[b.of] # Deleted => registry'[b.of].unit = b.unit
      <4>1. CASE b = mine
        BY <3>4, <3>5, <3>7, <4>1
      <4>2. CASE b \in block
        <5>1. /\ b.of \in Stay \union Staff /\ b.start \in Day /\ b.end \in Day
              /\ b.of \in Stay => registry[b.of] # NoRow
              /\ b.of \in Stay /\ registry[b.of] # Deleted => registry[b.of].unit = b.unit
          BY <4>2 DEF TablesInv
        <5>2. CASE b.of = i
          BY <3>2, <3>5, <3>7, <5>1, <5>2
        <5>3. CASE b.of # i
          BY <3>5, <5>1, <5>3
        <5> QED
          BY <5>2, <5>3
      <4> QED
        BY <3>3, <4>1, <4>2
    <3> QED
      BY <3>5, <3>6, <3>8 DEF TablesInv
  <2>3. ASSUME NEW i \in Stay, CancelStay(i) PROVE TablesInv'
    <3> DEFINE row == [registry[i] EXCEPT !.status = "CANCELLED"]
    <3>1. registry[i] \in StayRow
      BY <2>0, <2>3 DEF CancelStay
    <3>2. row \in StayRow
      BY <3>1 DEF StayRow, Status
    <3>3. /\ registry' = [registry EXCEPT ![i] = row]
          /\ block' = {b \in block : b.of # i}
      BY <2>3 DEF CancelStay
    <3> HIDE DEF row
    <3>4. /\ registry' \in [Stay -> StayRow \union {NoRow, Deleted}]
          /\ \A j \in Stay : j # i => registry'[j] = registry[j]
      BY <3>2, <3>3 DEF TablesInv
    <3>5. IsFiniteSet(block')
      BY <3>3, FS_Subset DEF TablesInv
    <3> QED
      BY <3>3, <3>4, <3>5 DEF TablesInv
  <2>4. ASSUME NEW i \in Stay, DeleteStay(i) PROVE TablesInv'
    BY <2>0, <2>4, NoStayIsMissing, StayIsWritten DEF DeleteStay
  <2>5. ASSUME NEW i \in Stay, NEW span \in Spans, EditStay(i, span) PROVE TablesInv'
    <3> DEFINE row == [registry[i] EXCEPT !.start = span[1], !.end = span[2]]
    <3>1. registry[i] \in StayRow /\ span[1] \in Day /\ span[2] \in Day
      BY <2>0, <2>5 DEF EditStay, Spans
    <3>2. row \in StayRow /\ row.unit = registry[i].unit
      BY <3>1 DEF StayRow
    <3>3. registry' = [registry EXCEPT ![i] = row] /\ block' = block
      BY <2>5, <3>1 DEF EditStay, TablesInv
    <3> HIDE DEF row
    <3> QED
      BY <3>1, <3>2, <3>3, StayIsWritten
  <2>6. ASSUME NEW i \in Stay, NEW span \in Spans, NEW st \in Status, MirrorStay(i, st, span)
        PROVE  TablesInv'
    <3> DEFINE row == [registry[i] EXCEPT !.status = st, !.start = span[1], !.end = span[2]]
    <3>1. registry[i] \in StayRow /\ span[1] \in Day /\ span[2] \in Day
      BY <2>0, <2>6 DEF MirrorStay, Spans
    <3>2. row \in StayRow /\ row.unit = registry[i].unit
      BY <3>1 DEF StayRow
    <3>3. registry' = [registry EXCEPT ![i] = row] /\ block' = block
      BY <2>6, <3>1 DEF MirrorStay, TablesInv
    <3> HIDE DEF row
    <3> QED
      BY <3>1, <3>2, <3>3, StayIsWritten
  <2>7. ASSUME NEW s \in Staff, NEW u \in Unit, NEW span \in Spans, BlockUnit(s, u, span)
        PROVE  TablesInv'
    <3> DEFINE mine == [of |-> s, unit |-> u, start |-> span[1], end |-> span[2]]
    <3>1. /\ block' = block \union {mine} /\ registry' = registry
      BY <2>7 DEF BlockUnit
    <3>2. /\ mine.of \in Staff /\ mine.of \notin Stay
          /\ mine.start \in Day /\ mine.end \in Day
      BY StaffIsNoStay DEF Spans
    <3> HIDE DEF mine
    <3>3. IsFiniteSet(block')
      BY <3>1, FS_AddElement DEF TablesInv
    <3> QED
      BY <3>1, <3>2, <3>3 DEF TablesInv
  <2>8. ASSUME UNCHANGED <<registry, block>> PROVE TablesInv'
    BY <2>8 DEF TablesInv
  <2> QED
    BY <2>1, <2>2, <2>3, <2>4, <2>5, <2>6, <2>7, <2>8
       DEF TablesNext, UpdateUnit, tables
<1> QED
  BY <1>1, <1>2, PTL DEF TablesSpec

(* What a cell counts are the stays of its nights, those of no unit among them, *)
(* and the blocks.                                                             *)
LEMMA CellCounts ==
  ASSUME TablesInv, NEW m \in Modality, NEW d \in Day, NEW k
  PROVE  /\ IsFiniteSet(Group(m, k)) /\ IsFiniteSet(StaysIn(m, k, d))
         /\ IsFiniteSet(BlocksIn(m, k, d)) /\ IsFiniteSet(Unplaced(m, k, d))
         /\ Reserved(m, k, d) = Cardinality(StaysIn(m, k, d)) + Cardinality(Unplaced(m, k, d))
         /\ Blocked(m, k, d) = Cardinality(BlocksIn(m, k, d))
PROOF
<1>1. IsFiniteSet(Active(m)) /\ IsFiniteSet(block) /\ IsFiniteSet(Group(m, k))
  <2>1. Active(m) \subseteq Stay /\ Group(m, k) \subseteq Unit
    BY DEF Active, Bookings, Group, Units
  <2> QED
    BY <2>1, FS_Subset, TablesAreFinite DEF TablesInv
<1>2. ASSUME NEW i \in Active(m)
      PROVE  OverlapsNight(registry[i], d) <=> d \in Nights(registry[i])
  <2>1. registry[i] \in StayRow
    BY <1>2 DEF Active, Bookings, There, TablesInv
  <2>2. registry[i].start \in Int /\ registry[i].end \in Int /\ d \in Int
    BY <2>1, DaysAssumption DEF StayRow
  <2> QED
    BY <2>2 DEF OverlapsNight, Nights
<1>3. ASSUME NEW b \in block PROVE OverlapsNight(b, d) <=> d \in Nights(b)
  <2>1. b.start \in Int /\ b.end \in Int /\ d \in Int
    BY DaysAssumption DEF TablesInv
  <2> QED
    BY <2>1 DEF OverlapsNight, Nights
<1>4. Blocked(m, k, d) = Cardinality(BlocksIn(m, k, d))
  <2>1. {b \in block : OverlapsNight(b, d) /\ b.unit \in Group(m, k)} = BlocksIn(m, k, d)
    BY <1>3 DEF BlocksIn
  <2> QED
    BY <2>1 DEF Blocked
<1>5. {i \in Active(m) : OverlapsNight(registry[i], d) /\ IsOf(m, k, i)}
        = StaysIn(m, k, d) \union Unplaced(m, k, d)
  BY <1>2 DEF StaysIn, Unplaced, IsOf
<1>6. StaysIn(m, k, d) \intersect Unplaced(m, k, d) = {}
  BY UnitsAreUnits DEF StaysIn, Unplaced, Group, Units
<1>7. /\ IsFiniteSet(StaysIn(m, k, d)) /\ IsFiniteSet(Unplaced(m, k, d))
      /\ IsFiniteSet(BlocksIn(m, k, d))
  <2>1. /\ StaysIn(m, k, d) \subseteq Active(m) /\ Unplaced(m, k, d) \subseteq Active(m)
        /\ BlocksIn(m, k, d) \subseteq block
    BY DEF StaysIn, Unplaced, BlocksIn
  <2> QED
    BY <1>1, <2>1, FS_Subset
<1>8. Cardinality(StaysIn(m, k, d) \union Unplaced(m, k, d))
        = Cardinality(StaysIn(m, k, d)) + Cardinality(Unplaced(m, k, d))
  BY <1>6, <1>7, DisjointUnion
<1> QED
  BY <1>1, <1>4, <1>5, <1>7, <1>8 DEF Reserved

LEMMA CellTellsFreeUnits ==
  ASSUME TablesInv, NEW m \in Modality, NEW d \in Day, NEW k
  PROVE  LET free == Cardinality(FreeUnits(m, k, d)) + (IF Group(m, k) = {} THEN 1 ELSE 0)
             hidden == Cardinality(Twice(m, k, d)) + Cardinality(Unplaced(m, k, d))
         IN /\ Available(m, k, d) <= free
            /\ Apart(m, k, d) =>
                 /\ Available(m, k, d) = (IF hidden > free THEN 0 ELSE free - hidden)
                 /\ Deficit(m, k, d) = hidden - free
PROOF
<1> DEFINE G == Group(m, k)
           B == StaysIn(m, k, d)
           K == BlocksIn(m, k, d)
           T == Twice(m, k, d)
           O == K \ T
           U == Unplaced(m, k, d)
           Open == FreeUnits(m, k, d)
           f == [i \in B |-> registry[i].unit]
           g == [b \in K |-> b.unit]
           h == [b \in O |-> b.unit]
           phantom == IF G = {} THEN 1 ELSE 0
<1>1. /\ IsFiniteSet(G) /\ IsFiniteSet(B) /\ IsFiniteSet(K) /\ IsFiniteSet(U)
      /\ Reserved(m, k, d) = Cardinality(B) + Cardinality(U)
      /\ Blocked(m, k, d) = Cardinality(K)
  BY CellCounts
<1>2. /\ T \subseteq K
      /\ \A b \in T : b.of \in B
  BY DEF Twice
<1>3. /\ IsFiniteSet(T) /\ IsFiniteSet(O) /\ IsFiniteSet(Open)
      /\ Cardinality(K) = Cardinality(T) + Cardinality(O)
  <2>1. IsFiniteSet(T) /\ IsFiniteSet(O) /\ IsFiniteSet(Open)
    BY <1>1, <1>2, FS_Subset DEF FreeUnits
  <2>2. T \intersect O = {} /\ T \union O = K
    BY <1>2
  <2> HIDE DEF T, O, K
  <2> QED
    BY <2>1, <2>2, DisjointUnion
<1>4. /\ f \in [B -> G] /\ g \in [K -> G] /\ h \in [O -> G]
  BY DEF StaysIn, BlocksIn
<1>5. Open = {u \in G : /\ \A i \in B : f[i] # u
                        /\ \A b \in K : g[b] # u}
  BY DEF FreeUnits
<1>6. ASSUME NEW b \in T PROVE b.of \in B /\ f[b.of] = b.unit
  <2>1. b.of \in B /\ b \in block
    BY <1>2 DEF Twice, BlocksIn
  <2>2. b.of \in Stay /\ registry[b.of] # Deleted
    BY <2>1 DEF StaysIn, Active, Bookings, There
  <2> QED
    BY <2>1, <2>2 DEF TablesInv
<1>7. Open = {u \in G : /\ \A i \in B : f[i] # u
                        /\ \A b \in O : h[b] # u}
  <2>1. ASSUME NEW u \in G, \A i \in B : f[i] # u
        PROVE  (\A b \in K : g[b] # u) <=> (\A b \in O : h[b] # u)
    <3>1. \A b \in T : b.unit # u
      BY <1>6, <2>1
    <3>2. /\ \A b \in K : g[b] = b.unit
          /\ \A b \in O : h[b] = b.unit
      OBVIOUS
    <3>3. K = T \union O
      BY <1>2
    <3> HIDE DEF f, g, h, G, B, K, O, T
    <3> QED
      BY <3>1, <3>2, <3>3
  <2> HIDE DEF f, g, h, G, B, K, O, Open, T
  <2> QED
    BY <1>5, <2>1
<1>8. Cardinality(G) - Cardinality(B) - Cardinality(K) <= Cardinality(Open)
  <2> HIDE DEF G, B, K, f, g, Open
  <2> QED
    BY <1>1, <1>4, <1>5, LeftOver
<1>9. ASSUME Apart(m, k, d)
      PROVE  Cardinality(G) - Cardinality(B) - Cardinality(O) = Cardinality(Open)
  <2>1. /\ \A i, j \in B : f[i] = f[j] => i = j
        /\ \A a, b \in O : h[a] = h[b] => a = b
        /\ \A i \in B, b \in O : f[i] # h[b]
    BY <1>9 DEF Apart
  <2>2. /\ \A i, j \in B : f[i] = f[j] => i = j
        /\ \A a, b \in O : h[a] = h[b] => a = b
        /\ \A i \in B, b \in O : f[i] # h[b]
        => Cardinality(G) - Cardinality(B) - Cardinality(O) = Cardinality(Open)
    <3> HIDE DEF G, B, O, f, h, Open
    <3> QED
      BY <1>1, <1>3, <1>4, <1>7, LeftOver
  <2> QED
    BY <2>1, <2>2
<1>10. /\ Cardinality(G) \in Nat /\ Cardinality(B) \in Nat /\ Cardinality(K) \in Nat
       /\ Cardinality(T) \in Nat /\ Cardinality(O) \in Nat /\ Cardinality(U) \in Nat
       /\ Cardinality(Open) \in Nat /\ phantom \in Nat
       /\ G = {} => Cardinality(G) = 0
  BY <1>1, <1>3, FS_CardinalityType, FS_EmptySet
<1>11. Deficit(m, k, d)
         = Cardinality(B) + Cardinality(U) + Cardinality(K) - (Cardinality(G) + phantom)
  <2>1. TotalUnits(m, k) = Cardinality(G) + phantom
    BY <1>10 DEF TotalUnits
  <2> HIDE DEF G, B, K, U, phantom
  <2> QED
    BY <1>1, <1>10, <2>1 DEF Deficit
<1>12. Available(m, k, d) <= Cardinality(Open) + phantom
  <2> HIDE DEF G, B, K, U, Open, phantom
  <2> QED
    BY <1>8, <1>10, <1>11 DEF Available
<1>13. ASSUME Apart(m, k, d)
       PROVE  LET hidden == Cardinality(T) + Cardinality(U)
                  free == Cardinality(Open) + phantom
              IN /\ Available(m, k, d) = (IF hidden > free THEN 0 ELSE free - hidden)
                 /\ Deficit(m, k, d) = hidden - free
  <2>1. Cardinality(G) - Cardinality(B) - Cardinality(O) = Cardinality(Open)
    BY <1>9, <1>13
  <2> HIDE DEF G, B, K, T, O, U, Open, phantom
  <2> QED
    BY <1>3, <1>10, <1>11, <2>1 DEF Available
<1> QED
  BY <1>12, <1>13

(* Whatever units, blocks and stays there are, no cell of the matrix offers a  *)
(* unit that is taken, and what it hides or misses is accounted for by the     *)
(* bookings counted twice and those of no unit.                               *)
THEOREM CellsAlwaysTellFreeUnits == TablesSpec => []CellsTellFreeUnits
PROOF
<1>1. TablesInv => CellsTellFreeUnits
  BY CellTellsFreeUnits DEF CellsTellFreeUnits
<1> QED
  BY <1>1, TablesInvHolds, PTL

-----------------------------------------------------------------------------
(* CloudbedsAvailability.                                                    *)
CallRec == [use : {"search", "totals", "prepare", "confirmation"},
            pc : {"slot", "posted", "backoff"}, tries : 1..MaxAttempts,
            said : Nat \union {Missing}, shell : Shell \union {Missing}]

(* A call, at the time now: it knows an answer only while it is out, and none  *)
(* older than the flight.                                                     *)
CallOK(w, now) ==
  \/ w = Free
  \/ /\ w \in CallRec
     /\ w.pc # "posted" => w.said = Missing
     /\ w.pc = "slot" => w.use # "confirmation"
     /\ w.pc = "backoff" => w.use = "search"
     /\ w.use # "prepare" => w.shell = Missing
     /\ w.said # Missing => w.use = "search" /\ w.said <= now /\ now <= w.said + Flight

CallsInv ==
  /\ DOMAIN caller = Caller /\ caller = [c \in Caller |-> caller[c]]
  /\ \A c \in Caller : CallOK(caller[c], clock)

SlotsInv ==
  /\ active \in Nat /\ waiters \in Seq(Caller)
  /\ active = Cardinality(Slotted) /\ active <= MaxConcurrent
  /\ waiters # <<>> => active = MaxConcurrent
  /\ {c \in Caller : caller[c].pc = "slot"} = {waiters[i] : i \in 1..Len(waiters)}
  /\ \A i, j \in 1..Len(waiters) : waiters[i] = waiters[j] => i = j

(* What is kept was on its way for no longer than the flight.                 *)
KeptOK(a, now) ==
  a.said # Missing => /\ a.said \in Nat /\ a.kept \in Nat
                      /\ a.said <= a.kept /\ a.kept <= a.said + Flight
                      /\ a.kept <= now

KeptInv ==
  /\ clock \in 0..Horizon
  /\ KeptOK(cached, clock) /\ KeptOK(snapshot, clock)
  /\ \A t \in saving : t \in Nat /\ t <= clock /\ clock <= t + Flight

EngineInv == CallsInv /\ SlotsInv /\ KeptInv /\ ServedInTime /\ RepliesToldRight

LEMMA CallsChange ==
  ASSUME NEW w, NEW now \in Nat, CallOK(w, now), w # Free
  PROVE  /\ w.use # "confirmation" /\ w.said = Missing =>
              \A p \in {"slot", "posted"} : CallOK([w EXCEPT !.pc = p], now)
         /\ w.pc = "slot" => w.use # "confirmation" /\ w.said = Missing
         /\ w.use = "search" /\ w.tries < MaxAttempts =>
              CallOK([w EXCEPT !.pc = "backoff", !.tries = @ + 1, !.said = Missing], now)
         /\ w.use = "search" /\ w.pc = "posted" => CallOK([w EXCEPT !.said = now], now)
         /\ w.use = "prepare" /\ w.pc = "posted" /\ w.shell = Missing =>
              \A s \in Shell : CallOK([w EXCEPT !.shell = s], now)
         /\ (w.pc = "posted" /\ w.said # Missing => w.said + Flight > now)
              => CallOK(w, now + 1)
PROOF
<1>1. w \in CallRec
  BY DEF CallOK
<1>2. w.use # "confirmation" /\ w.said = Missing =>
        \A p \in {"slot", "posted"} : CallOK([w EXCEPT !.pc = p], now)
  <2> SUFFICES ASSUME w.use # "confirmation", w.said = Missing,
                      NEW p \in {"slot", "posted"}
               PROVE  CallOK([w EXCEPT !.pc = p], now)
    OBVIOUS
  <2> DEFINE v == [w EXCEPT !.pc = p]
  <2>1. /\ v \in CallRec /\ v.pc = p /\ v.use = w.use /\ v.said = w.said
        /\ v.shell = w.shell
    BY <1>1 DEF CallRec
  <2> HIDE DEF v
  <2>2. CallOK(v, now)
    BY <2>1 DEF CallOK
  <2> QED
    BY <2>2 DEF v
<1>3. w.pc = "slot" => w.use # "confirmation" /\ w.said = Missing
  BY DEF CallOK
<1>4. w.use = "search" /\ w.tries < MaxAttempts =>
        CallOK([w EXCEPT !.pc = "backoff", !.tries = @ + 1, !.said = Missing], now)
  <2> SUFFICES ASSUME w.use = "search", w.tries < MaxAttempts
               PROVE  CallOK([w EXCEPT !.pc = "backoff", !.tries = @ + 1,
                                       !.said = Missing], now)
    OBVIOUS
  <2> DEFINE v == [w EXCEPT !.pc = "backoff", !.tries = @ + 1, !.said = Missing]
  <2>1. w.tries + 1 \in 1..MaxAttempts
    BY <1>1, SlotsAreSome DEF CallRec
  <2>2. /\ v \in CallRec /\ v.pc = "backoff" /\ v.use = w.use /\ v.said = Missing
        /\ v.shell = w.shell
    BY <1>1, <2>1 DEF CallRec
  <2> HIDE DEF v
  <2>3. CallOK(v, now)
    BY <2>2 DEF CallOK
  <2> QED
    BY <2>3 DEF v
<1>5. w.use = "search" /\ w.pc = "posted" => CallOK([w EXCEPT !.said = now], now)
  <2> SUFFICES ASSUME w.use = "search", w.pc = "posted"
               PROVE  CallOK([w EXCEPT !.said = now], now)
    OBVIOUS
  <2> DEFINE v == [w EXCEPT !.said = now]
  <2>1. /\ v \in CallRec /\ v.pc = w.pc /\ v.use = w.use /\ v.said = now
        /\ v.shell = w.shell
    BY <1>1 DEF CallRec
  <2> HIDE DEF v
  <2>2. CallOK(v, now)
    BY <2>1, AgesAreTicks DEF CallOK
  <2> QED
    BY <2>2 DEF v
<1>6. w.use = "prepare" /\ w.pc = "posted" /\ w.shell = Missing =>
        \A s \in Shell : CallOK([w EXCEPT !.shell = s], now)
  <2> SUFFICES ASSUME w.use = "prepare", w.pc = "posted", w.shell = Missing,
                      NEW s \in Shell
               PROVE  CallOK([w EXCEPT !.shell = s], now)
    OBVIOUS
  <2> DEFINE v == [w EXCEPT !.shell = s]
  <2>1. /\ v \in CallRec /\ v.pc = w.pc /\ v.use = w.use /\ v.said = w.said
        /\ v.shell = s
    BY <1>1 DEF CallRec
  <2> HIDE DEF v
  <2>2. CallOK(v, now)
    BY <2>1, MissingIsNone DEF CallOK
  <2> QED
    BY <2>2 DEF v
<1>7. (w.pc = "posted" /\ w.said # Missing => w.said + Flight > now)
        => CallOK(w, now + 1)
  BY <1>1, AgesAreTicks DEF CallOK, CallRec
<1> QED
  BY <1>2, <1>3, <1>4, <1>5, <1>6, <1>7

LEMMA CallsStart ==
  ASSUME NEW use \in {"search", "totals", "prepare", "confirmation"},
         NEW p \in {"slot", "posted"}, use = "confirmation" => p = "posted",
         NEW now \in Nat
  PROVE  /\ CallOK([Started(use) EXCEPT !.pc = p], now)
         /\ Started(use) \in CallRec /\ Started(use).use = use
         /\ Started(use).said = Missing
         /\ [Started(use) EXCEPT !.pc = p].use = use
         /\ [Started(use) EXCEPT !.pc = p].pc = p
PROOF
<1> DEFINE v == [Started(use) EXCEPT !.pc = p]
<1>1. 1 \in 1..MaxAttempts
  BY SlotsAreSome
<1>2. Started(use) \in CallRec /\ Started(use).use = use /\ Started(use).said = Missing
  BY <1>1 DEF Started, CallRec
<1>3. /\ v \in CallRec /\ v.use = use /\ v.pc = p /\ v.said = Missing
      /\ v.shell = Missing
  BY <1>1 DEF Started, CallRec
<1> HIDE DEF v
<1>4. CallOK(v, now)
  BY <1>3 DEF CallOK
<1> QED
  BY <1>2, <1>3, <1>4 DEF v

LEMMA FreeIsNoCall == Free \notin CallRec /\ Free.pc = "free"
PROOF
BY DEF Free, CallRec

(* The slots.                                                                *)
LEMMA SlottedFinite ==
  /\ IsFiniteSet(Slotted) /\ Slotted \subseteq Caller
  /\ Cardinality(Slotted) \in Nat
PROOF
<1>1. Slotted \subseteq Caller
  BY DEF Slotted, Posting
<1> QED
  BY <1>1, CallersAreFinite, FS_Subset, FS_CardinalityType

LEMMA EnterKeepsSlots ==
  ASSUME CallsInv, SlotsInv, NEW c \in Caller, caller[c].pc \notin {"slot", "posted"},
         NEW rec \in CallRec, rec.use # "confirmation", Enter(c, rec)
  PROVE  /\ SlotsInv'
         /\ \E p \in {"slot", "posted"} :
              caller' = [caller EXCEPT ![c] = [rec EXCEPT !.pc = p]]
PROOF
<1> USE DEF SlotsInv
<1>1. caller = [d \in Caller |-> caller[d]]
  BY DEF CallsInv
<1>2. CASE active < MaxConcurrent
  <2>1. /\ active' = active + 1 /\ waiters' = waiters /\ waiters = <<>>
        /\ caller' = [caller EXCEPT ![c] = [rec EXCEPT !.pc = "posted"]]
    BY <1>2, SlotsAreSome DEF Enter
  <2>2. /\ caller'[c].pc = "posted" /\ caller'[c].use = rec.use
        /\ \A d \in Caller : d # c => caller'[d] = caller[d]
    BY <1>1, <2>1 DEF CallRec
  <2>3. Slotted' = Slotted \union {c} /\ c \notin Slotted
    BY <2>2 DEF Slotted, Posting
  <2>4. Cardinality(Slotted') = Cardinality(Slotted) + 1
    BY <2>3, SlottedFinite, FS_AddElement
  <2>5. {d \in Caller : caller'[d].pc = "slot"} = {d \in Caller : caller[d].pc = "slot"}
    BY <2>2
  <2>6. SlotsInv'
    BY <1>2, <2>1, <2>4, <2>5, SlotsAreSome
  <2> QED
    BY <2>1, <2>6
<1>3. CASE ~(active < MaxConcurrent)
  <2>1. /\ active' = active /\ active = MaxConcurrent
        /\ waiters' = Append(waiters, c)
        /\ caller' = [caller EXCEPT ![c] = [rec EXCEPT !.pc = "slot"]]
    BY <1>3, SlotsAreSome DEF Enter
  <2>2. /\ caller'[c].pc = "slot"
        /\ \A d \in Caller : d # c => caller'[d] = caller[d]
    BY <1>1, <2>1 DEF CallRec
  <2>3. Slotted' = Slotted
    BY <2>2 DEF Slotted, Posting
  <2>4. {d \in Caller : caller'[d].pc = "slot"}
          = {d \in Caller : caller[d].pc = "slot"} \union {c}
    BY <2>2
  <2>5. /\ waiters' \in Seq(Caller) /\ Len(waiters') = Len(waiters) + 1
        /\ waiters'[Len(waiters) + 1] = c
        /\ \A i \in 1..Len(waiters) : waiters'[i] = waiters[i]
        /\ Len(waiters) \in Nat
    BY <2>1
  <2>6. \A i \in 1..Len(waiters) : waiters[i] # c
    OBVIOUS
  <2>7. {waiters'[i] : i \in 1..Len(waiters')} = {waiters[i] : i \in 1..Len(waiters)} \union {c}
    BY <2>5
  <2>8. \A i, j \in 1..Len(waiters') : waiters'[i] = waiters'[j] => i = j
    BY <2>5, <2>6
  <2>9. SlotsInv'
    BY <2>1, <2>3, <2>4, <2>5, <2>7, <2>8
  <2> QED
    BY <2>1, <2>9
<1> QED
  BY <1>2, <1>3

LEMMA LeaveKeepsSlots ==
  ASSUME CallsInv, SlotsInv, NEW c \in Slotted,
         NEW rec, rec.pc \notin {"slot", "posted"}, Leave(c, rec)
  PROVE  /\ SlotsInv'
         /\ DOMAIN caller' = Caller /\ caller' = [d \in Caller |-> caller'[d]]
         /\ caller'[c] = rec
         /\ \A d \in Caller \ {c} :
              \/ caller'[d] = caller[d]
              \/ /\ caller[d].pc = "slot"
                 /\ caller'[d] = [caller[d] EXCEPT !.pc = "posted"]
PROOF
<1> USE DEF SlotsInv
<1>1. /\ c \in Caller /\ caller[c].pc = "posted" /\ caller[c].use # "confirmation"
  BY DEF Slotted, Posting
<1>2. active >= 1 /\ Released(active) = active - 1
  <2>1. active # 0
    BY SlottedFinite, FS_EmptySet
  <2> QED
    BY <2>1 DEF Released
<1>3. /\ DOMAIN caller' = Caller /\ caller' = [d \in Caller |-> caller'[d]]
      /\ caller'[c] = rec
  BY <1>1 DEF Leave
<1>4. Cardinality(Slotted \ {c}) = active - 1 /\ IsFiniteSet(Slotted \ {c})
  BY SlottedFinite, FS_RemoveElement
<1>5. CASE waiters = <<>>
  <2>1. /\ active' = active - 1 /\ waiters' = waiters
        /\ \A d \in Caller \ {c} : caller'[d] = caller[d]
    BY <1>2, <1>5 DEF Leave, Woken
  <2>2. Slotted' = Slotted \ {c}
    BY <1>1, <1>3, <2>1 DEF Slotted, Posting
  <2>3. {d \in Caller : caller'[d].pc = "slot"} = {d \in Caller : caller[d].pc = "slot"}
    BY <1>1, <1>3, <2>1
  <2>4. SlotsInv'
    BY <1>2, <1>4, <1>5, <2>1, <2>2, <2>3, SlotsAreSome
  <2> QED
    BY <1>3, <2>1, <2>4
<1>6. CASE waiters # <<>>
  <2> DEFINE h == Head(waiters)
  <2>1. /\ Len(waiters) \in Nat \ {0} /\ h = waiters[1] /\ h \in Caller
        /\ Tail(waiters) \in Seq(Caller) /\ Len(Tail(waiters)) = Len(waiters) - 1
        /\ \A i \in 1..(Len(waiters) - 1) : Tail(waiters)[i] = waiters[i + 1]
    BY <1>6
  <2>2. h \in {waiters[i] : i \in 1..Len(waiters)}
    BY <2>1
  <2>3. caller[h].pc = "slot" /\ h # c
    BY <1>1, <2>2
  <2>4. CallOK(caller[h], clock) /\ caller[h] # Free
    BY <2>1, <2>3, FreeIsNoCall DEF CallsInv
  <2>5. caller[h] \in CallRec /\ caller[h].use # "confirmation"
    BY <2>3, <2>4 DEF CallOK
  <2>6. /\ active' = active /\ waiters' = Tail(waiters)
        /\ caller'[h] = [caller[h] EXCEPT !.pc = "posted"]
        /\ \A d \in Caller \ {c, h} : caller'[d] = caller[d]
    BY <1>2, <1>6, <2>1, <2>3 DEF Leave, Woken
  <2>7. caller'[h].pc = "posted" /\ caller'[h].use = caller[h].use
    BY <2>5, <2>6 DEF CallRec
  <2> HIDE DEF h
  <2>8. Slotted' = (Slotted \ {c}) \union {h} /\ h \notin Slotted
    <3>1. h \notin Slotted /\ h \in Caller
      BY <2>1, <2>3 DEF Slotted, Posting
    <3>2. h \in Slotted'
      BY <2>1, <2>5, <2>7 DEF Slotted, Posting
    <3>3. c \notin Slotted'
      BY <1>3 DEF Slotted, Posting
    <3>4. \A d \in Caller \ {c, h} : d \in Slotted' <=> d \in Slotted
      BY <2>6 DEF Slotted, Posting
    <3>5. Slotted \subseteq Caller /\ Slotted' \subseteq Caller
      BY DEF Slotted, Posting
    <3> QED
      BY <3>1, <3>2, <3>3, <3>4, <3>5, Zenon
  <2>9. Cardinality(Slotted') = active
    <3>1. Cardinality((Slotted \ {c}) \union {h}) = Cardinality(Slotted \ {c}) + 1
      BY <1>4, <2>8, FS_AddElement
    <3> QED
      BY <1>2, <1>4, <2>8, <3>1
  <2>10. {d \in Caller : caller'[d].pc = "slot"}
           = {d \in Caller : caller[d].pc = "slot"} \ {h}
    BY <1>1, <1>3, <2>1, <2>6, <2>7
  <2>11. {waiters'[i] : i \in 1..Len(waiters')} = {waiters[i] : i \in 1..Len(waiters)} \ {h}
    <3> DEFINE Left == {waiters'[i] : i \in 1..Len(waiters')}
               All == {waiters[i] : i \in 1..Len(waiters)}
    <3>1. ASSUME NEW i \in 1..Len(waiters') PROVE waiters'[i] \in All \ {h}
      BY <2>1, <2>6
    <3>2. ASSUME NEW j \in 1..Len(waiters), waiters[j] # h PROVE waiters[j] \in Left
      <4>1. j - 1 \in 1..Len(waiters') /\ waiters'[j - 1] = waiters[j]
        BY <2>1, <2>6, <3>2
      <4> QED
        BY <4>1
    <3>3. Left \subseteq All \ {h}
      BY <3>1, Zenon
    <3>4. ASSUME NEW a \in All, a # h PROVE a \in Left
      <4>1. PICK j \in 1..Len(waiters) : a = waiters[j]
        OBVIOUS
      <4> HIDE DEF Left, All
      <4> QED
        BY <3>2, <3>4, <4>1
    <3> HIDE DEF Left, All
    <3>5. Left = All \ {h}
      BY <3>3, <3>4
    <3> QED
      BY <3>5 DEF Left, All
  <2>12. \A i, j \in 1..Len(waiters') : waiters'[i] = waiters'[j] => i = j
    BY <2>1, <2>6
  <2>13. SlotsInv'
    BY <1>6, <2>1, <2>6, <2>9, <2>10, <2>11, <2>12
  <2>14. \A d \in Caller \ {c} :
           \/ caller'[d] = caller[d]
           \/ /\ caller[d].pc = "slot"
              /\ caller'[d] = [caller[d] EXCEPT !.pc = "posted"]
    BY <2>3, <2>6
  <2> QED
    BY <1>3, <2>13, <2>14
<1> QED
  BY <1>5, <1>6

(* A call that takes no slot comes, goes or is answered.                     *)
LEMMA OthersKeepSlots ==
  ASSUME SlotsInv, CallsInv, UNCHANGED <<active, waiters>>, NEW c \in Caller, NEW rec,
         caller' = [caller EXCEPT ![c] = rec],
         rec.pc = "slot" <=> caller[c].pc = "slot",
         c \in Slotted <=> rec.pc = "posted" /\ rec.use # "confirmation"
  PROVE  SlotsInv'
PROOF
<1>1. caller'[c] = rec /\ \A d \in Caller \ {c} : caller'[d] = caller[d]
  BY DEF CallsInv
<1>2. Slotted' = Slotted
  BY <1>1 DEF Slotted, Posting
<1>3. {d \in Caller : caller'[d].pc = "slot"} = {d \in Caller : caller[d].pc = "slot"}
  BY <1>1
<1> QED
  BY <1>2, <1>3 DEF SlotsInv

LEMMA EnterKeepsCalls ==
  ASSUME CallsInv, KeptInv, UNCHANGED clock, NEW c \in Caller, NEW rec,
         caller' = [caller EXCEPT ![c] = rec], CallOK(rec, clock)
  PROVE  CallsInv'
PROOF
BY DEF CallsInv

LEMMA LeaveKeepsCalls ==
  ASSUME CallsInv, SlotsInv, KeptInv, UNCHANGED clock, NEW c \in Slotted,
         NEW rec, rec.pc \notin {"slot", "posted"}, CallOK(rec, clock), Leave(c, rec)
  PROVE  CallsInv' /\ SlotsInv'
PROOF
<1>1. /\ SlotsInv'
      /\ DOMAIN caller' = Caller /\ caller' = [d \in Caller |-> caller'[d]]
      /\ caller'[c] = rec
      /\ \A d \in Caller \ {c} :
           \/ caller'[d] = caller[d]
           \/ /\ caller[d].pc = "slot"
              /\ caller'[d] = [caller[d] EXCEPT !.pc = "posted"]
  BY LeaveKeepsSlots
<1>2. clock \in Nat
  BY AgesAreTicks DEF KeptInv
<1>3. ASSUME NEW d \in Caller \ {c} PROVE CallOK(caller'[d], clock)
  <2>1. CallOK(caller[d], clock)
    BY DEF CallsInv
  <2>2. ASSUME caller[d].pc = "slot"
        PROVE  CallOK([caller[d] EXCEPT !.pc = "posted"], clock)
    <3>1. caller[d] # Free
      BY <2>2, FreeIsNoCall
    <3> QED
      BY <1>2, <2>1, <2>2, <3>1, CallsChange
  <2> QED
    BY <1>1, <2>1, <2>2
<1> QED
  BY <1>1, <1>3 DEF CallsInv

LEMMA NowIsNat == KeptInv => clock \in Nat
PROOF
BY AgesAreTicks DEF KeptInv

LEMMA KeptStays ==
  ASSUME KeptInv, UNCHANGED <<clock, cached, snapshot, saving>>
  PROVE  KeptInv'
PROOF
BY DEF KeptInv, KeptOK

LEMMA ServedStays ==
  ASSUME ServedInTime, RepliesToldRight, UNCHANGED served
  PROVE  ServedInTime' /\ RepliesToldRight'
PROOF
BY DEF ServedInTime, RepliesToldRight

(* A call that is out, or none.                                              *)
LEMMA CallsAre ==
  ASSUME CallsInv, NEW c \in Caller
  PROVE  /\ CallOK(caller[c], clock)
         /\ caller[c] = Free <=> caller[c].pc = "free"
         /\ caller[c] # Free =>
              /\ caller[c] \in CallRec
              /\ caller[c].pc = "posted" =>
                   (c \in Slotted <=> caller[c].use # "confirmation")
         /\ c \in Slotted => caller[c].pc = "posted" /\ caller[c] # Free
PROOF
<1>1. CallOK(caller[c], clock)
  BY DEF CallsInv
<1>2. caller[c] # Free => caller[c] \in CallRec
  BY <1>1 DEF CallOK
<1>3. caller[c] = Free <=> caller[c].pc = "free"
  BY <1>2, FreeIsNoCall DEF CallRec
<1> QED
  BY <1>1, <1>2, <1>3 DEF Slotted, Posting

(* A request that starts, and one that tries again, waits or goes out.       *)
LEMMA CallEnters ==
  ASSUME CallsInv, SlotsInv, KeptInv, UNCHANGED clock, NEW c \in Caller,
         caller[c].pc \notin {"slot", "posted"}, NEW rec \in CallRec,
         rec.use # "confirmation", \A p \in {"slot", "posted"} : CallOK([rec EXCEPT !.pc = p], clock),
         Enter(c, rec)
  PROVE  CallsInv' /\ SlotsInv'
PROOF
<1>1. /\ SlotsInv'
      /\ \E p \in {"slot", "posted"} : caller' = [caller EXCEPT ![c] = [rec EXCEPT !.pc = p]]
  BY EnterKeepsSlots
<1>2. PICK p \in {"slot", "posted"} : caller' = [caller EXCEPT ![c] = [rec EXCEPT !.pc = p]]
  BY <1>1
<1>3. CallsInv'
  BY <1>2, EnterKeepsCalls
<1> QED
  BY <1>1, <1>3

LEMMA Starting ==
  ASSUME CallsInv, SlotsInv, KeptInv, UNCHANGED clock, NEW c \in Caller, caller[c] = Free,
         NEW use \in {"search", "totals", "prepare"}, Enter(c, Started(use))
  PROVE  CallsInv' /\ SlotsInv'
PROOF
<1>1. caller[c].pc \notin {"slot", "posted"}
  BY FreeIsNoCall
<1>2. /\ Started(use) \in CallRec /\ Started(use).use # "confirmation"
      /\ \A p \in {"slot", "posted"} : CallOK([Started(use) EXCEPT !.pc = p], clock)
  BY CallsStart, NowIsNat
<1> QED
  BY <1>1, <1>2, CallEnters

(* A call that ends, whether it held a slot or not.                          *)
LEMMA CallEnds ==
  ASSUME CallsInv, SlotsInv, KeptInv, UNCHANGED clock, NEW c \in Caller,
         caller[c].pc = "posted",
         IF caller[c].use = "confirmation"
         THEN caller' = [caller EXCEPT ![c] = Free] /\ UNCHANGED <<active, waiters>>
         ELSE Leave(c, Free)
  PROVE  CallsInv' /\ SlotsInv'
PROOF
<1>1. CallOK(Free, clock) /\ Free.pc \notin {"slot", "posted"}
  BY FreeIsNoCall DEF CallOK
<1>2. caller[c] # Free
  BY FreeIsNoCall
<1>3. c \in Slotted <=> caller[c].use # "confirmation"
  BY <1>2, CallsAre
<1>4. CASE caller[c].use = "confirmation"
  <2>1. SlotsInv'
    BY <1>1, <1>3, <1>4, OthersKeepSlots
  <2> QED
    BY <1>1, <1>4, <2>1, EnterKeepsCalls
<1>5. CASE caller[c].use # "confirmation"
  BY <1>1, <1>3, <1>5, LeaveKeepsCalls
<1> QED
  BY <1>4, <1>5

(* What is served as an answer, or from where it was kept.                     *)
LEMMA ServedKept ==
  ASSUME KeptInv, UNCHANGED clock, served'.at = clock,
         \/ served'.as = "fresh" /\ served'.said = cached.said /\ Fresh
         \/ served'.as = "stale" /\ served'.said = cached.said /\ StillUseful
         \/ served'.as = "snapshot" /\ served'.said = snapshot.said /\ SnapshotUseful
         \/ served'.as = "error"
         \/ /\ served'.as = "answer"
            /\ served'.said \in Nat /\ clock <= served'.said + Flight
  PROVE  ServedInTime' /\ RepliesToldRight'
PROOF
<1>1. clock \in Nat
  BY NowIsNat
<1> DEFINE heard == served'.said
<1>3. CASE served'.as = "fresh" /\ heard = cached.said /\ Fresh
  <2>1. /\ heard \in Nat /\ cached.kept \in Nat /\ cached.kept <= heard + Flight
        /\ cached.kept + Ttl >= clock
    BY <1>3 DEF KeptInv, KeptOK, Fresh
  <2>2. clock - heard <= Ttl + Flight
    BY <1>1, <2>1, AgesAreTicks
  <2> QED
    BY <1>3, <2>2 DEF ServedInTime, RepliesToldRight
<1>4. CASE served'.as = "stale" /\ heard = cached.said /\ StillUseful
  <2>1. /\ heard \in Nat /\ cached.kept \in Nat /\ cached.kept <= heard + Flight
        /\ cached.kept + Ttl + MaxStale >= clock
    BY <1>4 DEF KeptInv, KeptOK, StillUseful
  <2>2. clock - heard <= Ttl + MaxStale + Flight
    BY <1>1, <2>1, AgesAreTicks
  <2> QED
    BY <1>4, <2>2 DEF ServedInTime, RepliesToldRight
<1>5. CASE served'.as = "snapshot" /\ heard = snapshot.said /\ SnapshotUseful
  <2>1. /\ heard \in Nat /\ snapshot.kept \in Nat /\ snapshot.kept <= heard + Flight
        /\ snapshot.kept + MaxAge >= clock
    BY <1>5 DEF KeptInv, KeptOK, SnapshotUseful
  <2>2. clock - heard <= MaxAge + Flight
    BY <1>1, <2>1, AgesAreTicks
  <2> QED
    BY <1>5, <2>2 DEF ServedInTime, RepliesToldRight
<1>6. CASE served'.as = "error"
  BY <1>6 DEF ServedInTime, RepliesToldRight
<1>7. CASE served'.as = "answer" /\ heard \in Nat /\ clock <= heard + Flight
  <2>1. clock - heard <= Flight
    BY <1>1, <1>7, AgesAreTicks
  <2> QED
    BY <1>7, <2>1 DEF ServedInTime, RepliesToldRight
<1> QED
  BY <1>3, <1>4, <1>5, <1>6, <1>7

LEMMA CallsStay ==
  ASSUME CallsInv, SlotsInv, UNCHANGED <<clock, caller, active, waiters>>
  PROVE  CallsInv' /\ SlotsInv'
PROOF
<1>1. CallsInv'
  BY DEF CallsInv
<1>2. SlotsInv'
  BY DEF SlotsInv, Slotted, Posting
<1> QED
  BY <1>1, <1>2

LEMMA KeptNow ==
  ASSUME KeptInv, NEW t \in Nat, t <= clock, clock <= t + Flight
  PROVE  KeptOK([said |-> t, kept |-> clock], clock)
PROOF
BY NowIsNat, AgesAreTicks DEF KeptOK

LEMMA EngineStarts == EngineInit => EngineInv
PROOF
<1> SUFFICES ASSUME EngineInit PROVE EngineInv
  OBVIOUS
<1> USE DEF EngineInit
<1>1. CallsInv
  BY DEF CallsInv, CallOK
<1>2. Slotted = {}
  BY FreeIsNoCall DEF Slotted, Posting
<1>3. {c \in Caller : caller[c].pc = "slot"} = {}
  BY FreeIsNoCall
<1>4. SlotsInv
  <2>1. {waiters[i] : i \in 1..Len(waiters)} = {}
    OBVIOUS
  <2> QED
    BY <1>2, <1>3, <2>1, FS_EmptySet, SlotsAreSome DEF SlotsInv
<1>5. KeptInv
  BY AgesAreTicks DEF KeptInv, KeptOK, Answer
<1>6. ServedInTime /\ RepliesToldRight
  BY DEF ServedInTime, RepliesToldRight
<1> QED
  BY <1>1, <1>4, <1>5, <1>6 DEF EngineInv

LEMMA EngineMovesOn ==
  ASSUME EngineInv, [EngineNext]_engineVars
  PROVE  EngineInv'
PROOF
<1> USE DEF EngineInv
<1>1. CASE Tick
  <2>1. /\ clock' = clock + 1 /\ clock < Horizon /\ saving = {}
        /\ UNCHANGED <<caller, active, waiters, cached, snapshot, saving, served>>
    BY <1>1 DEF Tick
  <2>2. clock \in Nat /\ clock' \in 0..Horizon
    BY <2>1, NowIsNat, AgesAreTicks
  <2>3. ASSUME NEW c \in Caller PROVE CallOK(caller[c], clock + 1)
    <3>1. CASE caller[c] = Free
      BY <3>1 DEF CallOK
    <3>2. CASE caller[c] # Free
      <4>1. caller[c].pc = "posted" /\ caller[c].said # Missing => caller[c].said + Flight > clock
        BY <1>1 DEF Tick, Posting
      <4> QED
        BY <2>2, <3>2, <4>1, CallsAre, CallsChange
    <3> QED
      BY <3>1, <3>2
  <2>4. CallsInv'
    BY <2>1, <2>3 DEF CallsInv
  <2>5. SlotsInv'
    BY <2>1 DEF SlotsInv, Slotted, Posting
  <2>6. KeptInv'
    BY <2>1, <2>2 DEF KeptInv, KeptOK
  <2> QED
    BY <2>1, <2>4, <2>5, <2>6, ServedStays
<1>2. ASSUME NEW c \in Caller, ServeFresh(c) PROVE EngineInv'
  <2>1. /\ UNCHANGED <<clock, caller, active, waiters, cached, snapshot, saving>>
        /\ served' = [said |-> cached.said, at |-> clock, as |-> "fresh"] /\ Fresh
    BY <1>2 DEF ServeFresh
  <2>2. CallsInv' /\ SlotsInv'
    BY <2>1, CallsStay
  <2>3. ServedInTime' /\ RepliesToldRight'
    BY <2>1, ServedKept
  <2> QED
    BY <2>1, <2>2, <2>3, KeptStays
<1>3. ASSUME NEW c \in Caller, Search(c) \/ Totals(c) \/ Prepare(c) PROVE EngineInv'
  <2>1. /\ UNCHANGED <<clock, cached, snapshot, saving, served>>
        /\ caller[c] = Free
    BY <1>3 DEF Search, Totals, Prepare
  <2>2. PICK use \in {"search", "totals", "prepare"} : Enter(c, Started(use))
    BY <1>3 DEF Search, Totals, Prepare
  <2> QED
    BY <2>1, <2>2, Starting, KeptStays, ServedStays
<1>4. ASSUME NEW c \in Caller, Confirmation(c) PROVE EngineInv'
  <2> DEFINE rec == [Started("confirmation") EXCEPT !.pc = "posted"]
  <2>1. /\ UNCHANGED <<clock, active, waiters, cached, snapshot, saving, served>>
        /\ caller' = [caller EXCEPT ![c] = rec] /\ caller[c] = Free
    BY <1>4 DEF Confirmation
  <2>2. CallOK(rec, clock) /\ rec.pc = "posted" /\ rec.use = "confirmation"
    BY CallsStart, NowIsNat
  <2>3. caller[c].pc = "free" /\ c \notin Slotted
    BY <2>1, CallsAre
  <2> HIDE DEF rec
  <2>4. SlotsInv'
    BY <2>1, <2>2, <2>3, OthersKeepSlots
  <2>5. CallsInv'
    BY <2>1, <2>2, EnterKeepsCalls
  <2> QED
    BY <2>1, <2>4, <2>5, KeptStays, ServedStays
<1>5. ASSUME NEW c \in Caller, NEW rec,
             caller' = [caller EXCEPT ![c] = rec], CallOK(rec, clock),
             caller[c].pc = "posted", rec.pc = "posted", rec.use = caller[c].use,
             UNCHANGED <<clock, active, waiters, cached, snapshot, saving, served>>
      PROVE  EngineInv'
  <2>1. caller[c] # Free
    BY <1>5, CallsAre
  <2>2. SlotsInv'
    BY <1>5, <2>1, CallsAre, OthersKeepSlots
  <2>3. CallsInv'
    BY <1>5, EnterKeepsCalls
  <2> QED
    BY <1>5, <2>2, <2>3, KeptStays, ServedStays
<1>6. ASSUME NEW c \in Caller, Says(c) PROVE EngineInv'
  <2> DEFINE rec == [caller[c] EXCEPT !.said = clock]
  <2>1. /\ UNCHANGED <<clock, active, waiters, cached, snapshot, saving, served>>
        /\ caller[c].pc = "posted" /\ caller[c].use = "search"
        /\ caller' = [caller EXCEPT ![c] = rec]
    BY <1>6 DEF Says
  <2>2. caller[c] # Free /\ caller[c] \in CallRec
    BY <2>1, CallsAre
  <2>3. CallOK(rec, clock)
    BY <2>1, <2>2, CallsAre, CallsChange, NowIsNat
  <2>4. rec.pc = "posted" /\ rec.use = caller[c].use
    BY <2>1, <2>2 DEF CallRec
  <2> HIDE DEF rec
  <2> QED
    BY <1>5, <2>1, <2>3, <2>4
<1>7. ASSUME NEW c \in Caller, NEW s \in Shell, Prepares(c, s) PROVE EngineInv'
  <2> DEFINE rec == [caller[c] EXCEPT !.shell = s]
  <2>1. /\ UNCHANGED <<clock, active, waiters, cached, snapshot, saving, served>>
        /\ caller[c].pc = "posted" /\ caller[c].use = "prepare"
        /\ caller[c].shell = Missing
        /\ caller' = [caller EXCEPT ![c] = rec]
    BY <1>7 DEF Prepares
  <2>2. caller[c] # Free /\ caller[c] \in CallRec
    BY <2>1, CallsAre
  <2>3. CallOK(rec, clock)
    BY <2>1, <2>2, CallsAre, CallsChange, NowIsNat
  <2>4. rec.pc = "posted" /\ rec.use = caller[c].use
    BY <2>1, <2>2 DEF CallRec
  <2> HIDE DEF rec
  <2> QED
    BY <1>5, <2>1, <2>3, <2>4
<1>8. ASSUME NEW c \in Caller, SearchAnswered(c) PROVE EngineInv'
  <2> DEFINE t == caller[c].said
  <2>1. /\ UNCHANGED <<clock, snapshot>>
        /\ caller[c].pc = "posted" /\ t # Missing
        /\ Leave(c, Free)
        /\ cached' = [said |-> t, kept |-> clock]
        /\ saving' = saving \union {t}
        /\ served' = [said |-> t, at |-> clock, as |-> "answer"]
    BY <1>8 DEF SearchAnswered, Answered
  <2>2. caller[c] # Free /\ caller[c] \in CallRec /\ CallOK(caller[c], clock)
    BY <2>1, CallsAre
  <2>3. caller[c].use = "search" /\ t \in Nat /\ t <= clock /\ clock <= t + Flight
    BY <2>1, <2>2 DEF CallOK, CallRec
  <2> HIDE DEF t
  <2>4. CallsInv' /\ SlotsInv'
    BY <2>1, <2>3, CallEnds
  <2>5. KeptOK(cached', clock)
    BY <2>1, <2>3, KeptNow
  <2>6. KeptInv'
    BY <2>1, <2>3, <2>5 DEF KeptInv
  <2>7. ServedInTime' /\ RepliesToldRight'
    BY <2>1, <2>3, ServedKept
  <2> QED
    BY <2>4, <2>6, <2>7
<1>9. ASSUME NEW t \in saving, SnapshotDone(t) PROVE EngineInv'
  <2>1. /\ UNCHANGED <<clock, caller, active, waiters, cached, served>>
        /\ saving' = saving \ {t}
        /\ snapshot' \in {snapshot, [said |-> t, kept |-> clock]}
    BY <1>9 DEF SnapshotDone
  <2>2. KeptOK([said |-> t, kept |-> clock], clock)
    BY KeptNow DEF KeptInv
  <2>3. KeptInv'
    BY <2>1, <2>2 DEF KeptInv
  <2>4. CallsInv' /\ SlotsInv'
    BY <2>1, CallsStay
  <2> QED
    BY <2>1, <2>3, <2>4, ServedStays
<1>10. ASSUME NEW c \in Caller, Busy(c) PROVE EngineInv'
  <2> DEFINE rec == [caller[c] EXCEPT !.pc = "backoff", !.tries = @ + 1, !.said = Missing]
  <2>1. /\ UNCHANGED <<clock, cached, snapshot, saving, served>>
        /\ caller[c].pc = "posted" /\ caller[c].use = "search"
        /\ caller[c].tries < MaxAttempts
        /\ Leave(c, rec)
    BY <1>10 DEF Busy
  <2>2. caller[c] # Free /\ caller[c] \in CallRec /\ c \in Slotted
    BY <2>1, CallsAre
  <2>3. CallOK(rec, clock)
    BY <2>1, <2>2, CallsAre, CallsChange, NowIsNat
  <2>4. rec.pc = "backoff"
    BY <2>2 DEF CallRec
  <2> HIDE DEF rec
  <2>5. CallsInv' /\ SlotsInv'
    BY <2>1, <2>2, <2>3, <2>4, LeaveKeepsCalls
  <2> QED
    BY <2>1, <2>5, KeptStays, ServedStays
<1>11. ASSUME NEW c \in Caller, Again(c) PROVE EngineInv'
  <2>1. /\ UNCHANGED <<clock, cached, snapshot, saving, served>>
        /\ caller[c].pc = "backoff" /\ Enter(c, caller[c])
    BY <1>11 DEF Again
  <2>2. caller[c] # Free /\ caller[c] \in CallRec /\ CallOK(caller[c], clock)
    BY <2>1, CallsAre
  <2>3. caller[c].use = "search" /\ caller[c].said = Missing
    BY <2>1, <2>2 DEF CallOK
  <2>4. \A p \in {"slot", "posted"} : CallOK([caller[c] EXCEPT !.pc = p], clock)
    BY <2>2, <2>3, CallsChange, NowIsNat
  <2>5. CallsInv' /\ SlotsInv'
    BY <2>1, <2>2, <2>3, <2>4, CallEnters
  <2> QED
    BY <2>1, <2>5, KeptStays, ServedStays
<1>12. ASSUME NEW c \in Caller, CallFails(c) PROVE EngineInv'
  <2>1. /\ UNCHANGED <<clock, snapshot, saving>>
        /\ CallsInv' /\ SlotsInv'
    BY <1>12, CallEnds DEF CallFails
  <2>2. cached' \in {cached, Answer}
    BY <1>12 DEF CallFails
  <2>3. KeptInv'
    BY <2>1, <2>2 DEF KeptInv, KeptOK, Answer
  <2>4. ServedInTime' /\ RepliesToldRight'
    <3>1. CASE UNCHANGED served
      BY <3>1, ServedStays
    <3>2. CASE Fallback
      <4>1. /\ served'.at = clock
            /\ \/ /\ served'.as = "stale"
                  /\ served'.said = cached.said /\ StillUseful
               \/ /\ served'.as = "snapshot"
                  /\ served'.said = snapshot.said /\ SnapshotUseful
               \/ served'.as = "error"
        BY <3>2 DEF Fallback
      <4> QED
        BY <2>1, <4>1, ServedKept
    <3> QED
      BY <1>12, <3>1, <3>2 DEF CallFails
  <2> QED
    BY <2>1, <2>3, <2>4
<1>13. ASSUME NEW c \in Caller, Done(c) PROVE EngineInv'
  <2>1. /\ UNCHANGED <<clock, cached, snapshot, saving, served>>
        /\ CallsInv' /\ SlotsInv'
    BY <1>13, CallEnds DEF Done
  <2> QED
    BY <2>1, KeptStays, ServedStays
<1>14. ASSUME NEW c \in Caller, NEW flag \in BOOLEAN, PrepareReplied(c, flag)
       PROVE  EngineInv'
  <2>1. /\ UNCHANGED <<clock, cached, snapshot, saving>>
        /\ caller[c].pc = "posted" /\ caller[c].use = "prepare"
        /\ flag => caller[c].shell # Missing
        /\ Leave(c, Free)
        /\ served' = [said |-> caller[c].shell, at |-> clock,
                      as |-> IF Accepted(c, flag) THEN "prepared" ELSE "refused"]
    BY <1>14 DEF PrepareReplied
  <2>2. CallsInv' /\ SlotsInv'
    BY <2>1, CallEnds
  <2>3. caller[c].shell \in Shell \union {Missing}
    BY <2>1, CallsAre DEF CallRec
  <2>4. Accepted(c, flag) <=> caller[c].shell # Missing
    BY <2>1 DEF Accepted
  <2>5. ServedInTime' /\ RepliesToldRight'
    BY <2>1, <2>3, <2>4 DEF ServedInTime, RepliesToldRight
  <2> QED
    BY <2>1, <2>2, <2>5, KeptStays
<1>15. CASE UNCHANGED engineVars
  <2>1. UNCHANGED <<clock, caller, active, waiters, cached, snapshot, saving, served>>
    BY <1>15 DEF engineVars
  <2>2. CallsInv' /\ SlotsInv'
    BY <2>1, CallsStay
  <2> QED
    BY <2>1, <2>2, KeptStays, ServedStays
<1> QED
  BY <1>1, <1>2, <1>3, <1>4, <1>6, <1>7, <1>8, <1>9, <1>10, <1>11, <1>12, <1>13,
     <1>14, <1>15 DEF EngineNext

LEMMA EngineInvHolds == EngineSpec => []EngineInv
PROOF
BY EngineStarts, EngineMovesOn, PTL DEF EngineSpec

LEMMA SlotsAreAccounted == SlotsInv => SlotsAccounted
PROOF
<1> SUFFICES ASSUME SlotsInv PROVE SlotsAccounted
  OBVIOUS
<1> USE DEF SlotsInv
<1> DEFINE All == {waiters[i] : i \in 1..Len(waiters)}
           f == [i \in 1..Len(waiters) |-> waiters[i]]
<1>1. ToSet(waiters) = All
  BY DEF ToSet
<1>2. f \in Bijection(1..Len(waiters), All)
  BY DEF Bijection, Injection, Surjection, IsInjective
<1>3. Len(waiters) \in Nat
  OBVIOUS
<1>4. IsFiniteSet(1..Len(waiters)) /\ Cardinality(1..Len(waiters)) = Len(waiters)
  BY <1>3, FS_Interval
<1>5. ExistsBijection(1..Len(waiters), All)
  BY <1>2 DEF ExistsBijection
<1>6. Cardinality(All) = Len(waiters)
  <2> HIDE DEF All
  <2> QED
    BY <1>4, <1>5, FS_Bijection
<1>7. {c \in Caller : caller[c].pc = "slot"} = All
  OBVIOUS
<1> QED
  BY <1>1, <1>6, <1>7 DEF SlotsAccounted

(* Whatever fails or is tried again, no slot of the provider is lost, nobody   *)
(* who waits for one is forgotten, and no reply says of a reservation that is  *)
(* prepared that it is not.                                                    *)
THEOREM CallsAreAccounted == EngineSpec => []CallsAccounted
PROOF
<1>1. EngineInv => CallsAccounted
  BY SlotsAreAccounted DEF EngineInv, CallsAccounted
<1> QED
  BY <1>1, EngineInvHolds, PTL

(* Answers are no older than the flight, the cache, its stale use and the      *)
(* snapshots allow, in whatever order they come.                               *)
THEOREM AnswersAreInTime == EngineSpec => []ServedInTime
PROOF
<1>1. EngineInv => ServedInTime
  BY DEF EngineInv
<1> QED
  BY <1>1, EngineInvHolds, PTL

LEMMA EngineIsOf == EngineInv => EngineTypeOK
PROOF
<1> SUFFICES ASSUME EngineInv PROVE EngineTypeOK
  OBVIOUS
<1>1. ASSUME NEW c \in Caller, caller[c] # Free
      PROVE  /\ caller[c].use \in {"search", "totals", "prepare", "confirmation"}
             /\ caller[c].pc \in {"slot", "posted", "backoff"}
             /\ caller[c].tries \in 1..MaxAttempts
  <2>1. caller[c] \in CallRec
    BY <1>1, CallsAre DEF EngineInv
  <2> QED
    BY <2>1 DEF CallRec
<1>2. active \in 0..MaxConcurrent
  BY SlotsAreSome DEF EngineInv, SlotsInv
<1> QED
  BY <1>1, <1>2 DEF EngineTypeOK, EngineInv, KeptInv, SlotsInv

-----------------------------------------------------------------------------
(* MediaUploads.                                                             *)
ImageRec == [home : Home, file : File, primary : BOOLEAN]
AskRec == [pc : {"wait", "clear", "fill"}, file : File \union {Nothing},
           where : Home \union Slot, primary : BOOLEAN]

(* A request, and the image of its identifier: where it stands says what it   *)
(* is about; one with no file edits that image.                              *)
AskOK(q, im) ==
  \/ q = Idle
  \/ /\ q.pc # "insert" => q \in AskRec
     /\ q.pc \in {"wait", "clear", "fill", "insert"}
     /\ q.file \in File \union {Nothing} /\ q.primary \in BOOLEAN
     /\ q.pc \in {"wait", "fill"} => q.file \in File
     /\ q.pc \in {"clear", "insert"} => q.where \in Home
     /\ q.pc = "fill" => q.where \in Slot
     /\ q.file = Nothing => q.primary /\ (im # Nothing => im.home = q.where)

SweepOK(w) ==
  /\ w.todo \subseteq File /\ w.gone \in File \union {Nothing}
  /\ w = [todo |-> w.todo, gone |-> w.gone]
  /\ w.gone \notin w.todo

AsksInv ==
  /\ DOMAIN request = Request /\ request = [r \in Request |-> request[r]]
  /\ \A r \in Request : AskOK(request[r], image[r])
  /\ SweepOK(sweep)

ImagesOf(f) == {i \in Request : image[i] # Nothing /\ image[i].file = f}
SlotsOf(f) == {s \in Slot : shown[s] = f}

(* A file that one handler holds, if any: until it is confirmed it is nowhere, *)
(* and from then on in one place; what is deleted or about to be is not shown. *)
FileRight(f) ==
  /\ \A r, q \in Holding(f) : r = q
  /\ Holding(f) # {} => file[f].status = "PENDING" /\ ~Sweeping(f)
  /\ \A r \in Holding(f) : request[r].pc # "wait" => f \in stored
  /\ Sweeping(f) => file[f].status = "PENDING"
  /\ f \in doomed => file[f].status = "DELETED"
  /\ ImagesOf(f) # {} \/ SlotsOf(f) # {} => file[f].status = "CONFIRMED" /\ f \in stored
  /\ \A i, j \in ImagesOf(f) : i = j
  /\ \A s, t \in SlotsOf(f) : s = t
  /\ ImagesOf(f) = {} \/ SlotsOf(f) = {}

Primaries(h) == {i \in Images(h) : image[i].primary}

(* A home that one transaction changes, if any: it has seen the marks there are. *)
HomeRight(h) ==
  /\ \A r, q \in InTransaction(h) : r = q
  /\ \A i, j \in Primaries(h) : i = j
  /\ \A r \in InTransaction(h) : request[r].primary => Primaries(h) \subseteq request[r].seen

UploadsInv ==
  /\ UploadsTypeOK
  /\ AsksInv
  /\ \A f \in File \ overlapped : FileRight(f)
  /\ \A h \in Home \ overlapped : HomeRight(h)

LEMMA IdleIsNoAsk == Idle.pc = "idle" /\ Idle \notin AskRec
PROOF
BY DEF Idle, AskRec

LEMMA NothingIsNoFile == Nothing \notin File /\ Nothing \notin ImageRec
PROOF
BY NothingIsNone DEF ImageRec

LEMMA HoldersAre ==
  ASSUME AsksInv, NEW r \in Request
  PROVE  /\ AskOK(request[r], image[r])
         /\ request[r] = Idle <=> request[r].pc = "idle"
         /\ \A f \in File : r \in Holding(f) <=> request[r] # Idle /\ request[r].file = f
         /\ \A h \in Home : r \in InTransaction(h) <=>
              request[r].pc = "insert" /\ request[r].where = h
PROOF
<1>1. AskOK(request[r], image[r])
  BY DEF AsksInv
<1>2. request[r] = Idle <=> request[r].pc = "idle"
  BY <1>1, IdleIsNoAsk DEF AskOK
<1> QED
  BY <1>1, <1>2, IdleIsNoAsk DEF AskOK, Holding, InTransaction

LEMMA FileStays ==
  ASSUME NEW f \in File, FileRight(f),
         Holding(f)' \subseteq Holding(f),
         \A r \in Holding(f)' : request'[r].pc # "wait" => request[r].pc # "wait" \/ f \in stored,
         file'[f].status = file[f].status,
         f \in stored => f \in stored',
         Sweeping(f)' => Sweeping(f),
         f \in doomed' => f \in doomed,
         ImagesOf(f)' \subseteq ImagesOf(f), SlotsOf(f)' \subseteq SlotsOf(f)
  PROVE  FileRight(f)'
PROOF
<1>1. /\ \A r, q \in Holding(f)' : r = q
      /\ Holding(f)' # {} => file'[f].status = "PENDING" /\ ~Sweeping(f)'
      /\ \A r \in Holding(f)' : request'[r].pc # "wait" => f \in stored'
  BY DEF FileRight
<1>2. /\ Sweeping(f)' => file'[f].status = "PENDING"
      /\ f \in doomed' => file'[f].status = "DELETED"
  BY DEF FileRight
<1>3. /\ ImagesOf(f)' # {} \/ SlotsOf(f)' # {} => file'[f].status = "CONFIRMED" /\ f \in stored'
      /\ \A i, j \in ImagesOf(f)' : i = j
      /\ \A s, t \in SlotsOf(f)' : s = t
      /\ ImagesOf(f)' = {} \/ SlotsOf(f)' = {}
  BY DEF FileRight
<1> QED
  BY <1>1, <1>2, <1>3 DEF FileRight

LEMMA HomeStays ==
  ASSUME NEW h \in Home, HomeRight(h),
         InTransaction(h)' \subseteq InTransaction(h),
         \A r \in InTransaction(h)' : request'[r] = request[r],
         Primaries(h)' \subseteq Primaries(h)
  PROVE  HomeRight(h)'
PROOF
BY DEF HomeRight

(* What the marking transaction makes of the images.                          *)
LEMMA UnmarkedAre ==
  ASSUME UploadsTypeOK, NEW seen
  PROVE  /\ Unmarked(seen) \in [Request -> ImageRec \union {Nothing}]
         /\ \A i \in Request :
              /\ Unmarked(seen)[i] = Nothing <=> image[i] = Nothing
              /\ image[i] # Nothing =>
                   /\ Unmarked(seen)[i].home = image[i].home
                   /\ Unmarked(seen)[i].file = image[i].file
                   /\ Unmarked(seen)[i].primary => image[i].primary /\ i \notin seen
PROOF
<1>1. ASSUME NEW i \in Request
      PROVE  /\ Unmarked(seen)[i] \in ImageRec \union {Nothing}
             /\ Unmarked(seen)[i] = Nothing <=> image[i] = Nothing
             /\ image[i] # Nothing =>
                  /\ Unmarked(seen)[i].home = image[i].home
                  /\ Unmarked(seen)[i].file = image[i].file
                  /\ Unmarked(seen)[i].primary => image[i].primary /\ i \notin seen
  <2>1. Unmarked(seen)[i] = IF i \in seen /\ image[i] # Nothing
                            THEN [image[i] EXCEPT !.primary = FALSE] ELSE image[i]
    BY DEF Unmarked
  <2>2. image[i] \in ImageRec \union {Nothing}
    BY DEF UploadsTypeOK, ImageRec
  <2>3. ASSUME image[i] \in ImageRec
        PROVE  /\ [image[i] EXCEPT !.primary = FALSE] \in ImageRec
               /\ [image[i] EXCEPT !.primary = FALSE].home = image[i].home
               /\ [image[i] EXCEPT !.primary = FALSE].file = image[i].file
               /\ [image[i] EXCEPT !.primary = FALSE].primary = FALSE
    BY <2>3 DEF ImageRec
  <2> QED
    BY <2>1, <2>2, <2>3, NothingIsNoFile
<1>2. DOMAIN Unmarked(seen) = Request /\ Unmarked(seen) = [i \in Request |-> Unmarked(seen)[i]]
  BY DEF Unmarked
<1> QED
  BY <1>1, <1>2

(* Steps in which no request, image or slot moves.                            *)
LEMMA HoldersStay ==
  ASSUME UploadsInv, UNCHANGED <<request, image, shown>>, overlapped \subseteq overlapped'
  PROVE  /\ \A f \in File : /\ Holding(f)' = Holding(f)
                            /\ ImagesOf(f)' = ImagesOf(f) /\ SlotsOf(f)' = SlotsOf(f)
         /\ \A h \in Home \ overlapped' : HomeRight(h)'
PROOF
<1>1. \A f \in File : /\ Holding(f)' = Holding(f)
                      /\ ImagesOf(f)' = ImagesOf(f) /\ SlotsOf(f)' = SlotsOf(f)
  BY DEF Holding, ImagesOf, SlotsOf
<1>2. ASSUME NEW h \in Home \ overlapped' PROVE HomeRight(h)'
  <2>1. HomeRight(h)
    BY DEF UploadsInv
  <2>2. InTransaction(h)' = InTransaction(h) /\ Primaries(h)' = Primaries(h)
    BY DEF InTransaction, Primaries, Images
  <2> QED
    BY <2>1, <2>2, HomeStays
<1> QED
  BY <1>1, <1>2

LEMMA PresignKeeps ==
  ASSUME UploadsInv, NEW g \in File, NEW u \in Uploader, Presign(g, u)
  PROVE  UploadsInv'
PROOF
<1>1. /\ file[g].status = "ABSENT"
      /\ file' = [file EXCEPT ![g] = [status |-> "PENDING", by |-> u]]
      /\ UNCHANGED <<stored, old, image, shown, request, doomed, sweep, overlapped>>
  BY DEF Presign
<1>2. UploadsTypeOK' /\ file'[g].status = "PENDING"
      /\ \A f \in File \ {g} : file'[f] = file[f]
  BY <1>1 DEF UploadsInv, UploadsTypeOK
<1>3. AsksInv'
  BY <1>1 DEF UploadsInv, AsksInv
<1>4. ASSUME NEW f \in File \ overlapped' PROVE FileRight(f)'
  <2>1. FileRight(f)
    BY <1>1 DEF UploadsInv
  <2>2. /\ Holding(f)' = Holding(f) /\ ImagesOf(f)' = ImagesOf(f)
        /\ SlotsOf(f)' = SlotsOf(f) /\ Sweeping(f)' = Sweeping(f)
    BY <1>1, HoldersStay DEF Sweeping
  <2>3. CASE f = g
    <3>1. /\ Holding(f) = {} /\ ImagesOf(f) = {} /\ SlotsOf(f) = {}
          /\ ~Sweeping(f) /\ f \notin doomed
      BY <1>1, <2>1, <2>3 DEF FileRight
    <3> QED
      BY <1>1, <2>2, <3>1 DEF FileRight
  <2>4. CASE f # g
    BY <1>1, <1>2, <2>1, <2>2, <2>4, FileStays
  <2> QED
    BY <2>3, <2>4
<1> QED
  BY <1>1, <1>2, <1>3, <1>4, HoldersStay DEF UploadsInv

(* The client's upload, and time.                                             *)
LEMMA UploadKeeps ==
  ASSUME UploadsInv, NEW g \in File, Upload(g) \/ Grow(g)
  PROVE  UploadsInv'
PROOF
<1>1. /\ UNCHANGED <<file, image, shown, request, doomed, sweep, overlapped>>
      /\ stored \subseteq stored' /\ stored' \subseteq stored \union {g}
      /\ old' \subseteq old \union {g}
  BY DEF Upload, Grow
<1>2. UploadsTypeOK'
  BY <1>1 DEF UploadsInv, UploadsTypeOK
<1>3. AsksInv'
  BY <1>1 DEF UploadsInv, AsksInv
<1>4. ASSUME NEW f \in File \ overlapped' PROVE FileRight(f)'
  <2>1. FileRight(f)
    BY <1>1 DEF UploadsInv
  <2>2. /\ Holding(f)' = Holding(f) /\ ImagesOf(f)' = ImagesOf(f)
        /\ SlotsOf(f)' = SlotsOf(f) /\ Sweeping(f)' = Sweeping(f)
    BY <1>1, HoldersStay DEF Sweeping
  <2>3. \A r \in Holding(f)' : request'[r].pc # "wait" => request[r].pc # "wait"
    BY <1>1
  <2> QED
    BY <1>1, <2>1, <2>2, <2>3, FileStays
<1> QED
  BY <1>1, <1>2, <1>3, <1>4, HoldersStay DEF UploadsInv

(* An object that is deleted is of a file that is.                            *)
LEMMA ObjectDeletedKeeps ==
  ASSUME UploadsInv, NEW g \in File, ObjectDeleted(g)
  PROVE  UploadsInv'
PROOF
<1>1. /\ g \in doomed /\ doomed' = doomed \ {g}
      /\ stored' \subseteq stored /\ stored \ {g} \subseteq stored'
      /\ UNCHANGED <<file, old, image, shown, request, sweep, overlapped>>
  BY DEF ObjectDeleted
<1>2. UploadsTypeOK'
  BY <1>1 DEF UploadsInv, UploadsTypeOK
<1>3. AsksInv'
  BY <1>1 DEF UploadsInv, AsksInv
<1>4. ASSUME NEW f \in File \ overlapped' PROVE FileRight(f)'
  <2>1. FileRight(f)
    BY <1>1 DEF UploadsInv
  <2>2. /\ Holding(f)' = Holding(f) /\ ImagesOf(f)' = ImagesOf(f)
        /\ SlotsOf(f)' = SlotsOf(f) /\ Sweeping(f)' = Sweeping(f)
    BY <1>1, HoldersStay DEF Sweeping
  <2>3. CASE f = g
    <3>1. /\ Holding(f) = {} /\ ImagesOf(f) = {} /\ SlotsOf(f) = {}
          /\ ~Sweeping(f)
      BY <1>1, <2>1, <2>3 DEF FileRight
    <3> QED
      BY <1>1, <2>2, <2>3, <3>1 DEF FileRight
  <2>4. CASE f # g
    <3>1. \A r \in Holding(f)' : request'[r].pc # "wait" => request[r].pc # "wait"
      BY <1>1
    <3> QED
      BY <1>1, <2>1, <2>2, <2>4, <3>1, FileStays
  <2> QED
    BY <2>3, <2>4
<1> QED
  BY <1>1, <1>2, <1>3, <1>4, HoldersStay DEF UploadsInv

(* The job.  It lists files that nobody holds, or that it marks as held.       *)
LEMMA SweepKeeps ==
  ASSUME UploadsInv, Sweep
  PROVE  UploadsInv'
PROOF
<1>1. /\ sweep = NoSweep /\ sweep' = [todo |-> Orphans, gone |-> Nothing]
      /\ overlapped' = overlapped \union {f \in Orphans : Holding(f) # {}}
      /\ UNCHANGED <<file, stored, old, image, shown, request, doomed>>
  BY DEF Sweep
<1>2. Orphans \subseteq File /\ \A f \in Orphans : file[f].status = "PENDING"
  BY DEF Orphans, UploadsInv, UploadsTypeOK
<1>3. UploadsTypeOK'
  BY <1>1, <1>2 DEF UploadsInv, UploadsTypeOK
<1>4. SweepOK(sweep')
  <2> HIDE DEF Orphans
  <2> QED
    BY <1>1, <1>2, NothingIsNoFile DEF SweepOK
<1>5. AsksInv'
  BY <1>1, <1>4 DEF UploadsInv, AsksInv
<1>6. ASSUME NEW f \in File \ overlapped' PROVE FileRight(f)'
  <2>1. FileRight(f) /\ (f \in Orphans => Holding(f) = {})
    BY <1>1 DEF UploadsInv
  <2>2. /\ Holding(f)' = Holding(f) /\ ImagesOf(f)' = ImagesOf(f)
        /\ SlotsOf(f)' = SlotsOf(f)
    BY <1>1, HoldersStay
  <2>3. Sweeping(f)' <=> f \in Orphans
    BY <1>1, NothingIsNoFile DEF Sweeping
  <2> QED
    BY <1>1, <1>2, <2>1, <2>2, <2>3 DEF FileRight
<1>7. overlapped \subseteq overlapped'
  BY <1>1
<1> QED
  BY <1>1, <1>3, <1>5, <1>6, <1>7, HoldersStay DEF UploadsInv

LEMMA SweepObjectKeeps ==
  ASSUME UploadsInv, NEW g \in File, SweepObject(g)
  PROVE  UploadsInv'
PROOF
<1>1. /\ g \in sweep.todo /\ sweep.gone = Nothing
      /\ stored' = stored \ {g}
      /\ sweep' = [todo |-> sweep.todo \ {g}, gone |-> g]
      /\ UNCHANGED <<file, old, image, shown, request, doomed, overlapped>>
  BY DEF SweepObject
<1>2. UploadsTypeOK'
  BY <1>1 DEF UploadsInv, UploadsTypeOK
<1>3. SweepOK(sweep')
  BY <1>1 DEF SweepOK, UploadsInv, AsksInv
<1>4. AsksInv'
  BY <1>1, <1>3 DEF UploadsInv, AsksInv
<1>5. ASSUME NEW f \in File \ overlapped' PROVE FileRight(f)'
  <2>1. FileRight(f)
    BY <1>1 DEF UploadsInv
  <2>2. /\ Holding(f)' = Holding(f) /\ ImagesOf(f)' = ImagesOf(f)
        /\ SlotsOf(f)' = SlotsOf(f)
    BY <1>1, HoldersStay
  <2>3. Sweeping(f)' <=> Sweeping(f)
    BY <1>1, NothingIsNoFile DEF Sweeping
  <2>4. CASE f = g
    <3>1. Sweeping(f)
      BY <1>1, <2>4 DEF Sweeping
    <3>2. /\ Holding(f) = {} /\ ImagesOf(f) = {} /\ SlotsOf(f) = {}
      BY <2>1, <3>1 DEF FileRight
    <3> QED
      BY <1>1, <2>1, <2>2, <2>3, <3>2 DEF FileRight
  <2>5. CASE f # g
    <3>1. \A r \in Holding(f)' : request'[r].pc # "wait" => request[r].pc # "wait"
      BY <1>1
    <3> QED
      BY <1>1, <2>1, <2>2, <2>3, <2>5, <3>1, FileStays
  <2> QED
    BY <2>4, <2>5
<1> QED
  BY <1>1, <1>2, <1>4, <1>5, HoldersStay DEF UploadsInv

LEMMA SweepRowKeeps ==
  ASSUME UploadsInv, NEW g \in File, SweepRow(g)
  PROVE  UploadsInv'
PROOF
<1>0. SweepOK(sweep) /\ UploadsTypeOK
  BY DEF UploadsInv, AsksInv
<1>1. /\ sweep.gone = g /\ g \notin sweep.todo
      /\ file' = [file EXCEPT ![g].status = "DELETED"]
      /\ sweep' = [todo |-> sweep.todo, gone |-> Nothing]
      /\ UNCHANGED <<stored, old, image, shown, request, doomed, overlapped>>
  BY <1>0 DEF SweepRow, SweepOK
<1>2. UploadsTypeOK' /\ file'[g].status = "DELETED"
      /\ \A f \in File \ {g} : file'[f] = file[f]
  BY <1>0, <1>1 DEF UploadsTypeOK
<1>3. SweepOK(sweep')
  BY <1>0, <1>1, NothingIsNoFile DEF SweepOK
<1>4. AsksInv'
  BY <1>1, <1>3 DEF UploadsInv, AsksInv
<1>5. ASSUME NEW f \in File \ overlapped' PROVE FileRight(f)'
  <2>1. FileRight(f)
    BY <1>1 DEF UploadsInv
  <2>2. /\ Holding(f)' = Holding(f) /\ ImagesOf(f)' = ImagesOf(f)
        /\ SlotsOf(f)' = SlotsOf(f)
    BY <1>1, HoldersStay
  <2>3. CASE f = g
    <3>1. Sweeping(f) /\ ~Sweeping(f)'
      BY <1>1, <2>3, NothingIsNoFile DEF Sweeping
    <3>2. /\ Holding(f) = {} /\ ImagesOf(f) = {} /\ SlotsOf(f) = {}
      BY <2>1, <3>1 DEF FileRight
    <3> QED
      BY <1>2, <2>2, <2>3, <3>1, <3>2 DEF FileRight
  <2>4. CASE f # g
    <3>1. \A r \in Holding(f)' : request'[r].pc # "wait" => request[r].pc # "wait"
      BY <1>1
    <3>2. Sweeping(f)' => Sweeping(f)
      BY <1>1, NothingIsNoFile DEF Sweeping
    <3> QED
      BY <1>1, <1>2, <2>1, <2>2, <2>4, <3>1, <3>2, FileStays
  <2> QED
    BY <2>3, <2>4
<1> QED
  BY <1>1, <1>2, <1>4, <1>5, HoldersStay DEF UploadsInv

LEMMA SweepFailsKeeps ==
  ASSUME UploadsInv, NEW g \in File, SweepFails(g)
  PROVE  UploadsInv'
PROOF
<1>0. SweepOK(sweep)
  BY DEF UploadsInv, AsksInv
<1>1. /\ sweep' = [todo |-> sweep'.todo, gone |-> Nothing]
      /\ sweep'.todo \subseteq sweep.todo
      /\ UNCHANGED <<file, stored, old, image, shown, request, doomed, overlapped>>
  BY <1>0 DEF SweepFails, SweepOK
<1>2. UploadsTypeOK'
  BY <1>1 DEF UploadsInv, UploadsTypeOK
<1>3. SweepOK(sweep') /\ sweep'.gone = Nothing
  BY <1>0, <1>1, NothingIsNoFile DEF SweepOK
<1>4. AsksInv'
  BY <1>1, <1>3 DEF UploadsInv, AsksInv
<1>5. ASSUME NEW f \in File \ overlapped' PROVE FileRight(f)'
  <2>1. FileRight(f)
    BY <1>1 DEF UploadsInv
  <2>2. /\ Holding(f)' = Holding(f) /\ ImagesOf(f)' = ImagesOf(f)
        /\ SlotsOf(f)' = SlotsOf(f)
    BY <1>1, HoldersStay
  <2>3. \A r \in Holding(f)' : request'[r].pc # "wait" => request[r].pc # "wait"
    BY <1>1
  <2>4. Sweeping(f)' => Sweeping(f)
    BY <1>1, <1>3, NothingIsNoFile DEF Sweeping
  <2> QED
    BY <1>1, <2>1, <2>2, <2>3, <2>4, FileStays
<1> QED
  BY <1>1, <1>2, <1>4, <1>5, HoldersStay DEF UploadsInv

(* A step of one request.                                                     *)
Handling == {"wait", "clear", "insert", "fill"}
LEMMA RequestMoves ==
  ASSUME UploadsInv, NEW r \in Request, NEW q, request' = [request EXCEPT ![r] = q],
         UNCHANGED sweep, AskOK(q, image'[r]),
         \A i \in Request \ {r} : image'[i] # Nothing =>
           image[i] # Nothing /\ image'[i].home = image[i].home
  PROVE  /\ AsksInv'
         /\ request'[r] = q /\ \A i \in Request \ {r} : request'[i] = request[i]
         /\ \A f \in File : /\ Holding(f)' \ {r} = Holding(f) \ {r}
                            /\ r \in Holding(f)' <=> q.pc \in Handling /\ q.file = f
                            /\ Sweeping(f)' <=> Sweeping(f)
         /\ \A h \in Home : /\ InTransaction(h)' \ {r} = InTransaction(h) \ {r}
                            /\ r \in InTransaction(h)' <=> q.pc = "insert" /\ q.where = h
PROOF
<1>1. request'[r] = q /\ \A i \in Request \ {r} : request'[i] = request[i]
  BY DEF UploadsInv, AsksInv
<1>2. ASSUME NEW i \in Request \ {r} PROVE AskOK(request[i], image'[i])
  BY DEF AskOK, UploadsInv, AsksInv
<1>3. AsksInv'
  BY <1>1, <1>2 DEF UploadsInv, AsksInv, SweepOK
<1>4. ASSUME NEW f \in File
      PROVE  /\ Holding(f)' \ {r} = Holding(f) \ {r}
             /\ r \in Holding(f)' <=> q.pc \in Handling /\ q.file = f
             /\ Sweeping(f)' <=> Sweeping(f)
  BY <1>1 DEF Holding, Sweeping, Handling
<1>5. ASSUME NEW h \in Home
      PROVE  /\ InTransaction(h)' \ {r} = InTransaction(h) \ {r}
             /\ r \in InTransaction(h)' <=> q.pc = "insert" /\ q.where = h
  BY <1>1 DEF InTransaction
<1> QED
  BY <1>1, <1>3, <1>4, <1>5

(* Where images and slots stay, the homes no request enters are as they were. *)
LEMMA ImagesStay ==
  ASSUME UNCHANGED <<image, shown>>
  PROVE  /\ \A f \in File : ImagesOf(f)' = ImagesOf(f) /\ SlotsOf(f)' = SlotsOf(f)
         /\ \A h \in Home : Primaries(h)' = Primaries(h)
PROOF
BY DEF ImagesOf, SlotsOf, Primaries, Images

LEMMA ResolveKeeps ==
  ASSUME UploadsInv, NEW r \in Request, NEW g \in File, NEW w \in Home \union Slot,
         NEW p \in BOOLEAN, Resolve(r, g, w, p)
  PROVE  UploadsInv'
PROOF
<1> DEFINE q == [pc |-> "wait", file |-> g, where |-> w, primary |-> p]
<1>1. /\ request[r] = Idle /\ file[g].status = "PENDING"
      /\ request' = [request EXCEPT ![r] = q]
      /\ overlapped' = IF Holding(g) # {} \/ Sweeping(g) THEN overlapped \union {g}
                                                         ELSE overlapped
      /\ UNCHANGED <<file, stored, old, image, shown, doomed, sweep>>
  BY DEF Resolve, Confirmable
<1>2. /\ q.pc = "wait" /\ q.file = g /\ AskOK(q, image[r])
  <2>1. q \in AskRec
    BY DEF AskRec
  <2> QED
    BY <2>1, NothingIsNoFile DEF AskOK
<1> HIDE DEF q
<1>3. /\ AsksInv'
      /\ request'[r] = q /\ \A i \in Request \ {r} : request'[i] = request[i]
      /\ \A f \in File : /\ Holding(f)' \ {r} = Holding(f) \ {r}
                         /\ r \in Holding(f)' <=> q.pc \in Handling /\ q.file = f
                         /\ Sweeping(f)' <=> Sweeping(f)
      /\ \A h \in Home : /\ InTransaction(h)' \ {r} = InTransaction(h) \ {r}
                         /\ r \in InTransaction(h)' <=> q.pc = "insert" /\ q.where = h
  BY <1>1, <1>2, RequestMoves
<1>4. UploadsTypeOK'
  BY <1>1 DEF UploadsInv, UploadsTypeOK
<1>5. ASSUME NEW f \in File \ overlapped' PROVE FileRight(f)'
  <2>1. FileRight(f) /\ (f = g => Holding(g) = {} /\ ~Sweeping(g))
    BY <1>1 DEF UploadsInv
  <2>2. ImagesOf(f)' = ImagesOf(f) /\ SlotsOf(f)' = SlotsOf(f)
    BY <1>1, ImagesStay
  <2>3. CASE f = g
    <3>1. Holding(f)' = {r} /\ ~Sweeping(f)'
      BY <1>2, <1>3, <2>1, <2>3 DEF Handling
    <3>2. f \notin doomed /\ ImagesOf(f) = {} /\ SlotsOf(f) = {}
      BY <1>1, <2>1, <2>3 DEF FileRight
    <3> QED
      BY <1>1, <1>2, <1>3, <2>2, <2>3, <3>1, <3>2 DEF FileRight
  <2>4. CASE f # g
    <3>1. Holding(f)' \subseteq Holding(f) /\ r \notin Holding(f)'
      BY <1>2, <1>3, <2>4
    <3>2. \A i \in Holding(f)' : request'[i].pc # "wait" => request[i].pc # "wait"
      BY <1>3, <3>1 DEF Holding
    <3> QED
      BY <1>1, <1>3, <2>1, <2>2, <3>1, <3>2, FileStays
  <2> QED
    BY <2>3, <2>4
<1>6. ASSUME NEW h \in Home \ overlapped' PROVE HomeRight(h)'
  <2>1. HomeRight(h) /\ Primaries(h)' = Primaries(h)
    BY <1>1, ImagesStay DEF UploadsInv
  <2>2. InTransaction(h)' \subseteq InTransaction(h) /\ r \notin InTransaction(h)'
    BY <1>2, <1>3
  <2>3. \A i \in InTransaction(h)' : request'[i] = request[i]
    BY <1>3, <2>2 DEF InTransaction
  <2> QED
    BY <2>1, <2>2, <2>3, HomeStays
<1> QED
  BY <1>3, <1>4, <1>5, <1>6 DEF UploadsInv

(* A request that finds its object, or not; one that sets out to edit.         *)
LEMMA QuietMoves ==
  ASSUME UploadsInv, NEW r \in Request, NEW q, request' = [request EXCEPT ![r] = q],
         AskOK(q, image[r]), q.pc # "insert",
         \A f \in File : q.pc \in Handling /\ q.file = f =>
           r \in Holding(f) /\ (q.pc # "wait" => request[r].pc # "wait" \/ f \in stored),
         UNCHANGED <<file, stored, old, image, shown, doomed, sweep, overlapped>>
  PROVE  UploadsInv'
PROOF
<1>1. /\ AsksInv'
      /\ request'[r] = q /\ \A i \in Request \ {r} : request'[i] = request[i]
      /\ \A f \in File : /\ Holding(f)' \ {r} = Holding(f) \ {r}
                         /\ r \in Holding(f)' <=> q.pc \in Handling /\ q.file = f
                         /\ Sweeping(f)' <=> Sweeping(f)
      /\ \A h \in Home : /\ InTransaction(h)' \ {r} = InTransaction(h) \ {r}
                         /\ r \in InTransaction(h)' <=> q.pc = "insert" /\ q.where = h
  BY RequestMoves
<1>2. UploadsTypeOK'
  BY DEF UploadsInv, UploadsTypeOK
<1>3. ASSUME NEW f \in File \ overlapped' PROVE FileRight(f)'
  <2>1. FileRight(f)
    BY DEF UploadsInv
  <2>2. ImagesOf(f)' = ImagesOf(f) /\ SlotsOf(f)' = SlotsOf(f)
    BY ImagesStay
  <2>3. Holding(f)' \subseteq Holding(f)
    BY <1>1
  <2>4. ASSUME NEW i \in Holding(f)', request'[i].pc # "wait"
        PROVE  request[i].pc # "wait" \/ f \in stored
    <3>1. i \in Request
      BY DEF Holding
    <3>2. CASE i = r
      BY <1>1, <2>4, <3>2
    <3>3. CASE i # r
      BY <1>1, <2>4, <3>1, <3>3
    <3> QED
      BY <3>2, <3>3
  <2> QED
    BY <1>1, <2>1, <2>2, <2>3, <2>4, FileStays
<1>4. ASSUME NEW h \in Home \ overlapped' PROVE HomeRight(h)'
  <2>1. HomeRight(h) /\ Primaries(h)' = Primaries(h)
    BY ImagesStay DEF UploadsInv
  <2>2. InTransaction(h)' \subseteq InTransaction(h) /\ r \notin InTransaction(h)'
    BY <1>1
  <2>3. \A i \in InTransaction(h)' : request'[i] = request[i]
    BY <1>1, <2>2 DEF InTransaction
  <2> QED
    BY <2>1, <2>2, <2>3, HomeStays
<1> QED
  BY <1>1, <1>2, <1>3, <1>4 DEF UploadsInv

LEMMA FoundKeeps ==
  ASSUME UploadsInv, NEW r \in Request, Found(r) \/ NotFound(r) \/ Promote(r)
  PROVE  UploadsInv'
PROOF
<1>0. AsksInv /\ UploadsTypeOK
  BY DEF UploadsInv
<1>1. CASE Found(r)
  <2> DEFINE pc == IF request[r].where \in Slot THEN "fill" ELSE "clear"
             q == [request[r] EXCEPT !.pc = pc]
  <2>1. /\ request[r].pc = "wait" /\ request[r].file \in stored
        /\ request' = [request EXCEPT ![r] = q]
        /\ UNCHANGED <<file, stored, old, image, shown, doomed, sweep, overlapped>>
    BY <1>1 DEF Found, Uploaded
  <2>2. /\ request[r] \in AskRec /\ request[r].file \in File
        /\ AskOK(request[r], image[r])
    BY <1>0, <2>1, HoldersAre, IdleIsNoAsk DEF AskOK
  <2>3. /\ q \in AskRec /\ q.pc = pc /\ q.file = request[r].file
        /\ q.where = request[r].where /\ q.primary = request[r].primary
        /\ pc \in {"fill", "clear"} /\ (pc = "fill" <=> request[r].where \in Slot)
    BY <2>2 DEF AskRec
  <2> HIDE DEF q, pc
  <2>4. AskOK(q, image[r])
    BY <2>2, <2>3, NothingIsNoFile DEF AskOK, AskRec
  <2>5. r \in Holding(request[r].file)
    BY <2>1 DEF Holding
  <2>6. \A f \in File : q.pc \in Handling /\ q.file = f =>
          r \in Holding(f) /\ (q.pc # "wait" => request[r].pc # "wait" \/ f \in stored)
    BY <2>1, <2>3, <2>5
  <2>7. q.pc # "insert"
    BY <2>3
  <2> QED
    BY <2>1, <2>4, <2>6, <2>7, QuietMoves
<1>2. CASE NotFound(r)
  <2>1. AskOK(Idle, image[r]) /\ Idle.pc \notin Handling
    BY IdleIsNoAsk DEF AskOK, Handling
  <2> QED
    BY <1>2, <2>1, QuietMoves DEF NotFound, Handling
<1>3. CASE Promote(r)
  <2> DEFINE q == [pc |-> "clear", file |-> Nothing, where |-> image[r].home,
                   primary |-> TRUE]
  <2>1. /\ request' = [request EXCEPT ![r] = q] /\ image[r] # Nothing
        /\ UNCHANGED <<file, stored, old, image, shown, doomed, sweep, overlapped>>
    BY <1>3 DEF Promote
  <2>2. image[r].home \in Home
    BY <1>0, <2>1 DEF UploadsTypeOK
  <2>3. /\ q \in AskRec /\ q.pc = "clear" /\ q.file = Nothing
        /\ q.where = image[r].home /\ q.primary
    BY <2>2 DEF AskRec
  <2> HIDE DEF q
  <2>4. AskOK(q, image[r])
    BY <2>2, <2>3 DEF AskOK
  <2> QED
    BY <2>1, <2>3, <2>4, QuietMoves, NothingIsNoFile
<1> QED
  BY <1>1, <1>2, <1>3

LEMMA BeginKeeps ==
  ASSUME UploadsInv, NEW r \in Request, Begin(r)
  PROVE  UploadsInv'
PROOF
<1>0. AsksInv /\ UploadsTypeOK /\ AskOK(request[r], image[r])
  BY HoldersAre DEF UploadsInv
<1> DEFINE g == request[r].where
           q == [pc |-> "insert", file |-> request[r].file, where |-> g,
                 primary |-> request[r].primary,
                 seen |-> IF request[r].primary THEN Images(g) ELSE {}]
<1>1. /\ request[r].pc = "clear" /\ request' = [request EXCEPT ![r] = q]
      /\ overlapped' = IF InTransaction(g) # {} THEN overlapped \union {g} ELSE overlapped
      /\ UNCHANGED <<file, stored, old, image, shown, doomed, sweep>>
  BY DEF Begin, Demoted
<1>2. /\ request[r] # Idle /\ g \in Home /\ request[r].file \in File \union {Nothing}
      /\ request[r].primary \in BOOLEAN
      /\ request[r].file = Nothing =>
           request[r].primary /\ (image[r] # Nothing => image[r].home = g)
  BY <1>0, <1>1, IdleIsNoAsk DEF AskOK
<1>3. /\ q.pc = "insert" /\ q.file = request[r].file /\ q.where = g
      /\ q.primary = request[r].primary
      /\ q.primary => q.seen = Images(g)
  OBVIOUS
<1> HIDE DEF g, q
<1>4. AskOK(q, image[r])
  BY <1>2, <1>3 DEF AskOK
<1>5. /\ AsksInv'
      /\ request'[r] = q /\ \A i \in Request \ {r} : request'[i] = request[i]
      /\ \A f \in File : /\ Holding(f)' \ {r} = Holding(f) \ {r}
                         /\ r \in Holding(f)' <=> q.pc \in Handling /\ q.file = f
                         /\ Sweeping(f)' <=> Sweeping(f)
      /\ \A h \in Home : /\ InTransaction(h)' \ {r} = InTransaction(h) \ {r}
                         /\ r \in InTransaction(h)' <=> q.pc = "insert" /\ q.where = h
  BY <1>1, <1>4, RequestMoves
<1>6. UploadsTypeOK'
  BY <1>0, <1>1, <1>2 DEF UploadsTypeOK
<1>7. ASSUME NEW f \in File \ overlapped' PROVE FileRight(f)'
  <2>1. FileRight(f)
    BY <1>1 DEF UploadsInv
  <2>2. ImagesOf(f)' = ImagesOf(f) /\ SlotsOf(f)' = SlotsOf(f)
    BY <1>1, ImagesStay
  <2>3. r \in Holding(f) <=> request[r].file = f
    BY <1>1 DEF Holding
  <2>4. Holding(f)' \subseteq Holding(f)
    BY <1>3, <1>5, <2>3
  <2>5. \A i \in Holding(f)' : request'[i].pc # "wait" => request[i].pc # "wait"
    BY <1>1, <1>5 DEF Holding
  <2> QED
    BY <1>1, <1>5, <2>1, <2>2, <2>4, <2>5, FileStays
<1>8. ASSUME NEW h \in Home \ overlapped' PROVE HomeRight(h)'
  <2>1. HomeRight(h) /\ Primaries(h)' = Primaries(h)
    BY <1>1, ImagesStay DEF UploadsInv
  <2>2. CASE h = g
    <3>1. InTransaction(h) = {}
      BY <1>1, <2>2
    <3>2. InTransaction(h)' = {r}
      BY <1>3, <1>5, <2>2, <3>1
    <3>3. q.primary => Primaries(h)' \subseteq q.seen
      BY <1>3, <2>1, <2>2 DEF Primaries
    <3> QED
      BY <1>5, <2>1, <3>2, <3>3 DEF HomeRight
  <2>3. CASE h # g
    <3>1. InTransaction(h)' \subseteq InTransaction(h) /\ r \notin InTransaction(h)'
      BY <1>3, <1>5, <2>3
    <3>2. \A i \in InTransaction(h)' : request'[i] = request[i]
      BY <1>5, <3>1 DEF InTransaction
    <3> QED
      BY <2>1, <3>1, <3>2, HomeStays
  <2> QED
    BY <2>2, <2>3
<1> QED
  BY <1>5, <1>6, <1>7, <1>8 DEF UploadsInv

(* A transaction that ends: it marks at most its own image of the home, and    *)
(* unmarks those it has seen if it does.                                       *)
LEMMA CommitKeepsHomes ==
  ASSUME UploadsInv, NEW r \in Request, NEW g \in Home,
         request[r].pc = "insert", request[r].where = g,
         overlapped' = overlapped, request'[r] = Idle,
         \A i \in Request \ {r} :
           /\ request'[i] = request[i]
           /\ image'[i] # Nothing =>
                /\ image[i] # Nothing /\ image'[i].home = image[i].home
                /\ image'[i].primary => image[i].primary
                /\ image'[i].primary /\ request[r].primary => i \notin request[r].seen,
         image'[r] # Nothing => /\ image'[r].home = g
                                /\ image'[r].primary => request[r].primary
  PROVE  \A h \in Home \ overlapped' : HomeRight(h)'
PROOF
<1> SUFFICES ASSUME NEW h \in Home \ overlapped PROVE HomeRight(h)'
  OBVIOUS
<1>1. HomeRight(h)
  BY DEF UploadsInv
<1>2. InTransaction(h)' \subseteq InTransaction(h) /\ r \notin InTransaction(h)'
  BY IdleIsNoAsk DEF InTransaction
<1>3. \A i \in InTransaction(h)' : request'[i] = request[i]
  BY <1>2 DEF InTransaction
<1>4. \A i \in Primaries(h)' \ {r} : i \in Primaries(h)
  BY DEF Primaries, Images
<1>5. CASE h = g /\ request[r].primary
  <2>1. InTransaction(h) = {r} /\ Primaries(h) \subseteq request[r].seen
    BY <1>1, <1>5 DEF HomeRight, InTransaction
  <2>2. \A i \in Primaries(h)' \ {r} : i \notin request[r].seen
    BY <1>5 DEF Primaries, Images
  <2>3. Primaries(h)' \subseteq {r}
    BY <1>4, <2>1, <2>2
  <2>4. InTransaction(h)' = {}
    BY <1>2, <2>1
  <2> QED
    BY <2>3, <2>4 DEF HomeRight
<1>6. CASE ~(h = g /\ request[r].primary)
  <2>1. r \notin Primaries(h)'
    BY <1>6 DEF Primaries, Images
  <2> QED
    BY <1>1, <1>2, <1>3, <1>4, <2>1, HomeStays
<1> QED
  BY <1>5, <1>6

LEMMA ConfirmImageKeeps ==
  ASSUME UploadsInv, NEW r \in Request, ConfirmImage(r)
  PROVE  UploadsInv'
PROOF
<1>0. AsksInv /\ UploadsTypeOK /\ AskOK(request[r], image[r])
  BY HoldersAre DEF UploadsInv
<1> DEFINE g == request[r].file
           k == request[r].where
           rec == [home |-> k, file |-> g, primary |-> request[r].primary]
           un == Unmarked(request[r].seen)
<1>1. /\ request[r].pc = "insert" /\ g # Nothing
      /\ image' = [un EXCEPT ![r] = rec]
      /\ file' = [file EXCEPT ![g].status = "CONFIRMED"]
      /\ request' = [request EXCEPT ![r] = Idle]
      /\ UNCHANGED <<stored, old, shown, doomed, sweep, overlapped>>
  BY DEF ConfirmImage
<1>2. g \in File /\ k \in Home /\ request[r].primary \in BOOLEAN
  BY <1>0, <1>1, IdleIsNoAsk DEF AskOK
<1>3. rec \in ImageRec /\ rec.home = k /\ rec.file = g /\ rec.primary = request[r].primary
  BY <1>2 DEF ImageRec
<1>4. /\ un \in [Request -> ImageRec \union {Nothing}]
      /\ \A i \in Request :
           /\ un[i] = Nothing <=> image[i] = Nothing
           /\ image[i] # Nothing =>
                /\ un[i].home = image[i].home
                /\ un[i].file = image[i].file
                /\ un[i].primary => image[i].primary /\ i \notin request[r].seen
  BY <1>0, UnmarkedAre
<1> HIDE DEF g, k, rec, un
<1>5. /\ image'[r] = rec /\ \A i \in Request \ {r} : image'[i] = un[i]
      /\ image' \in [Request -> ImageRec \union {Nothing}]
  BY <1>1, <1>3, <1>4
<1>6. AskOK(Idle, image'[r])
  BY DEF AskOK
<1>7. \A i \in Request \ {r} : image'[i] # Nothing =>
        image[i] # Nothing /\ image'[i].home = image[i].home
  BY <1>4, <1>5
<1>8. /\ AsksInv'
      /\ request'[r] = Idle /\ \A i \in Request \ {r} : request'[i] = request[i]
      /\ \A f \in File : /\ Holding(f)' \ {r} = Holding(f) \ {r}
                         /\ r \in Holding(f)' <=> Idle.pc \in Handling /\ Idle.file = f
                         /\ Sweeping(f)' <=> Sweeping(f)
  BY <1>1, <1>6, <1>7, RequestMoves
<1>9. UploadsTypeOK' /\ file'[g].status = "CONFIRMED"
      /\ \A f \in File \ {g} : file'[f] = file[f]
  BY <1>0, <1>1, <1>2, <1>5 DEF UploadsTypeOK, ImageRec
<1>10. ASSUME NEW f \in File \ overlapped' PROVE FileRight(f)'
  <2>1. FileRight(f) /\ SlotsOf(f)' = SlotsOf(f)
    BY <1>1 DEF UploadsInv, SlotsOf
  <2>2. Holding(f)' \subseteq Holding(f) /\ r \notin Holding(f)'
    BY <1>8, IdleIsNoAsk DEF Handling
  <2>3. \A i \in ImagesOf(f)' \ {r} : i \in ImagesOf(f)
    BY <1>4, <1>5 DEF ImagesOf
  <2>4. CASE f = g
    <3>1. r \in Holding(f)
      BY <1>1, <2>4 DEF Holding, g
    <3>2. /\ Holding(f) = {r} /\ file[f].status = "PENDING" /\ ~Sweeping(f)
          /\ f \in stored /\ f \notin doomed
      BY <1>1, <2>1, <3>1 DEF FileRight
    <3>3. ImagesOf(f) = {} /\ SlotsOf(f) = {}
      BY <2>1, <3>2 DEF FileRight
    <3>4. Holding(f)' = {} /\ ImagesOf(f)' \subseteq {r} /\ SlotsOf(f)' = {}
      BY <2>1, <2>2, <2>3, <3>2, <3>3
    <3> QED
      BY <1>1, <1>8, <1>9, <2>4, <3>2, <3>4 DEF FileRight
  <2>5. CASE f # g
    <3>1. r \notin ImagesOf(f)'
      BY <1>3, <1>5, <2>5 DEF ImagesOf
    <3>2. \A i \in Holding(f)' : request'[i].pc # "wait" => request[i].pc # "wait"
      BY <1>8, <2>2 DEF Holding
    <3> QED
      BY <1>1, <1>8, <1>9, <2>1, <2>2, <2>3, <2>5, <3>1, <3>2, FileStays
  <2> QED
    BY <2>4, <2>5
<1>11. \A i \in Request \ {r} :
         /\ request'[i] = request[i]
         /\ image'[i] # Nothing =>
              /\ image[i] # Nothing /\ image'[i].home = image[i].home
              /\ image'[i].primary => image[i].primary
              /\ image'[i].primary /\ request[r].primary => i \notin request[r].seen
  BY <1>4, <1>5, <1>8
<1>12. \A h \in Home \ overlapped' : HomeRight(h)'
  <2>1. image'[r].home = k /\ (image'[r].primary => request[r].primary)
    BY <1>3, <1>5
  <2>2. request[r].where = k
    BY DEF k
  <2> QED
    BY <1>1, <1>2, <1>8, <1>11, <2>1, <2>2, CommitKeepsHomes
<1> QED
  BY <1>8, <1>9, <1>10, <1>12 DEF UploadsInv

LEMMA PromoteCommitKeeps ==
  ASSUME UploadsInv, NEW r \in Request, PromoteCommit(r)
  PROVE  UploadsInv'
PROOF
<1>0. AsksInv /\ UploadsTypeOK /\ AskOK(request[r], image[r])
  BY HoldersAre DEF UploadsInv
<1> DEFINE k == request[r].where
           un == Unmarked(request[r].seen)
           rec == [un[r] EXCEPT !.primary = TRUE]
<1>1. /\ request[r].pc = "insert" /\ request[r].file = Nothing
      /\ image' = IF image[r] = Nothing THEN image ELSE [un EXCEPT ![r] = rec]
      /\ request' = [request EXCEPT ![r] = Idle]
      /\ UNCHANGED <<file, stored, old, shown, doomed, sweep, overlapped>>
  BY DEF PromoteCommit
<1>2. /\ k \in Home /\ request[r].primary
      /\ image[r] # Nothing => image[r].home = k
  BY <1>0, <1>1, IdleIsNoAsk DEF AskOK
<1>3. /\ un \in [Request -> ImageRec \union {Nothing}]
      /\ \A i \in Request :
           /\ un[i] = Nothing <=> image[i] = Nothing
           /\ image[i] # Nothing =>
                /\ un[i].home = image[i].home
                /\ un[i].file = image[i].file
                /\ un[i].primary => image[i].primary /\ i \notin request[r].seen
  BY <1>0, UnmarkedAre
<1>4. image[r] # Nothing => /\ rec \in ImageRec /\ rec.home = k
                            /\ rec.file = image[r].file
  <2>1. image[r] # Nothing => un[r] \in ImageRec
    BY <1>3
  <2> HIDE DEF un
  <2> QED
    BY <1>2, <1>3, <2>1 DEF ImageRec
<1> HIDE DEF k, rec, un
<1>5. /\ image' \in [Request -> ImageRec \union {Nothing}]
      /\ \A i \in Request \ {r} :
           /\ image'[i] = Nothing <=> image[i] = Nothing
           /\ image[i] # Nothing => /\ image'[i].home = image[i].home
                                    /\ image'[i].file = image[i].file
                                    /\ image'[i].primary => image[i].primary
      /\ image[r] # Nothing => /\ image'[r] = rec
                               /\ \A i \in Request \ {r} : image'[i] = un[i]
      /\ image[r] = Nothing => image' = image
  <2>1. CASE image[r] = Nothing
    BY <1>0, <1>1, <2>1 DEF UploadsTypeOK, ImageRec
  <2>2. CASE image[r] # Nothing
    <3>1. /\ image' = [un EXCEPT ![r] = rec] /\ rec \in ImageRec
      BY <1>1, <1>4, <2>2
    <3>2. /\ image' \in [Request -> ImageRec \union {Nothing}]
          /\ image'[r] = rec /\ \A i \in Request \ {r} : image'[i] = un[i]
      BY <1>3, <3>1
    <3> QED
      BY <1>3, <2>2, <3>2
  <2> QED
    BY <2>1, <2>2
<1>6. /\ AskOK(Idle, image'[r])
      /\ \A i \in Request \ {r} : image'[i] # Nothing =>
           image[i] # Nothing /\ image'[i].home = image[i].home
  BY <1>5 DEF AskOK
<1>7. /\ AsksInv'
      /\ request'[r] = Idle /\ \A i \in Request \ {r} : request'[i] = request[i]
      /\ \A f \in File : /\ Holding(f)' \ {r} = Holding(f) \ {r}
                         /\ r \in Holding(f)' <=> Idle.pc \in Handling /\ Idle.file = f
                         /\ Sweeping(f)' <=> Sweeping(f)
      /\ \A h \in Home : /\ InTransaction(h)' \ {r} = InTransaction(h) \ {r}
                         /\ r \in InTransaction(h)' <=> Idle.pc = "insert" /\ Idle.where = h
  BY <1>1, <1>5, <1>6, RequestMoves
<1>8. UploadsTypeOK'
  BY <1>0, <1>1, <1>5 DEF UploadsTypeOK, ImageRec
<1>9. ASSUME NEW f \in File \ overlapped' PROVE FileRight(f)'
  <2>1. FileRight(f) /\ SlotsOf(f)' = SlotsOf(f)
    BY <1>1 DEF UploadsInv, SlotsOf
  <2>2. Holding(f)' \subseteq Holding(f) /\ r \notin Holding(f)'
    BY <1>7, IdleIsNoAsk DEF Handling
  <2>3. ImagesOf(f)' \subseteq ImagesOf(f)
    BY <1>4, <1>5 DEF ImagesOf
  <2>4. \A i \in Holding(f)' : request'[i].pc # "wait" => request[i].pc # "wait"
    BY <1>7, <2>2 DEF Holding
  <2> QED
    BY <1>1, <1>7, <2>1, <2>2, <2>3, <2>4, FileStays
<1>10. \A h \in Home \ overlapped' : HomeRight(h)'
  <2>1. CASE image[r] = Nothing
    <3> SUFFICES ASSUME NEW h \in Home \ overlapped PROVE HomeRight(h)'
      BY <1>1
    <3>1. HomeRight(h) /\ Primaries(h)' = Primaries(h)
      BY <1>5, <2>1 DEF UploadsInv, Primaries, Images
    <3>2. InTransaction(h)' \subseteq InTransaction(h) /\ r \notin InTransaction(h)'
      BY <1>7, IdleIsNoAsk
    <3>3. \A i \in InTransaction(h)' : request'[i] = request[i]
      BY <1>7, <3>2 DEF InTransaction
    <3> QED
      BY <3>1, <3>2, <3>3, HomeStays
  <2>2. CASE image[r] # Nothing
    <3>1. \A i \in Request \ {r} :
            /\ request'[i] = request[i]
            /\ image'[i] # Nothing =>
                 /\ image[i] # Nothing /\ image'[i].home = image[i].home
                 /\ image'[i].primary => image[i].primary
                 /\ image'[i].primary /\ request[r].primary => i \notin request[r].seen
      BY <1>3, <1>5, <1>7, <2>2
    <3>2. request[r].where = k /\ image'[r].home = k
      BY <1>4, <1>5, <2>2 DEF k
    <3> QED
      BY <1>1, <1>2, <1>7, <3>1, <3>2, CommitKeepsHomes
  <2> QED
    BY <2>1, <2>2
<1> QED
  BY <1>7, <1>8, <1>9, <1>10 DEF UploadsInv

LEMMA FillSlotKeeps ==
  ASSUME UploadsInv, NEW r \in Request, FillSlot(r)
  PROVE  UploadsInv'
PROOF
<1>0. AsksInv /\ UploadsTypeOK /\ AskOK(request[r], image[r])
  BY HoldersAre DEF UploadsInv
<1> DEFINE g == request[r].file
           k == request[r].where
<1>1. /\ request[r].pc = "fill"
      /\ shown' = [shown EXCEPT ![k] = g]
      /\ file' = [file EXCEPT ![g].status = "CONFIRMED"]
      /\ request' = [request EXCEPT ![r] = Idle]
      /\ UNCHANGED <<stored, old, image, doomed, sweep, overlapped>>
  BY DEF FillSlot
<1>2. g \in File /\ k \in Slot
  BY <1>0, <1>1, IdleIsNoAsk DEF AskOK
<1> HIDE DEF g, k
<1>3. AskOK(Idle, image'[r])
  BY DEF AskOK
<1>4. /\ AsksInv'
      /\ request'[r] = Idle /\ \A i \in Request \ {r} : request'[i] = request[i]
      /\ \A f \in File : /\ Holding(f)' \ {r} = Holding(f) \ {r}
                         /\ r \in Holding(f)' <=> Idle.pc \in Handling /\ Idle.file = f
                         /\ Sweeping(f)' <=> Sweeping(f)
      /\ \A h \in Home : /\ InTransaction(h)' \ {r} = InTransaction(h) \ {r}
                         /\ r \in InTransaction(h)' <=> Idle.pc = "insert" /\ Idle.where = h
  BY <1>1, <1>3, RequestMoves
<1>5. /\ UploadsTypeOK' /\ file'[g].status = "CONFIRMED"
      /\ \A f \in File \ {g} : file'[f] = file[f]
      /\ shown'[k] = g /\ \A s \in Slot \ {k} : shown'[s] = shown[s]
  BY <1>0, <1>1, <1>2 DEF UploadsTypeOK
<1>6. ASSUME NEW f \in File \ overlapped' PROVE FileRight(f)'
  <2>1. FileRight(f) /\ ImagesOf(f)' = ImagesOf(f)
    BY <1>1 DEF UploadsInv, ImagesOf
  <2>2. Holding(f)' \subseteq Holding(f) /\ r \notin Holding(f)'
    BY <1>4, IdleIsNoAsk DEF Handling
  <2>3. \A s \in SlotsOf(f)' \ {k} : s \in SlotsOf(f)
    BY <1>5 DEF SlotsOf
  <2>4. CASE f = g
    <3>1. r \in Holding(f)
      BY <1>1, <2>4 DEF Holding, g
    <3>2. /\ Holding(f) = {r} /\ file[f].status = "PENDING" /\ ~Sweeping(f)
          /\ f \in stored /\ f \notin doomed
      BY <1>1, <2>1, <3>1 DEF FileRight
    <3>3. ImagesOf(f) = {} /\ SlotsOf(f) = {}
      BY <2>1, <3>2 DEF FileRight
    <3>4. Holding(f)' = {} /\ SlotsOf(f)' \subseteq {k} /\ ImagesOf(f)' = {}
      BY <2>1, <2>2, <2>3, <3>2, <3>3
    <3> QED
      BY <1>1, <1>4, <1>5, <2>4, <3>2, <3>4 DEF FileRight
  <2>5. CASE f # g
    <3>1. k \notin SlotsOf(f)'
      BY <1>5, <2>5 DEF SlotsOf
    <3>2. \A i \in Holding(f)' : request'[i].pc # "wait" => request[i].pc # "wait"
      BY <1>4, <2>2 DEF Holding
    <3> QED
      BY <1>1, <1>4, <1>5, <2>1, <2>2, <2>3, <2>5, <3>1, <3>2, FileStays
  <2> QED
    BY <2>4, <2>5
<1>7. ASSUME NEW h \in Home \ overlapped' PROVE HomeRight(h)'
  <2>1. HomeRight(h) /\ Primaries(h)' = Primaries(h)
    BY <1>1 DEF UploadsInv, Primaries, Images
  <2>2. InTransaction(h)' \subseteq InTransaction(h) /\ r \notin InTransaction(h)'
    BY <1>4, IdleIsNoAsk
  <2>3. \A i \in InTransaction(h)' : request'[i] = request[i]
    BY <1>4, <2>2 DEF InTransaction
  <2> QED
    BY <2>1, <2>2, <2>3, HomeStays
<1> QED
  BY <1>4, <1>5, <1>6, <1>7 DEF UploadsInv

(* Images are unmarked and deleted.                                           *)
LEMMA ImageEditKeeps ==
  ASSUME UploadsInv, NEW i \in Request, Demote(i) \/ DeleteImage(i)
  PROVE  UploadsInv'
PROOF
<1>0. AsksInv /\ UploadsTypeOK
  BY DEF UploadsInv
<1> DEFINE g == image[i].file
<1>1. /\ image[i] # Nothing
      /\ UNCHANGED <<stored, old, shown, request, sweep, overlapped>>
      /\ \/ /\ image' = [image EXCEPT ![i].primary = FALSE]
            /\ UNCHANGED <<file, doomed>>
         \/ /\ image' = [image EXCEPT ![i] = Nothing]
            /\ file' = [file EXCEPT ![g].status = "DELETED"]
            /\ doomed' = doomed \union {g}
  BY DEF Demote, DeleteImage
<1>2. /\ image \in [Request -> ImageRec \union {Nothing}]
      /\ image[i] \in ImageRec /\ g \in File
  BY <1>0, <1>1 DEF UploadsTypeOK, ImageRec
<1> HIDE DEF g
<1>3. /\ image' \in [Request -> ImageRec \union {Nothing}]
      /\ \A j \in Request : image'[j] # Nothing =>
           /\ image[j] # Nothing /\ image'[j].home = image[j].home
           /\ image'[j].file = image[j].file
           /\ image'[j].primary => image[j].primary
  <2>1. CASE image' = [image EXCEPT ![i].primary = FALSE]
    <3> DEFINE rec == [image[i] EXCEPT !.primary = FALSE]
    <3>1. /\ rec \in ImageRec /\ rec.home = image[i].home
          /\ rec.file = image[i].file /\ rec.primary = FALSE
      BY <1>2 DEF ImageRec
    <3>2. image' = [image EXCEPT ![i] = rec]
      BY <2>1
    <3> HIDE DEF rec
    <3>3. image'[i] = rec /\ \A j \in Request \ {i} : image'[j] = image[j]
      BY <1>2, <3>2
    <3> QED
      BY <1>1, <1>2, <3>1, <3>2, <3>3
  <2>2. CASE image' = [image EXCEPT ![i] = Nothing]
    BY <1>2, <2>2
  <2> QED
    BY <1>1, <2>1, <2>2
<1>4. AsksInv'
  <2>1. ASSUME NEW r \in Request PROVE AskOK(request[r], image'[r])
    BY <1>0, <1>3 DEF AsksInv, AskOK
  <2> QED
    BY <1>0, <1>1, <2>1 DEF AsksInv
<1>5. UploadsTypeOK'
  BY <1>0, <1>1, <1>2, <1>3 DEF UploadsTypeOK, ImageRec
<1>6. ASSUME NEW f \in File \ overlapped' PROVE FileRight(f)'
  <2>1. FileRight(f)
    BY <1>1 DEF UploadsInv
  <2>2. /\ Holding(f)' = Holding(f) /\ SlotsOf(f)' = SlotsOf(f)
        /\ ImagesOf(f)' \subseteq ImagesOf(f) /\ Sweeping(f)' = Sweeping(f)
    BY <1>1, <1>3 DEF Holding, SlotsOf, ImagesOf, Sweeping
  <2>3. \A r \in Holding(f)' : request'[r].pc # "wait" => request[r].pc # "wait"
    BY <1>1
  <2>4. CASE file' = file /\ doomed' = doomed
    BY <1>1, <2>1, <2>2, <2>3, <2>4, FileStays
  <2>5. CASE /\ image' = [image EXCEPT ![i] = Nothing]
             /\ file' = [file EXCEPT ![g].status = "DELETED"]
             /\ doomed' = doomed \union {g}
    <3>1. file'[g].status = "DELETED" /\ \A e \in File \ {g} : file'[e] = file[e]
      BY <1>0, <1>2, <2>5 DEF UploadsTypeOK
    <3>2. CASE f = g
      <4>1. i \in ImagesOf(f) /\ i \notin ImagesOf(f)'
        BY <1>1, <1>2, <2>5, <3>2 DEF ImagesOf, g
      <4>2. /\ ImagesOf(f)' = {} /\ SlotsOf(f)' = {}
            /\ file[f].status = "CONFIRMED"
        BY <2>1, <2>2, <4>1 DEF FileRight
      <4>3. Holding(f)' = {} /\ ~Sweeping(f)'
        BY <2>1, <2>2, <4>2 DEF FileRight
      <4> QED
        BY <3>1, <3>2, <4>2, <4>3 DEF FileRight
    <3>3. CASE f # g
      BY <1>1, <2>1, <2>2, <2>3, <2>5, <3>1, <3>3, FileStays
    <3> QED
      BY <3>2, <3>3
  <2> QED
    BY <1>1, <2>4, <2>5
<1>7. ASSUME NEW h \in Home \ overlapped' PROVE HomeRight(h)'
  <2>1. HomeRight(h)
    BY <1>1 DEF UploadsInv
  <2>2. /\ Primaries(h)' \subseteq Primaries(h)
        /\ InTransaction(h)' = InTransaction(h)
    BY <1>1, <1>3 DEF Primaries, Images, InTransaction
  <2> QED
    BY <1>1, <2>1, <2>2, HomeStays
<1> QED
  BY <1>4, <1>5, <1>6, <1>7 DEF UploadsInv

LEMMA UploadsInvHolds == UploadsSpec => []UploadsInv
PROOF
<1>1. UploadsInit => UploadsInv
  <2> SUFFICES ASSUME UploadsInit PROVE UploadsInv
    OBVIOUS
  <2> USE DEF UploadsInit
  <2>1. UploadsTypeOK
    BY DEF UploadsTypeOK
  <2>2. SweepOK(sweep)
    BY NothingIsNoFile DEF SweepOK, NoSweep
  <2>3. AsksInv
    BY <2>2 DEF AsksInv, AskOK
  <2>4. ASSUME NEW f \in File PROVE FileRight(f)
    <3>1. Holding(f) = {} /\ ~Sweeping(f)
      BY NothingIsNoFile, IdleIsNoAsk DEF Holding, Sweeping, NoSweep
    <3>2. ImagesOf(f) = {} /\ SlotsOf(f) = {}
      BY NothingIsNoFile DEF ImagesOf, SlotsOf
    <3> QED
      BY <3>1, <3>2 DEF FileRight
  <2>5. ASSUME NEW h \in Home PROVE HomeRight(h)
    <3>1. InTransaction(h) = {} /\ Primaries(h) = {}
      BY IdleIsNoAsk DEF InTransaction, Primaries, Images
    <3> QED
      BY <3>1 DEF HomeRight
  <2> QED
    BY <2>1, <2>3, <2>4, <2>5 DEF UploadsInv
<1>2. UploadsInv /\ [UploadsNext]_uploadVars => UploadsInv'
  <2> SUFFICES ASSUME UploadsInv, [UploadsNext]_uploadVars PROVE UploadsInv'
    OBVIOUS
  <2>1. ASSUME NEW f \in File, \/ Upload(f) \/ Grow(f) \/ ObjectDeleted(f)
                               \/ SweepObject(f) \/ SweepRow(f) \/ SweepFails(f)
                               \/ \E u \in Uploader : Presign(f, u)
        PROVE  UploadsInv'
    BY <2>1, UploadKeeps, ObjectDeletedKeeps, SweepObjectKeeps, SweepRowKeeps,
       SweepFailsKeeps, PresignKeeps
  <2>2. ASSUME NEW f \in File, NEW r \in Request, NEW w \in Home \union Slot,
               NEW p \in BOOLEAN, Resolve(r, f, w, p)
        PROVE  UploadsInv'
    BY <2>2, ResolveKeeps
  <2>3. ASSUME NEW r \in Request,
               \/ Found(r) \/ NotFound(r) \/ Begin(r) \/ ConfirmImage(r) \/ FillSlot(r)
               \/ Promote(r) \/ PromoteCommit(r) \/ Demote(r) \/ DeleteImage(r)
        PROVE  UploadsInv'
    BY <2>3, FoundKeeps, BeginKeeps, ConfirmImageKeeps, FillSlotKeeps,
       PromoteCommitKeeps, ImageEditKeeps
  <2>4. CASE UNCHANGED uploadVars
    <3>1. UNCHANGED <<file, stored, old, image, shown, request, doomed, sweep, overlapped>>
      BY <2>4 DEF uploadVars
    <3>2. UploadsTypeOK' /\ AsksInv'
      BY <3>1 DEF UploadsInv, UploadsTypeOK, AsksInv
    <3>3. ASSUME NEW f \in File \ overlapped' PROVE FileRight(f)'
      <4>1. FileRight(f)
        BY <3>1 DEF UploadsInv
      <4>2. /\ Holding(f)' = Holding(f) /\ ImagesOf(f)' = ImagesOf(f)
            /\ SlotsOf(f)' = SlotsOf(f) /\ Sweeping(f)' = Sweeping(f)
        BY <3>1 DEF Holding, ImagesOf, SlotsOf, Sweeping
      <4> QED
        BY <3>1, <4>1, <4>2 DEF FileRight
    <3> QED
      BY <3>1, <3>2, <3>3, HoldersStay DEF UploadsInv
  <2>5. CASE Sweep
    BY <2>5, SweepKeeps
  <2> QED
    BY <2>1, <2>2, <2>3, <2>4, <2>5 DEF UploadsNext
<1> QED
  BY <1>1, <1>2, PTL DEF UploadsSpec

(* Whatever files, homes and requests there are: a file that no two handlers   *)
(* held at once, and that is shown, is confirmed, in storage and shown once;    *)
(* and a home that no two transactions changed at once has one first image.    *)
THEOREM ShownFilesAreRight == UploadsSpec => []ShownRight
PROOF
<1>1. UploadsInv => ShownRight
  <2> SUFFICES ASSUME UploadsInv PROVE ShownRight
    OBVIOUS
  <2>1. ASSUME NEW f \in File \ overlapped, Shown(f)
        PROVE  /\ file[f].status = "CONFIRMED" /\ f \in stored
               /\ Cardinality({i \in Request : image[i] # Nothing /\ image[i].file = f})
                    + Cardinality({s \in Slot : shown[s] = f}) = 1
    <3>1. FileRight(f)
      BY DEF UploadsInv
    <3>2. ImagesOf(f) # {} \/ SlotsOf(f) # {}
      BY <2>1 DEF Shown, ImagesOf, SlotsOf
    <3>3. IsFiniteSet(ImagesOf(f)) /\ IsFiniteSet(SlotsOf(f))
      BY UploadsAreFinite, FS_Subset DEF ImagesOf, SlotsOf
    <3>4. /\ Cardinality(ImagesOf(f)) \in Nat /\ Cardinality(SlotsOf(f)) \in Nat
          /\ Cardinality(ImagesOf(f)) = 0 <=> ImagesOf(f) = {}
          /\ Cardinality(SlotsOf(f)) = 0 <=> SlotsOf(f) = {}
      BY <3>3, SmallSets
    <3>5. Cardinality(ImagesOf(f)) <= 1 /\ Cardinality(SlotsOf(f)) <= 1
      BY <3>1, <3>3, SmallSets DEF FileRight
    <3>6. ImagesOf(f) = {} \/ SlotsOf(f) = {}
      BY <3>1 DEF FileRight
    <3>7. Cardinality(ImagesOf(f)) + Cardinality(SlotsOf(f)) = 1
      BY <3>2, <3>4, <3>5, <3>6
    <3> QED
      BY <3>1, <3>2, <3>7 DEF FileRight, ImagesOf, SlotsOf
  <2>2. ASSUME NEW h \in Home \ overlapped
        PROVE  Cardinality({i \in Images(h) : image[i].primary}) <= 1
    <3>1. \A i, j \in Primaries(h) : i = j
      BY DEF UploadsInv, HomeRight
    <3>2. IsFiniteSet(Primaries(h))
      BY UploadsAreFinite, FS_Subset DEF Primaries, Images
    <3>3. Cardinality(Primaries(h)) <= 1
      BY <3>1, <3>2, SmallSets
    <3> QED
      BY <3>3 DEF Primaries
  <2> QED
    BY <2>1, <2>2 DEF ShownRight, ShownFileIsThere, OnePrimary
<1> QED
  BY <1>1, UploadsInvHolds, PTL

-----------------------------------------------------------------------------
(* Notifications.                                                            *)
SendRec == [pc : {"none", "ask", "create", "count", "emit"}, count : 0..Cardinality(Notice)]

NoticesAreOf ==
  /\ NoticesTypeOK
  /\ raised \subseteq Event
  /\ listed \in [Event -> SUBSET User]
  /\ promos \in [User -> BOOLEAN]
  /\ willing \in [Event -> SUBSET User] /\ reluctant \in [Event -> SUBSET User]

(* Whoever is not unsure has one notice under way at most, and none while all  *)
(* are cleared; what is to be emitted, or was, is the number of unread ones.   *)
BadgeRight(u) ==
  /\ \A n, m \in Waiting(u) : n = m
  /\ u \in clearing => Waiting(u) = {} /\ Cleared(u) = {}
  /\ \A n \in Waiting(u) : send[n].pc = "emit" => send[n].count = Cardinality(Cleared(u))
  /\ Waiting(u) = {} /\ u \notin clearing => badge[u] = Cardinality(Cleared(u))

(* What has become of one notice: nothing before its event, or if the event is   *)
(* not for that person; and if it is, the person is still to be reached, or it is *)
(* on its way, there, left out by a failure, or a promotion that was not wanted.  *)
Untold(n) == note[n] = "ABSENT" /\ send[n].pc = "none" /\ n \notin missed
Declined(n) == kindOf[n[1]] = "promotion" /\ n[2] \in reluctant[n[1]]
NoticeRight(n) ==
  /\ n[1] \notin raised => Untold(n) /\ n \notin ToReach(n[1])
  /\ n \notin Told(n[1]) => Untold(n)
  /\ n[1] \in raised /\ n \in Told(n[1]) /\ Untold(n) => n \in ToReach(n[1]) \/ Declined(n)
  /\ n \in ToReach(n[1]) => Untold(n) /\ n \in Told(n[1])
  /\ n \in missed => note[n] = "ABSENT" /\ send[n].pc = "none"
  /\ send[n].pc \in {"ask", "create"} => note[n] = "ABSENT"
  /\ send[n].pc \in {"count", "emit"} => note[n] # "ABSENT"
  /\ kindOf[n[1]] = "promotion" /\ (note[n] # "ABSENT" \/ send[n].pc \in {"create", "count", "emit"})
       => n[2] \in willing[n[1]]

ToldRight ==
  /\ \A n \in Notice : NoticeRight(n)
  /\ \A e \in raised \intersect Broadcasts : \A u \in User :
       u \in IF promos[u] THEN willing[e] ELSE reluctant[e]

NoticesInv ==
  /\ NoticesAreOf
  /\ \A u \in User \ unsure : BadgeRight(u)
  /\ ToldRight

LEMMA NoticesFinite == IsFiniteSet(Notice) /\ Cardinality(Notice) \in Nat
PROOF
<1>1. IsFiniteSet(Capacity)
  BY NoticesAreFinite, FS_AddElement DEF Capacity
<1>2. IsFiniteSet((Event \X User) \X Capacity)
  BY <1>1, NoticesAreFinite, FS_Product
<1> DEFINE f == [p \in (Event \X User) \X Capacity |-> <<p[1][1], p[1][2], p[2]>>]
<1>3. f \in Surjection((Event \X User) \X Capacity, Notice)
  <2>1. f \in [(Event \X User) \X Capacity -> Notice]
    BY DEF Notice
  <2>2. ASSUME NEW n \in Notice
        PROVE  \E p \in (Event \X User) \X Capacity : f[p] = n
    <3>1. n[1] \in Event /\ n[2] \in User /\ n[3] \in Capacity /\ n = <<n[1], n[2], n[3]>>
      BY DEF Notice
    <3>2. <<<<n[1], n[2]>>, n[3]>> \in (Event \X User) \X Capacity
      BY <3>1
    <3>3. f[<<<<n[1], n[2]>>, n[3]>>] = n
      BY <3>1, <3>2
    <3> QED
      BY <3>2, <3>3
  <2> HIDE DEF f
  <2> QED
    BY <2>1, <2>2 DEF Surjection
<1> QED
  BY <1>2, <1>3, FS_Surjection, FS_CardinalityType

LEMMA NoticesAre ==
  ASSUME NEW n \in Notice
  PROVE  n[1] \in Event /\ n[2] \in User /\ \A u \in User : n \in Of(u) <=> n[2] = u
PROOF
BY DEF Notice, Of

LEMMA ReachIs ==
  ASSUME NEW n \in Notice
  PROVE  n \in ToReach(n[1]) <=> n[2] \in queue[n[1]] /\ n[3] = "PERSON"
PROOF
BY DEF ToReach, Notice

LEMMA TellsAre ==
  ASSUME NEW e \in Event
  PROVE  /\ kindOf[e] = "promotion" => e \in Broadcasts
         /\ \A u \in User : <<e, u, "PERSON">> \in Notice
         /\ e \in Broadcasts => Told(e) = {<<e, u, "PERSON">> : u \in listed[e]}
         /\ listed[e] \subseteq User => \A n \in Told(e) : n \in Notice /\ n[1] = e
         /\ listed'[e] = listed[e] => Told(e)' = Told(e)
PROOF
<1>1. /\ kindOf[e] = "promotion" => e \in Broadcasts
      /\ \A u \in User : <<e, u, "PERSON">> \in Notice
      /\ e \in Broadcasts => Told(e) = {<<e, u, "PERSON">> : u \in listed[e]}
  BY DEF Broadcasts, Notice, Capacity, Told
<1>2. ASSUME listed[e] \subseteq User, NEW n \in Told(e)
      PROVE  n \in Notice /\ n[1] = e
  <2>1. CASE e \in Broadcasts
    BY <1>1, <1>2, <2>1
  <2>2. CASE e \notin Broadcasts /\ kindOf[e] = "person"
    BY <1>1, <1>2, <2>2, PersonIsUser DEF Told
  <2>3. CASE e \notin Broadcasts /\ kindOf[e] # "person"
    <3>1. n \in {e} \X User \X RolesOf(e)
      BY <1>2, <2>3 DEF Told
    <3>2. RolesOf(e) \subseteq Capacity
      BY RolesAssumption DEF RolesOf, Capacity
    <3> QED
      BY <3>1, <3>2 DEF Notice
  <2> QED
    BY <2>1, <2>2, <2>3
<1>3. listed'[e] = listed[e] => Told(e)' = Told(e)
  BY DEF Told, Broadcasts, RolesOf
<1> QED
  BY <1>1, <1>2, <1>3

(* A notice that a step does not touch stays right.                            *)
LEMMA FateStays ==
  ASSUME NEW n \in Notice, NoticeRight(n),
         note'[n] = "ABSENT" <=> note[n] = "ABSENT", send'[n].pc = send[n].pc,
         n \in missed' <=> n \in missed, n[1] \in raised' <=> n[1] \in raised,
         listed'[n[1]] = listed[n[1]], n[2] \in queue'[n[1]] <=> n[2] \in queue[n[1]],
         willing[n[1]] \subseteq willing'[n[1]], reluctant[n[1]] \subseteq reluctant'[n[1]]
  PROVE  NoticeRight(n)'
PROOF
<1>1. Told(n[1])' = Told(n[1])
  BY TellsAre, NoticesAre
<1>2. (n \in ToReach(n[1]))' <=> n \in ToReach(n[1])
  BY DEF ToReach, Notice
<1>3. Untold(n)' <=> Untold(n)
  BY DEF Untold
<1> QED
  BY <1>1, <1>2, <1>3 DEF NoticeRight, Declined

(* A step of one notice leaves all others right.                               *)
LEMMA OneStepKeepsTold ==
  ASSUME ToldRight, NEW n \in Notice, NoticeRight(n)',
         \A m \in Notice \ {n} : /\ send'[m] = send[m] /\ note'[m] = note[m]
                                 /\ m[2] \in queue'[m[1]] <=> m[2] \in queue[m[1]],
         UNCHANGED <<missed, telling, promos>>
  PROVE  ToldRight'
PROOF
<1>1. UNCHANGED <<raised, listed, willing, reluctant, missed, promos>>
  BY DEF telling
<1>2. ASSUME NEW m \in Notice \ {n}
      PROVE  NoticeRight(m)'
  <2>1. /\ NoticeRight(m) /\ send'[m] = send[m] /\ note'[m] = note[m]
        /\ m[2] \in queue'[m[1]] <=> m[2] \in queue[m[1]]
    BY DEF ToldRight
  <2> QED
    BY <1>1, <2>1, FateStays
<1> QED
  BY <1>1, <1>2 DEF ToldRight

LEMMA UnreadIs ==
  ASSUME NEW u \in User
  PROVE  /\ Unread(u) = Cardinality(Cleared(u))
         /\ Cardinality(Cleared(u)) \in 0..Cardinality(Notice)
         /\ Cleared(u) = {} => Cardinality(Cleared(u)) = 0
PROOF
<1>1. Unread(u) = Cardinality(Cleared(u))
  BY DEF Unread, Cleared
<1>2. Cleared(u) \subseteq Notice
  BY DEF Cleared, Of
<1>3. /\ Cardinality(Cleared(u)) \in Nat
      /\ Cardinality(Cleared(u)) <= Cardinality(Notice)
  BY <1>2, NoticesFinite, FS_Subset, FS_CardinalityType
<1> QED
  BY <1>1, <1>3, NoticesFinite, FS_EmptySet

LEMMA BadgeStays ==
  ASSUME NEW u \in User, BadgeRight(u),
         Waiting(u)' = Waiting(u), \A n \in Waiting(u) : send'[n] = send[n],
         Cleared(u)' = Cleared(u), u \in clearing' <=> u \in clearing, badge'[u] = badge[u]
  PROVE  BadgeRight(u)'
PROOF
BY DEF BadgeRight

(* A step of one notice, or of its sending, is none of another person.         *)
LEMMA OthersUntouched ==
  ASSUME NEW n \in Notice, NEW u \in User,
         \A m \in Notice \ {n} : send'[m] = send[m] /\ note'[m] = note[m]
  PROVE  /\ n[2] # u => /\ Waiting(u)' = Waiting(u) /\ Cleared(u)' = Cleared(u)
                        /\ \A m \in Waiting(u) : send'[m] = send[m]
         /\ Waiting(u)' \ {n} = Waiting(u) \ {n}
         /\ \A m \in Waiting(u) \ {n} : send'[m] = send[m]
         /\ n[2] = u => (n \in Waiting(u)' <=> send'[n].pc \in {"count", "emit"})
         /\ note'[n] = note[n] => Cleared(u)' = Cleared(u)
PROOF
<1>1. Of(u) \subseteq Notice /\ (n \in Of(u) <=> n[2] = u)
  BY DEF Of
<1>2. ASSUME n[2] # u
      PROVE  /\ Waiting(u)' = Waiting(u) /\ Cleared(u)' = Cleared(u)
             /\ \A m \in Waiting(u) : send'[m] = send[m]
  BY <1>1, <1>2 DEF Waiting, Cleared
<1>3. /\ Waiting(u)' \ {n} = Waiting(u) \ {n}
      /\ \A m \in Waiting(u) \ {n} : send'[m] = send[m]
      /\ n[2] = u => (n \in Waiting(u)' <=> send'[n].pc \in {"count", "emit"})
  BY <1>1 DEF Waiting
<1>4. note'[n] = note[n] => Cleared(u)' = Cleared(u)
  BY <1>1 DEF Cleared
<1> QED
  BY <1>2, <1>3, <1>4

(* Steps in which nothing is created, counted, read or emitted.                *)
LEMMA BadgesStay ==
  ASSUME NoticesInv, UNCHANGED <<note, badge, clearing>>, unsure \subseteq unsure',
         \A n \in Notice : \/ send'[n] = send[n]
                           \/ /\ send[n].pc \notin {"count", "emit"}
                              /\ send'[n].pc \notin {"count", "emit"}
  PROVE  \A u \in User \ unsure' : BadgeRight(u)'
PROOF
<1> SUFFICES ASSUME NEW u \in User \ unsure' PROVE BadgeRight(u)'
  OBVIOUS
<1>1. BadgeRight(u)
  BY DEF NoticesInv
<1>2. /\ Waiting(u)' = Waiting(u) /\ Cleared(u)' = Cleared(u)
      /\ \A n \in Waiting(u) : send'[n] = send[n]
  BY DEF Waiting, Cleared, Of
<1> QED
  BY <1>1, <1>2, BadgeStays

LEMMA NotifyKeeps ==
  ASSUME NoticesInv, NEW e \in Event, Notify(e)
  PROVE  NoticesInv'
PROOF
<1>1. /\ e \notin raised /\ e \notin Broadcasts /\ raised' = raised \union {e}
      /\ send' = [n \in Notice |-> IF n \in Told(e) THEN [NotSent EXCEPT !.pc = "ask"]
                                                    ELSE send[n]]
      /\ UNCHANGED <<note, listed, queue, promos, badge, clearing, missed, unsure, willing,
                     reluctant>>
  BY DEF Notify, preferences
<1>2. [NotSent EXCEPT !.pc = "ask"] \in SendRec /\ [NotSent EXCEPT !.pc = "ask"].pc = "ask"
  BY NoticesFinite DEF NotSent, SendRec
<1>3. NoticesAreOf'
  BY <1>1, <1>2 DEF NoticesInv, NoticesAreOf, NoticesTypeOK, SendRec
<1>4. /\ \A n \in Told(e) : n \in Notice /\ n[1] = e
      /\ Told(e)' = Told(e) /\ kindOf[e] # "promotion"
  BY <1>1, TellsAre DEF NoticesInv, NoticesAreOf
<1>5. \A n \in Notice : /\ n \in Told(e) => send'[n].pc = "ask" /\ n[1] = e
                        /\ n \notin Told(e) => send'[n] = send[n]
                        /\ NoticeRight(n)
                        /\ n[1] = e => Untold(n) /\ n \notin ToReach(e)
  BY <1>1, <1>2, <1>4 DEF NoticesInv, ToldRight, NoticeRight
<1>6. \A u \in User \ unsure' : BadgeRight(u)'
  BY <1>1, <1>5, BadgesStay DEF Untold
<1>7. ASSUME NEW n \in Notice
      PROVE  NoticeRight(n)'
  <2>1. CASE n[1] # e
    BY <1>1, <1>4, <1>5, <2>1, FateStays
  <2>2. CASE n \in Told(e)
    <3>1. n \notin ToReach(e)'
      BY <1>1, <1>5, <2>2 DEF ToReach
    <3>2. send'[n].pc = "ask" /\ note'[n] = "ABSENT" /\ n \notin missed'
      BY <1>1, <1>5, <2>2 DEF Untold
    <3> QED
      BY <1>1, <1>4, <1>5, <2>2, <3>1, <3>2 DEF NoticeRight, Untold
  <2>3. CASE n[1] = e /\ n \notin Told(e)
    <3>1. n \notin ToReach(e)'
      BY <1>1, <1>5, <2>3 DEF ToReach
    <3>2. Untold(n)'
      BY <1>1, <1>5, <2>3 DEF Untold
    <3>3. send'[n].pc = "none" /\ note'[n] = "ABSENT" /\ n \notin missed'
      BY <3>2 DEF Untold
    <3> QED
      BY <1>1, <1>4, <2>3, <3>1, <3>2, <3>3 DEF NoticeRight
  <2> QED
    BY <2>1, <2>2, <2>3
<1>8. ToldRight'
  BY <1>1, <1>7 DEF NoticesInv, ToldRight, Broadcasts
<1> QED
  BY <1>3, <1>6, <1>8 DEF NoticesInv

LEMMA BroadcastKeeps ==
  ASSUME NoticesInv, NEW e \in Event, NEW people \in SUBSET User, Broadcast(e, people)
  PROVE  NoticesInv'
PROOF
<1>1. /\ e \in Broadcasts /\ e \notin raised /\ raised' = raised \union {e}
      /\ listed' = [listed EXCEPT ![e] = people] /\ queue' = [queue EXCEPT ![e] = people]
      /\ willing' = [willing EXCEPT ![e] = {u \in User : promos[u]}]
      /\ reluctant' = [reluctant EXCEPT ![e] = {u \in User : ~promos[u]}]
      /\ UNCHANGED <<note, send, promos, badge, clearing, missed, unsure>>
  BY DEF Broadcast, preferences
<1>2. /\ listed'[e] = people /\ queue'[e] = people
      /\ willing'[e] = {u \in User : promos[u]} /\ reluctant'[e] = {u \in User : ~promos[u]}
      /\ \A d \in Event \ {e} : /\ listed'[d] = listed[d] /\ queue'[d] = queue[d]
                                /\ willing'[d] = willing[d] /\ reluctant'[d] = reluctant[d]
      /\ NoticesAreOf'
  BY <1>1 DEF NoticesInv, NoticesAreOf, NoticesTypeOK
<1>3. \A u \in User \ unsure' : BadgeRight(u)'
  BY <1>1, BadgesStay
<1>4. ASSUME NEW n \in Notice
      PROVE  NoticeRight(n)'
  <2>1. NoticeRight(n)
    BY DEF NoticesInv, ToldRight
  <2>2. CASE n[1] # e
    BY <1>1, <1>2, <2>1, <2>2, FateStays, NoticesAre
  <2>3. CASE n[1] = e
    <3>1. Told(e)' = {<<e, u, "PERSON">> : u \in people} /\ ToReach(e)' = Told(e)'
      BY <1>1, <1>2 DEF Told, ToReach, Broadcasts
    <3>2. Untold(n)
      BY <1>1, <2>1, <2>3 DEF NoticeRight
    <3>3. Untold(n)' /\ send'[n].pc = "none" /\ note'[n] = "ABSENT" /\ n \notin missed'
      BY <1>1, <3>2 DEF Untold
    <3> QED
      BY <1>1, <2>3, <3>1, <3>3 DEF NoticeRight
  <2> QED
    BY <2>2, <2>3
<1>5. ASSUME NEW d \in raised' \intersect Broadcasts, NEW u \in User
      PROVE  u \in IF promos'[u] THEN willing'[d] ELSE reluctant'[d]
  <2>1. CASE d = e
    BY <1>1, <1>2, <2>1
  <2>2. CASE d # e
    BY <1>1, <1>2, <2>2 DEF NoticesInv, ToldRight, Broadcasts
  <2> QED
    BY <2>1, <2>2
<1>6. ToldRight'
  BY <1>4, <1>5 DEF ToldRight, Broadcasts
<1> QED
  BY <1>2, <1>3, <1>6 DEF NoticesInv

LEMMA SendsAre ==
  ASSUME NoticesInv, NEW n \in Notice
  PROVE  /\ send[n] \in SendRec
         /\ send[n].pc # "none" => n[1] \in raised /\ n \in Told(n[1]) /\ n \notin missed
                                   /\ ~(n[2] \in queue[n[1]] /\ n[3] = "PERSON")
         /\ \A p \in {"none", "ask", "create", "count", "emit"} :
              [send[n] EXCEPT !.pc = p] \in SendRec /\ [send[n] EXCEPT !.pc = p].pc = p
         /\ NotSent \in SendRec /\ NotSent.pc = "none"
PROOF
<1>1. send[n] \in SendRec
  BY DEF NoticesInv, NoticesAreOf, NoticesTypeOK, SendRec
<1>2. send[n].pc # "none" => /\ n[1] \in raised /\ n \in Told(n[1]) /\ n \notin missed
                             /\ ~(n[2] \in queue[n[1]] /\ n[3] = "PERSON")
  BY ReachIs DEF NoticesInv, ToldRight, NoticeRight, Untold
<1>3. NotSent \in SendRec /\ NotSent.pc = "none"
  BY NoticesFinite DEF NotSent, SendRec
<1> QED
  BY <1>1, <1>2, <1>3 DEF SendRec

(* A notice under way that moves on stays right: it is created once, after who   *)
(* does not want it has been asked.                                            *)
LEMMA SendMovesOn ==
  ASSUME NoticesInv, NEW n \in Notice, send[n].pc # "none",
         note'[n] = "ABSENT" <=> note[n] = "ABSENT" /\ send[n].pc # "create",
         \/ send[n].pc = "ask" /\ send'[n].pc = (IF Refuses(n[1], n[2]) THEN "none" ELSE "create")
         \/ send[n].pc = "create" /\ send'[n].pc = "count"
         \/ send[n].pc \in {"count", "emit"} /\ send'[n].pc \in {"emit", "none"},
         UNCHANGED <<queue, missed, telling, promos>>
  PROVE  NoticeRight(n)'
PROOF
<1>1. /\ n[1] \in raised /\ n \in Told(n[1]) /\ n \notin missed /\ n \notin ToReach(n[1])
      /\ NoticeRight(n) /\ n[1] \in Event /\ n[2] \in User
  BY SendsAre, ReachIs, NoticesAre DEF NoticesInv, ToldRight
<1>2. /\ Told(n[1])' = Told(n[1]) /\ ToReach(n[1])' = ToReach(n[1])
      /\ UNCHANGED <<raised, willing, reluctant>>
  BY <1>1, TellsAre DEF ToReach, telling
<1>3. kindOf[n[1]] = "promotion" => n[2] \in IF promos[n[2]] THEN willing[n[1]] ELSE reluctant[n[1]]
  BY <1>1, TellsAre DEF NoticesInv, ToldRight
<1>4. CASE send[n].pc = "ask"
  BY <1>1, <1>2, <1>3, <1>4 DEF NoticeRight, Untold, Declined, Refuses
<1>5. CASE send[n].pc = "create"
  BY <1>1, <1>2, <1>5 DEF NoticeRight, Untold
<1>6. CASE send[n].pc \in {"count", "emit"}
  BY <1>1, <1>2, <1>6 DEF NoticeRight, Untold
<1> QED
  BY <1>4, <1>5, <1>6

LEMMA BroadcastNextKeeps ==
  ASSUME NoticesInv, NEW e \in Event, NEW u \in User, BroadcastNext(e, u)
  PROVE  NoticesInv'
PROOF
<1> DEFINE n == <<e, u, "PERSON">>
           s == [send[n] EXCEPT !.pc = "ask"]
<1>1. n \in Notice /\ n[1] = e /\ n[2] = u /\ n[3] = "PERSON"
  BY TellsAre
<1>2. \A m \in Notice \ {n} : m[1] = e /\ m[2] = u => m[3] # "PERSON"
  BY DEF Notice
<1> HIDE DEF n
<1>3. /\ u \in queue[e] /\ send[n].pc = "none"
      /\ queue' = [queue EXCEPT ![e] = queue[e] \ {u}]
      /\ send' = [send EXCEPT ![n] = s]
      /\ UNCHANGED <<note, listed, raised, promos, badge, clearing, missed, unsure, willing,
                     reluctant>>
  BY <1>1 DEF BroadcastNext, Remaining, Resting, n, telling, preferences
<1>4. s \in SendRec /\ s.pc = "ask"
  BY <1>1, SendsAre
<1> HIDE DEF s
<1>5. /\ queue'[e] = queue[e] \ {u} /\ \A d \in Event \ {e} : queue'[d] = queue[d]
      /\ send'[n] = s /\ \A m \in Notice \ {n} : send'[m] = send[m]
      /\ NoticesAreOf'
  BY <1>1, <1>3, <1>4 DEF NoticesInv, NoticesAreOf, NoticesTypeOK, SendRec
<1>6. \A v \in User \ unsure' : BadgeRight(v)'
  BY <1>3, <1>4, <1>5, BadgesStay
<1>7. NoticeRight(n) /\ n \in ToReach(n[1])
  BY <1>1, <1>3, ReachIs DEF NoticesInv, ToldRight
<1>8. Untold(n) /\ n \in Told(e) /\ e \in raised
  BY <1>1, <1>7 DEF NoticeRight
<1>9. n \notin ToReach(e)' /\ Told(e)' = Told(e)
  BY <1>1, <1>3, <1>5, TellsAre DEF ToReach, n
<1>10. NoticeRight(n)'
  BY <1>1, <1>3, <1>4, <1>5, <1>8, <1>9 DEF NoticeRight, Untold
<1>11. ASSUME NEW m \in Notice
       PROVE  NoticeRight(m)'
  <2>1. CASE m = n
    BY <1>10, <2>1
  <2>2. CASE m # n /\ ~(m[1] = e /\ m[2] = u)
    <3>1. NoticeRight(m) /\ m[1] \in Event
      BY NoticesAre DEF NoticesInv, ToldRight
    <3>2. m[2] \in queue'[m[1]] <=> m[2] \in queue[m[1]]
      BY <1>5, <2>2, <3>1
    <3> QED
      BY <1>3, <1>5, <2>2, <3>1, <3>2, FateStays
  <2>3. CASE m # n /\ m[1] = e /\ m[2] = u
    <3>1. NoticeRight(m) /\ m[3] # "PERSON"
      BY <1>2, <2>3 DEF NoticesInv, ToldRight
    <3>2. m \notin ToReach(e) /\ m \notin ToReach(e)'
      BY <2>3, <3>1 DEF ToReach
    <3>3. Untold(m)' <=> Untold(m)
      BY <1>3, <1>5, <2>3 DEF Untold
    <3> QED
      BY <1>3, <1>5, <1>9, <2>3, <3>1, <3>2, <3>3 DEF NoticeRight, Declined
  <2> QED
    BY <2>1, <2>2, <2>3
<1>12. ToldRight'
  BY <1>3, <1>11 DEF NoticesInv, ToldRight
<1> QED
  BY <1>5, <1>6, <1>12 DEF NoticesInv

LEMMA AskPreferencesKeeps ==
  ASSUME NoticesInv, NEW n \in Notice, AskPreferences(n)
  PROVE  NoticesInv'
PROOF
<1> DEFINE p == IF Refuses(n[1], n[2]) THEN "none" ELSE "create"
           s == [send[n] EXCEPT !.pc = p]
<1>1. /\ send[n].pc = "ask" /\ send' = [send EXCEPT ![n] = s]
      /\ UNCHANGED <<note, queue, badge, clearing, missed, unsure, telling, promos>>
  BY DEF AskPreferences, preferences
<1>2. p \in {"none", "create"}
  OBVIOUS
<1>3. s \in SendRec /\ s.pc = p
  BY <1>2, SendsAre
<1> HIDE DEF s
<1>4. /\ send'[n] = s /\ \A m \in Notice \ {n} : send'[m] = send[m]
      /\ NoticesAreOf'
  BY <1>1, <1>3 DEF NoticesInv, NoticesAreOf, NoticesTypeOK, SendRec, telling
<1>5. \A u \in User \ unsure' : BadgeRight(u)'
  BY <1>1, <1>2, <1>3, <1>4, BadgesStay
<1>6. NoticeRight(n)'
  BY <1>1, <1>3, <1>4, SendMovesOn
<1>7. ToldRight'
  BY <1>1, <1>4, <1>6, OneStepKeepsTold DEF NoticesInv
<1> QED
  BY <1>4, <1>5, <1>7 DEF NoticesInv

LEMMA CreateKeeps ==
  ASSUME NoticesInv, NEW n \in Notice, Create(n)
  PROVE  NoticesInv'
PROOF
<1> DEFINE s == [send[n] EXCEPT !.pc = "count"]
<1>1. /\ send[n].pc = "create" /\ note' = [note EXCEPT ![n] = "UNREAD"]
      /\ send' = [send EXCEPT ![n] = s] /\ unsure' = Crossed(n[2])
      /\ UNCHANGED <<queue, badge, clearing, missed, telling, promos>>
  BY DEF Create, preferences
<1>2. s \in SendRec /\ s.pc = "count" /\ n[1] \in raised /\ n[2] \in User
  BY <1>1, SendsAre, NoticesAre
<1> HIDE DEF s
<1>3. /\ send'[n] = s /\ note'[n] = "UNREAD"
      /\ \A m \in Notice \ {n} : send'[m] = send[m] /\ note'[m] = note[m]
  BY <1>1 DEF NoticesInv, NoticesAreOf, NoticesTypeOK
<1>4. NoticesAreOf'
  BY <1>1, <1>2 DEF NoticesInv, NoticesAreOf, NoticesTypeOK, SendRec, telling
<1>5. ASSUME NEW u \in User \ unsure' PROVE BadgeRight(u)'
  <2>1. BadgeRight(u)
    BY <1>1 DEF NoticesInv, Crossed
  <2>2. CASE u = n[2]
    <3>1. Waiting(u) = {} /\ u \notin clearing
      BY <1>1, <2>2 DEF Crossed
    <3>2. Waiting(u)' \subseteq {n}
      BY <1>3, <3>1, OthersUntouched
    <3>3. n \in Waiting(u)'
      BY <1>2, <1>3, <2>2, OthersUntouched
    <3> QED
      BY <1>1, <1>2, <1>3, <3>1, <3>2, <3>3 DEF BadgeRight
  <2>3. CASE u # n[2]
    BY <1>1, <1>3, <2>1, <2>3, OthersUntouched, BadgeStays
  <2> QED
    BY <2>2, <2>3
<1>6. NoticeRight(n)'
  <2>1. note[n] = "ABSENT"
    BY <1>1 DEF NoticesInv, ToldRight, NoticeRight
  <2> QED
    BY <1>1, <1>2, <1>3, <2>1, SendMovesOn
<1>7. ToldRight'
  BY <1>1, <1>3, <1>6, OneStepKeepsTold DEF NoticesInv
<1> QED
  BY <1>4, <1>5, <1>7 DEF NoticesInv

LEMMA CountUnreadKeeps ==
  ASSUME NoticesInv, NEW n \in Notice, CountUnread(n)
  PROVE  NoticesInv'
PROOF
<1> DEFINE s == [pc |-> "emit", count |-> Counted(n)]
<1>0. n[2] \in User
  BY NoticesAre
<1>1. /\ send[n].pc = "count" /\ send' = [send EXCEPT ![n] = s]
      /\ unsure' = IF Waiting(n[2]) = {n} /\ n[2] \notin clearing
                   THEN unsure \ {n[2]} ELSE unsure
      /\ UNCHANGED <<note, queue, badge, clearing, missed, telling, promos>>
  BY DEF CountUnread, preferences
<1>2. /\ s.pc = "emit" /\ s.count = Cardinality(Cleared(n[2])) /\ s \in SendRec
  BY <1>0, UnreadIs DEF Counted, SendRec
<1> HIDE DEF s
<1>4. /\ send'[n] = s /\ note'[n] = note[n]
      /\ \A m \in Notice \ {n} : send'[m] = send[m] /\ note'[m] = note[m]
  BY <1>1 DEF NoticesInv, NoticesAreOf, NoticesTypeOK
<1>5. NoticesAreOf'
  BY <1>1, <1>2 DEF NoticesInv, NoticesAreOf, NoticesTypeOK, SendRec, telling
<1>6. ASSUME NEW u \in User \ unsure' PROVE BadgeRight(u)'
  <2>1. CASE u = n[2]
    <3>1. n \in Waiting(u)
      BY <1>1, <2>1, NoticesAre DEF Waiting
    <3>2. Waiting(u) = {n} /\ u \notin clearing
      <4>1. CASE u \in unsure
        BY <1>1, <2>1, <4>1
      <4>2. CASE u \notin unsure
        BY <3>1, <4>2 DEF NoticesInv, BadgeRight
      <4> QED
        BY <4>1, <4>2
    <3>3. Waiting(u)' \subseteq {n} /\ n \in Waiting(u)' /\ Cleared(u)' = Cleared(u)
      BY <1>2, <1>4, <2>1, <3>2, OthersUntouched
    <3> QED
      BY <1>1, <1>2, <1>4, <2>1, <3>2, <3>3 DEF BadgeRight
  <2>2. CASE u # n[2]
    <3>1. BadgeRight(u)
      BY <1>1, <2>2 DEF NoticesInv
    <3> QED
      BY <1>1, <1>4, <2>2, <3>1, OthersUntouched, BadgeStays
  <2> QED
    BY <2>1, <2>2
<1>7. NoticeRight(n)'
  BY <1>1, <1>2, <1>4, SendMovesOn
<1>8. ToldRight'
  BY <1>1, <1>4, <1>7, OneStepKeepsTold DEF NoticesInv
<1> QED
  BY <1>5, <1>6, <1>8 DEF NoticesInv

LEMMA EmitKeeps ==
  ASSUME NoticesInv, NEW n \in Notice, Emit(n)
  PROVE  NoticesInv'
PROOF
<1>0. n[2] \in User
  BY NoticesAre
<1>1. /\ send[n].pc = "emit" /\ send' = [send EXCEPT ![n] = NotSent]
      /\ badge' = [badge EXCEPT ![n[2]] = send[n].count]
      /\ UNCHANGED <<note, queue, clearing, missed, unsure, telling, promos>>
  BY DEF Emit, preferences
<1>2. /\ NotSent \in SendRec /\ NotSent.pc = "none"
      /\ send[n].count \in 0..Cardinality(Notice)
  BY <1>1, SendsAre DEF SendRec
<1>3. /\ send'[n] = NotSent /\ note'[n] = note[n]
      /\ \A m \in Notice \ {n} : send'[m] = send[m] /\ note'[m] = note[m]
      /\ badge'[n[2]] = send[n].count
      /\ \A u \in User \ {n[2]} : badge'[u] = badge[u]
  BY <1>0, <1>1 DEF NoticesInv, NoticesAreOf, NoticesTypeOK
<1>4. NoticesAreOf'
  BY <1>1, <1>2 DEF NoticesInv, NoticesAreOf, NoticesTypeOK, SendRec, telling
<1>5. ASSUME NEW u \in User \ unsure' PROVE BadgeRight(u)'
  <2>1. BadgeRight(u)
    BY <1>1 DEF NoticesInv
  <2>2. CASE u = n[2]
    <3>1. n \in Waiting(u)
      BY <1>1, <2>2, NoticesAre DEF Waiting
    <3>2. /\ Waiting(u) = {n} /\ u \notin clearing
          /\ send[n].count = Cardinality(Cleared(u))
      BY <1>1, <2>1, <3>1 DEF BadgeRight
    <3>3. Waiting(u)' = {} /\ Cleared(u)' = Cleared(u)
      BY <1>2, <1>3, <2>2, <3>2, OthersUntouched
    <3> QED
      BY <1>1, <1>3, <2>2, <3>2, <3>3 DEF BadgeRight
  <2>3. CASE u # n[2]
    BY <1>1, <1>3, <2>1, <2>3, OthersUntouched, BadgeStays
  <2> QED
    BY <2>2, <2>3
<1>6. NoticeRight(n)'
  <2>1. note[n] # "ABSENT"
    BY <1>1 DEF NoticesInv, ToldRight, NoticeRight
  <2> QED
    BY <1>1, <1>2, <1>3, <2>1, SendMovesOn
<1>7. ToldRight'
  BY <1>1, <1>3, <1>6, OneStepKeepsTold DEF NoticesInv
<1> QED
  BY <1>4, <1>5, <1>7 DEF NoticesInv

(* What a failure leaves out had not been told yet.                            *)
LEMMA SendFailsKeeps ==
  ASSUME NoticesInv, NEW n \in Notice, SendFails(n)
  PROVE  NoticesInv'
PROOF
<1>0. n[1] \in Event /\ n[2] \in User
  BY NoticesAre
<1> DEFINE out == ToReach(n[1]) \union (IF send[n].pc = "count" THEN {} ELSE {n})
<1>1. /\ send[n].pc \in {"ask", "create", "count"}
      /\ send' = [send EXCEPT ![n] = NotSent]
      /\ queue' = [queue EXCEPT ![n[1]] = {}]
      /\ missed' = missed \union out
      /\ unsure' = IF send[n].pc = "count" THEN unsure \union {n[2]} ELSE unsure
      /\ UNCHANGED <<note, badge, clearing, telling, promos>>
  BY DEF SendFails, preferences
<1>2. NotSent \in SendRec /\ NotSent.pc = "none"
  BY SendsAre
<1>3. /\ queue'[n[1]] = {} /\ \A e \in Event \ {n[1]} : queue'[e] = queue[e]
      /\ send'[n] = NotSent /\ note'[n] = note[n]
      /\ \A m \in Notice \ {n} : send'[m] = send[m] /\ note'[m] = note[m]
  BY <1>0, <1>1 DEF NoticesInv, NoticesAreOf, NoticesTypeOK
<1>4. NoticesAreOf'
  BY <1>1, <1>2 DEF NoticesInv, NoticesAreOf, NoticesTypeOK, SendRec, telling
<1>5. \A u \in User \ unsure' : BadgeRight(u)'
  <2>1. CASE send[n].pc = "count"
    <3> SUFFICES ASSUME NEW u \in User \ unsure' PROVE BadgeRight(u)'
      OBVIOUS
    <3>1. BadgeRight(u) /\ u # n[2]
      BY <1>1, <2>1 DEF NoticesInv
    <3> QED
      BY <1>1, <1>3, <3>1, OthersUntouched, BadgeStays
  <2>2. CASE send[n].pc # "count"
    BY <1>1, <1>2, <1>3, <2>2, BadgesStay
  <2> QED
    BY <2>1, <2>2
<1>6. \A m \in Notice : NoticeRight(m) /\ m[1] \in Event
  BY NoticesAre DEF NoticesInv, ToldRight
<1>7. \A m \in Notice : Told(m[1])' = Told(m[1]) /\ m \in out => m[1] = n[1]
  BY <1>1, <1>6, TellsAre DEF telling, ToReach
<1>8. ToReach(n[1])' = {}
  BY <1>3 DEF ToReach
<1>9. /\ n[1] \in raised /\ n \in Told(n[1]) /\ n \notin missed /\ n \notin ToReach(n[1])
  BY <1>1, SendsAre, ReachIs
<1>10. ASSUME NEW m \in Notice
       PROVE  NoticeRight(m)'
  <2>0. Told(m[1])' = Told(m[1]) /\ UNCHANGED <<raised, willing, reluctant, listed>>
    BY <1>1, <1>6, TellsAre DEF telling
  <2>1. CASE m = n
    BY <1>1, <1>2, <1>3, <1>6, <1>8, <1>9, <2>0, <2>1 DEF NoticeRight, Untold
  <2>2. CASE m \in ToReach(n[1]) /\ m # n
    <3>1. m[1] = n[1]
      BY <2>2 DEF ToReach
    <3>2. Untold(m) /\ m \in Told(m[1])
      BY <1>6, <2>2, <3>1 DEF NoticeRight
    <3>3. m \in missed' /\ send'[m].pc = "none" /\ note'[m] = "ABSENT"
      BY <1>1, <1>3, <2>2, <3>2 DEF Untold
    <3> QED
      BY <1>8, <1>9, <2>0, <3>1, <3>2, <3>3 DEF NoticeRight, Untold
  <2>3. CASE m # n /\ m \notin ToReach(n[1])
    <3>1. m \notin out /\ (m \in missed' <=> m \in missed)
      BY <1>1, <2>3
    <3>2. m \in ToReach(m[1]) <=> (m \in ToReach(m[1]))'
      <4>1. CASE m[1] = n[1]
        BY <1>8, <2>3, <4>1
      <4>2. CASE m[1] # n[1]
        BY <1>3, <1>6, <4>2 DEF ToReach
      <4> QED
        BY <4>1, <4>2
    <3>3. Untold(m)' <=> Untold(m)
      BY <1>3, <2>3, <3>1 DEF Untold
    <3> QED
      BY <1>3, <1>6, <2>0, <2>3, <3>1, <3>2, <3>3 DEF NoticeRight, Declined
  <2> QED
    BY <2>1, <2>2, <2>3
<1>11. ToldRight'
  BY <1>1, <1>10 DEF NoticesInv, ToldRight, telling
<1> QED
  BY <1>4, <1>5, <1>11 DEF NoticesInv

(* The person's own clicks.                                                   *)
LEMMA ReadKeeps ==
  ASSUME NoticesInv, NEW n \in Notice, MarkAsRead(n) \/ RemoveNotice(n)
  PROVE  NoticesInv'
PROOF
<1>0. n[2] \in User
  BY NoticesAre
<1>1. /\ note[n] \in {"UNREAD", "READ"} /\ note'[n] \in {"READ", "REMOVED"}
      /\ note' = [note EXCEPT ![n] = note'[n]]
      /\ note[n] = "UNREAD" => unsure' = unsure \union {n[2]}
      /\ note[n] # "UNREAD" => unsure' = unsure
      /\ UNCHANGED <<send, queue, badge, clearing, missed, telling, promos>>
  BY DEF MarkAsRead, RemoveNotice, NoticesInv, NoticesAreOf, NoticesTypeOK, preferences
<1>3. \A m \in Notice \ {n} : send'[m] = send[m] /\ note'[m] = note[m]
  BY <1>1 DEF NoticesInv, NoticesAreOf, NoticesTypeOK
<1>4. NoticesAreOf'
  BY <1>1 DEF NoticesInv, NoticesAreOf, NoticesTypeOK, telling
<1>5. ASSUME NEW u \in User \ unsure' PROVE BadgeRight(u)'
  <2>1. BadgeRight(u)
    BY <1>1 DEF NoticesInv
  <2>2. Cleared(u)' = Cleared(u)
    <3>1. CASE u # n[2]
      BY <1>3, <3>1, OthersUntouched
    <3>2. CASE u = n[2]
      <4>1. note[n] # "UNREAD"
        BY <1>1, <3>2
      <4>2. \A m \in Of(u) : note'[m] = "UNREAD" <=> note[m] = "UNREAD"
        BY <1>1, <1>3, <4>1 DEF Of
      <4> QED
        BY <4>2 DEF Cleared, Of
    <3> QED
      BY <3>1, <3>2
  <2>3. Waiting(u)' = Waiting(u)
    BY <1>1 DEF Waiting, Of
  <2> QED
    BY <1>1, <2>1, <2>2, <2>3, BadgeStays
<1>6. NoticeRight(n)'
  BY <1>1, FateStays DEF NoticesInv, ToldRight, telling
<1>7. ToldRight'
  BY <1>1, <1>3, <1>6, OneStepKeepsTold DEF NoticesInv
<1> QED
  BY <1>4, <1>5, <1>7 DEF NoticesInv

LEMMA ClearKeeps ==
  ASSUME NoticesInv, NEW u \in User, MarkAllAsRead(u) \/ EmitZero(u)
  PROVE  NoticesInv'
PROOF
<1>1. /\ UNCHANGED <<send, queue, missed, telling, promos>>
      /\ \A n \in Notice : Waiting(n[2])' = Waiting(n[2])
      /\ \A v \in User : Waiting(v)' = Waiting(v)
  BY DEF MarkAllAsRead, EmitZero, Waiting, Of, preferences
<1>2. ASSUME NEW n \in Notice
      PROVE  /\ note'[n] = IF n \in Cleared(u) /\ MarkAllAsRead(u) THEN "READ" ELSE note[n]
             /\ note'[n] = "ABSENT" <=> note[n] = "ABSENT"
  BY DEF MarkAllAsRead, EmitZero, Cleared
<1>3. NoticesAreOf'
  <2>1. note' \in [Notice -> {"ABSENT", "UNREAD", "READ", "REMOVED"}]
    BY DEF MarkAllAsRead, EmitZero, NoticesInv, NoticesAreOf, NoticesTypeOK
  <2>2. badge' \in [User -> 0..Cardinality(Notice)]
    BY NoticesFinite DEF MarkAllAsRead, EmitZero, NoticesInv, NoticesAreOf, NoticesTypeOK
  <2> QED
    BY <1>1, <2>1, <2>2 DEF NoticesInv, NoticesAreOf, NoticesTypeOK, telling
<1>4. ToldRight'
  <2>1. \A n \in Notice : NoticeRight(n)'
    BY <1>1, <1>2, FateStays DEF NoticesInv, ToldRight, telling
  <2> QED
    BY <1>1, <2>1 DEF NoticesInv, ToldRight, telling
<1>5. CASE MarkAllAsRead(u)
  <2>1. /\ unsure' = IF Waiting(u) # {} THEN unsure \union {u} ELSE unsure \ {u}
        /\ clearing' = clearing \union {u} /\ badge' = badge
    BY <1>5 DEF MarkAllAsRead
  <2>2. ASSUME NEW v \in User \ unsure' PROVE BadgeRight(v)'
    <3>1. CASE v = u
      <4>1. Waiting(u) = {}
        BY <2>1, <3>1
      <4>2. Cleared(u)' = {}
        BY <1>2, <1>5 DEF Cleared, Of
      <4> QED
        BY <1>1, <2>1, <3>1, <4>1, <4>2 DEF BadgeRight
    <3>2. CASE v # u
      <4>1. BadgeRight(v)
        BY <2>1, <3>2 DEF NoticesInv
      <4>2. Cleared(v)' = Cleared(v)
        BY <1>2, <3>2 DEF Cleared, Of
      <4> QED
        BY <1>1, <2>1, <3>2, <4>1, <4>2, BadgeStays
    <3> QED
      BY <3>1, <3>2
  <2> QED
    BY <1>3, <1>4, <2>2 DEF NoticesInv
<1>6. CASE EmitZero(u)
  <2>1. /\ u \in clearing /\ clearing' = clearing \ {u}
        /\ badge'[u] = 0 /\ \A v \in User \ {u} : badge'[v] = badge[v]
        /\ UNCHANGED <<unsure, note>>
    BY <1>6 DEF EmitZero, NoticesInv, NoticesAreOf, NoticesTypeOK
  <2>2. \A v \in User : Cleared(v)' = Cleared(v)
    BY <2>1 DEF Cleared, Of
  <2>3. ASSUME NEW v \in User \ unsure' PROVE BadgeRight(v)'
    <3>0. BadgeRight(v)
      BY <2>1 DEF NoticesInv
    <3>1. CASE v = u
      <4>1. Waiting(u)' = {} /\ Cleared(u)' = {}
        BY <1>1, <2>1, <2>2, <3>0, <3>1 DEF BadgeRight
      <4>2. badge'[u] = Cardinality(Cleared(u)')
        BY <2>1, <4>1, FS_EmptySet
      <4> QED
        BY <2>1, <3>1, <4>1, <4>2 DEF BadgeRight
    <3>2. CASE v # u
      BY <1>1, <2>1, <2>2, <3>0, <3>2, BadgeStays
    <3> QED
      BY <3>1, <3>2
  <2> QED
    BY <1>3, <1>4, <2>3 DEF NoticesInv
<1> QED
  BY <1>5, <1>6

LEMMA UpdatePreferencesKeeps ==
  ASSUME NoticesInv, NEW u \in User, UpdatePreferences(u)
  PROVE  NoticesInv'
PROOF
<1>1. /\ promos' = [promos EXCEPT ![u] = ~@]
      /\ willing' = [e \in Event |-> IF e \in raised /\ promos'[u]
                                     THEN willing[e] \union {u} ELSE willing[e]]
      /\ reluctant' = [e \in Event |-> IF e \in raised /\ ~promos'[u]
                                       THEN reluctant[e] \union {u} ELSE reluctant[e]]
      /\ UNCHANGED <<note, send, listed, queue, raised, badge, clearing, missed, unsure>>
  BY DEF UpdatePreferences
<1>2. /\ promos' \in [User -> BOOLEAN] /\ \A v \in User \ {u} : promos'[v] = promos[v]
      /\ willing' \in [Event -> SUBSET User] /\ reluctant' \in [Event -> SUBSET User]
      /\ \A e \in Event :
           /\ willing[e] \subseteq willing'[e] /\ reluctant[e] \subseteq reluctant'[e]
           /\ e \in raised => u \in IF promos'[u] THEN willing'[e] ELSE reluctant'[e]
  BY <1>1 DEF NoticesInv, NoticesAreOf
<1>3. NoticesAreOf'
  BY <1>1, <1>2 DEF NoticesInv, NoticesAreOf, NoticesTypeOK
<1>4. \A v \in User \ unsure' : BadgeRight(v)'
  BY <1>1, BadgesStay
<1>5. ToldRight'
  <2>1. \A n \in Notice : NoticeRight(n)'
    BY <1>1, <1>2, FateStays, NoticesAre DEF NoticesInv, ToldRight
  <2>2. ASSUME NEW d \in raised' \intersect Broadcasts, NEW v \in User
        PROVE  v \in IF promos'[v] THEN willing'[d] ELSE reluctant'[d]
    <3>1. d \in Event /\ d \in raised \intersect Broadcasts
      BY <1>1 DEF Broadcasts
    <3>2. CASE v = u
      BY <1>2, <3>1, <3>2
    <3>3. CASE v # u
      BY <1>2, <3>1, <3>3 DEF NoticesInv, ToldRight
    <3> QED
      BY <3>2, <3>3
  <2> QED
    BY <2>1, <2>2 DEF ToldRight, Broadcasts
<1> QED
  BY <1>3, <1>4, <1>5 DEF NoticesInv

LEMMA NoticesInvHolds == NoticesSpec => []NoticesInv
PROOF
<1>1. NoticesInit => NoticesInv
  <2> SUFFICES ASSUME NoticesInit PROVE NoticesInv
    OBVIOUS
  <2>1. NotSent \in SendRec /\ NotSent.pc = "none"
    BY NoticesFinite DEF NotSent, SendRec
  <2>2. NoticesAreOf
    BY <2>1, NoticesFinite DEF NoticesInit, NoticesAreOf, NoticesTypeOK, SendRec
  <2>3. ASSUME NEW u \in User PROVE BadgeRight(u)
    <3>1. Waiting(u) = {} /\ Cleared(u) = {}
      BY <2>1 DEF NoticesInit, Waiting, Cleared, Of
    <3> QED
      BY <3>1, FS_EmptySet DEF NoticesInit, BadgeRight
  <2>4. ToldRight
    BY <2>1, ReachIs, NoticesAre DEF NoticesInit, ToldRight, NoticeRight, Untold
  <2> QED
    BY <2>2, <2>3, <2>4 DEF NoticesInv
<1>2. NoticesInv /\ [NoticesNext]_noticeVars => NoticesInv'
  <2> SUFFICES ASSUME NoticesInv, [NoticesNext]_noticeVars PROVE NoticesInv'
    OBVIOUS
  <2>1. ASSUME NEW e \in Event, Notify(e) PROVE NoticesInv'
    BY <2>1, NotifyKeeps
  <2>2. ASSUME NEW e \in Event,
               \/ Broadcast(e, User)
               \/ \E r \in Role : Broadcast(e, holders[r])
               \/ \E u \in User : Broadcast(e, {u})
        PROVE  NoticesInv'
    <3>1. \E people \in SUBSET User : Broadcast(e, people)
      BY <2>2, RolesAssumption
    <3> QED
      BY <3>1, BroadcastKeeps
  <2>3. ASSUME NEW e \in Event, NEW u \in User, BroadcastNext(e, u) PROVE NoticesInv'
    BY <2>3, BroadcastNextKeeps
  <2>4. ASSUME NEW n \in Notice,
               \/ AskPreferences(n) \/ Create(n) \/ CountUnread(n) \/ Emit(n)
               \/ SendFails(n) \/ MarkAsRead(n) \/ RemoveNotice(n)
        PROVE  NoticesInv'
    BY <2>4, AskPreferencesKeeps, CreateKeeps, CountUnreadKeeps, EmitKeeps,
       SendFailsKeeps, ReadKeeps
  <2>5. ASSUME NEW u \in User, MarkAllAsRead(u) \/ EmitZero(u) \/ UpdatePreferences(u)
        PROVE  NoticesInv'
    BY <2>5, ClearKeeps, UpdatePreferencesKeeps
  <2>6. CASE UNCHANGED noticeVars
    <3>1. UNCHANGED <<note, send, listed, queue, raised, promos, badge, clearing,
                      missed, unsure, willing, reluctant>>
      BY <2>6 DEF noticeVars
    <3>2. \A n \in Notice : NoticeRight(n)'
      BY <3>1, FateStays DEF NoticesInv, ToldRight
    <3>3. NoticesAreOf' /\ ToldRight'
      BY <3>1, <3>2 DEF NoticesInv, NoticesAreOf, NoticesTypeOK, ToldRight
    <3> QED
      BY <3>1, <3>3, BadgesStay DEF NoticesInv
  <2> QED
    BY <2>1, <2>2, <2>3, <2>4, <2>5, <2>6 DEF NoticesNext
<1> QED
  BY <1>1, <1>2, PTL DEF NoticesSpec

(* Whatever events, people and roles there are: the badge of whoever did not    *)
(* click or was not told two things at once is the number of their unread       *)
(* notices.  An event that has ended, a broadcast too, has reached everyone it   *)
(* is for, but those whom a failure left out and, if it is a promotion, who did  *)
(* not want any at some time since; and it has reached nobody else.              *)
THEOREM PeopleAlwaysTold == NoticesSpec => []PeopleAreTold
PROOF
<1>1. NoticesInv => PeopleAreTold
  <2> SUFFICES ASSUME NoticesInv PROVE PeopleAreTold
    OBVIOUS
  <2>1. BadgeTellsUnread
    BY UnreadIs DEF BadgeTellsUnread, NoticesInv, BadgeRight
  <2>2. ASSUME NEW e \in raised, queue[e] = {}, Resting(e), NEW n \in Told(e) \ missed,
               note[n] = "ABSENT"
        PROVE  kindOf[e] = "promotion" /\ n[2] \in reluctant[e]
    <3>1. e \in Event /\ listed[e] \subseteq User
      BY DEF NoticesInv, NoticesAreOf
    <3>2. n \in Notice /\ n[1] = e
      BY <3>1, TellsAre
    <3>3. Untold(n) /\ n \notin ToReach(e)
      BY <2>2, <3>2 DEF Resting, Untold, ToReach
    <3> QED
      BY <3>2, <3>3 DEF NoticesInv, ToldRight, NoticeRight, Declined
  <2>3. ASSUME NEW n \in Notice, note[n] # "ABSENT"
        PROVE  /\ n \in Told(n[1]) \ missed
               /\ kindOf[n[1]] = "promotion" => n[2] \in willing[n[1]]
    BY <2>3 DEF NoticesInv, ToldRight, NoticeRight, Untold
  <2>4. ToldAsWanted
    BY <2>2, <2>3 DEF ToldAsWanted
  <2> QED
    BY <2>1, <2>4 DEF PeopleAreTold
<1> QED
  BY <1>1, NoticesInvHolds, PTL

-----------------------------------------------------------------------------
(* All of the services at once.                                              *)

(* Every behaviour of the small scenes is one of each of the services, so that *)
(* their states are of their types whatever the constants are.                 *)
THEOREM ServicesAreOf == MCSpec => []TypeOK
PROOF
<1>1. MCInit => TrackInit /\ UploadsInit /\ NoticesInit /\ EngineInit
  BY DEF MCInit
<1>2. [MCNext]_<<trackVars, uploadVars, noticeVars, engineVars, tables, focus>> =>
        /\ [TrackNext]_trackVars /\ [UploadsNext]_uploadVars
        /\ [NoticesNext]_noticeVars /\ [EngineNext]_engineVars
  BY DEF MCNext, TrackingMoves, UploadsMove, NoticesMove, EngineMoves, TablesMove
<1>3. MCSpec => TrackSpec /\ UploadsSpec /\ NoticesSpec /\ EngineSpec
  BY <1>1, <1>2, PTL DEF MCSpec, TrackSpec, UploadsSpec, NoticesSpec, EngineSpec
<1>4. TrackInv /\ UploadsInv /\ NoticesInv /\ EngineInv => TypeOK
  BY EngineIsOf DEF TypeOK, TrackInv, UploadsInv, NoticesInv, NoticesAreOf
<1> QED
  BY <1>3, <1>4, TrackInvHolds, UploadsInvHolds, NoticesInvHolds, EngineInvHolds, PTL
=============================================================================
