----------------------------- MODULE TrackingReports -----------------------------
(***************************************************************************)
(* What a report of the tracking script says: the engine's URL built for a *)
(* session carries what the ambassador asked for, the page reports some of *)
(* it again, and the backend puts the booking together from both.          *)
(*                                                                         *)
(* Source: ambassadors.service.ts.  Registering the booking is in          *)
(* TemporalBookings, which leaves open what is computed here.  The engine  *)
(* and its page are external: the page may report anything, or nothing.    *)
(***************************************************************************)
EXTENDS Integers

CONSTANTS
  Date,     \* days
  Now,      \* the day a report is taken on
  Room,     \* Cloudbeds room types
  Widget,   \* Cloudbeds property ids
  Place,    \* properties of ours
  placeOf,  \* the property mapped to a Cloudbeds property, or Absent
  unitsOf,  \* the rooms mapped to units, per property
  Total,    \* amounts
  Legacy,   \* URLs a frontend may have built, or a page may be at
  Bad,      \* a text that is no date
  Empty,    \* an empty text where an amount is due
  Absent    \* nothing given

ASSUME DatesAreDays == Date \subseteq Nat /\ Now \in Date
ASSUME PlacesMapped ==
  placeOf \in [Widget -> Place \union {Absent}] /\ unitsOf \in [Place -> SUBSET Room]
ASSUME TotalsAreAmounts == Total \subseteq Nat
ASSUME LegacyAreUrls ==
  Legacy \subseteq [in : Date \union {Absent}, out : Date \union {Absent},
                    room : Room \union {Absent}, widget : Widget \union {Absent},
                    session : BOOLEAN]
ASSUME AbsentIsNone == Absent \notin Date \union Room \union Widget \union Place \union Total
ASSUME BadIsNoDate == Bad \notin Date

VARIABLES
  opened,  \* what the session was opened with
  url,     \* the engine's URL of the session
  said,    \* what the page reported
  parsed   \* what the backend made of it

trackVars == <<opened, url, said, parsed>>

-----------------------------------------------------------------------------
Maybe(S) == S \union {Absent}

(* The booking context of a session, and the property it was opened for.     *)
Context == [in : Maybe(Date), out : Maybe(Date), room : Maybe(Room),
            place : Maybe(Place)]

(* A URL's parameters.  One the frontend built may name the property too.    *)
Url == [in : Maybe(Date), out : Maybe(Date), room : Maybe(Room),
        widget : Maybe(Widget), session : BOOLEAN]

(* A page's report, and the URL it was at, if it says.  A date may be one     *)
(* that does not parse (Bad); the total is looked for in three places, here   *)
(* two, and the first may be an empty string.                                 *)
Page == [in : Maybe(Date) \union {Bad}, out : Maybe(Date) \union {Bad},
         room : Maybe(Room), widget : Maybe(Widget),
         total : Maybe(Total) \union {Empty}, roomTotal : Maybe(Total),
         at : Maybe(Legacy)]

Parsed == [in : Nat, out : Nat, nights : Int, total : Nat,
           place : Maybe(Place), unit : Maybe(Place \X Room)]

Blank == [in |-> Absent, out |-> Absent, room |-> Absent, place |-> Absent]

TrackTypeOK ==
  /\ opened \in Maybe(Context)
  /\ url \in Maybe(Url)
  /\ said \in Maybe(Page)
  /\ parsed \in Maybe(Parsed)

TrackInit == opened = Absent /\ url = Absent /\ said = Absent /\ parsed = Absent

-----------------------------------------------------------------------------
OrElse(a, b) == IF a # Absent THEN a ELSE b

(* buildCloudbedsUrl: the parameters that were given, and the session's own.  *)
BuiltUrl_NoRoom(c) ==
  [in |-> c.in, out |-> c.out, room |-> Absent, widget |-> Absent, session |-> TRUE]
BuiltUrl(c) ==
  [in |-> c.in, out |-> c.out, room |-> c.room, widget |-> Absent, session |-> TRUE]

(* augmentLegacyCloudbedsUrl: a URL the frontend built keeps what it has.     *)
LegacyUrl(given) == [given EXCEPT !.session = TRUE]

(* toDate, with its fallbacks: today, and the day after the arrival.          *)
ParsedDate(d, default) == IF d \in {Absent, Bad} THEN default ELSE d

ParsedStay(page, u) ==
  LET in == ParsedDate(OrElse(page.in, u.in), Now)
  IN [in |-> in, out |-> ParsedDate(OrElse(page.out, u.out), in + 1)]

StayNights_Plain(s) == s.out - s.in
StayNights(s) == IF s.out - s.in > 1 THEN s.out - s.in ELSE 1

(* pickNumber reads an empty string as 0, and does not look further.          *)
ParsedTotal(page) ==
  CASE page.total = Empty -> 0
    [] page.total \in Total -> page.total
    [] OTHER -> IF page.roomTotal # Absent THEN page.roomTotal ELSE 0

(* The property: the one mapped to what the page or the URL names, even if    *)
(* that is none of ours; else the session's; else that of the unit mapped to  *)
(* the room, if there is one.                                                 *)
RoomPlaces(room) == {p \in Place : room \in unitsOf[p]}
PlacesOf(c, widget, room) ==
  LET named == IF widget # Absent THEN placeOf[widget] ELSE c.place IN
  IF named # Absent THEN {named}
  ELSE IF room # Absent /\ RoomPlaces(room) # {} THEN RoomPlaces(room)
  ELSE {Absent}

(* The unit of the room, in that property only.                               *)
UnitIn_Anywhere(place, room) ==
  IF room # Absent /\ RoomPlaces(room) # {}
  THEN <<CHOOSE p \in RoomPlaces(room) : TRUE, room>> ELSE Absent
UnitIn(place, room) ==
  IF place # Absent /\ room # Absent /\ room \in unitsOf[place]
  THEN <<place, room>> ELSE Absent

-----------------------------------------------------------------------------
OpenSession(c) ==
  /\ opened = Absent
  /\ opened' = c
  /\ url' = BuiltUrl(c)
  /\ UNCHANGED <<said, parsed>>

OpenLegacy(c, given) ==
  /\ opened = Absent
  /\ opened' = c
  /\ url' = LegacyUrl(given)
  /\ UNCHANGED <<said, parsed>>

(* The URL the page was at wins over the one the session was opened with.     *)
TakeReport(page) ==
  LET u == OrElse(page.at, url)
      room == OrElse(page.room, u.room)
      stay == ParsedStay(page, u)
  IN
  /\ opened # Absent /\ parsed = Absent
  /\ said' = page
  /\ \E place \in PlacesOf(opened, OrElse(page.widget, u.widget), room) :
       parsed' = [in |-> stay.in, out |-> stay.out, nights |-> StayNights(stay),
                  total |-> ParsedTotal(page), place |-> place,
                  unit |-> UnitIn(place, room)]
  /\ UNCHANGED <<opened, url>>

(* Another report of the session is read without regard to this one.          *)
NextReport ==
  /\ parsed # Absent
  /\ said' = Absent /\ parsed' = Absent
  /\ UNCHANGED <<opened, url>>

TrackNext ==
  \/ NextReport
  \/ \E c \in Context : \/ OpenSession(c)
                        \/ \E given \in Legacy : OpenLegacy(c, given)
  \/ \E page \in Page : TakeReport(page)

TrackSpec == TrackInit /\ [][TrackNext]_trackVars

-----------------------------------------------------------------------------
(* What the ambassador asked for survives the way to Cloudbeds and back: a    *)
(* page that says nothing of the dates or the room gives the booking those    *)
(* the session was opened with (403-452, 501-540, 625-773).                   *)
Kept(c, s, p) ==
  /\ c.in # Absent /\ s.in = Absent => p.in = c.in
  /\ c.out # Absent /\ s.out = Absent => p.out = c.out
  /\ c.room # Absent /\ s.room = Absent /\ p.place # Absent
       /\ c.room \in unitsOf[p.place] => p.unit = <<p.place, c.room>>
AskedForSurvives ==
  parsed # Absent /\ url = BuiltUrl(opened) /\ said.at = Absent =>
    Kept(opened, said, parsed)

(* A booking is never of a unit of another property than its own, although    *)
(* the two are found by different names (232-258).                            *)
UnitBelongsToPlace ==
  parsed # Absent /\ parsed.unit # Absent => parsed.unit[1] = parsed.place

(* A booking has a night at least, though the dates come from two sources and *)
(* may not even be in order.                                                  *)
ReportedNights ==
  parsed # Absent =>
    /\ parsed.nights >= 1
    /\ parsed.in < parsed.out => parsed.nights = parsed.out - parsed.in

(* What a report becomes is the session's stay, as the page amended it: the     *)
(* three above.                                                               *)
ReportToldRight == AskedForSurvives /\ UnitBelongsToPlace /\ ReportedNights
=============================================================================
