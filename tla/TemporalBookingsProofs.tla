------------------------ MODULE TemporalBookingsProofs ------------------------
(***************************************************************************)
(* Proofs about TemporalBookings, for any number of handlers, intents,     *)
(* sessions, leads and bookings, and any days and amounts.                 *)
(***************************************************************************)
EXTENDS TemporalBookings, TLAPS

-----------------------------------------------------------------------------
(* The inductive invariant.                                                 *)

(* An identifier no row uses has no commission and belongs to no intent.    *)
Blank == \A b \in Booking : ~Live(b) =>
  commission[b].status = "ABSENT" /\ booking[b].intent = None

(* A session that was started belongs to an ambassador; one that is          *)
(* confirmed shows a booking, one never started shows none.                 *)
Owned == \A s \in Session :
  /\ session[s].status # "ABSENT" => session[s].profile # None
  /\ session[s].status = "CONFIRMED" => session[s].booking # None
  /\ session[s].status = "ABSENT" => session[s].booking = None

(* What a handler may rely on when it writes; the last three only if no      *)
(* other handler runs meanwhile.                                            *)
Known(j) ==
  /\ j.pc = "reportCommit" =>
       session[j.session].status # "ABSENT" /\ session[j.session].profile = j.profile
  /\ j.pc \in {"confirmCommit", "cancelCommit", "editCommit"} => Live(j.booking)
  /\ j.pc = "cancelCommit" => (j.earns <=> commission[j.booking].status # "ABSENT")
  /\ ~overlap /\ j.pc = "confirmCommit" => booking[j.booking].status = "PENDING"
  /\ ~overlap /\ j.pc = "editCommit" =>
       j.nights = Nights(EditedStay(booking[j.booking].stay, j.in, j.out))
  /\ ~overlap /\ j.pc = "reportCommit" /\ j.reservation = None =>
       session[j.session].status = "STARTED"

AllKnown == \A h \in Handler : Known(handler[h])

Alone == ~overlap =>
  \A g, h \in Handler : g = h \/ handler[g] = Idle \/ handler[h] = Idle

IInv ==
  /\ TypeOK
  /\ Blank
  /\ Owned
  /\ AllKnown
  /\ Alone
  /\ ConfirmedHasBooking
  /\ SessionShowsItsBooking
  /\ CancelledHoldsNoNights
  /\ NightsMatchDates

(* What no step undoes.                                                     *)
BookingsStay ==
  \A b \in Booking : Live(b) =>
    /\ booking'[b].status # "ABSENT"
    /\ booking'[b].intent = booking[b].intent
    /\ booking'[b].session = booking[b].session
    /\ booking'[b].profile = booking[b].profile
    /\ (commission'[b].status = "ABSENT") <=> (commission[b].status = "ABSENT")

SessionsStay ==
  \A s \in Session : session[s].status # "ABSENT" =>
    session'[s].status # "ABSENT" /\ session'[s].profile = session[s].profile

StartedStay ==
  \A s \in Session : session[s].status = "STARTED" => session'[s].status = "STARTED"

-----------------------------------------------------------------------------
(* Types.                                                                   *)

LEMMA HandlerAt ==
  ASSUME handler \in [Handler -> HandlerState], NEW h \in Handler
  PROVE  /\ handler[h].pc = "intentCommit" =>
              /\ handler[h].intent \in Intent \union {None}
              /\ handler[h].profile \in Profile \union {None}
              /\ handler[h].reservation \in Reservation \union {None}
         /\ handler[h].pc = "reportCommit" =>
              /\ handler[h].session \in Session /\ handler[h].profile \in Profile
              /\ handler[h].reservation \in Reservation \union {None}
         /\ handler[h].pc = "convertCommit" =>
              handler[h].lead \in Lead /\ handler[h].profile \in Profile \union {None}
         /\ handler[h].pc = "confirmCommit" =>
              /\ handler[h].booking \in Booking /\ handler[h].unit \in BOOLEAN
              /\ handler[h].stay \in Stay
         /\ handler[h].pc = "cancelCommit" =>
              handler[h].booking \in Booking /\ handler[h].earns \in BOOLEAN
         /\ handler[h].pc = "editCommit" =>
              /\ handler[h].booking \in Booking /\ handler[h].nights \in Int
              /\ handler[h].in \in Day \union {None}
              /\ handler[h].out \in Day \union {None}
BY DEF HandlerState, Idle

LEMMA NightsType ==
  ASSUME NEW s \in Stay
  PROVE  Nights(s) \in Int
<1>1. s.in \in Int /\ s.out \in Int
  BY TemporalDays DEF Stay
<1>2. s.out - s.in \in Int
  BY <1>1
<1> QED BY <1>2 DEF Nights

LEMMA EditedStayType ==
  ASSUME NEW s \in Stay, NEW in \in Day \union {None}, NEW out \in Day \union {None}
  PROVE  EditedStay(s, in, out) \in Stay
BY DEF Stay, EditedStay, Given

LEMMA NewRowType ==
  ASSUME NEW st \in BookingStatus, NEW p \in Profile \union {None}, NEW stay \in Stay,
         NEW unit \in BOOLEAN
  PROVE  LET row == BookingOf(st, p, stay, unit) IN
         /\ row \in BookingRow
         /\ row.status = st /\ row.profile = p /\ row.stay = stay
         /\ row.nights = Nights(stay) /\ row.intent = None /\ row.session = None
BY NightsType DEF BookingOf, BookingRow

-----------------------------------------------------------------------------
(* A handler that does not move still knows what it knew.                   *)
LEMMA KnownStays ==
  ASSUME TypeOK, AllKnown, BookingsStay, SessionsStay, UNCHANGED overlap,
         overlap \/ (booking' = booking /\ StartedStay),
         NEW g \in Handler, handler'[g] = handler[g]
  PROVE  Known(handler[g])'
<1> DEFINE j == handler[g]
<1>1. handler \in [Handler -> HandlerState] /\ Known(j)
  BY DEF TypeOK, AllKnown
<1>2. handler'[g] = j
  OBVIOUS
<1>3. j.pc = "reportCommit" =>
        session'[j.session].status # "ABSENT" /\ session'[j.session].profile = j.profile
  BY <1>1, HandlerAt DEF Known, SessionsStay
<1>4. j.pc \in {"confirmCommit", "cancelCommit", "editCommit"} =>
        booking'[j.booking].status # "ABSENT"
  BY <1>1, HandlerAt DEF Known, BookingsStay
<1>5. j.pc = "cancelCommit" => (j.earns <=> commission'[j.booking].status # "ABSENT")
  BY <1>1, HandlerAt DEF Known, BookingsStay
<1>6. ~overlap /\ j.pc = "confirmCommit" => booking'[j.booking].status = "PENDING"
  BY <1>1 DEF Known
<1>7. ~overlap /\ j.pc = "editCommit" =>
        j.nights = Nights(EditedStay(booking'[j.booking].stay, j.in, j.out))
  BY <1>1 DEF Known
<1>8. ~overlap /\ j.pc = "reportCommit" /\ j.reservation = None =>
        session'[j.session].status = "STARTED"
  BY <1>1, HandlerAt DEF Known, StartedStay
<1> HIDE DEF j
<1> QED BY <1>2, <1>3, <1>4, <1>5, <1>6, <1>7, <1>8 DEF Known, Live

(* A handler that ends.                                                     *)
LEMMA EndsKnown ==
  ASSUME TypeOK, AllKnown, Alone, BookingsStay, SessionsStay,
         NEW h \in Handler, handler[h] # Idle, Ends(h)
  PROVE  AllKnown' /\ Alone' /\ handler' \in [Handler -> HandlerState]
           /\ overlap' \in BOOLEAN
<1>1. /\ handler' = [handler EXCEPT ![h] = Idle] /\ overlap' = overlap
      /\ handler \in [Handler -> HandlerState] /\ overlap \in BOOLEAN
  BY DEF Ends, TypeOK
<1>2. handler' \in [Handler -> HandlerState]
  BY <1>1 DEF HandlerState
<1>3. Alone'
  BY <1>1 DEF Alone
<1>4. ASSUME NEW g \in Handler
      PROVE  Known(handler[g])'
  <2>1. CASE handler'[g] = Idle
    BY <2>1 DEF Known, Idle
  <2>2. CASE handler'[g] # Idle
    <3>1. g # h /\ handler'[g] = handler[g]
      BY <1>1, <2>2
    <3>2. overlap
      BY <1>1, <2>2, <3>1 DEF Alone
    <3> QED BY <1>1, <3>1, <3>2, KnownStays
  <2> QED BY <2>1, <2>2
<1> QED BY <1>1, <1>2, <1>3, <1>4 DEF AllKnown

(* A step that leaves bookings, commissions and the nights held alone.      *)
LEMMA KnownInTables ==
  ASSUME TypeOK, AllKnown, Alone, SessionsStay, StartedStay,
         UNCHANGED <<booking, commission, handler, overlap>>
  PROVE  AllKnown' /\ Alone'
<1>1. BookingsStay
  BY DEF BookingsStay, Live
<1>2. AllKnown'
  BY <1>1, KnownStays DEF AllKnown
<1> QED BY <1>2 DEF Alone

-----------------------------------------------------------------------------
(* The first step of a handler.                                             *)
LEMMA StartsInv ==
  ASSUME IInv, NEW h \in Handler, NEW j \in HandlerState, Starts(h, j), Known(j)
  PROVE  IInv'
<1>1. /\ handler' = [handler EXCEPT ![h] = j]
      /\ overlap \/ \A g \in Handler : handler[g] = Idle
      /\ UNCHANGED <<intent, session, lead, booking, commission, blocks, overlap>>
      /\ TypeOK /\ AllKnown /\ Alone
  BY DEF Starts, IInv, tables
<1>2. TypeOK'
  BY <1>1 DEF TypeOK
<1>3. Known(j)'
  BY <1>1 DEF Known, Live
<1>4. ASSUME NEW g \in Handler PROVE Known(handler[g])'
  <2>1. CASE g = h
    BY <1>1, <1>3, <2>1 DEF TypeOK
  <2>2. CASE g # h
    <3>1. handler'[g] = handler[g]
      BY <1>1, <2>2 DEF TypeOK
    <3>2. BookingsStay /\ SessionsStay /\ StartedStay
      BY <1>1 DEF BookingsStay, SessionsStay, StartedStay, Live
    <3> QED BY <1>1, <3>1, <3>2, KnownStays
  <2> QED BY <2>1, <2>2
<1>5. Alone'
  BY <1>1 DEF Alone, TypeOK
<1>6. Blank' /\ Owned' /\ ConfirmedHasBooking' /\ SessionShowsItsBooking'
        /\ CancelledHoldsNoNights' /\ NightsMatchDates'
  BY <1>1 DEF IInv, Blank, Owned, Live, ConfirmedHasBooking, SessionShowsItsBooking,
     CancelledHoldsNoNights, NightsMatchDates
<1> QED BY <1>2, <1>4, <1>5, <1>6 DEF IInv, AllKnown

LEMMA ReadsInv ==
  ASSUME IInv, NEW h \in Handler,
         \/ \E i \in Intent \union {None}, p \in Profile \union {None},
               r \in Reservation \union {None} : IntentRead(h, i, p, r)
         \/ \E s \in Session, r \in Reservation \union {None} : ReportRead(h, s, r)
         \/ \E l \in Lead : ConvertRead(h, l)
         \/ \E b \in Booking : ConfirmRead(h, b) \/ CancelRead(h, b)
         \/ \E b \in Booking : \E in, out \in Day \union {None} :
              EditRead(h, b, in, out)
  PROVE  IInv'
<1>0. TypeOK
  BY DEF IInv
<1>1. ASSUME NEW i \in Intent \union {None}, NEW p \in Profile \union {None},
             NEW r \in Reservation \union {None}, IntentRead(h, i, p, r)
      PROVE  IInv'
  <2> DEFINE j == [pc |-> "intentCommit", intent |-> i, reservation |-> r,
                   profile |-> IF p = None /\ i # None THEN intent[i].profile ELSE p]
  <2>1. (IF p = None /\ i # None THEN intent[i].profile ELSE p) \in Profile \union {None}
    BY <1>0 DEF TypeOK, IntentRow
  <2>2. j \in HandlerState
    BY <2>1 DEF HandlerState
  <2>3. Known(j) /\ Starts(h, j)
    BY <1>1 DEF Known, IntentRead
  <2> HIDE DEF j
  <2> QED BY <2>2, <2>3, StartsInv
<1>2. ASSUME NEW s \in Session, NEW r \in Reservation \union {None}, ReportRead(h, s, r)
      PROVE  IInv'
  <2> DEFINE j == [pc |-> "reportCommit", session |-> s, reservation |-> r,
                   profile |-> session[s].profile]
  <2>1. session[s].profile \in Profile
    <3>1. session[s].profile \in Profile \union {None} /\ session[s].status # "ABSENT"
      BY <1>0, <1>2 DEF TypeOK, SessionRow, ReportRead
    <3> QED BY <3>1 DEF IInv, Owned
  <2>2. j \in HandlerState
    BY <2>1 DEF HandlerState
  <2>3. Starts(h, j) /\ session[s].status # "ABSENT" /\ ~Repeated(s, r)
    BY <1>2 DEF ReportRead
  <2>4. r = None => session[s].status = "STARTED"
    BY <1>0, <2>3 DEF Repeated, IInv, Owned, TypeOK, SessionRow
  <2>5. Known(j)
    BY <2>3, <2>4 DEF Known
  <2> HIDE DEF j
  <2> QED BY <2>2, <2>3, <2>5, StartsInv
<1>3. ASSUME NEW l \in Lead, ConvertRead(h, l)
      PROVE  IInv'
  <2> DEFINE j == [pc |-> "convertCommit", lead |-> l, profile |-> lead[l].profile]
  <2>1. j \in HandlerState
    BY <1>0 DEF HandlerState, TypeOK, LeadRow
  <2>2. Known(j) /\ Starts(h, j)
    BY <1>3 DEF Known, ConvertRead
  <2> HIDE DEF j
  <2> QED BY <2>1, <2>2, StartsInv
<1>4. ASSUME NEW b \in Booking, ConfirmRead(h, b)
      PROVE  IInv'
  <2> DEFINE j == [pc |-> "confirmCommit", booking |-> b, unit |-> booking[b].unit,
                   stay |-> booking[b].stay]
  <2>1. j \in HandlerState
    BY <1>0 DEF HandlerState, TypeOK, BookingRow
  <2>2. Known(j) /\ Starts(h, j)
    BY <1>4 DEF Known, ConfirmRead, Live
  <2> HIDE DEF j
  <2> QED BY <2>1, <2>2, StartsInv
<1>5. ASSUME NEW b \in Booking, CancelRead(h, b)
      PROVE  IInv'
  <2> DEFINE j == [pc |-> "cancelCommit", booking |-> b,
                   earns |-> commission[b].status # "ABSENT"]
  <2>1. j \in HandlerState
    BY DEF HandlerState
  <2>2. Known(j) /\ Starts(h, j)
    BY <1>5 DEF Known, CancelRead, Live
  <2> HIDE DEF j
  <2> QED BY <2>1, <2>2, StartsInv
<1>6. ASSUME NEW b \in Booking, NEW in \in Day \union {None},
             NEW out \in Day \union {None}, EditRead(h, b, in, out)
      PROVE  IInv'
  <2> DEFINE n == Nights(EditedStay(booking[b].stay, in, out))
             j == [pc |-> "editCommit", booking |-> b, in |-> in, out |-> out,
                   nights |-> n]
  <2>1. n \in Int
    BY <1>0, NightsType, EditedStayType DEF TypeOK, BookingRow
  <2>2. j \in HandlerState
    <3> HIDE DEF n
    <3> QED BY <2>1 DEF HandlerState
  <2>3. Starts(h, j) /\ Live(b)
    BY <1>6 DEF EditRead, EditedStay, Live
  <2>4. Known(j)
    BY <2>3 DEF Known
  <2> HIDE DEF j
  <2> QED BY <2>2, <2>3, <2>4, StartsInv
<1> QED BY <1>1, <1>2, <1>3, <1>4, <1>5, <1>6

-----------------------------------------------------------------------------
(* Requests of one statement, the clock and the job.                        *)

(* A step on intents that confirms none and takes no confirmation back.     *)
LEMMA IntentInv ==
  ASSUME IInv, UNCHANGED <<session, lead, booking, commission, blocks, handler, overlap>>,
         intent' \in [Intent -> IntentRow],
         \A i \in Intent : (intent'[i].status = "CONFIRMED") <=> (intent[i].status = "CONFIRMED")
  PROVE  IInv'
<1>1. TypeOK'
  BY DEF IInv, TypeOK
<1>2. AllKnown' /\ Alone'
  BY KnownInTables DEF IInv, SessionsStay, StartedStay
<1>3. ConfirmedHasBooking'
  BY DEF IInv, ConfirmedHasBooking
<1>4. Blank' /\ Owned' /\ SessionShowsItsBooking' /\ CancelledHoldsNoNights'
        /\ NightsMatchDates'
  BY DEF IInv, Blank, Owned, Live, SessionShowsItsBooking, CancelledHoldsNoNights,
     NightsMatchDates
<1> QED BY <1>1, <1>2, <1>3, <1>4 DEF IInv

(* A step on sessions that takes neither their owner nor their booking.     *)
LEMMA SessionInv ==
  ASSUME IInv, NEW s \in Session, NEW p \in Profile, StartSession(s, p)
  PROVE  IInv'
<1>0. TypeOK /\ Owned /\ SessionShowsItsBooking
  BY DEF IInv
<1>1. UNCHANGED <<intent, lead, booking, commission, blocks, handler, overlap>>
  BY DEF StartSession, StaysPut
<1>2. /\ session' \in [Session -> SessionRow]
      /\ \A t \in Session :
           \/ session'[t] = session[t]
           \/ /\ session'[t].status = "STARTED"
              /\ session'[t].booking \in {session[t].booking, None}
              /\ session[t].status # "ABSENT" => session'[t].profile = session[t].profile
              /\ session[t].status = "ABSENT" =>
                   session'[t].profile = p /\ session'[t].booking = None
  <2>1. CASE session[s].status = "ABSENT"
    BY <1>0, <2>1 DEF StartSession, Started, TypeOK, SessionRow
  <2>2. CASE session[s].status # "ABSENT"
    <3>1. session' = [session EXCEPT ![s].status = "STARTED"]
      BY <2>2 DEF StartSession, Started
    <3> QED BY <1>0, <2>2, <3>1 DEF TypeOK, SessionRow
  <2> QED BY <2>1, <2>2
<1>3. TypeOK'
  BY <1>0, <1>1, <1>2 DEF TypeOK
<1>4. SessionsStay /\ StartedStay /\ Owned'
  <2>1. SessionsStay /\ StartedStay
    BY <1>2 DEF SessionsStay, StartedStay
  <2> QED BY <1>0, <1>2, <2>1, TemporalNone DEF Owned
<1>5. AllKnown' /\ Alone'
  BY <1>1, <1>4, KnownInTables DEF IInv
<1>6. SessionShowsItsBooking'
  <2>1. ASSUME NEW t \in Session, session'[t].booking # None
        PROVE  session'[t].booking = session[t].booking
                 /\ session'[t].profile = session[t].profile
    BY <1>2, <2>1
  <2> QED BY <1>0, <1>1, <2>1 DEF SessionShowsItsBooking, Live
<1>7. Blank' /\ ConfirmedHasBooking' /\ CancelledHoldsNoNights' /\ NightsMatchDates'
  BY <1>1 DEF IInv, Blank, Live, ConfirmedHasBooking, CancelledHoldsNoNights,
     NightsMatchDates
<1> QED BY <1>3, <1>4, <1>5, <1>6, <1>7 DEF IInv

LEMMA LeadInv ==
  ASSUME IInv, UNCHANGED <<intent, session, booking, commission, blocks, handler, overlap>>,
         lead' \in [Lead -> LeadRow]
  PROVE  IInv'
<1>1. TypeOK'
  BY DEF IInv, TypeOK
<1>2. AllKnown' /\ Alone'
  BY KnownInTables DEF IInv, SessionsStay, StartedStay
<1>3. Blank' /\ Owned' /\ ConfirmedHasBooking' /\ SessionShowsItsBooking'
        /\ CancelledHoldsNoNights' /\ NightsMatchDates'
  BY DEF IInv, Blank, Owned, Live, ConfirmedHasBooking, SessionShowsItsBooking,
     CancelledHoldsNoNights, NightsMatchDates
<1> QED BY <1>1, <1>2, <1>3 DEF IInv

LEMMA RepriceInv ==
  ASSUME IInv, NEW b \in Booking, NEW a \in Amount, Reprice(b, a)
  PROVE  IInv'
<1>0. TypeOK /\ AllKnown /\ Alone /\ Blank
  BY DEF IInv
<1>1. UNCHANGED <<intent, session, lead, booking, blocks, handler, overlap>>
  BY DEF Reprice, StaysPut
<1>2. /\ commission' \in [Booking -> CommissionRow]
      /\ \A c \in Booking : commission'[c].status = commission[c].status
  BY <1>0 DEF Reprice, TypeOK, CommissionRow
<1>3. TypeOK' /\ Blank'
  BY <1>0, <1>1, <1>2 DEF TypeOK, Blank, Live
<1>4. BookingsStay /\ SessionsStay /\ StartedStay
  BY <1>1, <1>2 DEF BookingsStay, SessionsStay, StartedStay, Live
<1>5. AllKnown' /\ Alone'
  BY <1>0, <1>1, <1>4, KnownStays DEF AllKnown, Alone
<1>6. Owned' /\ ConfirmedHasBooking' /\ SessionShowsItsBooking'
        /\ CancelledHoldsNoNights' /\ NightsMatchDates'
  BY <1>1 DEF IInv, Owned, Live, ConfirmedHasBooking, SessionShowsItsBooking,
     CancelledHoldsNoNights, NightsMatchDates
<1> QED BY <1>3, <1>5, <1>6 DEF IInv

LEMMA TableInv ==
  ASSUME IInv, TableStep
  PROVE  IInv'
<1>0. TypeOK
  BY DEF IInv
<1>1. ASSUME NEW i \in Intent, NEW p \in Profile \union {None}, CreateIntent(i, p)
      PROVE  IInv'
  <2>1. intent' \in [Intent -> IntentRow]
    BY <1>0, <1>1 DEF CreateIntent, TypeOK, IntentRow
  <2>2. \A k \in Intent : (intent'[k].status = "CONFIRMED") <=> (intent[k].status = "CONFIRMED")
    BY <1>0, <1>1 DEF CreateIntent, TypeOK
  <2> QED BY <1>1, <2>1, <2>2, IntentInv DEF CreateIntent, StaysPut
<1>2. ASSUME NEW i \in Intent, FallDue(i) \/ MarkRedirected(i)
      PROVE  IInv'
  <2>1. CASE FallDue(i)
    <3>1. intent' \in [Intent -> IntentRow]
      BY <1>0, <2>1 DEF FallDue, TypeOK, IntentRow
    <3>2. \A k \in Intent : intent'[k].status = intent[k].status
      BY <1>0, <2>1 DEF FallDue, TypeOK, IntentRow
    <3> QED BY <2>1, <3>1, <3>2, IntentInv DEF FallDue, StaysPut
  <2>2. CASE MarkRedirected(i)
    <3>1. intent' \in [Intent -> IntentRow]
      BY <1>0, <2>2 DEF MarkRedirected, TypeOK, IntentRow
    <3>2. \A k \in Intent : (intent'[k].status = "CONFIRMED") <=> (intent[k].status = "CONFIRMED")
      BY <1>0, <2>2 DEF MarkRedirected, TypeOK, IntentRow
    <3> QED BY <2>2, <3>1, <3>2, IntentInv DEF MarkRedirected, StaysPut
  <2> QED BY <1>2, <2>1, <2>2
<1>3. ASSUME ExpirePendingIntents
      PROVE  IInv'
  <2>1. /\ intent' \in [Intent -> IntentRow]
        /\ \A k \in Intent : (intent'[k].status = "CONFIRMED") <=> (intent[k].status = "CONFIRMED")
    BY <1>0, <1>3 DEF ExpirePendingIntents, Expired, TypeOK, IntentRow
  <2> QED BY <1>3, <2>1, IntentInv DEF ExpirePendingIntents, StaysPut
<1>4. ASSUME NEW l \in Lead,
             \/ \E p \in Profile \union {None} : CreateLead(l, p)
             \/ \E status \in {"OPEN", "CONVERTED"} : UpdateLead(l, status)
             \/ DeleteLead(l)
      PROVE  IInv'
  <2>1. lead' \in [Lead -> LeadRow]
    <3>1. lead \in [Lead -> LeadRow]
      BY <1>0 DEF TypeOK
    <3>2. CASE \E p \in Profile \union {None} : CreateLead(l, p)
      BY <3>1, <3>2 DEF CreateLead, LeadRow
    <3>3. CASE \E status \in {"OPEN", "CONVERTED"} : UpdateLead(l, status)
      BY <3>1, <3>3 DEF UpdateLead, LeadRow
    <3>4. CASE DeleteLead(l)
      BY <3>1, <3>4 DEF DeleteLead, LeadRow
    <3> QED BY <1>4, <3>2, <3>3, <3>4
  <2>2. UNCHANGED <<intent, session, booking, commission, blocks, handler, overlap>>
    BY <1>4 DEF CreateLead, UpdateLead, DeleteLead, StaysPut
  <2> QED BY <2>1, <2>2, LeadInv
<1> QED BY <1>1, <1>2, <1>3, <1>4, SessionInv, RepriceInv DEF TableStep

-----------------------------------------------------------------------------
(* Writes of handlers.                                                      *)

(* A new row disturbs no other, and nothing is known of its identifier yet. *)
LEMMA NewBookingRows ==
  ASSUME IInv, NEW b \in Booking, NEW row \in BookingRow, NEW earns,
         NewBooking(b, row, earns), UNCHANGED <<blocks, overlap>>,
         earns # None => earns \in CommissionRow,
         row.status # "ABSENT", row.nights = Nights(row.stay)
  PROVE  /\ booking' \in [Booking -> BookingRow]
         /\ commission' \in [Booking -> CommissionRow]
         /\ booking'[b] = row
         /\ \A c \in Booking \ {b} : booking'[c] = booking[c]
         /\ ~Live(b) /\ BookingsStay /\ Blank'
         /\ CancelledHoldsNoNights' /\ NightsMatchDates'
<1>0. TypeOK /\ Blank /\ CancelledHoldsNoNights /\ NightsMatchDates
  BY DEF IInv
<1>1. /\ booking' = [booking EXCEPT ![b] = row] /\ ~Live(b)
      /\ commission' = IF earns = None THEN commission
                       ELSE [commission EXCEPT ![b] = earns]
  BY DEF NewBooking
<1>2. /\ booking' \in [Booking -> BookingRow]
      /\ booking'[b] = row
      /\ \A c \in Booking \ {b} : booking'[c] = booking[c] /\ commission'[c] = commission[c]
  BY <1>0, <1>1 DEF TypeOK
<1>3. commission' \in [Booking -> CommissionRow]
  BY <1>0, <1>1 DEF TypeOK
<1>4. BookingsStay
  BY <1>1, <1>2 DEF BookingsStay, Live
<1>5. Blank'
  BY <1>0, <1>2 DEF Blank, Live
<1>6. blocks[b] = <<>>
  BY <1>0, <1>1 DEF CancelledHoldsNoNights, Live
<1>7. CancelledHoldsNoNights'
  BY <1>0, <1>2, <1>6 DEF CancelledHoldsNoNights
<1>8. NightsMatchDates'
  BY <1>0, <1>2, <1>6 DEF NightsMatchDates, Live
<1> QED BY <1>1, <1>2, <1>3, <1>4, <1>5, <1>7, <1>8

(* What a session shows stays, unless the session is written.               *)
LEMMA ShownStays ==
  ASSUME TypeOK, SessionShowsItsBooking, BookingsStay, UNCHANGED session
  PROVE  SessionShowsItsBooking'
<1>1. ASSUME NEW s \in Session, session[s].booking # None
      PROVE  LET b == session[s].booking IN
             /\ booking'[b].status # "ABSENT" /\ booking'[b].session = s
             /\ booking'[b].profile = session[s].profile
  <2>1. session[s].booking \in Booking
    BY <1>1 DEF TypeOK, SessionRow
  <2> QED BY <1>1, <2>1 DEF SessionShowsItsBooking, BookingsStay
<1> QED BY <1>1 DEF SessionShowsItsBooking, Live

LEMMA IntentCommitInv ==
  ASSUME IInv, NEW h \in Handler, NEW b \in Booking, NEW stay \in Stay,
         NEW unit \in BOOLEAN, NEW a \in Amount, IntentCommit(h, b, stay, unit, a)
  PROVE  IInv'
<1> DEFINE r == handler[h]
           row == [BookingOf("CONFIRMED", r.profile, stay, unit) EXCEPT
                     !.intent = r.intent, !.reservation = r.reservation]
           earns == IF r.profile = None THEN None
                    ELSE [status |-> "PENDING", amount |-> a]
<1>0. TypeOK /\ AllKnown /\ Alone /\ Owned /\ ConfirmedHasBooking /\ SessionShowsItsBooking
  BY DEF IInv
<1>1. /\ NewBooking(b, row, earns) /\ Ends(h) /\ r # Idle
      /\ intent' = IntentConfirmed(r.intent)
      /\ UNCHANGED <<session, lead, blocks, overlap>>
  BY DEF IntentCommit, At, Ends, Idle
<1>2. /\ r.intent \in Intent \union {None}
      /\ r.profile \in Profile \union {None}
      /\ r.reservation \in Reservation \union {None}
  BY <1>0, HandlerAt DEF IntentCommit, At, TypeOK
<1>3. /\ row \in BookingRow /\ row.status = "CONFIRMED" /\ row.intent = r.intent
      /\ row.nights = Nights(row.stay)
  <2>1. BookingOf("CONFIRMED", r.profile, stay, unit) \in BookingRow
    BY <1>2, NewRowType DEF BookingStatus
  <2> QED BY <1>2, <2>1, NewRowType DEF BookingRow, BookingOf
<1>4. earns # None => earns \in CommissionRow
  BY DEF CommissionRow
<1> HIDE DEF row, earns
<1>5. /\ booking' \in [Booking -> BookingRow] /\ commission' \in [Booking -> CommissionRow]
      /\ booking'[b] = row /\ \A c \in Booking \ {b} : booking'[c] = booking[c]
      /\ ~Live(b) /\ BookingsStay /\ Blank'
      /\ CancelledHoldsNoNights' /\ NightsMatchDates'
  BY <1>1, <1>3, <1>4, NewBookingRows
<1>6. /\ intent' \in [Intent -> IntentRow]
      /\ \A i \in Intent : intent'[i].status =
           IF i = r.intent THEN "CONFIRMED" ELSE intent[i].status
  <2>1. CASE r.intent = None
    BY <1>0, <1>1, <2>1, TemporalNone DEF IntentConfirmed, TypeOK
  <2>2. CASE r.intent # None
    <3>1. intent' = [intent EXCEPT ![r.intent].status = "CONFIRMED"] /\ r.intent \in Intent
      BY <1>1, <1>2, <2>2 DEF IntentConfirmed
    <3> HIDE DEF r
    <3> QED BY <1>0, <3>1 DEF TypeOK, IntentRow
  <2> QED BY <2>1, <2>2
<1>7. SessionsStay /\ Owned'
  BY <1>0, <1>1 DEF SessionsStay, Owned
<1>8. AllKnown' /\ Alone' /\ handler' \in [Handler -> HandlerState] /\ overlap' \in BOOLEAN
  BY <1>0, <1>1, <1>5, <1>7, EndsKnown
<1>9. TypeOK'
  BY <1>0, <1>1, <1>5, <1>6, <1>8 DEF TypeOK
<1>10. ConfirmedHasBooking'
  <2>1. booking[b].intent = None
    BY <1>5 DEF IInv, Blank
  <2>2. ASSUME NEW i \in Intent
        PROVE  (intent'[i].status = "CONFIRMED") <=> (\E c \in Booking : booking'[c].intent = i)
    <3>1. CASE i = r.intent
      BY <1>3, <1>5, <1>6, <3>1
    <3>2. CASE i # r.intent
      <4>1. (intent[i].status = "CONFIRMED") <=> (\E c \in Booking : booking[c].intent = i)
        BY <1>0 DEF ConfirmedHasBooking
      <4>2. i # None /\ booking'[b].intent # i
        BY <1>3, <1>5, <3>2, TemporalNone
      <4> QED BY <1>5, <1>6, <2>1, <3>2, <4>1, <4>2
    <3> QED BY <3>1, <3>2
  <2> QED BY <2>2 DEF ConfirmedHasBooking
<1>11. SessionShowsItsBooking'
  BY <1>0, <1>1, <1>5, ShownStays
<1> QED BY <1>5, <1>7, <1>8, <1>9, <1>10, <1>11 DEF IInv

LEMMA ReportCommitInv ==
  ASSUME IInv, NEW h \in Handler, NEW b \in Booking, NEW stay \in Stay,
         NEW unit \in BOOLEAN, NEW a \in Amount, ReportCommit(h, b, stay, unit, a)
  PROVE  IInv'
<1> DEFINE r == handler[h]
           row == [BookingOf("PENDING", r.profile, stay, unit) EXCEPT
                     !.session = r.session, !.reservation = r.reservation]
           earns == [status |-> "PENDING_VALIDATION", amount |-> a]
<1>0. TypeOK /\ AllKnown /\ Alone /\ Owned /\ ConfirmedHasBooking /\ SessionShowsItsBooking
  BY DEF IInv
<1>1. /\ NewBooking(b, row, earns) /\ Ends(h) /\ r # Idle
      /\ session' = [session EXCEPT ![r.session].status = "CONFIRMED",
                                    ![r.session].booking = b]
      /\ UNCHANGED <<intent, lead, blocks, overlap>>
  BY DEF ReportCommit, At, Ends, Idle
<1>2. /\ r.session \in Session /\ r.profile \in Profile
      /\ r.reservation \in Reservation \union {None}
      /\ session[r.session].status # "ABSENT" /\ session[r.session].profile = r.profile
  BY <1>0, HandlerAt DEF ReportCommit, At, TypeOK, AllKnown, Known
<1>3. /\ row \in BookingRow /\ row.status = "PENDING" /\ row.intent = None
      /\ row.session = r.session /\ row.profile = r.profile
      /\ row.nights = Nights(row.stay)
  <2>1. /\ BookingOf("PENDING", r.profile, stay, unit) \in BookingRow
        /\ BookingOf("PENDING", r.profile, stay, unit).intent = None
    BY <1>2, NewRowType DEF BookingStatus
  <2> QED BY <1>2, <2>1, NewRowType DEF BookingRow, BookingOf
<1>4. earns \in CommissionRow
  BY DEF CommissionRow
<1> HIDE DEF row, earns
<1>5. /\ booking' \in [Booking -> BookingRow] /\ commission' \in [Booking -> CommissionRow]
      /\ booking'[b] = row /\ \A c \in Booking \ {b} : booking'[c] = booking[c]
      /\ ~Live(b) /\ BookingsStay /\ Blank'
      /\ CancelledHoldsNoNights' /\ NightsMatchDates'
  BY <1>1, <1>3, <1>4, NewBookingRows
<1>6. /\ session' \in [Session -> SessionRow]
      /\ \A s \in Session \ {r.session} : session'[s] = session[s]
      /\ session'[r.session].status = "CONFIRMED"
      /\ session'[r.session].booking = b
      /\ session'[r.session].profile = session[r.session].profile
  <2> HIDE DEF r
  <2> QED BY <1>0, <1>1, <1>2 DEF TypeOK, SessionRow
<1>7. SessionsStay /\ Owned'
  BY <1>0, <1>2, <1>6, TemporalNone DEF SessionsStay, Owned
<1>8. AllKnown' /\ Alone' /\ handler' \in [Handler -> HandlerState] /\ overlap' \in BOOLEAN
  BY <1>0, <1>1, <1>5, <1>7, EndsKnown
<1>9. TypeOK'
  BY <1>0, <1>1, <1>5, <1>6, <1>8 DEF TypeOK
<1>10. ConfirmedHasBooking'
  <2>1. booking[b].intent = None /\ \A i \in Intent : i # None
    BY <1>5, TemporalNone DEF IInv, Blank
  <2>2. \A c \in Booking : booking'[c].intent = booking[c].intent
    BY <1>3, <1>5, <2>1
  <2> QED BY <1>0, <1>1, <2>2 DEF ConfirmedHasBooking
<1>11. SessionShowsItsBooking'
  <2>1. ASSUME NEW s \in Session, session'[s].booking # None
        PROVE  /\ booking'[session'[s].booking].status # "ABSENT"
               /\ booking'[session'[s].booking].session = s
               /\ booking'[session'[s].booking].profile = session'[s].profile
    <3>1. CASE s = r.session
      BY <1>2, <1>3, <1>5, <1>6, <3>1
    <3>2. CASE s # r.session
      BY <1>0, <1>5, <1>6, <2>1, <3>2
         DEF SessionShowsItsBooking, BookingsStay, Live, TypeOK, SessionRow
    <3> QED BY <3>1, <3>2
  <2> QED BY <2>1 DEF SessionShowsItsBooking, Live
<1> QED BY <1>5, <1>7, <1>8, <1>9, <1>10, <1>11 DEF IInv

LEMMA ConvertCommitInv ==
  ASSUME IInv, NEW h \in Handler, NEW b \in Booking, NEW stay \in Stay,
         NEW unit \in BOOLEAN, ConvertCommit(h, b, stay, unit)
  PROVE  IInv'
<1> DEFINE r == handler[h]
           row == [BookingOf("PENDING", r.profile, stay, unit) EXCEPT !.lead = r.lead]
<1>0. TypeOK /\ AllKnown /\ Alone /\ Owned /\ ConfirmedHasBooking /\ SessionShowsItsBooking
  BY DEF IInv
<1>1. /\ NewBooking(b, row, None) /\ Ends(h) /\ r # Idle
      /\ lead' = [lead EXCEPT ![r.lead].status = "CONVERTED"]
      /\ UNCHANGED <<intent, session, blocks, overlap>>
  BY DEF ConvertCommit, At, Ends, Idle
<1>2. r.lead \in Lead /\ r.profile \in Profile \union {None}
  BY <1>0, HandlerAt DEF ConvertCommit, At, TypeOK
<1>3. /\ row \in BookingRow /\ row.status = "PENDING" /\ row.intent = None
      /\ row.nights = Nights(row.stay)
  <2>1. /\ BookingOf("PENDING", r.profile, stay, unit) \in BookingRow
        /\ BookingOf("PENDING", r.profile, stay, unit).intent = None
    BY <1>2, NewRowType DEF BookingStatus
  <2> QED BY <1>2, <2>1, NewRowType DEF BookingRow, BookingOf
<1> HIDE DEF row
<1>5. /\ booking' \in [Booking -> BookingRow] /\ commission' \in [Booking -> CommissionRow]
      /\ booking'[b] = row /\ \A c \in Booking \ {b} : booking'[c] = booking[c]
      /\ ~Live(b) /\ BookingsStay /\ Blank'
      /\ CancelledHoldsNoNights' /\ NightsMatchDates'
  BY <1>1, <1>3, NewBookingRows
<1>6. lead' \in [Lead -> LeadRow]
  <2> HIDE DEF r
  <2> QED BY <1>0, <1>1, <1>2 DEF TypeOK, LeadRow
<1>7. SessionsStay /\ Owned'
  BY <1>0, <1>1 DEF SessionsStay, Owned
<1>8. AllKnown' /\ Alone' /\ handler' \in [Handler -> HandlerState] /\ overlap' \in BOOLEAN
  BY <1>0, <1>1, <1>5, <1>7, EndsKnown
<1>9. TypeOK'
  BY <1>0, <1>1, <1>5, <1>6, <1>8 DEF TypeOK
<1>10. ConfirmedHasBooking'
  <2>1. booking[b].intent = None
    BY <1>5 DEF IInv, Blank
  <2>2. \A c \in Booking : booking'[c].intent = booking[c].intent
    BY <1>3, <1>5, <2>1
  <2> QED BY <1>0, <1>1, <2>2 DEF ConfirmedHasBooking
<1>11. SessionShowsItsBooking'
  BY <1>0, <1>1, <1>5, ShownStays
<1> QED BY <1>5, <1>7, <1>8, <1>9, <1>10, <1>11 DEF IInv

(* A write on a booking that is live: its row keeps what ties it to others. *)
LEMMA LiveRows ==
  ASSUME IInv, NEW h \in Handler, handler[h] # Idle, Ends(h),
         UNCHANGED <<intent, session, lead>>,
         booking' \in [Booking -> BookingRow],
         commission' \in [Booking -> CommissionRow],
         blocks' \in [Booking -> Seq(Stay)], BookingsStay,
         \A b \in Booking : ~Live(b) =>
           booking'[b] = booking[b] /\ commission'[b] = commission[b],
         CancelledHoldsNoNights', NightsMatchDates'
  PROVE  IInv'
<1>0. TypeOK /\ AllKnown /\ Alone /\ Owned /\ ConfirmedHasBooking /\ SessionShowsItsBooking
  BY DEF IInv
<1>1. SessionsStay /\ Owned'
  BY <1>0 DEF SessionsStay, Owned
<1>2. AllKnown' /\ Alone' /\ handler' \in [Handler -> HandlerState] /\ overlap' \in BOOLEAN
  BY <1>0, <1>1, EndsKnown
<1>3. TypeOK'
  BY <1>0, <1>2 DEF TypeOK
<1>4. \A b \in Booking : booking'[b].intent = booking[b].intent
  BY DEF BookingsStay
<1>5. Blank'
  BY <1>4 DEF IInv, Blank, BookingsStay, Live
<1>6. ConfirmedHasBooking'
  BY <1>0, <1>4 DEF ConfirmedHasBooking
<1>7. SessionShowsItsBooking'
  BY <1>0, ShownStays
<1> QED BY <1>1, <1>2, <1>3, <1>5, <1>6, <1>7 DEF IInv

(* A row whose status, or whose dates, are written.                         *)
LEMMA StatusRow ==
  ASSUME NEW row \in BookingRow, NEW st \in BookingStatus
  PROVE  LET new == [row EXCEPT !.status = st] IN
         /\ new \in BookingRow /\ new.status = st /\ new.intent = row.intent
         /\ new.session = row.session /\ new.profile = row.profile
         /\ new.stay = row.stay /\ new.nights = row.nights
BY DEF BookingRow

LEMMA StayRow ==
  ASSUME NEW row \in BookingRow, NEW stay \in Stay, NEW n \in Int
  PROVE  LET new == [row EXCEPT !.stay = stay, !.nights = n] IN
         /\ new \in BookingRow /\ new.status = row.status /\ new.intent = row.intent
         /\ new.session = row.session /\ new.profile = row.profile
         /\ new.stay = stay /\ new.nights = n
BY DEF BookingRow

LEMMA OneRow ==
  ASSUME TypeOK, NEW b \in Booking, NEW row \in BookingRow,
         booking' = [booking EXCEPT ![b] = row]
  PROVE  /\ booking' \in [Booking -> BookingRow] /\ booking'[b] = row
         /\ \A c \in Booking \ {b} : booking'[c] = booking[c]
BY DEF TypeOK

LEMMA ConfirmInv ==
  ASSUME IInv, NEW h \in Handler, ConfirmCommit(h)
  PROVE  IInv'
<1> DEFINE b == handler[h].booking
<1>0. TypeOK /\ CancelledHoldsNoNights /\ NightsMatchDates
  BY DEF IInv
<1>1. /\ b \in Booking /\ Live(b) /\ handler[h].stay \in Stay
      /\ ~overlap => booking[b].status = "PENDING"
  BY <1>0, HandlerAt DEF ConfirmCommit, At, TypeOK, IInv, AllKnown, Known
<1>2. /\ handler[h] # Idle /\ Ends(h) /\ UNCHANGED <<intent, session, lead, overlap>>
      /\ booking' = [booking EXCEPT ![b].status = "CONFIRMED"]
      /\ blocks' = IF handler[h].unit
                   THEN [blocks EXCEPT ![b] = Append(blocks[b], handler[h].stay)] ELSE blocks
      /\ commission' = IF commission[b].status = "PENDING"
                       THEN [commission EXCEPT ![b].status = "APPROVED"] ELSE commission
  BY <1>0, <1>1 DEF ConfirmCommit, At, Idle, Ends, Approved, TypeOK
<1> HIDE DEF b
<1>3. /\ booking' \in [Booking -> BookingRow]
      /\ \A c \in Booking \ {b} : booking'[c] = booking[c]
      /\ booking'[b] = [booking[b] EXCEPT !.status = "CONFIRMED"]
  <2>1. booking[b] \in BookingRow /\ "CONFIRMED" \in BookingStatus
    BY <1>0, <1>1 DEF TypeOK, BookingStatus
  <2>2. [booking[b] EXCEPT !.status = "CONFIRMED"] \in BookingRow
    BY <2>1, StatusRow
  <2>3. booking' = [booking EXCEPT ![b] = [booking[b] EXCEPT !.status = "CONFIRMED"]]
    BY <1>2
  <2> QED BY <1>0, <1>1, <2>2, <2>3, OneRow
<1>4. /\ booking'[b].status = "CONFIRMED" /\ booking'[b].intent = booking[b].intent
      /\ booking'[b].session = booking[b].session /\ booking'[b].profile = booking[b].profile
      /\ booking'[b].stay = booking[b].stay /\ booking'[b].nights = booking[b].nights
  <2>1. booking[b] \in BookingRow /\ "CONFIRMED" \in BookingStatus
    BY <1>0, <1>1 DEF TypeOK, BookingStatus
  <2> QED BY <1>3, <2>1, StatusRow
<1>5. /\ commission' \in [Booking -> CommissionRow]
      /\ \A c \in Booking :
           (commission'[c].status = "ABSENT") <=> (commission[c].status = "ABSENT")
      /\ \A c \in Booking \ {b} : commission'[c] = commission[c]
  BY <1>0, <1>1, <1>2 DEF TypeOK, CommissionRow
<1>6. /\ blocks' \in [Booking -> Seq(Stay)]
      /\ \A c \in Booking \ {b} : blocks'[c] = blocks[c]
      /\ blocks'[b] \in {blocks[b], Append(blocks[b], handler[h].stay)}
  BY <1>0, <1>1, <1>2 DEF TypeOK
<1>7. BookingsStay
  BY <1>3, <1>4, <1>5 DEF BookingsStay, Live
<1>8. CancelledHoldsNoNights'
  BY <1>0, <1>3, <1>4, <1>6 DEF CancelledHoldsNoNights
<1>9. NightsMatchDates'
  <2>1. ASSUME ~overlap
        PROVE  Len(blocks'[b]) <= 1 /\ booking'[b].nights = Nights(booking'[b].stay)
    <3>1. blocks[b] = <<>>
      BY <1>0, <1>1, <2>1 DEF CancelledHoldsNoNights
    <3>2. blocks'[b] \in {<<>>, <<handler[h].stay>>}
      BY <1>6, <3>1
    <3>3. Len(blocks'[b]) <= 1
      <4>1. CASE blocks'[b] = <<>>
        BY <4>1
      <4>2. CASE blocks'[b] = <<handler[h].stay>>
        <5>1. Len(<<handler[h].stay>>) = 1
          OBVIOUS
        <5> QED BY <4>2, <5>1
      <4> QED BY <3>2, <4>1, <4>2
    <3>4. booking[b].nights = Nights(booking[b].stay)
      BY <1>0, <1>1, <2>1 DEF NightsMatchDates
    <3> QED BY <1>4, <3>3, <3>4
  <2> QED BY <1>0, <1>2, <1>3, <1>6, <2>1 DEF NightsMatchDates, Live
<1>10. \A c \in Booking : ~Live(c) =>
         booking'[c] = booking[c] /\ commission'[c] = commission[c]
  BY <1>1, <1>3, <1>5
<1> QED BY <1>2, <1>3, <1>5, <1>6, <1>7, <1>8, <1>9, <1>10, LiveRows

LEMMA CancelInv ==
  ASSUME IInv, NEW h \in Handler, CancelCommit(h)
  PROVE  IInv'
<1> DEFINE b == handler[h].booking
<1>0. TypeOK /\ CancelledHoldsNoNights /\ NightsMatchDates
  BY DEF IInv
<1>1. /\ b \in Booking /\ Live(b)
      /\ handler[h].earns <=> commission[b].status # "ABSENT"
  BY <1>0, HandlerAt DEF CancelCommit, At, TypeOK, IInv, AllKnown, Known
<1>2. /\ handler[h] # Idle /\ Ends(h) /\ UNCHANGED <<intent, session, lead, overlap>>
      /\ booking' = [booking EXCEPT ![b].status = "CANCELLED"]
      /\ blocks' = [blocks EXCEPT ![b] = <<>>]
      /\ commission' = IF commission[b].status # "ABSENT"
                       THEN [commission EXCEPT ![b].status = "CANCELLED"] ELSE commission
  BY <1>0, <1>1 DEF CancelCommit, At, Idle, Ends, Released
<1> HIDE DEF b
<1>3. /\ booking' \in [Booking -> BookingRow]
      /\ \A c \in Booking \ {b} : booking'[c] = booking[c]
      /\ booking'[b] = [booking[b] EXCEPT !.status = "CANCELLED"]
  <2>1. booking[b] \in BookingRow /\ "CANCELLED" \in BookingStatus
    BY <1>0, <1>1 DEF TypeOK, BookingStatus
  <2>2. [booking[b] EXCEPT !.status = "CANCELLED"] \in BookingRow
    BY <2>1, StatusRow
  <2>3. booking' = [booking EXCEPT ![b] = [booking[b] EXCEPT !.status = "CANCELLED"]]
    BY <1>2
  <2> QED BY <1>0, <1>1, <2>2, <2>3, OneRow
<1>4. /\ booking'[b].status = "CANCELLED" /\ booking'[b].intent = booking[b].intent
      /\ booking'[b].session = booking[b].session /\ booking'[b].profile = booking[b].profile
      /\ booking'[b].stay = booking[b].stay /\ booking'[b].nights = booking[b].nights
  <2>1. booking[b] \in BookingRow /\ "CANCELLED" \in BookingStatus
    BY <1>0, <1>1 DEF TypeOK, BookingStatus
  <2> QED BY <1>3, <2>1, StatusRow
<1>5. /\ commission' \in [Booking -> CommissionRow]
      /\ \A c \in Booking :
           (commission'[c].status = "ABSENT") <=> (commission[c].status = "ABSENT")
      /\ \A c \in Booking \ {b} : commission'[c] = commission[c]
  BY <1>0, <1>1, <1>2 DEF TypeOK, CommissionRow
<1>6. /\ blocks' \in [Booking -> Seq(Stay)]
      /\ \A c \in Booking \ {b} : blocks'[c] = blocks[c]
      /\ blocks'[b] = <<>>
  BY <1>0, <1>1, <1>2 DEF TypeOK
<1>7. BookingsStay
  BY <1>3, <1>4, <1>5 DEF BookingsStay, Live
<1>8. CancelledHoldsNoNights'
  BY <1>0, <1>3, <1>6 DEF CancelledHoldsNoNights
<1>9. NightsMatchDates'
  BY <1>0, <1>1, <1>2, <1>3, <1>4, <1>6 DEF NightsMatchDates, Live
<1>10. \A c \in Booking : ~Live(c) =>
         booking'[c] = booking[c] /\ commission'[c] = commission[c]
  BY <1>1, <1>3, <1>5
<1> QED BY <1>2, <1>3, <1>5, <1>6, <1>7, <1>8, <1>9, <1>10, LiveRows

LEMMA EditInv ==
  ASSUME IInv, NEW h \in Handler, EditCommit(h)
  PROVE  IInv'
<1> DEFINE r == handler[h]
           b == r.booking
           stay == EditedStay(booking[b].stay, r.in, r.out)
<1>0. TypeOK /\ CancelledHoldsNoNights /\ NightsMatchDates
  BY DEF IInv
<1>1. /\ b \in Booking /\ Live(b) /\ r.nights \in Int
      /\ r.in \in Day \union {None} /\ r.out \in Day \union {None}
      /\ ~overlap => r.nights = Nights(stay)
  BY <1>0, HandlerAt DEF EditCommit, At, TypeOK, IInv, AllKnown, Known
<1>2. /\ r # Idle /\ Ends(h)
      /\ UNCHANGED <<intent, session, lead, commission, blocks, overlap>>
      /\ booking' = [booking EXCEPT ![b] =
           [booking[b] EXCEPT !.stay = stay, !.nights = r.nights]]
  BY <1>0, <1>1 DEF EditCommit, At, Idle, Ends, EditedNights, TypeOK
<1>3. stay \in Stay
  BY <1>0, <1>1, EditedStayType DEF TypeOK, BookingRow
<1> HIDE DEF b, stay, r
<1>4. /\ booking' \in [Booking -> BookingRow]
      /\ \A c \in Booking \ {b} : booking'[c] = booking[c]
      /\ booking'[b].status = booking[b].status /\ booking'[b].intent = booking[b].intent
      /\ booking'[b].session = booking[b].session /\ booking'[b].profile = booking[b].profile
      /\ booking'[b].stay = stay /\ booking'[b].nights = r.nights
  <2> DEFINE new == [booking[b] EXCEPT !.stay = stay, !.nights = r.nights]
  <2>1. booking[b] \in BookingRow
    BY <1>0, <1>1 DEF TypeOK
  <2>2. /\ new \in BookingRow /\ new.status = booking[b].status
        /\ new.intent = booking[b].intent /\ new.session = booking[b].session
        /\ new.profile = booking[b].profile /\ new.stay = stay /\ new.nights = r.nights
    <3> DEFINE n == r.nights
               row == booking[b]
    <3>1. row \in BookingRow /\ n \in Int
      BY <1>1, <2>1
    <3> HIDE DEF n, row
    <3>2. LET x == [row EXCEPT !.stay = stay, !.nights = n] IN
          /\ x \in BookingRow /\ x.status = row.status /\ x.intent = row.intent
          /\ x.session = row.session /\ x.profile = row.profile
          /\ x.stay = stay /\ x.nights = n
      BY <1>3, <3>1, StayRow
    <3> QED BY <3>2 DEF n, row
  <2>3. booking' = [booking EXCEPT ![b] = new]
    BY <1>0, <1>1, <1>2 DEF TypeOK
  <2> HIDE DEF new
  <2> QED BY <1>0, <1>1, <2>2, <2>3, OneRow
<1>5. BookingsStay
  BY <1>2, <1>4 DEF BookingsStay, Live
<1>6. CancelledHoldsNoNights'
  BY <1>0, <1>2, <1>4 DEF CancelledHoldsNoNights
<1>7. NightsMatchDates'
  BY <1>0, <1>1, <1>2, <1>4 DEF NightsMatchDates, Live
<1>8. \A c \in Booking : ~Live(c) =>
        booking'[c] = booking[c] /\ commission'[c] = commission[c]
  BY <1>1, <1>2, <1>4
<1>9. commission' \in [Booking -> CommissionRow] /\ blocks' \in [Booking -> Seq(Stay)]
  BY <1>0, <1>2 DEF TypeOK
<1> QED BY <1>2, <1>4, <1>5, <1>6, <1>7, <1>8, <1>9, LiveRows DEF r

LEMMA FailInv ==
  ASSUME IInv, NEW h \in Handler, Fail(h)
  PROVE  IInv'
<1>1. handler[h] # Idle /\ Ends(h) /\ UNCHANGED <<tables, overlap>>
  BY DEF Fail, Ends
<1>2. UNCHANGED <<intent, session, lead, booking, commission, blocks>>
  BY <1>1 DEF tables
<1>3. BookingsStay
  BY <1>2 DEF BookingsStay, Live
<1>4. CancelledHoldsNoNights' /\ NightsMatchDates'
  BY <1>1, <1>2 DEF IInv, CancelledHoldsNoNights, NightsMatchDates, Live
<1> QED BY <1>1, <1>2, <1>3, <1>4, LiveRows DEF IInv, TypeOK

-----------------------------------------------------------------------------
LEMMA InitInv == Init => IInv
<1> SUFFICES ASSUME Init PROVE IInv
  OBVIOUS
<1>0. SomeStay \in Stay
  <2>1. PICK d \in Day : TRUE
    BY TemporalDays
  <2>2. [in |-> d, out |-> d] \in Stay
    BY <2>1 DEF Stay
  <2> QED BY <2>2 DEF SomeStay
<1>1. TypeOK
  <2>1. booking \in [Booking -> BookingRow]
    BY <1>0 DEF Init, BookingRow
  <2>2. commission \in [Booking -> CommissionRow]
    BY TemporalAmounts DEF Init, CommissionRow
  <2>3. /\ intent \in [Intent -> IntentRow]
        /\ session \in [Session -> SessionRow]
        /\ lead \in [Lead -> LeadRow]
    BY DEF Init, IntentRow, SessionRow, LeadRow
  <2>4. blocks \in [Booking -> Seq(Stay)]
    BY DEF Init
  <2>5. handler \in [Handler -> HandlerState] /\ overlap \in BOOLEAN
    BY DEF Init, HandlerState
  <2> QED BY <2>1, <2>2, <2>3, <2>4, <2>5 DEF TypeOK
<1>2. Blank /\ Owned /\ AllKnown /\ Alone
  BY DEF Init, Blank, Owned, Live, AllKnown, Known, Idle, Alone
<1>3. ConfirmedHasBooking /\ SessionShowsItsBooking
  BY TemporalNone DEF Init, ConfirmedHasBooking, SessionShowsItsBooking
<1>4. CancelledHoldsNoNights /\ NightsMatchDates
  BY DEF Init, CancelledHoldsNoNights, NightsMatchDates, Live
<1> QED BY <1>1, <1>2, <1>3, <1>4 DEF IInv

LEMMA NextInv == IInv /\ [Next]_vars => IInv'
<1> SUFFICES ASSUME IInv, [Next]_vars PROVE IInv'
  OBVIOUS
<1>1. CASE UNCHANGED vars
  BY <1>1 DEF vars, tables, IInv, TypeOK, Blank, Owned, Live, AllKnown, Known, Alone,
     ConfirmedHasBooking, SessionShowsItsBooking, CancelledHoldsNoNights,
     NightsMatchDates
<1>2. ASSUME NEW h \in Handler, HandlerStep(h)
      PROVE  IInv'
  BY <1>2, ReadsInv, IntentCommitInv, ReportCommitInv, ConvertCommitInv, ConfirmInv,
     CancelInv, EditInv, FailInv DEF HandlerStep
<1> QED BY <1>1, <1>2, TableInv DEF Next

LEMMA Invariant == Spec => []IInv
BY InitInv, NextInv, PTL DEF Spec

(* Tables and handlers are always well formed: in particular, a report has   *)
(* an ambassador to earn its commission.                                    *)
THEOREM TemporalTypeCorrect == Spec => []TypeOK
<1>1. IInv => TypeOK
  BY DEF IInv
<1> QED BY <1>1, Invariant, PTL

(* An intent is confirmed exactly if it has a booking, and the booking a     *)
(* session shows is its own, however handlers, clicks and the job fall.     *)
THEOREM BackedByBookings == Spec => []BookingsAreBacked
<1>1. IInv => BookingsAreBacked
  BY DEF IInv, BookingsAreBacked
<1> QED BY <1>1, Invariant, PTL

(* Nights are held for confirmed bookings; and once each, for the dates of   *)
(* the booking, if handlers do not overlap.                                 *)
THEOREM NightsRight == Spec => []NightsHeldRight
<1>1. IInv => NightsHeldRight
  BY DEF IInv, NightsHeldRight
<1> QED BY <1>1, Invariant, PTL

(* A report without a reservation id is counted once per start of its       *)
(* session, if handlers do not overlap.                                     *)
THEOREM CountedOnce == Spec => ReportCountsOnce
<1> DEFINE Once == \A s \in Session :
      /\ ~overlap
      /\ session'[s].booking # session[s].booking
      /\ booking'[session'[s].booking].reservation = None
      => session[s].status = "STARTED"
<1>1. ASSUME IInv, [Next]_vars PROVE [Once]_vars
  <2>0. TypeOK /\ Owned /\ AllKnown
    BY <1>1 DEF IInv
  <2>1. ASSUME UNCHANGED session PROVE Once
    BY <2>1
  <2>2. ASSUME NEW s \in Session, NEW p \in Profile, StartSession(s, p) PROVE Once
    <3>1. \A t \in Session : session'[t].booking = session[t].booking
      BY <2>0, <2>2 DEF StartSession, Started, TypeOK, SessionRow, Owned
    <3> QED BY <3>1
  <2>3. ASSUME NEW h \in Handler, NEW b \in Booking, NEW stay \in Stay,
               NEW unit \in BOOLEAN, NEW a \in Amount, ReportCommit(h, b, stay, unit, a)
        PROVE  Once
    <3> DEFINE r == handler[h]
    <3>1. r.session \in Session /\ r.reservation \in Reservation \union {None}
            /\ r.profile \in Profile
      BY <2>0, <2>3, HandlerAt DEF ReportCommit, At, TypeOK
    <3>2. /\ session' = [session EXCEPT ![r.session].status = "CONFIRMED",
                                        ![r.session].booking = b]
          /\ booking' = [booking EXCEPT ![b] =
               [BookingOf("PENDING", r.profile, stay, unit) EXCEPT
                  !.session = r.session, !.reservation = r.reservation]]
      BY <2>3 DEF ReportCommit, NewBooking
    <3>3. booking'[b].reservation = r.reservation
      BY <2>0, <3>2 DEF TypeOK, BookingOf
    <3>4. session'[r.session].booking = b
      BY <2>0, <3>1, <3>2 DEF TypeOK, SessionRow
    <3>5. \A t \in Session \ {r.session} : session'[t] = session[t]
      BY <2>0, <3>2 DEF TypeOK
    <3>6. ~overlap /\ r.reservation = None => session[r.session].status = "STARTED"
      BY <2>0, <2>3 DEF AllKnown, Known, ReportCommit, At
    <3> QED BY <3>3, <3>4, <3>5, <3>6
  <2>4. CASE TableStep
    BY <2>1, <2>2, <2>4 DEF TableStep, CreateIntent, FallDue, MarkRedirected,
       ExpirePendingIntents, CreateLead, UpdateLead, DeleteLead, Reprice
  <2>5. ASSUME NEW h \in Handler, HandlerStep(h) PROVE Once
    <3> HIDE DEF Once
    <3> QED BY <2>1, <2>3, <2>5 DEF HandlerStep, IntentRead, ReportRead, ConvertRead,
       ConfirmRead, CancelRead, EditRead, Starts, tables, IntentCommit, ConvertCommit,
       ConfirmCommit, CancelCommit, EditCommit, Fail
  <2> HIDE DEF Once
  <2> QED BY <1>1, <2>4, <2>5 DEF Next
<1> QED BY <1>1, Invariant, PTL DEF Spec, ReportCountsOnce

-----------------------------------------------------------------------------
(* TemporalBookings implements CommissionLedger: every handler's write is a *)
(* step of the ledger or does not touch what the ledger knows.              *)

OthersKept(b) ==
  \A c \in Booking \ {b} : booking'[c] = booking[c] /\ commission'[c] = commission[c]

LEMMA LedgerKept ==
  ASSUME \A c \in Booking :
           /\ commission'[c] = commission[c]
           /\ commission[c].status # "ABSENT" =>
                booking'[c].profile = booking[c].profile /\ booking'[c].status = booking[c].status
  PROVE  UNCHANGED Ledger!ledger
BY DEF Ledger!ledger

LEMMA LedgerOpens ==
  ASSUME NEW b \in Booking, OthersKept(b),
         NEW p \in Profile, NEW a \in Amount, NEW st \in {"PENDING", "CONFIRMED"},
         NEW cs \in {"PENDING", "PENDING_VALIDATION"},
         commission[b].status = "ABSENT",
         booking'[b].status = st, booking'[b].profile = p,
         commission'[b].status = cs, commission'[b].amount = a
  PROVE  Ledger!LedgerNext
<1>1. Ledger!Open(b, p, st, cs, a)
  BY DEF Ledger!Open, OthersKept
<1> QED BY <1>1 DEF Ledger!LedgerNext

LEMMA LedgerConfirms ==
  ASSUME NEW b \in Booking, OthersKept(b), NEW a \in Amount,
         commission[b].status # "ABSENT", commission[b].amount = a,
         booking'[b].status = "CONFIRMED", booking'[b].profile = booking[b].profile,
         commission'[b].status = IF commission[b].status = "PENDING" THEN "APPROVED"
                                 ELSE commission[b].status,
         commission'[b].amount = a
  PROVE  Ledger!LedgerNext
<1>1. "CONFIRMED" \in Ledger!BookingStatus
  BY DEF Ledger!BookingStatus
<1>2. Ledger!Move(b, "CONFIRMED", a)
  BY <1>1 DEF Ledger!Move, OthersKept
<1> QED BY <1>1, <1>2 DEF Ledger!LedgerNext

LEMMA LedgerCancels ==
  ASSUME NEW b \in Booking, OthersKept(b), commission[b].status # "ABSENT",
         booking'[b].status = "CANCELLED", booking'[b].profile = booking[b].profile,
         commission'[b].status = "CANCELLED",
         commission'[b].amount = commission[b].amount
  PROVE  Ledger!LedgerNext
BY DEF Ledger!LedgerNext, Ledger!Cancel, OthersKept

LEMMA NewBookingLedger ==
  ASSUME IInv, NEW b \in Booking, NEW row \in BookingRow, NEW earns,
         NewBooking(b, row, earns), row.status \in {"PENDING", "CONFIRMED"},
         \/ earns = None
         \/ /\ row.profile \in Profile /\ earns \in CommissionRow
            /\ earns.status \in {"PENDING", "PENDING_VALIDATION"}
  PROVE  Ledger!LedgerNext \/ UNCHANGED Ledger!ledger
<1>1. /\ booking \in [Booking -> BookingRow] /\ commission \in [Booking -> CommissionRow]
      /\ commission[b].status = "ABSENT" /\ booking' = [booking EXCEPT ![b] = row]
  BY DEF IInv, TypeOK, Blank, NewBooking
<1>2. CASE commission' = commission
  BY <1>1, <1>2, LedgerKept
<1>3. CASE commission' # commission
  <2>1. earns # None /\ commission' = [commission EXCEPT ![b] = earns]
    BY <1>3 DEF NewBooking
  <2>2. /\ OthersKept(b) /\ booking'[b] = row /\ commission'[b] = earns
    BY <1>1, <2>1 DEF OthersKept
  <2>3. earns.amount \in Amount /\ row.profile \in Profile
          /\ earns.status \in {"PENDING", "PENDING_VALIDATION"}
    BY <2>1 DEF CommissionRow
  <2> QED BY <1>1, <2>2, <2>3, LedgerOpens
<1> QED BY <1>2, <1>3

LEMMA CommitLedger ==
  ASSUME IInv, NEW h \in Handler, NEW b \in Booking, NEW stay \in Stay, NEW unit \in BOOLEAN,
         \/ \E a \in Amount : IntentCommit(h, b, stay, unit, a) \/ ReportCommit(h, b, stay, unit, a)
         \/ ConvertCommit(h, b, stay, unit)
  PROVE  Ledger!LedgerNext \/ UNCHANGED Ledger!ledger
<1> DEFINE r == handler[h]
<1>0. TypeOK
  BY DEF IInv
<1>1. ASSUME NEW a \in Amount, IntentCommit(h, b, stay, unit, a)
      PROVE  Ledger!LedgerNext \/ UNCHANGED Ledger!ledger
  <2> DEFINE row == [BookingOf("CONFIRMED", r.profile, stay, unit) EXCEPT
                       !.intent = r.intent, !.reservation = r.reservation]
             earns == IF r.profile = None THEN None
                      ELSE [status |-> "PENDING", amount |-> a]
  <2>1. /\ r.intent \in Intent \union {None} /\ r.profile \in Profile \union {None}
        /\ r.reservation \in Reservation \union {None}
    BY <1>0, <1>1, HandlerAt DEF IntentCommit, At, TypeOK
  <2>2. BookingOf("CONFIRMED", r.profile, stay, unit) \in BookingRow
    BY <2>1, NewRowType DEF BookingStatus
  <2>3. row \in BookingRow /\ row.status = "CONFIRMED" /\ row.profile = r.profile
    BY <2>1, <2>2 DEF BookingRow, BookingOf
  <2>4. \/ earns = None
        \/ r.profile \in Profile /\ earns \in CommissionRow /\ earns.status = "PENDING"
    BY <2>1 DEF CommissionRow
  <2>5. NewBooking(b, row, earns)
    BY <1>1 DEF IntentCommit
  <2> HIDE DEF row, earns
  <2> QED BY <2>3, <2>4, <2>5, NewBookingLedger
<1>2. ASSUME NEW a \in Amount, ReportCommit(h, b, stay, unit, a)
      PROVE  Ledger!LedgerNext \/ UNCHANGED Ledger!ledger
  <2> DEFINE row == [BookingOf("PENDING", r.profile, stay, unit) EXCEPT
                       !.session = r.session, !.reservation = r.reservation]
             earns == [status |-> "PENDING_VALIDATION", amount |-> a]
  <2>1. /\ r.session \in Session /\ r.profile \in Profile
        /\ r.reservation \in Reservation \union {None}
    BY <1>0, <1>2, HandlerAt DEF ReportCommit, At, TypeOK
  <2>2. BookingOf("PENDING", r.profile, stay, unit) \in BookingRow
    BY <2>1, NewRowType DEF BookingStatus
  <2>3. row \in BookingRow /\ row.status = "PENDING" /\ row.profile = r.profile
    BY <2>1, <2>2 DEF BookingRow, BookingOf
  <2>4. earns \in CommissionRow /\ earns.status = "PENDING_VALIDATION"
    BY DEF CommissionRow
  <2>5. NewBooking(b, row, earns)
    BY <1>2 DEF ReportCommit
  <2> HIDE DEF row, earns
  <2> QED BY <2>1, <2>3, <2>4, <2>5, NewBookingLedger
<1>3. CASE ConvertCommit(h, b, stay, unit)
  <2> DEFINE row == [BookingOf("PENDING", r.profile, stay, unit) EXCEPT !.lead = r.lead]
  <2>1. r.lead \in Lead /\ r.profile \in Profile \union {None}
    BY <1>0, <1>3, HandlerAt DEF ConvertCommit, At, TypeOK
  <2>2. BookingOf("PENDING", r.profile, stay, unit) \in BookingRow
    BY <2>1, NewRowType DEF BookingStatus
  <2>3. row \in BookingRow /\ row.status = "PENDING"
    BY <2>1, <2>2 DEF BookingRow, BookingOf
  <2>4. NewBooking(b, row, None)
    BY <1>3 DEF ConvertCommit
  <2> HIDE DEF row
  <2> QED BY <2>3, <2>4, NewBookingLedger
<1> QED BY <1>1, <1>2, <1>3

LEMMA ConfirmLedger ==
  ASSUME IInv, NEW h \in Handler, ConfirmCommit(h)
  PROVE  Ledger!LedgerNext \/ UNCHANGED Ledger!ledger
<1> DEFINE b == handler[h].booking
<1>0. booking \in [Booking -> BookingRow] /\ commission \in [Booking -> CommissionRow]
  BY DEF IInv, TypeOK
<1>1. b \in Booking
  BY HandlerAt DEF ConfirmCommit, At, TypeOK, IInv
<1>2. /\ booking' = [booking EXCEPT ![b].status = "CONFIRMED"]
      /\ commission' = IF commission[b].status = "PENDING"
                       THEN [commission EXCEPT ![b].status = "APPROVED"] ELSE commission
  BY DEF ConfirmCommit, Approved
<1> HIDE DEF b
<1>3. /\ OthersKept(b)
      /\ booking'[b].status = "CONFIRMED" /\ booking'[b].profile = booking[b].profile
      /\ commission'[b].status = IF commission[b].status = "PENDING" THEN "APPROVED"
                                 ELSE commission[b].status
      /\ commission'[b].amount = commission[b].amount /\ commission[b].amount \in Amount
  BY <1>0, <1>1, <1>2 DEF OthersKept, BookingRow, CommissionRow
<1>4. CASE commission[b].status = "ABSENT"
  <2>1. commission' = commission
    BY <1>2, <1>4
  <2> QED BY <1>3, <1>4, <2>1, LedgerKept DEF OthersKept
<1>5. CASE commission[b].status # "ABSENT"
  BY <1>1, <1>3, <1>5, LedgerConfirms
<1> QED BY <1>4, <1>5

LEMMA CancelLedger ==
  ASSUME IInv, NEW h \in Handler, CancelCommit(h)
  PROVE  Ledger!LedgerNext \/ UNCHANGED Ledger!ledger
<1> DEFINE b == handler[h].booking
<1>0. booking \in [Booking -> BookingRow] /\ commission \in [Booking -> CommissionRow]
  BY DEF IInv, TypeOK
<1>1. b \in Booking /\ (handler[h].earns <=> commission[b].status # "ABSENT")
  BY HandlerAt DEF CancelCommit, At, TypeOK, IInv, AllKnown, Known
<1>2. /\ booking' = [booking EXCEPT ![b].status = "CANCELLED"]
      /\ commission' = IF commission[b].status # "ABSENT"
                       THEN [commission EXCEPT ![b].status = "CANCELLED"] ELSE commission
  BY <1>1 DEF CancelCommit
<1> HIDE DEF b
<1>3. /\ OthersKept(b)
      /\ booking'[b].status = "CANCELLED" /\ booking'[b].profile = booking[b].profile
      /\ commission[b].status # "ABSENT" => commission'[b].status = "CANCELLED"
      /\ commission'[b].amount = commission[b].amount
  BY <1>0, <1>1, <1>2 DEF OthersKept, BookingRow, CommissionRow
<1>4. CASE commission[b].status = "ABSENT"
  <2>1. commission' = commission
    BY <1>2, <1>4
  <2> QED BY <1>3, <1>4, <2>1, LedgerKept DEF OthersKept
<1>5. CASE commission[b].status # "ABSENT"
  BY <1>1, <1>3, <1>5, LedgerCancels
<1> QED BY <1>4, <1>5

LEMMA RepriceLedger ==
  ASSUME IInv, NEW b \in Booking, NEW a \in Amount, Reprice(b, a)
  PROVE  Ledger!LedgerNext
<1>1. /\ booking' = booking /\ commission[b].status = "PENDING"
      /\ commission' = [commission EXCEPT ![b].amount = a]
      /\ commission \in [Booking -> CommissionRow]
  BY DEF Reprice, IInv, TypeOK
<1>2. /\ \A c \in Booking : commission'[c].status = commission[c].status
      /\ \A c \in Booking \ {b} : commission'[c].amount = commission[c].amount
      /\ commission'[b].amount = a
  BY <1>1 DEF CommissionRow
<1>3. Ledger!Reprice(b, a)
  BY <1>1, <1>2 DEF Ledger!Reprice
<1> QED BY <1>3 DEF Ledger!LedgerNext

LEMMA EditLedger ==
  ASSUME IInv, NEW h \in Handler, EditCommit(h)
  PROVE  UNCHANGED Ledger!ledger
<1> DEFINE b == handler[h].booking
<1>1. commission' = commission /\ booking \in [Booking -> BookingRow] /\ b \in Booking
  BY HandlerAt DEF EditCommit, At, IInv, TypeOK
<1>2. PICK stay, n :
        booking' = [booking EXCEPT ![b] = [booking[b] EXCEPT !.stay = stay, !.nights = n]]
  BY <1>1 DEF EditCommit
<1> HIDE DEF b
<1>3. \A c \in Booking : booking'[c].profile = booking[c].profile
                           /\ booking'[c].status = booking[c].status
  BY <1>1, <1>2 DEF BookingRow
<1> QED BY <1>1, <1>3, LedgerKept

LEMMA NextLedger ==
  ASSUME IInv, [Next]_vars
  PROVE  [Ledger!LedgerNext]_(Ledger!ledger)
<1>1. CASE UNCHANGED <<booking, commission>>
  BY <1>1, LedgerKept
<1>2. CASE UNCHANGED vars
  BY <1>1, <1>2 DEF vars, tables
<1>3. CASE TableStep
  BY <1>1, <1>3, RepriceLedger DEF TableStep, CreateIntent, FallDue, MarkRedirected,
     ExpirePendingIntents, StartSession, CreateLead, UpdateLead, DeleteLead
<1>4. ASSUME NEW h \in Handler, HandlerStep(h)
      PROVE  Ledger!LedgerNext \/ UNCHANGED Ledger!ledger
  <2>1. \/ UNCHANGED <<booking, commission>>
        \/ \E b \in Booking, stay \in Stay, unit \in BOOLEAN :
             \/ \E a \in Amount : IntentCommit(h, b, stay, unit, a)
                                    \/ ReportCommit(h, b, stay, unit, a)
             \/ ConvertCommit(h, b, stay, unit)
        \/ ConfirmCommit(h) \/ CancelCommit(h) \/ EditCommit(h)
    BY <1>4 DEF HandlerStep, IntentRead, ReportRead, ConvertRead, ConfirmRead,
       CancelRead, EditRead, Starts, Fail, tables
  <2>2. ASSUME UNCHANGED <<booking, commission>> PROVE UNCHANGED Ledger!ledger
    BY <2>2, LedgerKept
  <2> QED BY <2>1, <2>2, CommitLedger, ConfirmLedger, CancelLedger, EditLedger
<1> QED BY <1>2, <1>3, <1>4 DEF Next

(* Bookings that are not FLEX and their commissions move together as the    *)
(* commission side is promised: one that a script reported is not approved  *)
(* by confirming it, one that is cancelled takes its commission with it.    *)
THEOREM TemporalKeepsLedgerPromise == Spec => LedgerPromise
<1>1. Init => Ledger!LedgerInit
  BY DEF Init, Ledger!LedgerInit
<1>2. IInv /\ [Next]_vars => [Ledger!LedgerNext]_(Ledger!ledger)
  BY NextLedger
<1> QED BY <1>1, <1>2, Invariant, PTL DEF Spec, LedgerPromise, Ledger!LedgerSpec

=============================================================================
