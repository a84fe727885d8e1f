---------------------------- MODULE TemporalBookings ----------------------------
(***************************************************************************)
(* Bookings that are not FLEX: those a guest makes at Cloudbeds, confirmed *)
(* through a reservation intent or reported by the tracking script of an   *)
(* ambassador's session, and those staff makes from a lead; what staff     *)
(* does to them; and the nights they hold.                                 *)
(*                                                                         *)
(* A handler reads in one step and writes in another, its transaction; it  *)
(* may die between them.  Sources: reservation-intents.service.ts,         *)
(* ambassadors.service.ts, leads.service.ts, bookings.service.ts.          *)
(***************************************************************************)
EXTENDS Integers, Sequences

CONSTANTS
  Handler,      \* concurrent handlers
  Intent,       \* identifiers of ReservationIntent rows
  Session,      \* identifiers of AmbassadorBookingSession rows
  Lead,         \* identifiers of Lead rows
  Booking,      \* identifiers of Booking rows, and of their commissions
  Reservation,  \* reservation ids Cloudbeds gives
  Profile,      \* ambassador profiles
  Amount,       \* commission amounts
  Day,          \* days a stay may start or end on
  None          \* an absent (null, undefined) value

ASSUME TemporalDays == Day \subseteq Int /\ Day # {}
ASSUME TemporalAmounts == 0 \in Amount
ASSUME TemporalNone ==
  None \notin Intent \union Session \union Lead \union Booking
                \union Reservation \union Profile

VARIABLES
  intent,      \* the reservation_intents table
  session,     \* the ambassador_booking_sessions table
  lead,        \* the leads table
  booking,     \* the bookings table
  commission,  \* the commissions table
  blocks,      \* unit_availability rows of each booking: the days they take
  handler,     \* what each handler is doing and what it has read
  overlap      \* whether handlers overlap in this behaviour (constant)

tables == <<intent, session, lead, booking, commission, blocks>>
vars == <<tables, handler, overlap>>

-----------------------------------------------------------------------------
(* Rows.  Status "ABSENT" marks an identifier no row uses yet.               *)

BookingStatus == {"PENDING", "CONFIRMED", "CANCELLED"}
Stay == [in : Day, out : Day]
SomeStay == CHOOSE s \in Stay : TRUE

Nights(s) == IF s.out - s.in > 1 THEN s.out - s.in ELSE 1

IntentRow == [status : {"ABSENT", "PENDING", "REDIRECTED", "CONFIRMED", "EXPIRED"},
              due : BOOLEAN, profile : Profile \union {None}]
SessionRow == [status : {"ABSENT", "STARTED", "CONFIRMED"},
               profile : Profile \union {None}, booking : Booking \union {None}]
LeadRow == [status : {"ABSENT", "OPEN", "CONVERTED"}, deleted : BOOLEAN,
            profile : Profile \union {None}]
BookingRow ==
  [status : BookingStatus \union {"ABSENT"}, profile : Profile \union {None},
   intent : Intent \union {None}, session : Session \union {None},
   lead : Lead \union {None}, reservation : Reservation \union {None},
   stay : Stay, nights : Int, unit : BOOLEAN]
CommissionRow ==
  [status : {"ABSENT", "PENDING", "PENDING_VALIDATION", "APPROVED", "CANCELLED"},
   amount : Amount]

Idle == [pc |-> "idle"]
HandlerState ==
  {Idle}
    \union [pc : {"intentCommit"}, intent : Intent \union {None},
            profile : Profile \union {None}, reservation : Reservation \union {None}]
    \union [pc : {"reportCommit"}, session : Session, profile : Profile,
            reservation : Reservation \union {None}]
    \union [pc : {"convertCommit"}, lead : Lead, profile : Profile \union {None}]
    \union [pc : {"confirmCommit"}, booking : Booking, unit : BOOLEAN, stay : Stay]
    \union [pc : {"cancelCommit"}, booking : Booking, earns : BOOLEAN]
    \union [pc : {"editCommit"}, booking : Booking, in : Day \union {None},
            out : Day \union {None}, nights : Int]

TypeOK ==
  /\ intent \in [Intent -> IntentRow]
  /\ session \in [Session -> SessionRow]
  /\ lead \in [Lead -> LeadRow]
  /\ booking \in [Booking -> BookingRow]
  /\ commission \in [Booking -> CommissionRow]
  /\ blocks \in [Booking -> Seq(Stay)]
  /\ handler \in [Handler -> HandlerState]
  /\ overlap \in BOOLEAN

Init ==
  /\ intent = [i \in Intent |->
                 [status |-> "ABSENT", due |-> FALSE, profile |-> None]]
  /\ session = [s \in Session |->
                  [status |-> "ABSENT", profile |-> None, booking |-> None]]
  /\ lead = [l \in Lead |->
               [status |-> "ABSENT", deleted |-> FALSE, profile |-> None]]
  /\ booking = [b \in Booking |->
       [status |-> "ABSENT", profile |-> None, intent |-> None, session |-> None,
        lead |-> None, reservation |-> None, stay |-> SomeStay, nights |-> 0,
        unit |-> FALSE]]
  /\ commission = [b \in Booking |-> [status |-> "ABSENT", amount |-> 0]]
  /\ blocks = [b \in Booking |-> <<>>]
  /\ handler = [h \in Handler |-> Idle]
  /\ overlap \in BOOLEAN

At(h, pc) == handler[h].pc = pc
Starts(h, state) ==
  /\ handler[h] = Idle
  /\ overlap \/ \A g \in Handler : handler[g] = Idle
  /\ handler' = [handler EXCEPT ![h] = state]
  /\ UNCHANGED <<tables, overlap>>
Ends(h) == handler' = [handler EXCEPT ![h] = Idle] /\ UNCHANGED overlap
StaysPut == UNCHANGED <<handler, overlap>>

-----------------------------------------------------------------------------
(* Queries and writes the handlers share.  A definition with a suffix is a    *)
(* variant a mistake would give; no action uses it, and each is paired with   *)
(* the property that rules it out.                                            *)

Live(b) == booking[b].status # "ABSENT"

(* The unique columns of a booking: a second row with one of them is refused. *)
Fresh(field, key) == key = None \/ \A b \in Booking : booking[b][field] # key

(* The new booking, with its commission (None: nobody earns one).             *)
NewBooking(b, row, earns) ==
  /\ ~Live(b)
  /\ booking' = [booking EXCEPT ![b] = row]
  /\ commission' = IF earns = None THEN commission
                   ELSE [commission EXCEPT ![b] = earns]

BookingOf(status, profile, stay, unit) ==
  [status |-> status, profile |-> profile, intent |-> None, session |-> None,
   lead |-> None, reservation |-> None, stay |-> stay, nights |-> Nights(stay),
   unit |-> unit]

-----------------------------------------------------------------------------
(* Reservation intents.                                                       *)

(* POST /reservation-intents, once Cloudbeds has said the room is free.       *)
CreateIntent(i, p) ==
  /\ intent[i].status = "ABSENT"
  /\ intent' = [intent EXCEPT ![i] =
                  [status |-> "PENDING", due |-> FALSE, profile |-> p]]
  /\ UNCHANGED <<session, lead, booking, commission, blocks>>
  /\ StaysPut

(* Its time to live passes.                                                   *)
FallDue(i) ==
  /\ intent[i].status # "ABSENT" /\ ~intent[i].due
  /\ intent' = [intent EXCEPT ![i].due = TRUE]
  /\ UNCHANGED <<session, lead, booking, commission, blocks>>
  /\ StaysPut

MarkRedirected(i) ==
  /\ intent[i].status = "PENDING"
  /\ intent' = [intent EXCEPT ![i].status = "REDIRECTED"]
  /\ UNCHANGED <<session, lead, booking, commission, blocks>>
  /\ StaysPut

(* The job of every ten minutes: one updateMany.                              *)
Expired_AnyStatus(i) == intent[i].due
Expired_Early(i) == intent[i].status = "PENDING" /\ ~intent[i].due
Expired(i) == intent[i].status = "PENDING" /\ intent[i].due
ExpirePendingIntents ==
  /\ \E i \in Intent : Expired(i)
  /\ intent' = [i \in Intent |->
       IF Expired(i) THEN [intent[i] EXCEPT !.status = "EXPIRED"] ELSE intent[i]]
  /\ UNCHANGED <<session, lead, booking, commission, blocks>>
  /\ StaysPut

(* confirmFromCloudbeds: the intent, if one is named, and the confirmation    *)
(* page; a reservation registered before is answered with its booking.        *)
IntentRead(h, i, p, r) ==
  /\ i # None => intent[i].status # "ABSENT"
  /\ Fresh("reservation", r)
  /\ Starts(h, [pc |-> "intentCommit", intent |-> i, reservation |-> r,
                profile |-> IF p = None /\ i # None THEN intent[i].profile ELSE p])

(* The intent becomes CONFIRMED whatever its status is by now.                *)
IntentConfirmed(i) ==
  IF i = None THEN intent ELSE [intent EXCEPT ![i].status = "CONFIRMED"]

IntentCommit(h, b, stay, unit, a) ==
  LET r == handler[h] IN
  /\ At(h, "intentCommit")
  /\ Fresh("reservation", r.reservation) /\ Fresh("intent", r.intent)
  /\ NewBooking(b, [BookingOf("CONFIRMED", r.profile, stay, unit) EXCEPT
                      !.intent = r.intent, !.reservation = r.reservation],
                IF r.profile = None THEN None
                ELSE [status |-> "PENDING", amount |-> a])
  /\ intent' = IntentConfirmed(r.intent)
  /\ Ends(h)
  /\ UNCHANGED <<session, lead, blocks>>

-----------------------------------------------------------------------------
(* Sessions of ambassadors and the reports of the tracking script.            *)

(* createSession: an upsert, for the body may name the session.  The update   *)
(* takes neither the owner nor the booking of a session that exists.          *)
Started_Taken(s, p) ==
  [session EXCEPT ![s].status = "STARTED", ![s].profile = p]
Started(s, p) ==
  IF session[s].status = "ABSENT"
  THEN [session EXCEPT ![s] =
          [status |-> "STARTED", profile |-> p, booking |-> None]]
  ELSE [session EXCEPT ![s].status = "STARTED"]

StartSession(s, p) ==
  /\ session' = Started(s, p)
  /\ UNCHANGED <<intent, lead, booking, commission, blocks>>
  /\ StaysPut

(* handleCloudbedsReservation.  A report of no session, of one that expired   *)
(* or with another token is ignored.  A known reservation is a duplicate; a   *)
(* report without a reservation id is one if its session is confirmed.        *)
Repeated_ById(s, r) == ~Fresh("reservation", r)
Repeated(s, r) ==
  IF r # None THEN ~Fresh("reservation", r)
  ELSE session[s].status = "CONFIRMED" /\ session[s].booking # None

ReportRead(h, s, r) ==
  /\ session[s].status # "ABSENT"
  /\ ~Repeated(s, r)
  /\ Starts(h, [pc |-> "reportCommit", session |-> s, reservation |-> r,
                profile |-> session[s].profile])

ReportCommit(h, b, stay, unit, a) ==
  LET r == handler[h] IN
  /\ At(h, "reportCommit")
  /\ Fresh("reservation", r.reservation)
  /\ NewBooking(b, [BookingOf("PENDING", r.profile, stay, unit) EXCEPT
                      !.session = r.session, !.reservation = r.reservation],
                [status |-> "PENDING_VALIDATION", amount |-> a])
  /\ session' = [session EXCEPT ![r.session].status = "CONFIRMED",
                                ![r.session].booking = b]
  /\ Ends(h)
  /\ UNCHANGED <<intent, lead, blocks>>

-----------------------------------------------------------------------------
(* Leads.                                                                     *)

CreateLead(l, p) ==
  /\ lead[l].status = "ABSENT"
  /\ lead' = [lead EXCEPT ![l] =
                [status |-> "OPEN", deleted |-> FALSE, profile |-> p]]
  /\ UNCHANGED <<intent, session, booking, commission, blocks>>
  /\ StaysPut

(* PATCH /leads/:id, which may set any status, and DELETE.                    *)
LeadVisible(l) == lead[l].status # "ABSENT" /\ ~lead[l].deleted
UpdateLead(l, status) ==
  /\ LeadVisible(l)
  /\ lead' = [lead EXCEPT ![l].status = status]
  /\ UNCHANGED <<intent, session, booking, commission, blocks>>
  /\ StaysPut
DeleteLead(l) ==
  /\ LeadVisible(l)
  /\ lead' = [lead EXCEPT ![l].deleted = TRUE]
  /\ UNCHANGED <<intent, session, booking, commission, blocks>>
  /\ StaysPut

(* convertToBooking: refused if a booking of the lead is seen.                *)
ConvertRead(h, l) ==
  /\ LeadVisible(l)
  /\ Fresh("lead", l)
  /\ Starts(h, [pc |-> "convertCommit", lead |-> l, profile |-> lead[l].profile])

(* No property is written, and no commission.                                 *)
ConvertCommit(h, b, stay, unit) ==
  LET r == handler[h] IN
  /\ At(h, "convertCommit")
  /\ stay.in < stay.out
  /\ Fresh("lead", r.lead)
  /\ NewBooking(b, [BookingOf("PENDING", r.profile, stay, unit) EXCEPT
                      !.lead = r.lead], None)
  /\ lead' = [lead EXCEPT ![r.lead].status = "CONVERTED"]
  /\ Ends(h)
  /\ UNCHANGED <<intent, session, blocks>>

-----------------------------------------------------------------------------
(* What staff does to a booking.                                              *)

(* POST /bookings/:id/confirm.  Its transaction reads the commission again:   *)
(* one that is PENDING is approved; one that awaits validation is not.  (A    *)
(* booking without one earns it here if it has an ambassador and a property;  *)
(* no route makes such a booking: only a lead's is PENDING without one, and   *)
(* it has no property.)                                                       *)
ConfirmRead(h, b) ==
  /\ booking[b].status = "PENDING"
  /\ Starts(h, [pc |-> "confirmCommit", booking |-> b, unit |-> booking[b].unit,
                stay |-> booking[b].stay])

Approved_Reported(b) ==
  IF commission[b].status \in {"PENDING", "PENDING_VALIDATION"}
  THEN [commission EXCEPT ![b].status = "APPROVED"] ELSE commission
Approved(b) ==
  IF commission[b].status = "PENDING"
  THEN [commission EXCEPT ![b].status = "APPROVED"] ELSE commission

ConfirmCommit(h) ==
  LET b == handler[h].booking IN
  /\ At(h, "confirmCommit")
  /\ booking' = [booking EXCEPT ![b].status = "CONFIRMED"]
  /\ blocks' = IF handler[h].unit
               THEN [blocks EXCEPT ![b] = Append(@, handler[h].stay)] ELSE blocks
  /\ commission' = Approved(b)
  /\ Ends(h)
  /\ UNCHANGED <<intent, session, lead>>

(* executeCancellation, for POST /bookings/:id/cancel and for an approved     *)
(* request of an ambassador.                                                  *)
CancelRead(h, b) ==
  /\ booking[b].status \in {"PENDING", "CONFIRMED"}
  /\ Starts(h, [pc |-> "cancelCommit", booking |-> b,
                earns |-> commission[b].status # "ABSENT"])

Released_None(b) == blocks
Released(b) == [blocks EXCEPT ![b] = <<>>]

CancelCommit(h) ==
  LET b == handler[h].booking IN
  /\ At(h, "cancelCommit")
  /\ booking' = [booking EXCEPT ![b].status = "CANCELLED"]
  /\ blocks' = Released(b)
  /\ commission' = IF handler[h].earns
                   THEN [commission EXCEPT ![b].status = "CANCELLED"]
                   ELSE commission
  /\ Ends(h)
  /\ UNCHANGED <<intent, session, lead>>

Given(new, old) == IF new = None THEN old ELSE new

(* PATCH /bookings/:id with one of the dates, or both.  The other one is the  *)
(* date read, which the row may no longer have; the nights follow from both.  *)
(* The nights held in unit_availability stay as they were.                    *)
EditRead(h, b, in, out) ==
  LET stay == [in |-> Given(in, booking[b].stay.in),
               out |-> Given(out, booking[b].stay.out)]
  IN
  /\ booking[b].status \in {"PENDING", "CONFIRMED"}
  /\ in # None \/ out # None
  /\ stay.in < stay.out
  /\ Starts(h, [pc |-> "editCommit", booking |-> b, in |-> in, out |-> out,
                nights |-> Nights(stay)])

EditedNights_Kept(b, nights) == booking[b].nights
EditedNights(b, nights) == nights

EditedStay_Whole(old, in, out) == [in |-> in, out |-> out]
EditedStay(old, in, out) == [in |-> Given(in, old.in), out |-> Given(out, old.out)]

EditCommit(h) ==
  LET r == handler[h]
      b == r.booking
      old == booking[b].stay
  IN
  /\ At(h, "editCommit")
  /\ booking' = [booking EXCEPT ![b] =
       [@ EXCEPT !.stay = EditedStay(old, r.in, r.out),
                 !.nights = EditedNights(b, r.nights)]]
  /\ Ends(h)
  /\ UNCHANGED <<intent, session, lead, commission, blocks>>

(* A recalculation of rates reaches the commission (CommissionRates).         *)
Reprice(b, a) ==
  /\ commission[b].status = "PENDING"
  /\ commission' = [commission EXCEPT ![b].amount = a]
  /\ UNCHANGED <<intent, session, lead, booking, blocks>>
  /\ StaysPut

(* A handler dies, or the database refuses its transaction.                   *)
Fail(h) ==
  /\ handler[h] # Idle
  /\ Ends(h)
  /\ UNCHANGED tables

HandlerStep(h) ==
  \/ \E i \in Intent \union {None}, p \in Profile \union {None},
        r \in Reservation \union {None} : IntentRead(h, i, p, r)
  \/ \E s \in Session, r \in Reservation \union {None} : ReportRead(h, s, r)
  \/ \E l \in Lead : ConvertRead(h, l)
  \/ \E b \in Booking :
       \/ \E stay \in Stay, unit \in BOOLEAN :
            \/ \E a \in Amount : IntentCommit(h, b, stay, unit, a)
                                   \/ ReportCommit(h, b, stay, unit, a)
            \/ ConvertCommit(h, b, stay, unit)
       \/ ConfirmRead(h, b)
       \/ CancelRead(h, b)
       \/ \E in, out \in Day \union {None} : EditRead(h, b, in, out)
  \/ ConfirmCommit(h)
  \/ CancelCommit(h)
  \/ EditCommit(h)
  \/ Fail(h)

(* Requests served in one statement, the job and the clock.                   *)
TableStep ==
  \/ \E i \in Intent : \/ \E p \in Profile \union {None} : CreateIntent(i, p)
                       \/ FallDue(i)
                       \/ MarkRedirected(i)
  \/ ExpirePendingIntents
  \/ \E s \in Session, p \in Profile : StartSession(s, p)
  \/ \E l \in Lead : \/ \E p \in Profile \union {None} : CreateLead(l, p)
                     \/ \E status \in {"OPEN", "CONVERTED"} : UpdateLead(l, status)
                     \/ DeleteLead(l)
  \/ \E b \in Booking, a \in Amount : Reprice(b, a)

Next == TableStep \/ \E h \in Handler : HandlerStep(h)

Spec == Init /\ [][Next]_vars

(* The clock runs and the job is run: a time to live passes, and the job that *)
(* has something to expire expires it at one of its runs.                     *)
FairSpec ==
  /\ Spec
  /\ \A i \in Intent : WF_vars(FallDue(i))
  /\ WF_vars(ExpirePendingIntents)

-----------------------------------------------------------------------------
(* Properties                                                                *)

(* An intent is CONFIRMED exactly if a booking was made of it: a click or the *)
(* job, arriving late, takes no confirmation back, and a confirmation that    *)
(* arrives after the job is kept (reservation-intents.service.ts 238-277,     *)
(* 318-347).                                                                  *)
ConfirmedHasBooking ==
  \A i \in Intent :
    (intent[i].status = "CONFIRMED") <=> (\E b \in Booking : booking[b].intent = i)

(* Nights are held for a booking that is CONFIRMED only, and after a          *)
(* cancellation none are, whichever way confirm and cancel cross.             *)
CancelledHoldsNoNights ==
  \A b \in Booking : blocks[b] # <<>> => booking[b].status = "CONFIRMED"

(* The booking a session shows is a report of that session, made for the      *)
(* session's owner, whoever starts the session again.                         *)
SessionShowsItsBooking ==
  \A s \in Session : session[s].booking # None =>
    /\ Live(session[s].booking)
    /\ booking[session[s].booking].session = s
    /\ booking[session[s].booking].profile = session[s].profile

(* The nights of a booking are those between its dates, and they are held     *)
(* once, if requests do not overlap.                                          *)
NightsMatchDates ==
  \A b \in Booking : ~overlap /\ Live(b) =>
    /\ booking[b].nights = Nights(booking[b].stay)
    /\ Len(blocks[b]) <= 1

(* What says that there is a booking is backed by one, and by its own: a       *)
(* confirmed intent and the session an ambassador looks at.                   *)
BookingsAreBacked == ConfirmedHasBooking /\ SessionShowsItsBooking

(* The nights held are those of confirmed bookings, once each.                *)
NightsHeldRight == CancelledHoldsNoNights /\ NightsMatchDates

(* A report without a reservation id counts once per start of its session, if *)
(* requests do not overlap.                                                   *)
ReportCountsOnce ==
  [][\A s \in Session :
       /\ ~overlap
       /\ session'[s].booking # session[s].booking
       /\ booking'[session'[s].booking].reservation = None
       => session[s].status = "STARTED"]_vars

(* Every booking and its commission move as the commission side is promised.  *)
(* In particular confirming a booking that a script reported does not approve *)
(* its commission: "Comisión NO final" (ambassadors.service.ts:298).          *)
Ledger == INSTANCE CommissionLedger WITH
  Id <- Booking,
  profile <- [b \in Booking |-> IF commission[b].status = "ABSENT" THEN None
                                ELSE booking[b].profile],
  stay <- [b \in Booking |-> IF commission[b].status = "ABSENT" THEN "ABSENT"
                             ELSE booking[b].status],
  shown <- [b \in Booking |-> TRUE],
  status <- [b \in Booking |-> commission[b].status],
  amount <- [b \in Booking |-> commission[b].amount]
LedgerPromise == Ledger!LedgerSpec

(* A pending intent does not stay so: it is clicked, confirmed or expired.    *)
IntentsSettle ==
  \A i \in Intent : (intent[i].status = "PENDING") ~> (intent[i].status # "PENDING")
=============================================================================
