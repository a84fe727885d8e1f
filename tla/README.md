# A TLA+ verification of the DeptoFlex backend

The backend (NestJS, Prisma, PostgreSQL) lets ambassadors bring guests to
properties. A reservation comes either from Cloudbeds (temporal) or from an
internal rental by the month (FLEX); it earns its ambassador a commission, which
staff settles; a FLEX reservation is paid through Mercado Pago. Around that:
ambassadors and agencies apply, are reviewed and have teams; users log in;
properties have rates, plans and images; people are notified; the hotel's booking
engine is searched; a dashboard counts.

## Inventory

All state is in PostgreSQL, except the cache and the slots of the Cloudbeds
provider, which are in the process, and the objects in R2. There is no queue and
no lock: handlers are Node functions that interleave at every `await`,
transactions run at READ COMMITTED, no row has a version, and most guards are a
read in one statement and a write, by id, in another. What the database enforces
are its unique indexes (`flex_booking_payments.mpPaymentId`,
`commissions.bookingId`, `bookings.reservationIntentId`, `cloudbedsReservationId`,
`leadId`, ...).

| component | state | operations | hard part | correct when |
|---|---|---|---|---|
| FLEX reservations (`flex-bookings.service.ts`) | `FlexBooking`, its `Booking` | create, update, confirm from a payment, delete | check and write in different statements; two tables for one thing; a delete of three steps | the months of a property are booked once; the two rows agree; what is deleted was cancelled |
| registry of bookings (`bookings.service.ts`) | `Booking`, `BookingStatusHistory`, `UnitAvailability` | confirm, cancel, PATCH | acts on FLEX rows too; nights are held by one handler and released by another | the history tells every status; nights are held for confirmed bookings |
| cancellation requests (`booking-cancellation-requests.service.ts`) | `BookingCancellationRequest` | request, approve, reject | an approval cancels first and is written after | one open request; an approved request is a cancelled booking |
| commissions (`commission-workflow.service.ts`) | `Commission` | created, approved, repriced and cancelled with the booking | written by four services | its status follows from the booking's history |
| settlements (`commission-settlements.service.ts`) | `CommissionSettlement`, `Commission.settlementId` | create drafts, pay, cancel a draft | totals and eligibility read before the transaction | a total is the sum of its commissions; nothing is paid twice, nor to somebody else |
| rates (`commission-rates.service.ts`) | rates by property, agreement, ambassador | cascade, writes, recalculation | a recalculation is many statements | PENDING commissions end at the agreed rate, others keep theirs |
| FLEX payments (`flex-booking-payments.service.ts`, job, `mercadopago.service.ts`) | `FlexBookingPayment` | checkout, webhook, sync, job, refund | notifications late, twice or lost; two transactions for one fact | approved money is real, credited once, and confirms the reservation |
| FLEX pricing (`flex-pricing.service.ts`) | plans, the advertised price | create, update, delete a plan, quote a stay, with or without a plan named | the price is written after the plan | the price is that of the cheapest quote; a quote is of the plan meant; limits stay in order |
| FLEX calendar (`flex-availability.util.ts`) | none | add months, booked periods, first free start | months of different lengths, boundaries | agrees with a day-by-day definition |
| temporal bookings, intents (`reservation-intents.service.ts`, `bookings.service.ts`) | `ReservationIntent`, `Booking` | create, click, confirm from Cloudbeds, expire | confirmation races click and expiry | a confirmed intent is one booking; none stays pending |
| leads (`leads.service.ts`) | `Lead` | CRUD, conversion | conversion twice | one booking per lead |
| ambassador tracking (`ambassadors.service.ts`) | `AmbassadorBookingSession` | open a session, take a report of the page | duplicated reports; three sources for one fact | one booking per report, for the session's owner, of what was asked for |
| onboarding, agency teams (`professionals.service.ts`, `agency-team.service.ts`, `ambassador-access.service.ts`) | profiles, roles, documents, firms, members | request, verify, reject, suspend, invite, deactivate, link on registration | role, profile and team in different transactions; firms shared by tax id | the role is held by who earned it |
| sessions, tickets (`token.service.ts`, `auth.service.ts`) | `Session`, `VerificationToken` | log in, refresh, log out, verify, reset | two tabs refresh at once; a login outlives a reset | one session per login; access ends with the password |
| Cloudbeds (`cloudbeds.service.ts`, cache, snapshots, provider) | cache, slots, snapshots | search, totals, prepare, confirmation | staleness, retries, a bounded number of calls | nothing older than its limit is served; no slot is lost; a reply tells truly whether a reservation is prepared |
| media (`media.service.ts`, cleanup job) | `MediaFile`, images, objects in R2 | presign, confirm, promote, delete, clean up | the job races confirmation | what is shown is there; one primary image |
| notifications (`notifications.service.ts`, gateway) | `Notification`, preferences, badges | notify, broadcast, read, remove | counts read and emitted later; a broadcast that fails half-way | who is to be told is told, and nobody else; the badge is right |
| dashboard (`admin-dashboard.service.ts`) | none | counts over other tables | half-open nights, bookings counted with the nights held for them, rows without units | a cell of the matrix tells the units that are free |
| webhook parsing, catalogue, agenda, activity feed, e-mail, HTTP plumbing | none of interest | reads, single-row writes | - | - |

The flex service calls the registry's cancellation; the payments service calls
`confirmFromPayment`; every service that confirms or cancels a booking writes its
commission; the settlements read and write the commissions the others move;
reports and confirmations ask for the rate of a commission they create; a
registration or a Google login looks for a team to join; deactivations and role
changes end sessions. `PROJECT.json` lists every component with its status, and
the hazards at their lines.

## Modules

| module | models |
|---|---|
| `CommissionLedger` | abstract: a booking's status and its commission's, moved together |
| `FlexReservations` | the handlers of FLEX reservations, the registry's confirm and cancel, cancellation requests |
| `TemporalBookings` | intents, reports, leads, and what staff does to the bookings made of them |
| `TrackingReports` | what a report says: the URL of a session, the page, the booking put together from both |
| `CommissionSettlements` | staff's handlers on commissions and settlements; the reservations are `CommissionLedger` |
| `CommissionRates` | the cascade of rates, the writes of rates, the recalculations |
| `FlexPricing`, `FlexCalendar` | plans, quotes and the advertised price; months, periods and the first free start |
| `FlexPayments` | checkout, notifications, sync and job against Mercado Pago |
| `AmbassadorOnboarding`, `Sessions` | requests, reviews, agencies and teams; logins, refreshes, tickets |
| `MediaUploads`, `Notifications`, `CloudbedsAvailability`, `AdminDashboard` | the services around |
| `...Proofs` | the theorems, one module per component, and `FlexLedgerProofs` for the refinement |
| `MC...` | instances for TLC |

### Conventions

- A handler in flight is a record with where it is (`pc`) and what it has read. An
  `await` outside a transaction ends a step; a transaction is one step, except where
  its statements can see different rows (`MediaUploads`). What was read may be stale
  when it is used.
- `Fail` (`Die`, `Drop`, `Abort`, `GiveUp`, `SendFails`, `SweepFails`, `CallFails`)
  ends a handler between any two of its steps: the process dies, or a call throws.
  Nothing resumes the handler; that is what the code has.
- A row that does not exist has status `ABSENT`, or is nothing. Identifiers are model
  values.
- A definition with a suffix (`Repriced_Never`) is a mutant of the one that follows
  it; no specification uses it.
- A variable that only remembers (`confirmedBy`, `disturbed`, `unsettled`,
  `outdated`, `irregular`, `raced`, `overlapped`, `unsure`, `missed`, `willing`,
  `reluctant`) is not in the code: it says which of the races and failures that the
  code leaves open have happened, so that a property can say what holds in all other
  behaviours. No guard reads one.

### FlexReservations

The three tables of one reservation share its identifier. `CreateRead`,
`CreateCommit`; `UpdateRead`, `UpdateCheck`, `UpdateCommit`; `PayRead`, `PayCommit`
(`confirmFromPayment`); `ConfirmRead`, `ConfirmCommit` (registry); `CancelStart`,
`CancelRead`, `CancelCommit` (`executeCancellation`, which also serves PATCH with
status CANCELLED, DELETE and the approval of a request, which `then` tells);
`DeleteRead`, `DeleteCheck`, `DeleteFlex`, `DeleteBooking`; `RequestRead`,
`RequestCheck`, `RequestCommit`; `ApproveRead`, `ApproveWrite`, `RejectRead`,
`RejectWrite`.

Abstractions: history is the set of statuses it ever recorded; the commission's
rate is a constant, and the amount the rent times the rate, in hundredths (how it is
rounded, and how rates change, is in `CommissionRates`); reads of rows that nothing
here writes (property, profile) are not steps; the read of the registry row that
PATCH does before it calls `executeCancellation` is one with the read that function
does, since both end the handler on the same outcomes. Transactions that write a
`FlexBooking` take its row first and so are serial; the registry's confirm does not,
but its effect is that of one of the two orders except for `fromStatus` in the
history, which is not modelled.

### TemporalBookings, TrackingReports

One row per intent, session, lead and booking; a booking's commission shares its
identifier. `CreateIntent`, `MarkRedirected`, `ExpirePendingIntents`, `StartSession`
and what staff does to leads are one statement each; `IntentRead/Commit`,
`ReportRead/Commit`, `ConvertRead/Commit`, `ConfirmRead/Commit`, `CancelRead/Commit`
and `EditRead/Commit` read and then write in a transaction. The unique columns of a
booking are the guard `Fresh` of the commits. `blocks` are the nights a booking holds
in `unit_availability`. What a report says of dates, unit and amount is left open
there and is computed in `TrackingReports`, where a page may name any date, room,
hotel and amount or none, and may be at another URL than the session's.
`BookingsService.create`, `complete` and `softDelete` have neither route nor caller.

### CommissionSettlements, CommissionRates

In `CommissionSettlements`, `profile`, `stay`, `shown`, `status` and `amount` are the
variables of `CommissionLedger`; the reservations' steps are its next-state relation,
which allows at least what the flex service, the reports and the registry do (the two
refinements below). Staff's handlers: `ApproveRead/Commit`, `CreateRead/Commit`
(drafts for a set of ambassadors), `PayRead/Commit`, `DropRead/Commit` (cancel a draft).

In `CommissionRates`, a request writes a rate (`SetHomeRate`, `SetOverride`,
`DropOverride`, `SetDefaultRate`, or none: `RecalculateAll`), lists the PENDING
commissions in its scope (`List`) and then, one by one, resolves a rate (`Resolve`)
and writes a commission (`Write`). `Sell` and `ChangeRent` are the transactions of
other services, which resolve a rate of their own: any rate, for it may be stale.
FLEX and temporal properties are two kinds of `Home`; a deleted hotel loses its rate
in the cascade, a deleted FLEX property does not.

### FlexPayments

Whatever tells of a payment (a notification, a merchant order, the guest's browser,
the job) ends in `processPaymentNotification`; a handler carries the reservations it
has still to search and the payments it has still to process. Mercado Pago is
external: a payment is made on any checkout ever given out, is approved, rejected or
in process at once, moves as Mercado Pago moves it, and may have another amount than
the reservation (`fits`). A failure is a crash or a failed call; an exception skips
the other payments of the same reservation, as in the code. What staff does to a
reservation is `StaffMoves` and `StaffDeletes`; its handlers are in `FlexReservations`.

### FlexPricing, FlexCalendar

A request changes a plan (`CreatePlan`, `DeletePlan`, `UpdateTerms`, or
`UpdateRead`/`UpdateWrite`, whose check reads the limit it does not change), and then
brings the advertised price up to date (`SyncList`, `SyncWrite`): rent and currency of
an active plan of the smallest rent, and the smallest minimum of any. A quote
(`Resolved`) is of the plan that is named, if it is active and fits, and of none
instead of it; without a name it is of a plan with the largest minimum that fits. Of
plans that tie it may take any: the order of rows is the database's. Requests cross;
`outdated` remembers who works with a list or a check that a change has passed by, and
`unsettled` that the price was last written from such a list, by staff, or not at all
by a request that died. Amounts are in cents and round half up; a quotient of exactly half a cent is subject to floating
point in the code. `FlexCalendar` has days as numbers and `MonthStart` for the
calendar, with months of different lengths. Reservations come and go there without a
check (`Take`, `Release`): the one of a creation is in another step than its write
(`FlexReservations`), so the periods may overlap, and the search is checked among such.

### AmbassadorOnboarding, Sessions

A request of a person, of staff or of an agency is a `desk`. `Request`, `Claim` and
`FormTeam` are `requestAmbassador` (the claim is an `updateMany` that repeats its
guard, the team a second transaction); `Verify`, `Approve`, `Grant`; `Reject` or
`Suspend`, then `Revoke`, then `CloseRejected` or `CloseSuspended`; `AddMember`,
`Invite`; `Deactivate`, `LetGo`, `TakeRole`; `Activate`, `BringBack`, `SwitchOn`;
`RemoveMember`, `Remove`; `Register` or `GoogleLogin`, `LookUp`, `Join`. A firm is
found by its tax identifier, and may be shared. A person and their e-mail address are
one.

`Sessions` has one row per session, the login it descends from (`line`) and what that
login was made with (`key`); a refresh is `Refresh`, `Rotate`, `Renew`. Passwords are
the number of resets. A request that ends all sessions (`EndAll`) may follow a reset,
a deactivation, a change of roles, or a refresh with a token that is no good.

### MediaUploads, Notifications, CloudbedsAvailability, AdminDashboard

`MediaUploads`: an upload is presigned, made by the client, awaited and confirmed as
an image of a home or in a slot (avatar, document). The transaction that makes an
image primary takes the mark off the images it sees (`Begin`) and writes its own
(`ConfirmImage`, `PromoteCommit`); a row inserted in between is not seen. The job
lists old PENDING files, then deletes each object and row.

`Notifications`: a send asks for preferences, creates the notice, counts and emits.
Events for roles are sent to each role, and to everybody in it at once. A broadcast or a
promotion lists its people first (one person, a role, everybody: `listed`), and then
goes from one to the next (`queue`), passing over who does not want promotions. A send
that fails ends a broadcast, with the rest of its queue (`missed`), and only itself in a
role.

`CloudbedsAvailability`: calls take a slot (`Enter`, `Leave`), searches are tried
again on a busy engine (`Busy`, `Again`), other failures fall back to the stale entry
or the snapshot. What the engine says is its time; an answer is on its way up to
`Flight` ticks, which the time-out of a call bounds.

`AdminDashboard`: the matrix of free units, over the tables it reads. The handlers that
write those are one step each here, for the matrix reads when they are done: bookings
of both kinds are recorded, confirmed (with the nights this holds for a unit),
cancelled, edited (which leaves the held nights), mirrored from FLEX and deleted; staff
blocks nights and changes units. A row is a type of unit, or the "general" row when no
unit is listed, which counts one unit and the bookings of none; a night is half-open.

## Runs

| run | instance | checks |
|---|---|---|
| `flex` | three scenes: 2 handlers on 1 reservation with 2 requests to cancel; 1 handler on 2 reservations of a property, 3 days; 1 handler with 2 rents and 2 requests | `TypeOK`, `RowsAgree`, `HistoryTold`, `LedgerPromise`; one at a time: `SerialRowsSound`, `SerialOnlyRevivalDoubleBooks`, `SerialReviewIsTruthful` |
| `settle` | two scenes: 2 handlers on 1 commission; 1 handler on 2 commissions of 2 ambassadors; 2 settlements, 2 amounts | `TypeOK`, `SettledStandApart`, `PaysWhoEarned`, `SettledAmountFrozen`; one at a time: `SerialTotalsPaid`, `SerialNeverResettled` |
| `pay_safety` | two scenes: 2 handlers; 1 handler with a failure, a link that expires, staff who confirm, cancel, delete; 2 checkouts, 2 payments | `TypeOK`, `NothingForNothing`; one at a time: `SerialBooksSound`, `SerialMoneyIsKept` |
| `temporal` | three focuses: 2 bookings that arrive from an intent and a session; 1 booking of staff's care; 2 handlers in both; and the other scheduled job: the payments of a FLEX reservation, 1 handler and the job, 2 checkouts, 1 payment, 1 failure, links that expire unpaid | `TypeOK`, `BookingsAreBacked`, `NightsHeldRight`, `ReportCountsOnce`, `LedgerPromise`, `IntentsSettle`, `PaidIsNotForgotten` |
| `rates_and_prices` | 2 requests, 1 property of each kind, 1 ambassador, 1 booking, 2 rates, 2 bases; 2 editors, 2 plans, 2 currencies; a calendar of 5 months | `TypeOK`, `CommissionsAgreed`, `OnlyPendingRepriced`, `OffersRight`, `RangesStayOrdered` |
| `people` | five scenes: a team, a review by 2 requests, 2 agencies with one tax id; refreshes, tickets by 2 clients, 3 sessions, 1 reset | `TypeOK`, `StandingIsBacked`, `ReviewNotReplaced`, `AccessEnds` |
| `services` | six focuses: 1 session and its reports; 2 files, 2 requests; 2 people, 2 roles, 4 kinds of event, broadcasts to one, a role or all; 3 calls and 1 slot; 2 searches over 3 ticks; 2 bookings, 2 units, 3 days, 1 block of staff's | `TypeOK`, `ReportToldRight`, `ShownRight`, `PeopleAreTold`, `CallsAccounted`, `ServedInTime`, `CellsTellFreeUnits` |
| `flex_mirror`, `flex_double_create`, `flex_commission_base`, `settle_cancelled_paid`, `pay_crash` | smallest that shows it | violated: see below |

A run plays several scenes: a constant chosen in the initial state says which, and a
constraint on steps keeps each small. Components that share no state are put in one
run so, and the states are the sum of the scenes', not the product. Most properties
checked are conjunctions of named parts, each with its comment in its module.

The bounds. A property of one row needs two rivals to break, so two handlers; a third
would only repeat what one of the two does, as each handler is a read and a few
writes. Two reservations of one property are what an overlap takes, and three days
what a partial overlap takes. Two settlements and two commissions are what mixing
takes; two requests to cancel, what a duplicate takes. Two payments and two checkouts
are what it takes to credit one over the other. Two arrivals suffice for a
reservation to be registered twice. Three sessions are a login, its refresh and
another login or a second refresh. Two agencies, one firm and one invited person are
what sharing takes. One slot and three calls make two wait. Identifiers are not used
again, so a scene ends when they are used up, and yet every handler can start at any
time before.

Serial scenes have one handler at a time: they state what the code keeps when its
handlers do not overlap (the handler may still die between two steps). Most of those
properties are broken by two handlers; see below. `ReportCountsOnce` and the second
half of `NightsHeldRight` say so themselves (`~overlap`).

Deadlock is not checked where the system may stop: `pay_*` when payments and checkouts
have run out, `people` when the only user is deleted, `services` when every event is
told.

## Fairness

`FlexPayments`: `FairSpec` assumes that a handler that can take a step takes one (Node
runs the continuations of settled promises, and calls have answers or fail), and that
the job starts again and again (`EVERY_10_MINUTES`, not skipped). Nothing is assumed
of guests, Mercado Pago's notifications or staff: the webhook may never come.
`LiveNext` of `MCFlexPayments`, which the payments' focus of `temporal` plays with the
same fairness (`MCFairSpec`), adds one bound: a link expires only
while no payment of its reservation exists (what happens otherwise is told under "What
the code does not keep").
`PaidIsNotForgotten` then says that an approved payment confirms its reservation while
nothing fails, and that with a failure it is credited at least. Two payments of one
reservation and a failure break the latter: a payment that throws at each sync keeps
the sync from the older one.

`TemporalBookings`: `FairSpec` assumes that time passes (`FallDue`) and that the job
of every ten minutes runs (`ExpirePendingIntents`); nothing of guests or handlers.
`IntentsSettle` says that an intent does not stay PENDING.

## What is proved

Every invariant and every action property of a passing run is also a theorem, for
all values of the constants: any number of handlers, reservations, intents,
settlements, plans, rates, sessions, files, callers or users. What a run adds is that
the cases it is about do happen, that a mutant of the code is noticed, and liveness.

The assumptions are named in the modules. Most are about the model's own values:
what stands for nothing (`None`, `NoRate`, `NoLimit`, `NoPlan`, `NoUnit`, `Nobody`,
`Nothing`, `Missing`, `Absent`, `Bad`) is not one of the other values, identifiers of
users are not those of sessions or tickets (`IdsDiffer`), nor those of blocked nights
those of bookings (`StaffIsNoStay`), days are integers and amounts naturals. Those that say
something of the program:

- a rate is at most the whole (`RatesAreShares`), a stay at least a month
  (`StaysAreMonths`, `MonthsAreCounted`), which the DTOs check; a body of PATCH is of
  its type;
- tables, callers and notices are finite (`IdsAreFinite`, `TablesAreFinite`,
  `CallersAreFinite`, `UploadsAreFinite`, `NoticesAreFinite`), since the code counts
  and adds up;
- months follow one another and the calendar has every day the search looks at
  (`CalendarRuns`, `CalendarIsLong`);
- there is a slot and an attempt (`SlotsAreSome`), ages are clock ticks (`AgesAreTicks`).

The arguments, by module:

- `FlexReservationsProofs`: `TypeOK`, `RowsAgree`, `HistoryTold`, by their parts. They
  are not inductive: what keeps them is what a handler in flight has seen. `IInv` adds
  `AllSound`, which relates the four rows of a reservation to one another (a
  commission is as its history says; the mirror's dates are those of the
  reservation; what is marked deleted has a cancellation in its history), and
  `AllInformed`, which says of a handler that is past a read what that read lets it
  rely on (a handler that will mark a reservation deleted has seen it cancelled; one
  that will approve a request has cancelled its booking). Histories only grow and
  rows only appear, so what a handler relies on stays true (`InformedStep`), and each
  step then keeps the rows sound.
- The serial properties (`SerialRowsSound`, `SerialOnlyRevivalDoubleBooks`,
  `SerialReviewIsTruthful`, `SerialTotalsPaid`, `SerialNeverResettled`,
  `SerialBooksSound`, `SerialMoneyIsKept`) are of behaviours whose steps are
  `Next /\ OneAtATime`. `SerialInv` of `FlexReservationsProofs`, `FlexPaymentsProofs` and
  `CommissionSettlementsProofs` says that at most one handler is at work (`Alone`), and
  that what it has read is still so (`Relies`, `FitsAlone`): the dates found free are
  free, the draft is a draft, who asks for a checkout has not paid. It is inductive
  together with the invariant of all behaviours. The scenes of the runs bound what is
  reserved and changed; `ServedOneAtATime` and `HandledOneAtATime` are without those
  bounds. Where handlers overlap these properties fail, as "What the code does not
  keep" tells.
- `FlexLedgerProofs`: `KeepsLedgerPromise`, `FlexReservations` implements
  `CommissionLedger` (identity on the booking and the commission, the reservation's
  own row hidden). Each handler's transaction is one step of the ledger, everything
  else stutters.
- `TemporalBookingsProofs`: `TypeOK`, `BookingsAreBacked`, `NightsHeldRight`,
  `ReportCountsOnce`, and `TemporalKeepsLedgerPromise`: temporal bookings implement the
  same ledger, with a booking that earns nobody anything hidden from it. The
  strengthening says that a booking's unique columns are unique, that a booking of an
  intent makes it CONFIRMED, what a handler past its read knows (one that is about to
  confirm a booking knows it exists, and while requests do not overlap that it is
  still PENDING with the dates read), and that only a confirmation holds nights. The
  two refinements are what lets `CommissionSettlements` use the ledger for
  reservations of both kinds.
- `CommissionSettlementsProofs`: `SettledStandApart`, `PaysWhoEarned`,
  `SettledAmountFrozen`, with any number of concurrent handlers. The strengthening says
  of a handler in flight that what it picked was approved for the ambassador of its
  draft and keeps its amount: a commission that is no longer PENDING never changes
  its amount or its ambassador (`DecidedStays`), which is why a total computed before
  the transaction is right. `TypeOK` needs that a total, a fold over the commissions
  picked, is a natural number; `SumExists` and `SumIsNat` prove it without an induction
  rule, from a finite set of least cardinality that has no sum (`LeastIs`).
- `FlexPaymentsProofs`: `TypeOK`, `NothingForNothing`. The strengthening says
  that a payment that was made belongs to a reservation (`MadeIsSomebodys`), that
  every row names a payment of its own reservation (`RowsReal`), and of a handler in
  flight that what it is about to credit or to confirm for was approved and fits
  (`AllInFlight`). Mercado Pago's payments only move forward, and each move keeps all
  that (`PaymentGoesOn`): so a status read before an `await` may be stale when it is
  used, a refund may have come meanwhile, and the money was still real.
- `RatesAndPricesProofs`: `CommissionsAgreed`, `OnlyPendingRepriced`. The invariant
  (`RatesInvariant`) adds that a commission's amount is the rounded share of what it
  says, that listed commissions exist, and, while nothing has disturbed it, that what
  a request has read is still so and that every PENDING commission either is right or
  is one that some request has still to list, resolve or write. The last is why the end of
  all requests leaves every commission at the agreed rate. `RangesStayOrdered` and the
  prices in `OffersRight` rest on `PricingInv`, of any requests that cross: who checked
  a limit and is not `outdated` will write one that is still in order (`ChecksHold`),
  who has listed and is not outdated will write the price of the plans as they are
  (`ListsHold`), and while the advertised price is not that of the plans some request
  is still to list or to write it (`PriceIsMended`), unless it is `unsettled`.
  `CalendarIsRight` needs of the periods only that each ends after it starts
  (`CalendarInv`), and that `AddMonths` is later than the day it starts from.
- `PeopleProofs`: `AccessEnds` and, for onboarding, `StandingIsBacked` and
  `ReviewNotReplaced`. `SInv` says that a line of refreshed sessions has one live
  session and one client that exchanges it at most (`OneHolder`), a ticket one client that
  uses it (`OneUser`), unless two clients raced on it; and that every session, and
  every client about to open one, has the user's present password or Google behind it,
  unless a step that ends all of them is under way (`Rightly`). `OInv` says that no row
  has a verified kind without its papers, and, while no two desks have overlapped, that
  what the desk at work has read is still so (`ReadsHold`), that a role is earned or
  about to be taken (`RolesEarned`), and that whoever may be an agency owns a company
  or is about to found it (`FirmsOwned`).
- `ServicesProofs`: `ReportToldRight`, `ShownRight`, `PeopleAreTold`, `CallsAccounted`,
  `ServedInTime`, `CellsTellFreeUnits`. `EngineInv` counts: the slots in use are the callers
  that hold one, nobody waits while one is free, the queue holds exactly the waiting
  callers, each once (`SlotsInv`); and it dates everything that is kept by what the
  hotel said (`KeptInv`). `UploadsInv` says, of a file no two steps have crossed on, who may
  hold it in which status (`FileRight`), and of a home that a transaction that will
  make a primary image has seen every other one (`HomeRight`). `NoticesInv` relates a
  badge to the notices still to be counted (`BadgeRight`) and an event to who has been
  told, is being told, is still in its queue, was left out by a failure or did not want
  it (`ToldRight`). `TablesInv` says that nights held for a booking are of the unit
  it is in; a cell then follows by counting (`CellCounts`): each booking and each
  block of a night is of one unit, and where no unit is claimed for two the units that
  are taken are as many as the claims.

Modules that a run composes (`MCRatesAndPrices`, `MCPeople`, `MCServices`) let one
component move at a time: each of their behaviours is one of every component, so the
component's own theorem holds of it (`ScenesAreOfEach`).

Only model-checked: `PaidIsNotForgotten` and `IntentsSettle`, for liveness under
fairness is out of the prover's reach; and what the runs that expect a violation show.

## What the code does not keep

Shown by the runs that expect a violation:

- `flex_mirror`: the registry's confirm accepts a FLEX booking and leaves its
  `FlexBooking` PENDING.
- `flex_double_create`: two creations at the same time book the same months.
- `flex_commission_base`: the commission of a FLEX reservation is a share of one month's
  rent at the rate of the cascade; `docs/reservation-flow.md:96-100` and
  `docs/reservations-frontend-guide.md:193` say of its total, at the ambassador's
  default rate. `SerialRowsSound` checks what the code does.
- `settle_cancelled_paid`: a commission cancelled while in a draft is paid with it.
- `pay_crash`: a crash between crediting a payment and confirming its reservation
  cannot be repaired by a sync: every retry fails on the unique payment id.

Seen while modelling, in the reservations and payments:

- with two handlers, the parts of `SerialRowsSound` about dates and open requests,
  `SerialReviewIsTruthful`, `SerialNeverResettled`, `SerialTotalsPaid`,
  `SerialBooksSound` and `SerialMoneyIsKept` fail: a guard is read in one statement
  and the write does not repeat it;
- an approval of a commission that races its cancellation undoes it;
- with links that expire, an approved payment may confirm nothing: a payment in
  process keeps its id on a row that a later checkout cancels, and its approval then
  meets the unique index;
- a payment first seen in process and then rejected stays PENDING in the table.

In the rest:

- a report without a reservation id registers a second booking if it overlaps another
  one, or comes after its session was started again, though the endpoint is said to be
  idempotent (`ambassadors.service.ts:147`);
- two PATCHes of a booking's dates at once leave nights that are not those between the
  dates; a PATCH leaves the nights held in `unit_availability` as they were;
- two recalculations at once, a request that dies, a rent changed meanwhile or a rate
  changed while a booking is sold leave PENDING commissions at an old rate, until a
  full recalculation;
- two changes of plans at once can leave an old price advertised, until the next change,
  or a plan whose minimum is above its maximum;
- `findNextAvailableStart` looks at what is booked up to its horizon: a long stay it
  offers may run into a reservation that starts beyond;
- a verification and a rejection of one profile that cross leave an ambassador with
  the role and a rejected profile; a suspension of an agency takes the role of a member
  who is an ambassador on their own as well; a member who registered while inactive is
  not linked when brought back;
- two refreshes with one token both succeed; a login or refresh that was let in before
  a password reset opens its session after all were ended;
- a confirmation of an upload that crosses the cleanup job shows a file that is gone;
  two images made primary at once both are;
- a badge keeps an old count after a notice is read or removed, or when two counts
  cross; who has both staff roles is told of a lead twice; a broadcast that fails at one
  person tells none of those who come after;
- an older answer of the booking engine replaces a newer one in the cache when the two
  come out of order; a prepared reservation whose answer is lost stays at the hotel;
  a response cut short after its headers never gives its slot back;
- the dashboard counts a confirmed booking and the nights held for it, so a cell offers
  fewer units than are free and may tell of an overbooking that is none; a row without
  listed units offers one; bookings of no unit count in the "general" row only; nights
  held stay where they were when a booking's dates are edited.

## Not modelled

- The parsing of the hotel's pages in `cloudbeds-public-booking.provider.ts`, the
  enrichment of rooms with our units and the log of external requests: formats, without
  state that anything reads back.
- Webhook parsing and signature: `FlexPayments` starts from a kind and an id.
- Push devices, e-mails and the wording of notices; bank details and the audit log.
- Arrivals, departures, people in the house, revenue, occupancy percentages and lists
  of the dashboard, which counts a FLEX stay from the registry and from its own table;
  the activity feed; the catalogue, amenities, the agenda: reads, and writes of one row.
- The Apple login: declared, not implemented.
- Validation of bodies, authorisation and HTTP plumbing are left out everywhere.

## Plan

Done: all modules above, and the proofs of every safety property of their runs. What
could follow: `FlexReservations` and `CommissionRates` composed, so that a rent changes
through the handlers of the reservation; several reservations in `FlexPayments`, for
the batch of the job; the activity feed.
