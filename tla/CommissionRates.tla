----------------------------- MODULE CommissionRates -----------------------------
(***************************************************************************)
(* Commission rates: the cascade that finds the rate of a booking, and the *)
(* recalculation of PENDING commissions after staff changes a rate.        *)
(*                                                                         *)
(* Sources: commission-rates.service.ts, and its callers in properties,    *)
(* property-flex, professionals, flex-bookings.  A recalculation is one    *)
(* request with many awaits: it writes the rate, lists the commissions,    *)
(* then for each finds its rate and writes it.  Bookings come and move     *)
(* meanwhile, and other requests recalculate.                              *)
(***************************************************************************)
EXTENDS Integers

CONSTANTS
  Admin,      \* concurrent requests that change rates
  FlexHome,   \* PropertyFlex identifiers
  Hotel,      \* Property identifiers
  Seller,     \* ambassador profiles
  Sale,       \* bookings, and their commissions
  Rate,       \* rates, in hundredths of a percent
  Base,       \* amounts a commission is a share of, in cents
  NoRate      \* an absent (null, undefined) value

Home == FlexHome \union Hotel

ASSUME RatesAreShares == (\A r \in Rate : r \in Nat /\ r <= 10000) /\ 0 \in Rate
ASSUME BasesAreAmounts == Base \subseteq Nat /\ Base # {}
ASSUME NoRateIsNone == NoRate \notin Rate \union Home \union Seller
ASSUME HomesDiffer == FlexHome \intersect Hotel = {} /\ Home # {}

VARIABLES
  override,     \* the ambassador_flex_ and _property_commissions tables
  homeRate,     \* commissionRate of each property
  defaultRate,  \* defaultCommissionRate of each profile
  gone,         \* properties soft-deleted
  sale,         \* the bookings table: property, ambassador, amount
  share,        \* the commissions table
  admin,        \* what each request is doing and what it has read
  disturbed     \* something happened that only a full recalculation repairs

rateTables == <<override, homeRate, defaultRate, gone>>
rateVars == <<rateTables, sale, share, admin, disturbed>>

-----------------------------------------------------------------------------
SaleRow == [home : Home \union {NoRate}, seller : Seller \union {NoRate}, base : Nat]
ShareRow == [status : {"ABSENT", "PENDING", "SETTLED"}, rate : Rate, base : Nat,
             amount : Nat]

(* Whose commissions a recalculation reaches: NoRate stands for all.         *)
Scope == [home : Home \union {NoRate}, seller : Seller \union {NoRate}]

Resting == [pc |-> "idle"]
AdminState ==
  {Resting}
    \union [pc : {"list"}, scope : Scope]
    \union [pc : {"resolve"}, todo : SUBSET Sale, base : [Sale -> Nat]]
    \union [pc : {"write"}, todo : SUBSET Sale, base : [Sale -> Nat],
            sale : Sale, rate : Rate]

RatesTypeOK ==
  /\ override \in [Home \X Seller -> Rate \union {NoRate}]
  /\ homeRate \in [Home -> Rate \union {NoRate}]
  /\ defaultRate \in [Seller -> Rate]
  /\ gone \in [Home -> BOOLEAN]
  /\ sale \in [Sale -> SaleRow]
  /\ share \in [Sale -> ShareRow]
  /\ admin \in [Admin -> AdminState]
  /\ disturbed \in BOOLEAN

RatesInit ==
  /\ override = [pair \in Home \X Seller |-> NoRate]
  /\ homeRate = [h \in Home |-> NoRate]
  /\ defaultRate = [s \in Seller |-> 0]
  /\ gone = [h \in Home |-> FALSE]
  /\ sale = [b \in Sale |-> [home |-> NoRate, seller |-> NoRate, base |-> 0]]
  /\ share = [b \in Sale |->
                [status |-> "ABSENT", rate |-> 0, base |-> 0, amount |-> 0]]
  /\ admin = [a \in Admin |-> Resting]
  /\ disturbed = FALSE

-----------------------------------------------------------------------------
(* The cascade: the ambassador's agreement for the property, else the rate of *)
(* the property, else the ambassador's own unless it is zero, else zero.  A   *)
(* hotel that was deleted has no rate any more; a FLEX property keeps its.    *)
HomeRateSeen(h) == IF h \in Hotel /\ gone[h] THEN NoRate ELSE homeRate[h]

Cascade_PropertyFirst(h, s) ==
  IF HomeRateSeen(h) # NoRate THEN HomeRateSeen(h)
  ELSE IF s # NoRate /\ override[<<h, s>>] # NoRate THEN override[<<h, s>>]
  ELSE IF s # NoRate THEN defaultRate[s] ELSE 0
Cascade(h, s) ==
  IF s # NoRate /\ override[<<h, s>>] # NoRate THEN override[<<h, s>>]
  ELSE IF HomeRateSeen(h) # NoRate THEN HomeRateSeen(h)
  ELSE IF s # NoRate THEN defaultRate[s] ELSE 0

(* base * rate / 100, in a column of two decimals, rounded half up.           *)
ShareOf_Truncated(base, rate) == (base * rate) \div 10000
ShareOf(base, rate) == (base * rate + 5000) \div 10000

ShareRowOf(base, rate) ==
  [status |-> "PENDING", rate |-> rate, base |-> base, amount |-> ShareOf(base, rate)]

-----------------------------------------------------------------------------
(* Bookings, as their services move them.  A transaction finds the rate before *)
(* it writes the commission: by then the cascade may give another.             *)

Sell(b, h, s, base, rate) ==
  /\ share[b].status = "ABSENT"
  /\ ~gone[h]
  /\ sale' = [sale EXCEPT ![b] = [home |-> h, seller |-> s, base |-> base]]
  /\ share' = [share EXCEPT ![b] = ShareRowOf(base, rate)]
  /\ disturbed' = (disturbed \/ rate # Cascade(h, s))
  /\ UNCHANGED <<rateTables, admin>>

(* Another rent for a FLEX reservation (FlexReservations); a recalculation    *)
(* under way may have read the rent before.                                   *)
ChangeRent(b, base, rate) ==
  /\ share[b].status # "ABSENT" /\ sale[b].home \in FlexHome
  /\ sale' = [sale EXCEPT ![b].base = base]
  /\ share' = IF share[b].status # "PENDING" THEN share
              ELSE [share EXCEPT ![b] = ShareRowOf(base, rate)]
  /\ disturbed' = \/ disturbed
                  \/ rate # Cascade(sale[b].home, sale[b].seller)
                  \/ \E a \in Admin : admin[a] # Resting
  /\ UNCHANGED <<rateTables, admin>>

(* It is approved, settled, paid or cancelled: the amount is due as it is.    *)
Settle(b) ==
  /\ share[b].status = "PENDING"
  /\ share' = [share EXCEPT ![b].status = "SETTLED"]
  /\ UNCHANGED <<rateTables, sale, admin, disturbed>>

(* DELETE of a property: no recalculation follows.                            *)
DeleteHome(h) ==
  /\ ~gone[h]
  /\ gone' = [gone EXCEPT ![h] = TRUE]
  /\ disturbed' = TRUE
  /\ UNCHANGED <<override, homeRate, defaultRate, sale, share, admin>>

-----------------------------------------------------------------------------
(* Requests of staff: a write of one rate, then a recalculation in its scope. *)

OthersRest(a) == \A x \in Admin \ {a} : admin[x] = Resting
Recalculates(a, scope) ==
  /\ admin[a] = Resting
  /\ admin' = [admin EXCEPT ![a] = [pc |-> "list", scope |-> scope]]
  /\ disturbed' = (disturbed \/ ~OthersRest(a))
  /\ UNCHANGED <<sale, share>>

(* setPropertyFlexRate, setPropertyTemporalRate, and PATCH of a property that *)
(* gives a rate.                                                              *)
SetHomeRate(a, h, r) ==
  /\ ~gone[h]
  /\ homeRate' = [homeRate EXCEPT ![h] = r]
  /\ Recalculates(a, [home |-> h, seller |-> NoRate])
  /\ UNCHANGED <<override, defaultRate, gone>>

(* upsertAmbassadorOverride, upsertAmbassadorPropertyOverride.                *)
SetOverride(a, h, s, r) ==
  /\ ~gone[h]
  /\ override' = [override EXCEPT ![<<h, s>>] = r]
  /\ Recalculates(a, [home |-> h, seller |-> s])
  /\ UNCHANGED <<homeRate, defaultRate, gone>>

(* deleteAmbassadorOverride, deleteAmbassadorPropertyOverride.                *)
DropOverride(a, h, s) ==
  /\ override[<<h, s>>] # NoRate
  /\ override' = [override EXCEPT ![<<h, s>>] = NoRate]
  /\ Recalculates(a, [home |-> h, seller |-> s])
  /\ UNCHANGED <<homeRate, defaultRate, gone>>

(* PATCH /professionals/:id with a default rate (recalculateForAmbassador).   *)
SetDefaultRate(a, s, r) ==
  /\ defaultRate' = [defaultRate EXCEPT ![s] = r]
  /\ Recalculates(a, [home |-> NoRate, seller |-> s])
  /\ UNCHANGED <<override, homeRate, gone>>

(* recalculateAllPending.  Undisturbed, it leaves nothing to repair.          *)
RecalculateAll(a) ==
  /\ admin[a] = Resting
  /\ admin' = [admin EXCEPT ![a] =
       [pc |-> "list", scope |-> [home |-> NoRate, seller |-> NoRate]]]
  /\ disturbed' = ~OthersRest(a)
  /\ UNCHANGED <<rateTables, sale, share>>

(* pendingFlexBookings and pendingTemporalBookings: what is PENDING now, with *)
(* the amounts as they are now.                                               *)
Listed_FlexOnly(scope) ==
  {b \in Sale : /\ share[b].status = "PENDING"
                /\ sale[b].home \in FlexHome
                /\ scope.home \in {NoRate, sale[b].home}
                /\ scope.seller \in {NoRate, sale[b].seller}}
Listed(scope) ==
  {b \in Sale : /\ share[b].status = "PENDING"
                /\ scope.home \in {NoRate, sale[b].home}
                /\ scope.seller \in {NoRate, sale[b].seller}}

List(a) ==
  /\ admin[a].pc = "list"
  /\ admin' = [admin EXCEPT ![a] =
       [pc |-> "resolve", todo |-> Listed(admin[a].scope),
        base |-> [b \in Sale |-> sale[b].base]]]
  /\ UNCHANGED <<rateTables, sale, share, disturbed>>

(* The next booking of the list, if any, and its rate now.                    *)
Resolve(a, b) ==
  /\ admin[a].pc = "resolve"
  /\ b \in admin[a].todo
  /\ admin' = [admin EXCEPT ![a] =
       [pc |-> "write", todo |-> admin[a].todo \ {b}, base |-> admin[a].base,
        sale |-> b, rate |-> Cascade(sale[b].home, sale[b].seller)]]
  /\ UNCHANGED <<rateTables, sale, share, disturbed>>
Done(a) ==
  /\ admin[a].pc = "resolve"
  /\ admin[a].todo = {}
  /\ admin' = [admin EXCEPT ![a] = Resting]
  /\ UNCHANGED <<rateTables, sale, share, disturbed>>

(* An updateMany that asks again for PENDING.                                 *)
Repriced_Blind(b, base, rate) ==
  [share EXCEPT ![b] = [ShareRowOf(base, rate) EXCEPT !.status = share[b].status]]
Repriced(b, base, rate) ==
  IF share[b].status = "PENDING"
  THEN [share EXCEPT ![b] = ShareRowOf(base, rate)] ELSE share

Write(a) ==
  LET r == admin[a] IN
  /\ r.pc = "write"
  /\ share' = Repriced(r.sale, r.base[r.sale], r.rate)
  /\ admin' = [admin EXCEPT ![a] =
                 [pc |-> "resolve", todo |-> r.todo, base |-> r.base]]
  /\ UNCHANGED <<rateTables, sale, disturbed>>

(* The request dies: the rate is written, its commissions perhaps not.        *)
Die(a) ==
  /\ admin[a] # Resting
  /\ admin' = [admin EXCEPT ![a] = Resting]
  /\ disturbed' = TRUE
  /\ UNCHANGED <<rateTables, sale, share>>

AdminStep(a) ==
  \/ \E h \in Home, r \in Rate : SetHomeRate(a, h, r)
  \/ \E h \in Home, s \in Seller :
       \/ \E r \in Rate : SetOverride(a, h, s, r)
       \/ DropOverride(a, h, s)
  \/ \E s \in Seller, r \in Rate : SetDefaultRate(a, s, r)
  \/ RecalculateAll(a)
  \/ List(a)
  \/ \E b \in Sale : Resolve(a, b)
  \/ Done(a)
  \/ Write(a)
  \/ Die(a)

SaleStep ==
  \/ \E b \in Sale, base \in Base, rate \in Rate :
       \/ \E h \in Home, s \in Seller : Sell(b, h, s, base, rate)
       \/ ChangeRent(b, base, rate)
  \/ \E b \in Sale : Settle(b)
  \/ \E h \in Home : DeleteHome(h)

RatesNext == SaleStep \/ \E a \in Admin : AdminStep(a)

RatesSpec == RatesInit /\ [][RatesNext]_rateVars

-----------------------------------------------------------------------------
(* Properties                                                                *)

(* Whatever crosses it, a recalculation never touches what is due already:    *)
(* between its listing and its write the commission may be approved, settled  *)
(* and paid (commission-rates.service.ts:483, 504).                           *)
OnlyPendingRepriced ==
  [][\A b \in Sale : share[b].status = "SETTLED" => share'[b] = share[b]]_rateVars

(* What a commission says it is a share of, it is: within half a cent of its  *)
(* rate of its base, and at most the base, whichever writer came last.        *)
ShareWithinHalfACent ==
  \A b \in Sale :
    LET exact == share[b].base * share[b].rate IN
    /\ share[b].amount * 10000 <= exact + 5000
    /\ exact <= share[b].amount * 10000 + 5000
    /\ share[b].amount <= share[b].base

(* When no request is at work, every PENDING commission is at the rate the    *)
(* agreements in force give and of the amount its booking has, unless two     *)
(* recalculations crossed, one died, a rent or a rate changed under another   *)
(* transaction or a property was deleted; a full recalculation repairs these. *)
AgreedRate(h, s) ==
  CHOOSE r \in Rate :
    \/ r = override[<<h, s>>]
    \/ /\ override[<<h, s>>] = NoRate
       /\ \/ r = HomeRateSeen(h)
          \/ HomeRateSeen(h) = NoRate /\ r = defaultRate[s]
PendingAtAgreedRate ==
  ~disturbed /\ (\A a \in Admin : admin[a] = Resting) =>
    \A b \in Sale : share[b].status = "PENDING" =>
      /\ share[b].rate = AgreedRate(sale[b].home, sale[b].seller)
      /\ share[b].base = sale[b].base

(* What an ambassador is shown is what was agreed, to the cent.               *)
CommissionsAgreed == ShareWithinHalfACent /\ PendingAtAgreedRate
=============================================================================
