----------------------------- MODULE MCRatesAndPrices -----------------------------
(***************************************************************************)
(* Small instances of CommissionRates, FlexPricing and FlexCalendar.  They *)
(* share no state: a behaviour moves one of them, its focus, so that the   *)
(* states of the run are the sum of theirs, not the product.               *)
(***************************************************************************)
EXTENDS CommissionRates, FlexPricing, FlexCalendar, FiniteSets, TLC

CONSTANTS a1, a2, flat1, hotel1, seller1, sale1, e1, e2, plan1, plan2,
          ars, usd

VARIABLE focus

Rates == {0, 1250}
Bases == {1004, 1006}
MonthsOfStay == {1, 2}
Rents == {1000, 2000}
Calendar == [m \in 0..5 |-> <<0, 3, 5, 8, 11, 14>>[m + 1]]

TypeOK == RatesTypeOK /\ PricingTypeOK

Untouched(h) ==
  /\ homeRate'[h] = NoRate /\ ~gone'[h]
  /\ \A s \in Seller : override'[<<h, s>>] = NoRate

(* The two kinds of property are priced in turn.                             *)
RatesMove ==
  /\ RatesNext
  /\ IF focus = "flexRates" THEN Untouched(hotel1) /\ sale'[sale1].home # hotel1
                             ELSE Untouched(flat1) /\ sale'[sale1].home # flat1
  /\ UNCHANGED <<pricingVars, taken, focus>>

(* One request at a time for two plans, the second for any number of months;   *)
(* or two requests at once for one plan at one rent in one currency.           *)
PricingMoves ==
  /\ PricingNext
  /\ plan'[plan2].exists => plan'[plan2].max = NoLimit /\ plan'[plan2].currency = usd
  /\ editor' = editor => advert' = [rent |-> 1000, min |-> 2, currency |-> usd]
  /\ editor'[e2] # Waiting =>
       ~plan'[plan2].exists /\ plan'[plan1].rent = 1000 /\ plan'[plan1].currency = ars
  /\ UNCHANGED <<rateVars, taken, focus>>

(* Bound: three reservations.                                                 *)
CalendarMoves ==
  CalendarNext /\ Cardinality(taken') <= 3 /\ UNCHANGED <<rateVars, pricingVars, focus>>

MCInit ==
  /\ RatesInit /\ PricingInit /\ CalendarInit
  /\ focus \in {"flexRates", "hotelRates", "prices", "calendar"}
MCNext ==
  \/ focus \in {"flexRates", "hotelRates"} /\ RatesMove
  \/ focus = "prices" /\ PricingMoves
  \/ focus = "calendar" /\ CalendarMoves

MCSpec == MCInit /\ [][MCNext]_<<rateVars, pricingVars, taken, focus>>

(* What a guest is offered: the price, and the first day there is room.       *)
OffersRight == QuotesRight /\ NextStartIsFirst

Symmetry == Permutations(Admin)
=============================================================================
