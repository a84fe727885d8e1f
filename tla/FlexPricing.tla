------------------------------- MODULE FlexPricing -------------------------------
(***************************************************************************)
(* The pricing plans of one FLEX property, the price it advertises, which  *)
(* follows the plans, and the quote of a stay.                             *)
(*                                                                         *)
(* Source: flex-pricing.service.ts.  A change of a plan is one request     *)
(* with several awaits: (check,) write, list the active plans, write the   *)
(* advertised price.  Amounts are in cents.                                *)
(***************************************************************************)
EXTENDS Integers

CONSTANTS
  Editor,   \* concurrent requests that change plans
  Plan,     \* identifiers of PropertyFlexPricingPlan rows
  Months,   \* lengths of stays, and limits of plans
  Rent,     \* monthly rents
  Currency, \* currencies
  NoLimit,  \* an absent maxMonths
  NoPlan    \* an absent pricingPlanId

ASSUME MonthsAreCounted ==
  Months \subseteq Nat \ {0} /\ Months # {} /\ NoLimit \notin Nat
ASSUME RentsAreAmounts == Rent \subseteq Nat /\ Rent # {}
ASSUME PlansAreNamed == NoPlan \notin Plan /\ Currency # {}

VARIABLES
  plan,       \* the plans
  advert,     \* monthlyRate, minMonths and currency of the property
  editor,     \* what each request is doing and what it has read
  (* History, which no action reads but to keep it: *)
  outdated,   \* the requests with a list or a check that a change has passed by
  unsettled   \* the price was last written from an outdated list or by staff
              \* (PATCH of the property), or a request died before it wrote one

pricingVars == <<plan, advert, editor, outdated, unsettled>>

-----------------------------------------------------------------------------
PlanRow == [exists : BOOLEAN, active : BOOLEAN, min : Months,
            max : Months \union {NoLimit}, rent : Rent, currency : Currency]
Advert == [rent : Rent \union {0}, min : Months \union {1}, currency : Currency]

Waiting == [pc |-> "idle"]
EditorState ==
  {Waiting}
    \union [pc : {"patch"}, plan : Plan, min : Months \union {NoLimit},
            max : Months \union {NoLimit}, clears : BOOLEAN]
    \union [pc : {"list"}]
    \union [pc : {"price"}, advert : Advert]

PricingTypeOK ==
  /\ plan \in [Plan -> PlanRow]
  /\ advert \in Advert
  /\ editor \in [Editor -> EditorState]
  /\ outdated \subseteq Editor
  /\ unsettled \in BOOLEAN

NoRow == [exists |-> FALSE, active |-> FALSE, min |-> CHOOSE m \in Months : TRUE,
          max |-> NoLimit, rent |-> CHOOSE r \in Rent : TRUE,
          currency |-> CHOOSE c \in Currency : TRUE]

PricingInit ==
  /\ plan = [p \in Plan |-> NoRow]
  /\ advert = [rent |-> 0, min |-> 1, currency |-> CHOOSE c \in Currency : TRUE]
  /\ editor = [e \in Editor |-> Waiting]
  /\ outdated = {}
  /\ unsettled = FALSE

-----------------------------------------------------------------------------
(* Quotes                                                                    *)

(* maxMonths >= minMonths, if there is a maximum.                            *)
ValidRange(min, max) == max # NoLimit => max >= min
FitsPlan_Open(n, p) == n >= plan[p].min
FitsPlan(n, p) == n >= plan[p].min /\ (plan[p].max = NoLimit \/ n <= plan[p].max)

ActivePlans == {p \in Plan : plan[p].exists /\ plan[p].active}

FittingPlans(n) == {p \in ActivePlans : FitsPlan(n, p)}

(* The plans a quote of n months may be made from: the one that is named, if   *)
(* it is active and fits, and none instead of it; without a name, those with   *)
(* the largest minimum of the active plans that fit.                          *)
Resolved_Cheapest(n, named) ==
  {p \in FittingPlans(n) : \A q \in FittingPlans(n) : plan[p].rent <= plan[q].rent}
Resolved_Instead(n, named) ==
  IF named \in FittingPlans(n) THEN {named}
  ELSE {p \in FittingPlans(n) : \A q \in FittingPlans(n) : plan[q].min <= plan[p].min}
Resolved(n, named) ==
  IF named # NoPlan THEN FittingPlans(n) \intersect {named}
  ELSE {p \in FittingPlans(n) : \A q \in FittingPlans(n) : plan[q].min <= plan[p].min}

(* Math.round(rent * num / den * 100) / 100, in cents.  Where the quotient is *)
(* exactly a half, the code's floating point may round it either way.         *)
Portion_Floor(rent, num, den) == (rent * num) \div den
Portion(rent, num, den) == (2 * rent * num + den) \div (2 * den)

(* calculateDepositAmount: a plan whose own deposit is not given has a third. *)
Deposit(rent, rule, custom) ==
  IF rule = "CUSTOM" /\ custom # NoLimit THEN custom
  ELSE IF rule = "ONE_MONTH_RENT" THEN rent
  ELSE Portion(rent, 1, 3)

EntryCommission(rent, rule) ==
  CASE rule = "THIRD_FIRST_MONTH" -> Portion(rent, 1, 3)
    [] rule = "HALF_FIRST_MONTH" -> Portion(rent, 1, 2)
    [] rule = "SEVENTY_FIRST_MONTH" -> Portion(rent, 7, 10)
    [] rule = "FULL_FIRST_MONTH" -> rent
    [] OTHER -> 0

(* The quotes of n months: at the advertised rent if no plan is active,       *)
(* whichever is named.                                                       *)
Quoted(id, price, n) == [plan |-> id, rent |-> price.rent, total |-> price.rent * n,
                         currency |-> price.currency]
Quotes(n, named) ==
  IF ActivePlans = {} THEN {Quoted(NoPlan, advert, n)}
  ELSE {Quoted(p, plan[p], n) : p \in Resolved(n, named)}

-----------------------------------------------------------------------------
(* Requests that change a plan                                               *)

(* A request that has written a plan goes on to list the plans; what others    *)
(* have listed, or checked the plan against, is out of date from then on.      *)
Checking(p) == {x \in Editor : editor[x].pc = "patch" /\ editor[x].plan = p}
Listing == {x \in Editor : editor[x].pc = "price"}
Changes(e, p) ==
  /\ editor' = [editor EXCEPT ![e] = [pc |-> "list"]]
  /\ outdated' = (outdated \union Checking(p) \union Listing) \ {e}
  /\ UNCHANGED <<advert, unsettled>>

(* The identifier of a new plan is one that no request has ever read.          *)
CreatePlan(e, p, row) ==
  /\ editor[e] = Waiting
  /\ ~plan[p].exists /\ Checking(p) = {}
  /\ row.exists /\ ValidRange(row.min, row.max)
  /\ plan' = [plan EXCEPT ![p] = row]
  /\ Changes(e, p)

DeletePlan(e, p) ==
  /\ editor[e] = Waiting
  /\ plan[p].exists
  /\ plan' = [plan EXCEPT ![p] = NoRow]
  /\ Changes(e, p)

(* updatePlan of other terms reads nothing of the limits.                     *)
UpdateTerms(e, p, active, rent, currency) ==
  /\ editor[e] = Waiting
  /\ plan[p].exists
  /\ plan' = [plan EXCEPT ![p].active = active, ![p].rent = rent,
                          ![p].currency = currency]
  /\ Changes(e, p)

(* updatePlan of a limit checks it against the other one as it is.  A body     *)
(* may take the maximum away: the old one is still in the check.              *)
Patched_NewOnly(p, min, max) ==
  /\ plan[p].exists
  /\ min # NoLimit => ValidRange(min, max)
Patched(p, min, max) ==
  /\ plan[p].exists
  /\ ValidRange(IF min = NoLimit THEN plan[p].min ELSE min,
                IF max = NoLimit THEN plan[p].max ELSE max)

UpdateRead(e, p, min, max, clears) ==
  /\ min # NoLimit \/ max # NoLimit \/ clears
  /\ clears => max = NoLimit
  /\ Patched(p, min, max)
  /\ editor[e] = Waiting
  /\ editor' = [editor EXCEPT ![e] = [pc |-> "patch", plan |-> p, min |-> min,
                                      max |-> max, clears |-> clears]]
  /\ UNCHANGED <<plan, advert, outdated, unsettled>>

(* Only the fields of the request are written.                                *)
Edited_Whole(row, r) == [row EXCEPT !.min = r.min, !.max = r.max]
Edited(row, r) ==
  [row EXCEPT !.min = IF r.min = NoLimit THEN @ ELSE r.min,
              !.max = IF r.max = NoLimit /\ ~r.clears THEN @ ELSE r.max]

UpdateWrite(e) ==
  LET r == editor[e] IN
  /\ r.pc = "patch"
  /\ plan[r.plan].exists
  /\ plan' = [plan EXCEPT ![r.plan] = Edited(@, r)]
  /\ Changes(e, r.plan)

(* syncPropertyPriceFromPlans: rent and currency of an active plan with the    *)
(* smallest rent, whatever its currency, and the smallest minimum of any.      *)
(* Without active plans the advertised price stays.                          *)
LeastMin == CHOOSE m \in {plan[p].min : p \in ActivePlans} :
              \A p \in ActivePlans : m <= plan[p].min
Priced(p) == [rent |-> plan[p].rent, min |-> LeastMin, currency |-> plan[p].currency]
Prices_Any == {Priced(p) : p \in ActivePlans}
Prices_OneCurrency ==
  {[Priced(p) EXCEPT !.currency = advert.currency] :
     p \in {x \in ActivePlans : \A q \in ActivePlans : plan[x].rent <= plan[q].rent}}
Prices ==
  {Priced(p) : p \in {x \in ActivePlans : \A q \in ActivePlans : plan[x].rent <= plan[q].rent}}

SyncList(e) ==
  /\ editor[e].pc = "list"
  /\ \/ /\ ActivePlans = {}
        /\ editor' = [editor EXCEPT ![e] = Waiting]
     \/ \E price \in Prices :
          editor' = [editor EXCEPT ![e] = [pc |-> "price", advert |-> price]]
  /\ UNCHANGED <<plan, advert, outdated, unsettled>>

SyncWrite(e) ==
  /\ editor[e].pc = "price"
  /\ advert' = editor[e].advert
  /\ editor' = [editor EXCEPT ![e] = Waiting]
  /\ outdated' = outdated \ {e}
  /\ unsettled' = (e \in outdated)
  /\ UNCHANGED plan

(* PATCH /property-flex/:id writes a price of its own.                        *)
SetPrice(price) ==
  /\ advert' = price
  /\ unsettled' = TRUE
  /\ UNCHANGED <<plan, editor, outdated>>

(* The process dies, or the plan to be written has been deleted.              *)
GiveUp(e) ==
  /\ editor[e] # Waiting
  /\ editor' = [editor EXCEPT ![e] = Waiting]
  /\ outdated' = outdated \ {e}
  /\ unsettled' = (unsettled \/ editor[e].pc # "patch")
  /\ UNCHANGED <<plan, advert>>

EditorStep(e) ==
  \/ \E p \in Plan :
       \/ \E row \in PlanRow : CreatePlan(e, p, row)
       \/ \E active \in BOOLEAN, rent \in Rent, currency \in Currency :
            UpdateTerms(e, p, active, rent, currency)
       \/ \E min, max \in Months \union {NoLimit}, clears \in BOOLEAN :
            UpdateRead(e, p, min, max, clears)
       \/ DeletePlan(e, p)
  \/ UpdateWrite(e)
  \/ SyncList(e)
  \/ SyncWrite(e)
  \/ GiveUp(e)

PricingNext ==
  \/ \E e \in Editor : EditorStep(e)
  \/ \E price \in Advert : SetPrice(price)

PricingSpec == PricingInit /\ [][PricingNext]_pricingVars

-----------------------------------------------------------------------------
(* Properties                                                                *)

(* When no request is at work, what is advertised is what the cheapest quote  *)
(* costs, in the currency of a plan of that rent, and a shorter stay than      *)
(* advertised gets none.  Requests that cross keep it, unless the last price   *)
(* is written from a list that a later change has passed by, or one dies; the  *)
(* next request to write from an up to date list repairs it                    *)
(* (flex-pricing.service.ts:237-252).                                        *)
AdvertIsCheapestQuote ==
  ~unsettled /\ (\A e \in Editor : editor[e] = Waiting) /\ ActivePlans # {} =>
    LET quoted == UNION {Quotes(n, named) : n \in Months, named \in Plan \union {NoPlan}} IN
    /\ \A q \in quoted : advert.rent <= q.rent
    /\ \A n \in Months, named \in Plan \union {NoPlan} :
         n < advert.min => Quotes(n, named) = {}
    /\ \E p \in ActivePlans :
         plan[p].rent = advert.rent /\ plan[p].currency = advert.currency

(* A quote is always of a plan meant for so long a stay.  Who names no plan    *)
(* gets the one for the longest: no active plan that fits asks for more        *)
(* months.  Who names one gets that one or nothing, and who names the plan of  *)
(* a quote, as a booking does after it, gets that quote again (181-204).       *)
QuoteIsOfLongestPlan ==
  \A n \in Months :
    /\ \A named \in Plan \union {NoPlan} : \A p \in Resolved(n, named) :
         /\ plan[p].min <= n
         /\ plan[p].max # NoLimit => n <= plan[p].max
         /\ named \in {NoPlan, p}
    /\ \A p \in Resolved(n, NoPlan) : \A q \in ActivePlans :
         plan[q].min > plan[p].min =>
           n < plan[q].min \/ (plan[q].max # NoLimit /\ plan[q].max < n)
    /\ \A q \in Quotes(n, NoPlan) : Quotes(n, q.plan) = {q}

(* The limits of a plan stay in order, unless a request writes one that it     *)
(* checked before another changed the plan (70-98).                           *)
RangesStayOrdered ==
  [][\A p \in Plan :
       ValidRange(plan[p].min, plan[p].max) /\ ~(\E e \in outdated : editor[e].pc = "patch") =>
         ValidRange(plan'[p].min, plan'[p].max)]_pricingVars

(* What a guest pays to enter is right to half a cent, and never more than a  *)
(* month (206-229).                                                           *)
EntryRule == {<<"THIRD_FIRST_MONTH", 1, 3>>, <<"HALF_FIRST_MONTH", 1, 2>>,
              <<"SEVENTY_FIRST_MONTH", 7, 10>>, <<"FULL_FIRST_MONTH", 1, 1>>}
EntryAmountsRounded ==
  \A p \in ActivePlans, e \in EntryRule :
    LET rent == plan[p].rent
        due == EntryCommission(rent, e[1])
    IN
    /\ 2 * (due * e[3] - rent * e[2]) \in (0 - e[3])..e[3]
    /\ Deposit(rent, "THIRD_OF_MONTH", NoLimit) <= Deposit(rent, "ONE_MONTH_RENT", NoLimit)
    /\ due <= rent

(* The price a guest is told, from the advertisement to the quote and what is *)
(* paid to enter.                                                             *)
QuotesRight == AdvertIsCheapestQuote /\ QuoteIsOfLongestPlan /\ EntryAmountsRounded
=============================================================================
