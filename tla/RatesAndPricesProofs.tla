-------------------------- MODULE RatesAndPricesProofs --------------------------
(***************************************************************************)
(* Proofs about CommissionRates, FlexPricing and FlexCalendar, for any     *)
(* number of requests, homes, ambassadors, bookings and plans, and any     *)
(* rates, amounts and calendar.                                            *)
(***************************************************************************)
EXTENDS MCRatesAndPrices, WellFoundedInduction, TLAPS

-----------------------------------------------------------------------------
(* CommissionRates.                                                         *)

(* A commission belongs to a booking an ambassador made of a home.          *)
Sold == \A b \in Sale : share[b].status # "ABSENT" =>
  sale[b].home \in Home /\ sale[b].seller \in Seller

(* What a commission amounts to is its share.                               *)
Exact == \A b \in Sale : share[b].amount = ShareOf(share[b].base, share[b].rate)

Right(b) == share[b].rate = Cascade(sale[b].home, sale[b].seller)
              /\ share[b].base = sale[b].base

(* A request that is still to reach b.                                      *)
Covers(j, b) ==
  \/ /\ j.pc = "list"
     /\ j.scope.home \in {NoRate, sale[b].home}
     /\ j.scope.seller \in {NoRate, sale[b].seller}
  \/ j.pc \in {"resolve", "write"} /\ b \in j.todo
  \/ j.pc = "write" /\ b = j.sale

(* What a request has read is still so.                                     *)
Read(j) ==
  /\ j.pc \in {"resolve", "write"} =>
       \A b \in j.todo : j.base[b] = sale[b].base /\ share[b].status # "ABSENT"
  /\ j.pc = "write" =>
       /\ j.base[j.sale] = sale[j.sale].base
       /\ j.rate = Cascade(sale[j.sale].home, sale[j.sale].seller)
       /\ share[j.sale].status # "ABSENT"

(* What it has listed was sold, and a commission is never unmade.           *)
Known(j) ==
  /\ j.pc \in {"resolve", "write"} => \A b \in j.todo : share[b].status # "ABSENT"
  /\ j.pc = "write" => share[j.sale].status # "ABSENT"

AllKnown == \A a \in Admin : Known(admin[a])

AllRead == \A a \in Admin : Read(admin[a])

Repaired == \A b \in Sale : share[b].status = "PENDING" =>
  Right(b) \/ \E a \in Admin : Covers(admin[a], b)

IInv ==
  /\ RatesTypeOK
  /\ Sold
  /\ Exact
  /\ AllKnown
  /\ ~disturbed => AllRead /\ Repaired

-----------------------------------------------------------------------------
(* Arithmetic.                                                              *)

LEMMA Product ==
  ASSUME NEW x \in Nat, NEW r \in Nat, r <= 10000
  PROVE  x * r \in Nat /\ x * r <= x * 10000
<1>1. x * r \in Nat
  BY SMTT(20)
<1>2. x * r <= x * 10000
  BY Z3T(30)
<1> QED BY <1>1, <1>2

LEMMA Rounding ==
  ASSUME NEW x \in Nat, NEW n \in Nat, x <= n * 10000
  PROVE  /\ (x + 5000) \div 10000 \in Nat
         /\ ((x + 5000) \div 10000) * 10000 <= x + 5000
         /\ x <= ((x + 5000) \div 10000) * 10000 + 5000
         /\ (x + 5000) \div 10000 <= n
OBVIOUS

(* The product under a name: the prover keeps it whole.                     *)
Times(x, r) == x * r

LEMMA ShareOfRight ==
  ASSUME NEW base \in Nat, NEW r \in Rate
  PROVE  /\ ShareOf(base, r) \in Nat
         /\ ShareOf(base, r) * 10000 <= Times(base, r) + 5000
         /\ Times(base, r) <= ShareOf(base, r) * 10000 + 5000
         /\ ShareOf(base, r) <= base
<1>1. r \in Nat /\ r <= 10000
  BY RatesAreShares
<1>2. Times(base, r) \in Nat /\ Times(base, r) <= base * 10000
  BY <1>1, Product DEF Times
<1>3. ShareOf(base, r) = (Times(base, r) + 5000) \div 10000
  BY DEF ShareOf, Times
<1>4. PICK x \in Nat : x = Times(base, r)
  BY <1>2
<1>5. ShareOf(base, r) = (x + 5000) \div 10000 /\ x <= base * 10000
  BY <1>2, <1>3, <1>4
<1>6. /\ ShareOf(base, r) \in Nat
      /\ ShareOf(base, r) * 10000 <= x + 5000
      /\ x <= ShareOf(base, r) * 10000 + 5000
      /\ ShareOf(base, r) <= base
  BY <1>5, Rounding
<1> QED BY <1>4, <1>6

LEMMA ShareRowRight ==
  ASSUME NEW base \in Nat, NEW r \in Rate
  PROVE  LET row == ShareRowOf(base, r) IN
         /\ row \in ShareRow /\ row.status = "PENDING" /\ row.rate = r
         /\ row.base = base /\ row.amount = ShareOf(base, r)
<1>1. ShareOf(base, r) \in Nat
  BY ShareOfRight
<1> QED BY <1>1 DEF ShareRowOf, ShareRow

(* The cascade gives a rate, and the one that was agreed.                   *)
LEMMA CascadeRight ==
  ASSUME RatesTypeOK, NEW h \in Home, NEW s \in Seller
  PROVE  Cascade(h, s) \in Rate /\ AgreedRate(h, s) = Cascade(h, s)
<1> DEFINE P(r) == \/ r = override[<<h, s>>]
                   \/ /\ override[<<h, s>>] = NoRate
                      /\ \/ r = HomeRateSeen(h)
                         \/ HomeRateSeen(h) = NoRate /\ r = defaultRate[s]
           c == Cascade(h, s)
<1>1. /\ override[<<h, s>>] \in Rate \union {NoRate}
      /\ HomeRateSeen(h) \in Rate \union {NoRate}
      /\ defaultRate[s] \in Rate /\ NoRate \notin Rate /\ s # NoRate
  BY NoRateIsNone DEF RatesTypeOK, HomeRateSeen
<1>2. c \in Rate /\ P(c)
  BY <1>1 DEF Cascade
<1>3. \A r \in Rate : P(r) => r = c
  BY <1>1 DEF Cascade
<1>4. (CHOOSE r \in Rate : P(r)) = c
  <2> HIDE DEF P, c
  <2> QED BY <1>2, <1>3
<1> QED BY <1>2, <1>4 DEF AgreedRate

(* The rate of a commission, from the tables alone.                         *)
LEMMA SoldRate ==
  ASSUME RatesTypeOK, Sold, NEW b \in Sale, share[b].status # "ABSENT"
  PROVE  /\ sale[b].home \in Home /\ sale[b].seller \in Seller
         /\ Cascade(sale[b].home, sale[b].seller) \in Rate
         /\ AgreedRate(sale[b].home, sale[b].seller)
              = Cascade(sale[b].home, sale[b].seller)
<1>1. sale[b].home \in Home /\ sale[b].seller \in Seller
  BY DEF Sold
<1> QED BY <1>1, CascadeRight

(* The shape of what a request is doing.                                    *)
LEMMA AtWork ==
  ASSUME NEW j \in AdminState
  PROVE  /\ j.pc = "list" => j.scope \in Scope
         /\ j.pc \in {"resolve", "write"} =>
              j.todo \in SUBSET Sale /\ j.base \in [Sale -> Nat]
         /\ j.pc = "write" => j.sale \in Sale /\ j.rate \in Rate
         /\ j = Resting => j.pc = "idle"
BY DEF AdminState, Resting

LEMMA RestingCoversNone ==
  ASSUME NEW b
  PROVE  ~Covers(Resting, b) /\ Read(Resting) /\ Known(Resting)
BY DEF Covers, Read, Known, Resting

LEMMA KnownStays ==
  ASSUME RatesTypeOK, AllKnown, admin' = admin,
         \A x \in Sale : share[x].status # "ABSENT" => share'[x].status # "ABSENT"
  PROVE  AllKnown'
<1> SUFFICES ASSUME NEW a \in Admin PROVE Known(admin[a])'
  BY DEF AllKnown
<1>1. Known(admin[a]) /\ admin'[a] = admin[a] /\ admin[a] \in AdminState
  BY DEF AllKnown, RatesTypeOK
<1>2. admin[a].pc \in {"resolve", "write"} => admin[a].todo \subseteq Sale
  BY <1>1, AtWork
<1>3. admin[a].pc = "write" => admin[a].sale \in Sale
  BY <1>1, AtWork
<1> QED BY <1>1, <1>2, <1>3 DEF Known

-----------------------------------------------------------------------------
(* Bookings.                                                                *)

LEMMA InitInv ==
  ASSUME RatesInit
  PROVE  IInv
<1>1. 0 \in Rate /\ ShareOf(0, 0) = 0
  BY RatesAreShares DEF ShareOf
<1>2. RatesTypeOK
  BY <1>1 DEF RatesInit, RatesTypeOK, SaleRow, ShareRow, AdminState
<1>3. Sold /\ Exact /\ Repaired
  BY <1>1 DEF RatesInit, Sold, Exact, Repaired
<1>4. AllRead /\ AllKnown
  BY RestingCoversNone DEF RatesInit, AllRead, AllKnown
<1> QED BY <1>2, <1>3, <1>4 DEF IInv

LEMMA SellStep ==
  ASSUME IInv, NEW b \in Sale, NEW h \in Home, NEW s \in Seller,
         NEW base \in Base, NEW r \in Rate, Sell(b, h, s, base, r)
  PROVE  IInv'
<1> DEFINE row == ShareRowOf(base, r)
<1>1. base \in Nat /\ RatesTypeOK
  BY BasesAreAmounts DEF IInv
<1>2. /\ row \in ShareRow /\ row.status = "PENDING" /\ row.rate = r
      /\ row.base = base /\ row.amount = ShareOf(base, r)
  BY <1>1, ShareRowRight
<1> HIDE DEF row
<1>3. /\ share' = [share EXCEPT ![b] = row] /\ share[b].status = "ABSENT"
      /\ sale' = [sale EXCEPT ![b] = [home |-> h, seller |-> s, base |-> base]]
      /\ UNCHANGED <<override, homeRate, defaultRate, gone, admin>>
      /\ disturbed' = (disturbed \/ r # Cascade(h, s))
  BY DEF Sell, rateTables, row
<1>4. RatesTypeOK'
  BY <1>1, <1>2, <1>3 DEF RatesTypeOK, SaleRow
<1>5. /\ share'[b] = row /\ sale'[b].home = h /\ sale'[b].seller = s
      /\ sale'[b].base = base
      /\ \A x \in Sale \ {b} : share'[x] = share[x] /\ sale'[x] = sale[x]
  BY <1>1, <1>3 DEF RatesTypeOK
<1>6. Sold'
  BY <1>5 DEF Sold, IInv
<1>7. Exact'
  BY <1>2, <1>5 DEF Exact, ShareOf, IInv
<1>8. ASSUME ~disturbed' PROVE AllRead' /\ Repaired'
  <2>1. AllRead /\ Repaired /\ r = Cascade(h, s)
    BY <1>3, <1>8 DEF IInv
  <2>2. ASSUME NEW a \in Admin PROVE Read(admin[a])'
    <3>1. Read(admin[a]) /\ admin'[a] = admin[a] /\ admin[a] \in AdminState
      BY <1>1, <1>3, <2>1 DEF AllRead, RatesTypeOK
    <3>2. \A x \in Sale : share[x].status # "ABSENT" =>
            share'[x] = share[x] /\ sale'[x] = sale[x]
      BY <1>3, <1>5
    <3>3. admin[a].pc \in {"resolve", "write"} => admin[a].todo \subseteq Sale
      BY <3>1, AtWork
    <3>4. admin[a].pc = "write" => admin[a].sale \in Sale
      BY <3>1, AtWork
    <3> QED BY <1>3, <3>1, <3>2, <3>3, <3>4 DEF Read, Cascade, HomeRateSeen
  <2>3. Right(b)'
    BY <1>2, <1>3, <1>5, <2>1 DEF Right, Cascade, HomeRateSeen
  <2>4. ASSUME NEW x \in Sale \ {b}, share'[x].status = "PENDING"
        PROVE  Right(x)' \/ \E a \in Admin : Covers(admin[a], x)'
    <3>1. share'[x] = share[x] /\ sale'[x] = sale[x] /\ admin' = admin
      BY <1>3, <1>5
    <3>2. Right(x) \/ \E a \in Admin : Covers(admin[a], x)
      BY <2>1, <2>4, <3>1 DEF Repaired
    <3>3. Right(x) => Right(x)'
      BY <1>3, <3>1 DEF Right, Cascade, HomeRateSeen
    <3>4. \A a \in Admin : Covers(admin[a], x) => Covers(admin[a], x)'
      BY <3>1 DEF Covers
    <3> QED BY <3>2, <3>3, <3>4
  <2> QED BY <2>2, <2>3, <2>4 DEF AllRead, Repaired
<1>9. AllKnown'
  BY <1>1, <1>3, <1>5, KnownStays DEF IInv
<1> QED BY <1>4, <1>6, <1>7, <1>8, <1>9 DEF IInv

(* While every request rests, every PENDING commission is right.            *)
LEMMA AllRight ==
  ASSUME IInv, ~disturbed, \A a \in Admin : admin[a] = Resting,
         NEW b \in Sale, share[b].status = "PENDING"
  PROVE  Right(b)
<1>1. Right(b) \/ \E a \in Admin : Covers(admin[a], b)
  BY DEF IInv, Repaired
<1>2. \A a \in Admin : ~Covers(admin[a], b)
  BY RestingCoversNone
<1> QED BY <1>1, <1>2

LEMMA ChangeRentStep ==
  ASSUME IInv, NEW b \in Sale, NEW base \in Base, NEW r \in Rate,
         ChangeRent(b, base, r)
  PROVE  IInv'
<1> DEFINE row == ShareRowOf(base, r)
<1>1. base \in Nat /\ RatesTypeOK /\ Sold /\ share[b].status # "ABSENT"
  BY BasesAreAmounts DEF IInv, ChangeRent
<1>2. /\ row \in ShareRow /\ row.status = "PENDING"
      /\ row.rate = r
      /\ row.base = base /\ row.amount = ShareOf(base, row.rate)
  BY <1>1, ShareRowRight
<1>3. /\ share' = IF share[b].status # "PENDING" THEN share
                  ELSE [share EXCEPT ![b] = row]
      /\ sale' = [sale EXCEPT ![b].base = base]
      /\ UNCHANGED <<override, homeRate, defaultRate, gone, admin>>
      /\ disturbed' = \/ disturbed
                      \/ r # Cascade(sale[b].home, sale[b].seller)
                      \/ \E a \in Admin : admin[a] # Resting
  BY DEF ChangeRent, rateTables, row
<1> HIDE DEF row
<1>4. /\ sale'[b].base = base /\ sale'[b].home = sale[b].home
      /\ sale'[b].seller = sale[b].seller
      /\ sale' \in [Sale -> SaleRow]
      /\ \A x \in Sale \ {b} : share'[x] = share[x] /\ sale'[x] = sale[x]
  BY <1>1, <1>3 DEF RatesTypeOK, SaleRow
<1>5. /\ share[b].status = "PENDING" => share'[b] = row
      /\ share[b].status # "PENDING" => share'[b] = share[b]
      /\ share' \in [Sale -> ShareRow]
  BY <1>1, <1>2, <1>3 DEF RatesTypeOK
<1>6. RatesTypeOK'
  BY <1>1, <1>3, <1>4, <1>5 DEF RatesTypeOK
<1>7. Sold'
  BY <1>1, <1>4, <1>5 DEF Sold
<1>8. Exact'
  BY <1>2, <1>4, <1>5 DEF Exact, ShareOf, IInv
<1>9. ASSUME ~disturbed' PROVE AllRead' /\ Repaired'
  <2>1. /\ ~disturbed /\ r = Cascade(sale[b].home, sale[b].seller)
        /\ \A a \in Admin : admin[a] = Resting
    BY <1>3, <1>9
  <2>2. AllRead'
    BY <1>3, <2>1, RestingCoversNone DEF AllRead, Read, Resting
  <2>3. ASSUME share'[b].status = "PENDING" PROVE Right(b)'
    <3>1. share'[b] = row
      BY <1>5, <2>3
    <3> QED BY <1>2, <1>3, <1>4, <2>1, <3>1 DEF Right, Cascade, HomeRateSeen
  <2>4. ASSUME NEW x \in Sale \ {b}, share'[x].status = "PENDING" PROVE Right(x)'
    <3>1. share'[x] = share[x] /\ sale'[x] = sale[x]
      BY <1>4
    <3>2. Right(x)
      BY <2>1, <2>4, <3>1, AllRight
    <3> QED BY <1>3, <3>1, <3>2 DEF Right, Cascade, HomeRateSeen
  <2> QED BY <2>2, <2>3, <2>4 DEF Repaired
<1>10. AllKnown'
  <2>1. share'[b].status # "ABSENT"
    BY <1>1, <1>2, <1>5
  <2> QED BY <1>1, <1>3, <1>4, <2>1, KnownStays DEF IInv
<1> QED BY <1>6, <1>7, <1>8, <1>9, <1>10 DEF IInv

LEMMA SettleStep ==
  ASSUME IInv, NEW b \in Sale, Settle(b)
  PROVE  IInv'
<1>1. /\ share[b].status = "PENDING" /\ RatesTypeOK
      /\ share' = [share EXCEPT ![b].status = "SETTLED"]
      /\ UNCHANGED <<override, homeRate, defaultRate, gone, sale, admin, disturbed>>
  BY DEF IInv, Settle, rateTables
<1>2. /\ share' \in [Sale -> ShareRow] /\ share'[b].status = "SETTLED"
      /\ share'[b].base = share[b].base /\ share'[b].rate = share[b].rate
      /\ share'[b].amount = share[b].amount
      /\ \A x \in Sale \ {b} : share'[x] = share[x]
  BY <1>1 DEF RatesTypeOK, ShareRow
<1>3. RatesTypeOK'
  BY <1>1, <1>2 DEF RatesTypeOK
<1>4. Sold' /\ Exact'
  BY <1>1, <1>2 DEF Sold, Exact, ShareOf, IInv
<1>5. ASSUME ~disturbed' PROVE AllRead' /\ Repaired'
  <2>1. AllRead /\ Repaired
    BY <1>1, <1>5 DEF IInv
  <2>2. \A x \in Sale : share'[x].status = "ABSENT" <=> share[x].status = "ABSENT"
    BY <1>1, <1>2
  <2>3. ASSUME NEW a \in Admin PROVE Read(admin[a])'
    <3>1. Read(admin[a]) /\ admin'[a] = admin[a] /\ admin[a] \in AdminState
      BY <1>1, <2>1 DEF AllRead, RatesTypeOK
    <3>2. admin[a].pc \in {"resolve", "write"} => admin[a].todo \subseteq Sale
      BY <3>1, AtWork
    <3>3. admin[a].pc = "write" => admin[a].sale \in Sale
      BY <3>1, AtWork
    <3> QED BY <1>1, <2>2, <3>1, <3>2, <3>3 DEF Read, Cascade, HomeRateSeen
  <2>4. ASSUME NEW x \in Sale, share'[x].status = "PENDING"
        PROVE  Right(x)' \/ \E a \in Admin : Covers(admin[a], x)'
    <3>1. x # b /\ share'[x] = share[x] /\ sale'[x] = sale[x] /\ admin' = admin
      BY <1>1, <1>2, <2>4
    <3>2. Right(x) \/ \E a \in Admin : Covers(admin[a], x)
      BY <2>1, <2>4, <3>1 DEF Repaired
    <3>3. Right(x) => Right(x)'
      BY <1>1, <3>1 DEF Right, Cascade, HomeRateSeen
    <3>4. \A a \in Admin : Covers(admin[a], x) => Covers(admin[a], x)'
      BY <3>1 DEF Covers
    <3> QED BY <3>2, <3>3, <3>4
  <2> QED BY <2>3, <2>4 DEF AllRead, Repaired
<1>6. AllKnown'
  <2>1. share'[b].status # "ABSENT"
    BY <1>2
  <2> QED BY <1>1, <1>2, <2>1, KnownStays DEF IInv
<1> QED BY <1>3, <1>4, <1>5, <1>6 DEF IInv

-----------------------------------------------------------------------------
(* Requests of staff.                                                       *)

(* A request that begins: the rates may have changed, and whatever they     *)
(* changed for is in its scope.                                             *)
LEMMA BeginStep ==
  ASSUME IInv, NEW a \in Admin, NEW scope \in Scope,
         admin[a] = Resting, UNCHANGED <<sale, share>>, disturbed' \in BOOLEAN,
         admin' = [admin EXCEPT ![a] = [pc |-> "list", scope |-> scope]],
         override' \in [Home \X Seller -> Rate \union {NoRate}],
         homeRate' \in [Home -> Rate \union {NoRate}],
         defaultRate' \in [Seller -> Rate], gone' = gone,
         ~disturbed' => OthersRest(a),
         \A b \in Sale : share[b].status = "PENDING" /\ ~disturbed' =>
           \/ /\ ~disturbed
              /\ Cascade(sale[b].home, sale[b].seller)'
                   = Cascade(sale[b].home, sale[b].seller)
           \/ /\ scope.home \in {NoRate, sale[b].home}
              /\ scope.seller \in {NoRate, sale[b].seller}
  PROVE  IInv'
<1>1. RatesTypeOK /\ admin \in [Admin -> AdminState]
  BY DEF IInv, RatesTypeOK
<1>2. [pc |-> "list", scope |-> scope] \in AdminState
  BY DEF AdminState
<1>3. /\ admin' \in [Admin -> AdminState]
      /\ admin'[a] = [pc |-> "list", scope |-> scope]
      /\ \A x \in Admin \ {a} : admin'[x] = admin[x]
  BY <1>1, <1>2
<1>4. RatesTypeOK'
  BY <1>1, <1>3 DEF RatesTypeOK
<1>5. Sold' /\ Exact'
  BY DEF Sold, Exact, ShareOf, IInv
<1>6. ASSUME ~disturbed' PROVE AllRead' /\ Repaired'
  <2>1. \A x \in Admin : admin[x] = Resting
    BY <1>6 DEF OthersRest
  <2>2. \A x \in Admin : Read(admin[x])'
    <3>1. \A x \in Admin : admin'[x].pc \notin {"resolve", "write"}
      BY <1>3, <2>1 DEF Resting
    <3> QED BY <3>1 DEF Read
  <2>3. ASSUME NEW b \in Sale, share'[b].status = "PENDING"
        PROVE  Right(b)' \/ \E x \in Admin : Covers(admin[x], b)'
    <3>1. share[b].status = "PENDING"
      BY <2>3
    <3>2. CASE /\ ~disturbed
               /\ Cascade(sale[b].home, sale[b].seller)'
                    = Cascade(sale[b].home, sale[b].seller)
      <4>1. Right(b)
        BY <2>1, <3>1, <3>2, AllRight
      <4> QED BY <3>2, <4>1 DEF Right
    <3>3. CASE /\ scope.home \in {NoRate, sale[b].home}
               /\ scope.seller \in {NoRate, sale[b].seller}
      <4>1. Covers(admin[a], b)'
        BY <1>3, <3>3 DEF Covers
      <4> QED BY <4>1
    <3> QED BY <1>6, <3>1, <3>2, <3>3
  <2> QED BY <2>2, <2>3 DEF AllRead, Repaired
<1>7. AllKnown'
  <2>1. ASSUME NEW x \in Admin PROVE Known(admin'[x])
    BY <1>3, IInv DEF IInv, AllKnown, Known
  <2> QED BY <2>1 DEF AllKnown, Known
<1> QED BY <1>4, <1>5, <1>6, <1>7 DEF IInv

LEMMA SetHomeRateStep ==
  ASSUME IInv, NEW a \in Admin, NEW h \in Home, NEW r \in Rate,
         SetHomeRate(a, h, r)
  PROVE  IInv'
<1> DEFINE scope == [home |-> h, seller |-> NoRate]
<1>1. RatesTypeOK /\ Sold
  BY DEF IInv
<1>2. /\ homeRate' = [homeRate EXCEPT ![h] = r]
      /\ UNCHANGED <<override, defaultRate, gone, sale, share>>
      /\ admin[a] = Resting
      /\ admin' = [admin EXCEPT ![a] = [pc |-> "list", scope |-> scope]]
      /\ disturbed' = (disturbed \/ ~OthersRest(a))
  BY DEF SetHomeRate, Recalculates
<1>3. scope \in Scope /\ scope.home = h /\ scope.seller = NoRate
  BY DEF Scope
<1>4. /\ homeRate' \in [Home -> Rate \union {NoRate}]
      /\ \A x \in Home \ {h} : homeRate'[x] = homeRate[x]
  BY <1>1, <1>2 DEF RatesTypeOK
<1>5. ASSUME NEW b \in Sale, share[b].status = "PENDING", ~disturbed'
      PROVE  \/ /\ ~disturbed
                /\ Cascade(sale[b].home, sale[b].seller)'
                     = Cascade(sale[b].home, sale[b].seller)
             \/ /\ scope.home \in {NoRate, sale[b].home}
                /\ scope.seller \in {NoRate, sale[b].seller}
  <2>1. sale[b].home \in Home
    BY <1>1, <1>5 DEF Sold
  <2>2. CASE sale[b].home = h
    BY <1>3, <2>2
  <2>3. CASE sale[b].home # h
    <3>1. homeRate'[sale[b].home] = homeRate[sale[b].home]
      BY <1>4, <2>1, <2>3
    <3> QED BY <1>2, <1>5, <3>1 DEF Cascade, HomeRateSeen
  <2> QED BY <2>2, <2>3
<1> HIDE DEF scope
<1>6. /\ override' \in [Home \X Seller -> Rate \union {NoRate}]
      /\ defaultRate' \in [Seller -> Rate] /\ gone' = gone
      /\ disturbed' \in BOOLEAN /\ (~disturbed' => OthersRest(a))
  BY <1>1, <1>2 DEF RatesTypeOK
<1> QED BY <1>2, <1>3, <1>4, <1>5, <1>6, BeginStep

(* Whatever becomes of one agreement, the others stand.                     *)
LEMMA OverrideStep ==
  ASSUME IInv, NEW a \in Admin, NEW h \in Home, NEW s \in Seller,
         NEW r \in Rate \union {NoRate},
         override' = [override EXCEPT ![<<h, s>>] = r],
         Recalculates(a, [home |-> h, seller |-> s]),
         UNCHANGED <<homeRate, defaultRate, gone>>
  PROVE  IInv'
<1> DEFINE scope == [home |-> h, seller |-> s]
<1>1. RatesTypeOK /\ Sold
  BY DEF IInv
<1>2. /\ UNCHANGED <<sale, share>>
      /\ admin[a] = Resting
      /\ admin' = [admin EXCEPT ![a] = [pc |-> "list", scope |-> scope]]
      /\ disturbed' = (disturbed \/ ~OthersRest(a))
  BY DEF Recalculates
<1>3. scope \in Scope /\ scope.home = h /\ scope.seller = s
  BY DEF Scope
<1>4. /\ override' \in [Home \X Seller -> Rate \union {NoRate}]
      /\ \A pair \in (Home \X Seller) \ {<<h, s>>} : override'[pair] = override[pair]
  BY <1>1 DEF RatesTypeOK
<1>5. ASSUME NEW b \in Sale, share[b].status = "PENDING", ~disturbed'
      PROVE  \/ /\ ~disturbed
                /\ Cascade(sale[b].home, sale[b].seller)'
                     = Cascade(sale[b].home, sale[b].seller)
             \/ /\ scope.home \in {NoRate, sale[b].home}
                /\ scope.seller \in {NoRate, sale[b].seller}
  <2>1. sale[b].home \in Home /\ sale[b].seller \in Seller
    BY <1>1, <1>5 DEF Sold
  <2>2. CASE sale[b].home = h /\ sale[b].seller = s
    BY <1>3, <2>2
  <2>3. CASE ~(sale[b].home = h /\ sale[b].seller = s)
    <3>1. <<sale[b].home, sale[b].seller>> \in (Home \X Seller) \ {<<h, s>>}
      BY <2>1, <2>3
    <3>2. override'[<<sale[b].home, sale[b].seller>>]
            = override[<<sale[b].home, sale[b].seller>>]
      BY <1>4, <3>1
    <3> QED BY <1>2, <1>5, <3>2 DEF Cascade, HomeRateSeen
  <2> QED BY <2>2, <2>3
<1> HIDE DEF scope
<1>6. /\ homeRate' \in [Home -> Rate \union {NoRate}]
      /\ defaultRate' \in [Seller -> Rate] /\ gone' = gone
      /\ disturbed' \in BOOLEAN /\ (~disturbed' => OthersRest(a))
  BY <1>1, <1>2 DEF RatesTypeOK
<1> QED BY <1>2, <1>3, <1>4, <1>5, <1>6, BeginStep

LEMMA SetDefaultRateStep ==
  ASSUME IInv, NEW a \in Admin, NEW s \in Seller, NEW r \in Rate,
         SetDefaultRate(a, s, r)
  PROVE  IInv'
<1> DEFINE scope == [home |-> NoRate, seller |-> s]
<1>1. RatesTypeOK /\ Sold
  BY DEF IInv
<1>2. /\ defaultRate' = [defaultRate EXCEPT ![s] = r]
      /\ UNCHANGED <<override, homeRate, gone, sale, share>>
      /\ admin[a] = Resting
      /\ admin' = [admin EXCEPT ![a] = [pc |-> "list", scope |-> scope]]
      /\ disturbed' = (disturbed \/ ~OthersRest(a))
  BY DEF SetDefaultRate, Recalculates
<1>3. scope \in Scope /\ scope.home = NoRate /\ scope.seller = s
  BY DEF Scope
<1>4. /\ defaultRate' \in [Seller -> Rate]
      /\ \A x \in Seller \ {s} : defaultRate'[x] = defaultRate[x]
  BY <1>1, <1>2 DEF RatesTypeOK
<1>5. ASSUME NEW b \in Sale, share[b].status = "PENDING", ~disturbed'
      PROVE  \/ /\ ~disturbed
                /\ Cascade(sale[b].home, sale[b].seller)'
                     = Cascade(sale[b].home, sale[b].seller)
             \/ /\ scope.home \in {NoRate, sale[b].home}
                /\ scope.seller \in {NoRate, sale[b].seller}
  <2>1. sale[b].seller \in Seller
    BY <1>1, <1>5 DEF Sold
  <2>2. CASE sale[b].seller = s
    BY <1>3, <2>2
  <2>3. CASE sale[b].seller # s
    <3>1. defaultRate'[sale[b].seller] = defaultRate[sale[b].seller]
      BY <1>4, <2>1, <2>3
    <3> QED BY <1>2, <1>5, <3>1 DEF Cascade, HomeRateSeen
  <2> QED BY <2>2, <2>3
<1> HIDE DEF scope
<1>6. /\ override' \in [Home \X Seller -> Rate \union {NoRate}]
      /\ homeRate' \in [Home -> Rate \union {NoRate}] /\ gone' = gone
      /\ disturbed' \in BOOLEAN /\ (~disturbed' => OthersRest(a))
  BY <1>1, <1>2 DEF RatesTypeOK
<1> QED BY <1>2, <1>3, <1>4, <1>5, <1>6, BeginStep

LEMMA RecalculateAllStep ==
  ASSUME IInv, NEW a \in Admin, RecalculateAll(a)
  PROVE  IInv'
<1> DEFINE scope == [home |-> NoRate, seller |-> NoRate]
<1>1. RatesTypeOK
  BY DEF IInv
<1>2. /\ UNCHANGED <<override, homeRate, defaultRate, gone, sale, share>>
      /\ admin[a] = Resting
      /\ admin' = [admin EXCEPT ![a] = [pc |-> "list", scope |-> scope]]
      /\ disturbed' = ~OthersRest(a)
  BY DEF RecalculateAll, rateTables
<1>3. scope \in Scope /\ scope.home = NoRate /\ scope.seller = NoRate
  BY DEF Scope
<1> HIDE DEF scope
<1>4. /\ override' \in [Home \X Seller -> Rate \union {NoRate}]
      /\ homeRate' \in [Home -> Rate \union {NoRate}]
      /\ defaultRate' \in [Seller -> Rate] /\ gone' = gone
      /\ disturbed' \in BOOLEAN /\ (~disturbed' => OthersRest(a))
  BY <1>1, <1>2 DEF RatesTypeOK, OthersRest
<1>5. \A b \in Sale : /\ scope.home \in {NoRate, sale[b].home}
                      /\ scope.seller \in {NoRate, sale[b].seller}
  BY <1>3
<1> QED BY <1>2, <1>3, <1>4, <1>5, BeginStep

(* A request at work moves on: no table changes but its own row, and what   *)
(* it has read stays so.                                                    *)
LEMMA WorkStep ==
  ASSUME IInv, NEW a \in Admin, NEW j \in AdminState,
         admin' = [admin EXCEPT ![a] = j],
         UNCHANGED <<override, homeRate, defaultRate, gone, sale, share, disturbed>>,
         Known(admin[a]) => Known(j),
         ~disturbed /\ Known(admin[a]) /\ Read(admin[a]) => Read(j),
         \A b \in Sale : share[b].status = "PENDING" =>
           (Covers(admin[a], b) => Covers(j, b))
  PROVE  IInv'
<1>1. RatesTypeOK
  BY DEF IInv
<1>2. /\ admin' \in [Admin -> AdminState] /\ admin'[a] = j
      /\ \A x \in Admin \ {a} : admin'[x] = admin[x]
  BY <1>1 DEF RatesTypeOK
<1>3. RatesTypeOK'
  BY <1>1, <1>2 DEF RatesTypeOK
<1>4. Sold' /\ Exact'
  BY DEF Sold, Exact, ShareOf, IInv
<1>5. ASSUME ~disturbed' PROVE AllRead' /\ Repaired'
  <2>1. ~disturbed /\ AllRead /\ Repaired
    BY <1>5 DEF IInv
  <2>2. ASSUME NEW x \in Admin PROVE Read(admin[x])'
    <3>1. Read(admin'[x])
      BY <1>2, <2>1 DEF AllRead, AllKnown, IInv
    <3>2. Cascade(sale[admin[x].sale].home, sale[admin[x].sale].seller)'
            = Cascade(sale[admin'[x].sale].home, sale[admin'[x].sale].seller)
      BY DEF Cascade, HomeRateSeen
    <3> QED BY <3>1, <3>2 DEF Read
  <2>3. ASSUME NEW b \in Sale, share'[b].status = "PENDING"
        PROVE  Right(b)' \/ \E x \in Admin : Covers(admin[x], b)'
    <3>1. share[b].status = "PENDING"
      BY <2>3
    <3>2. CASE Right(b)
      BY <3>2 DEF Right, Cascade, HomeRateSeen
    <3>3. CASE ~Right(b)
      <4>1. PICK x \in Admin : Covers(admin[x], b)
        BY <2>1, <3>1, <3>3 DEF Repaired
      <4>2. Covers(admin'[x], b)
        BY <1>2, <3>1, <4>1
      <4>3. Covers(admin[x], b)'
        BY <4>2 DEF Covers
      <4> QED BY <4>3
    <3> QED BY <3>2, <3>3
  <2> QED BY <2>2, <2>3 DEF AllRead, Repaired
<1>6. AllKnown'
  <2>1. ASSUME NEW x \in Admin PROVE Known(admin'[x])
    BY <1>2 DEF AllKnown, IInv
  <2> QED BY <2>1 DEF AllKnown, Known
<1> QED BY <1>3, <1>4, <1>5, <1>6 DEF IInv

LEMMA ListStep ==
  ASSUME IInv, NEW a \in Admin, List(a)
  PROVE  IInv'
<1> DEFINE base == [b \in Sale |-> sale[b].base]
           todo == Listed(admin[a].scope)
           j == [pc |-> "resolve", todo |-> todo, base |-> base]
<1>1. RatesTypeOK /\ admin[a].pc = "list" /\ admin' = [admin EXCEPT ![a] = j]
      /\ UNCHANGED <<override, homeRate, defaultRate, gone, sale, share, disturbed>>
  BY DEF IInv, List, rateTables
<1>2. todo \subseteq Sale /\ base \in [Sale -> Nat]
  BY <1>1 DEF Listed, RatesTypeOK, SaleRow
<1>3. \A b \in todo : base[b] = sale[b].base /\ share[b].status # "ABSENT"
  BY DEF Listed
<1>4. \A b \in Sale : share[b].status = "PENDING" /\ Covers(admin[a], b) => b \in todo
  BY <1>1 DEF Covers, Listed
<1> HIDE DEF base, todo
<1>5. j \in AdminState /\ j.pc = "resolve" /\ j.todo = todo /\ j.base = base
  BY <1>2 DEF AdminState
<1> HIDE DEF j
<1>6. Read(j) /\ Known(j)
  BY <1>3, <1>5 DEF Read, Known
<1>7. \A b \in Sale : share[b].status = "PENDING" =>
        (Covers(admin[a], b) => Covers(j, b))
  BY <1>4, <1>5 DEF Covers
<1> QED BY <1>1, <1>5, <1>6, <1>7, WorkStep

LEMMA ResolveStep ==
  ASSUME IInv, NEW a \in Admin, NEW b \in Sale, Resolve(a, b)
  PROVE  IInv'
<1> DEFINE rate == Cascade(sale[b].home, sale[b].seller)
           j == [pc |-> "write", todo |-> admin[a].todo \ {b},
                 base |-> admin[a].base, sale |-> b, rate |-> rate]
<1>1. /\ RatesTypeOK /\ admin[a].pc = "resolve" /\ b \in admin[a].todo
      /\ admin' = [admin EXCEPT ![a] = j]
      /\ UNCHANGED <<override, homeRate, defaultRate, gone, sale, share, disturbed>>
  BY DEF IInv, Resolve, rateTables
<1>2. admin[a].todo \in SUBSET Sale /\ admin[a].base \in [Sale -> Nat]
  BY <1>1, AtWork DEF RatesTypeOK
<1>3. share[b].status # "ABSENT"
  BY <1>1 DEF IInv, AllKnown, Known
<1>4. rate \in Rate
  BY <1>1, <1>3, SoldRate DEF IInv
<1> HIDE DEF rate
<1>5. /\ j \in AdminState /\ j.pc = "write" /\ j.todo = admin[a].todo \ {b}
      /\ j.base = admin[a].base /\ j.sale = b /\ j.rate = rate
  BY <1>2, <1>4 DEF AdminState
<1> HIDE DEF j
<1>6. Known(admin[a]) => Known(j)
  BY <1>1, <1>3, <1>5 DEF Known
<1>7. Read(admin[a]) => Read(j)
  BY <1>1, <1>3, <1>5 DEF Read, rate
<1>8. \A x \in Sale : Covers(admin[a], x) => Covers(j, x)
  BY <1>1, <1>5 DEF Covers
<1> QED BY <1>1, <1>5, <1>6, <1>7, <1>8, WorkStep

LEMMA DoneStep ==
  ASSUME IInv, NEW a \in Admin, Done(a)
  PROVE  IInv'
<1>1. /\ admin[a].pc = "resolve" /\ admin[a].todo = {}
      /\ admin' = [admin EXCEPT ![a] = Resting]
      /\ UNCHANGED <<override, homeRate, defaultRate, gone, sale, share, disturbed>>
  BY DEF Done, rateTables
<1>2. Resting \in AdminState
  BY DEF AdminState
<1>3. \A x \in Sale : ~Covers(admin[a], x)
  BY <1>1 DEF Covers
<1> QED BY <1>1, <1>2, <1>3, RestingCoversNone, WorkStep

(* A write of what was read: the commission is at its rate if it still was  *)
(* PENDING, and is left alone if not.                                       *)
LEMMA WriteStep ==
  ASSUME IInv, NEW a \in Admin, Write(a)
  PROVE  IInv'
<1> DEFINE b == admin[a].sale
           row == ShareRowOf(admin[a].base[b], admin[a].rate)
           j == [pc |-> "resolve", todo |-> admin[a].todo, base |-> admin[a].base]
<1>1. /\ RatesTypeOK /\ admin[a].pc = "write" /\ admin[a] \in AdminState
      /\ admin' = [admin EXCEPT ![a] = j]
      /\ share' = IF share[b].status = "PENDING"
                  THEN [share EXCEPT ![b] = row] ELSE share
      /\ UNCHANGED <<override, homeRate, defaultRate, gone, sale, disturbed>>
  BY DEF IInv, Write, Repriced, RatesTypeOK, rateTables
<1>2. /\ admin[a].todo \in SUBSET Sale /\ admin[a].base \in [Sale -> Nat]
      /\ b \in Sale /\ admin[a].rate \in Rate
  BY <1>1, AtWork
<1>3. /\ row \in ShareRow /\ row.status = "PENDING" /\ row.rate = admin[a].rate
      /\ row.base = admin[a].base[b] /\ row.amount = ShareOf(row.base, row.rate)
  BY <1>2, ShareRowRight
<1>4. j \in AdminState /\ j.pc = "resolve" /\ j.todo = admin[a].todo
      /\ j.base = admin[a].base
  BY <1>2 DEF AdminState
<1> HIDE DEF row, j
<1>5. /\ share' \in [Sale -> ShareRow]
      /\ share[b].status = "PENDING" => share'[b] = row
      /\ share[b].status # "PENDING" => share'[b] = share[b]
      /\ \A x \in Sale \ {b} : share'[x] = share[x]
  BY <1>1, <1>2, <1>3 DEF RatesTypeOK
<1>6. /\ admin' \in [Admin -> AdminState] /\ admin'[a] = j
      /\ \A x \in Admin \ {a} : admin'[x] = admin[x]
  BY <1>1, <1>4 DEF RatesTypeOK
<1>7. \A x \in Sale : share[x].status = share'[x].status
  BY <1>3, <1>5
<1>8. RatesTypeOK'
  BY <1>1, <1>5, <1>6 DEF RatesTypeOK
<1>9. Sold' /\ Exact'
  <2>1. Sold'
    BY <1>1, <1>7 DEF Sold, IInv
  <2>2. Exact'
    BY <1>3, <1>5 DEF Exact, ShareOf, IInv
  <2> QED BY <2>1, <2>2
<1>10. ASSUME NEW x \in Admin
       PROVE  /\ Known(admin[x])'
              /\ ~disturbed => Read(admin[x])'
  <2>1. /\ admin[x] \in AdminState /\ Known(admin[x])
        /\ ~disturbed => Read(admin[x])
    BY <1>1 DEF IInv, AllKnown, AllRead, RatesTypeOK
  <2>2. /\ admin[x].pc \in {"resolve", "write"} => admin[x].todo \subseteq Sale
        /\ admin[x].pc = "write" => admin[x].sale \in Sale
    BY <2>1, AtWork
  <2>3. CASE x = a
    BY <1>1, <1>2, <1>4, <1>6, <1>7, <2>1, <2>3 DEF Known, Read
  <2>4. CASE x # a
    <3>1. admin'[x] = admin[x]
      BY <1>6, <2>4
    <3>2. Known(admin[x])'
      BY <1>7, <2>1, <2>2, <3>1 DEF Known
    <3>3. ~disturbed => Read(admin[x])'
      BY <1>1, <1>7, <2>1, <2>2, <3>1 DEF Read, Cascade, HomeRateSeen
    <3> QED BY <3>2, <3>3
  <2> QED BY <2>3, <2>4
<1>11. ASSUME ~disturbed, NEW x \in Sale, share'[x].status = "PENDING"
       PROVE  Right(x)' \/ \E y \in Admin : Covers(admin[y], x)'
  <2>1. CASE x = b
    <3>1. /\ share'[b] = row /\ Read(admin[a])
      BY <1>5, <1>7, <1>11, <2>1 DEF IInv, AllRead
    <3>2. row.base = sale[b].base /\ row.rate = Cascade(sale[b].home, sale[b].seller)
      BY <1>1, <1>3, <3>1 DEF Read
    <3> QED BY <1>1, <2>1, <3>1, <3>2 DEF Right, Cascade, HomeRateSeen
  <2>2. CASE x # b
    <3>1. share'[x] = share[x]
      BY <1>5, <2>2
    <3>2. CASE Right(x)
      BY <1>1, <3>1, <3>2 DEF Right, Cascade, HomeRateSeen
    <3>3. CASE ~Right(x)
      <4>1. PICK y \in Admin : Covers(admin[y], x)
        BY <1>11, <3>1, <3>3 DEF IInv, Repaired
      <4>2. CASE y = a
        <5>1. x \in admin[a].todo
          BY <1>1, <2>2, <4>1, <4>2 DEF Covers
        <5>2. Covers(admin[a], x)'
          BY <1>4, <1>6, <5>1 DEF Covers
        <5> QED BY <5>2
      <4>3. CASE y # a
        <5>1. admin'[y] = admin[y]
          BY <1>6, <4>3
        <5>2. Covers(admin[y], x)'
          BY <1>1, <4>1, <5>1 DEF Covers
        <5> QED BY <5>2
      <4> QED BY <4>2, <4>3
    <3> QED BY <3>2, <3>3
  <2> QED BY <2>1, <2>2
<1>12. AllKnown'
  BY <1>10 DEF AllKnown
<1>13. ~disturbed' => AllRead' /\ Repaired'
  BY <1>1, <1>10, <1>11 DEF AllRead, Repaired
<1> QED BY <1>8, <1>9, <1>12, <1>13 DEF IInv

(* A request dies, or a property goes: nothing is promised any more.        *)
LEMMA DieStep ==
  ASSUME IInv, NEW a \in Admin, Die(a)
  PROVE  IInv'
<1>1. /\ admin' = [admin EXCEPT ![a] = Resting] /\ disturbed' = TRUE
      /\ UNCHANGED <<override, homeRate, defaultRate, gone, sale, share>>
  BY DEF Die, rateTables
<1>2. Resting \in AdminState
  BY DEF AdminState
<1>3. RatesTypeOK' /\ Sold' /\ Exact'
  BY <1>1, <1>2 DEF IInv, RatesTypeOK, Sold, Exact, ShareOf
<1>4. AllKnown'
  <2>1. \A x \in Admin : Known(admin'[x])
    BY <1>1, RestingCoversNone DEF IInv, AllKnown, RatesTypeOK
  <2> QED BY <1>1, <2>1 DEF AllKnown, Known
<1> QED BY <1>1, <1>3, <1>4 DEF IInv

LEMMA DeleteHomeStep ==
  ASSUME IInv, NEW h \in Home, DeleteHome(h)
  PROVE  IInv'
<1>1. /\ gone' = [gone EXCEPT ![h] = TRUE] /\ disturbed' = TRUE
      /\ UNCHANGED <<override, homeRate, defaultRate, sale, share, admin>>
  BY DEF DeleteHome
<1>2. RatesTypeOK' /\ Sold' /\ Exact'
  BY <1>1 DEF IInv, RatesTypeOK, Sold, Exact, ShareOf
<1>3. AllKnown'
  BY <1>1, KnownStays DEF IInv
<1> QED BY <1>1, <1>2, <1>3 DEF IInv

LEMMA AdminInv ==
  ASSUME IInv, NEW a \in Admin, AdminStep(a)
  PROVE  IInv'
<1>1. ASSUME NEW h \in Home, NEW r \in Rate, SetHomeRate(a, h, r) PROVE IInv'
  BY <1>1, SetHomeRateStep
<1>2. ASSUME NEW h \in Home, NEW s \in Seller, NEW r \in Rate, SetOverride(a, h, s, r)
      PROVE  IInv'
  BY <1>2, OverrideStep DEF SetOverride
<1>3. ASSUME NEW h \in Home, NEW s \in Seller, DropOverride(a, h, s) PROVE IInv'
  BY <1>3, OverrideStep DEF DropOverride
<1>4. ASSUME NEW s \in Seller, NEW r \in Rate, SetDefaultRate(a, s, r) PROVE IInv'
  BY <1>4, SetDefaultRateStep
<1>5. ASSUME NEW b \in Sale, Resolve(a, b) PROVE IInv'
  BY <1>5, ResolveStep
<1> QED BY <1>1, <1>2, <1>3, <1>4, <1>5, RecalculateAllStep, ListStep, DoneStep,
           WriteStep, DieStep DEF AdminStep

LEMMA NextInv ==
  ASSUME IInv, [RatesNext]_rateVars
  PROVE  IInv'
<1>1. CASE UNCHANGED rateVars
  <2>1. UNCHANGED <<override, homeRate, defaultRate, gone, sale, share, admin, disturbed>>
    BY <1>1 DEF rateVars, rateTables
  <2> QED BY <2>1 DEF IInv, RatesTypeOK, Sold, Exact, ShareOf, AllKnown, Known,
                      AllRead, Read, Repaired, Right, Covers, Cascade, HomeRateSeen
<1>2. CASE SaleStep
  BY <1>2, SellStep, ChangeRentStep, SettleStep, DeleteHomeStep DEF SaleStep
<1>3. CASE \E a \in Admin : AdminStep(a)
  BY <1>3, AdminInv
<1> QED BY <1>1, <1>2, <1>3 DEF RatesNext

(* The inductive invariant holds of every behaviour.                         *)
THEOREM RatesInvariant == RatesSpec => []IInv
<1>1. RatesInit => IInv
  BY InitInv
<1>2. IInv /\ [RatesNext]_rateVars => IInv'
  BY NextInv
<1> QED BY <1>1, <1>2, PTL DEF RatesSpec

-----------------------------------------------------------------------------
(* What follows.                                                            *)

(* The tables hold what their columns may hold: no rate is above the whole, *)
(* no commission below nothing (commission-rates.service.ts:70).            *)
THEOREM RatesTypeCorrect == RatesSpec => []RatesTypeOK
<1>1. IInv => RatesTypeOK
  BY DEF IInv
<1> QED BY <1>1, RatesInvariant, PTL

LEMMA AgreedFollows ==
  ASSUME IInv
  PROVE  CommissionsAgreed
<1>1. ShareWithinHalfACent
  <2> SUFFICES ASSUME NEW b \in Sale
               PROVE  /\ share[b].amount * 10000
                           <= Times(share[b].base, share[b].rate) + 5000
                      /\ Times(share[b].base, share[b].rate)
                           <= share[b].amount * 10000 + 5000
                      /\ share[b].amount <= share[b].base
    BY DEF ShareWithinHalfACent, Times
  <2>1. share[b].base \in Nat /\ share[b].rate \in Rate
    BY DEF IInv, RatesTypeOK, ShareRow
  <2>2. share[b].amount = ShareOf(share[b].base, share[b].rate)
    BY DEF IInv, Exact
  <2> QED BY <2>1, <2>2, ShareOfRight
<1>2. PendingAtAgreedRate
  <2> SUFFICES ASSUME ~disturbed, \A a \in Admin : admin[a] = Resting,
                      NEW b \in Sale, share[b].status = "PENDING"
               PROVE  /\ share[b].rate = AgreedRate(sale[b].home, sale[b].seller)
                      /\ share[b].base = sale[b].base
    BY DEF PendingAtAgreedRate
  <2>1. Right(b)
    BY AllRight
  <2>2. AgreedRate(sale[b].home, sale[b].seller)
          = Cascade(sale[b].home, sale[b].seller)
    BY SoldRate DEF IInv
  <2> QED BY <2>1, <2>2 DEF Right
<1> QED BY <1>1, <1>2 DEF CommissionsAgreed

(* Whatever requests cross whatever bookings, a commission is its rate of   *)
(* its base to half a cent; and when the work is done and nothing disturbed *)
(* it, every pending one is at the rate agreed and of the amount booked.    *)
THEOREM CommissionsRight == RatesSpec => []CommissionsAgreed
<1>1. IInv => CommissionsAgreed
  BY AgreedFollows
<1> QED BY <1>1, RatesInvariant, PTL

LEMMA DueIsLeft ==
  ASSUME IInv, [RatesNext]_rateVars, NEW b \in Sale, share[b].status = "SETTLED"
  PROVE  share'[b] = share[b]
<1>1. share \in [Sale -> ShareRow]
  BY DEF IInv, RatesTypeOK
<1>2. CASE share' = share
  BY <1>2
<1>3. ASSUME NEW x \in Sale, NEW row, share' = [share EXCEPT ![x] = row],
             share[x].status # "SETTLED"
      PROVE  share'[b] = share[b]
  BY <1>1, <1>3
<1>4. CASE SaleStep
  <2>1. ASSUME NEW x \in Sale, NEW h \in Home, NEW s \in Seller, NEW base \in Base,
               NEW r \in Rate, Sell(x, h, s, base, r)
        PROVE  share'[b] = share[b]
    BY <1>3, <2>1 DEF Sell
  <2>2. ASSUME NEW x \in Sale, NEW base \in Base, NEW r \in Rate,
               ChangeRent(x, base, r)
        PROVE  share'[b] = share[b]
    <3>1. CASE share[x].status = "PENDING"
      BY <1>3, <2>2, <3>1 DEF ChangeRent
    <3>2. CASE share[x].status # "PENDING"
      BY <2>2, <3>2 DEF ChangeRent
    <3> QED BY <3>1, <3>2
  <2>3. ASSUME NEW x \in Sale, Settle(x) PROVE share'[b] = share[b]
    BY <1>1, <2>3 DEF Settle
  <2>4. ASSUME NEW h \in Home, DeleteHome(h) PROVE share'[b] = share[b]
    BY <2>4 DEF DeleteHome
  <2> QED BY <1>4, <2>1, <2>2, <2>3, <2>4 DEF SaleStep
<1>5. ASSUME NEW a \in Admin, Write(a) PROVE share'[b] = share[b]
  <2>1. admin[a].sale \in Sale
    BY <1>5, AtWork DEF Write, IInv, RatesTypeOK
  <2>2. CASE share[admin[a].sale].status = "PENDING"
    BY <1>3, <1>5, <2>1, <2>2 DEF Write, Repriced
  <2>3. CASE share[admin[a].sale].status # "PENDING"
    BY <1>5, <2>3 DEF Write, Repriced
  <2> QED BY <2>2, <2>3
<1>6. ASSUME NEW a \in Admin, AdminStep(a), ~Write(a) PROVE share' = share
  BY <1>6 DEF AdminStep, SetHomeRate, SetOverride, DropOverride, SetDefaultRate,
              Recalculates, RecalculateAll, List, Resolve, Done, Die
<1>7. CASE UNCHANGED rateVars
  BY <1>7 DEF rateVars
<1> QED BY <1>4, <1>5, <1>6, <1>7 DEF RatesNext

(* A recalculation that read a commission before it was approved, settled   *)
(* and paid leaves it alone (commission-rates.service.ts:483).              *)
THEOREM OnlyPending == RatesSpec => OnlyPendingRepriced
<1>1. ASSUME IInv, [RatesNext]_rateVars
      PROVE  [\A b \in Sale : share[b].status = "SETTLED" => share'[b] = share[b]]_rateVars
  BY <1>1, DueIsLeft
<1> QED BY <1>1, RatesInvariant, PTL DEF OnlyPendingRepriced, RatesSpec

-----------------------------------------------------------------------------
(* Numbers.                                                                  *)

(* What is not empty has a least element.                                    *)
LessThan == {p \in Nat \X Nat : p[1] < p[2]}

LEMMA LessThanIsWellFounded == IsWellFoundedOn(LessThan, Nat)
PROOF
BY NatLessThanWellFounded DEF OpToRel, LessThan

LEMMA LeastIs ==
  ASSUME NEW T \in SUBSET Nat, T # {}
  PROVE  \E m \in T : \A n \in T : m <= n
PROOF
<1>1. PICK m \in T : \A n \in T : <<n, m>> \notin LessThan
  BY LessThanIsWellFounded, WFMin
<1>2. ASSUME NEW n \in T PROVE m <= n
  <2>1. n \in Nat /\ m \in Nat /\ ~ (n < m)
    BY <1>1 DEF LessThan
  <2> QED
    BY <2>1
<1> QED
  BY <1>2

LEMMA Amounts ==
  ASSUME NEW r \in Nat
  PROVE  /\ Portion(r, 1, 3) \in 0..r /\ 2 * (Portion(r, 1, 3) * 3 - r * 1) \in (0 - 3)..3
         /\ Portion(r, 1, 2) \in 0..r /\ 2 * (Portion(r, 1, 2) * 2 - r * 1) \in (0 - 2)..2
         /\ Portion(r, 7, 10) \in 0..r /\ 2 * (Portion(r, 7, 10) * 10 - r * 7) \in (0 - 10)..10
PROOF
<1>1. /\ Portion(r, 1, 3) = (2 * r + 3) \div 6
      /\ Portion(r, 1, 2) = (2 * r + 2) \div 4
      /\ Portion(r, 7, 10) = (14 * r + 10) \div 20
  BY DEF Portion
<1> QED
  BY <1>1

-----------------------------------------------------------------------------
(* FlexPricing.                                                              *)

(* A price is the rent and the currency of a plan, the least of the rents and  *)
(* the least of the limits.                                                  *)
IsPrice(price) ==
  /\ \E p \in ActivePlans :
       plan[p].rent = price.rent /\ plan[p].currency = price.currency
  /\ \E p \in ActivePlans : plan[p].min = price.min
  /\ \A p \in ActivePlans : price.rent <= plan[p].rent /\ price.min <= plan[p].min

(* What a request has checked or listed holds until a change passes it by.     *)
Fresh(e) == e \notin outdated
ChecksHold ==
  \A e \in Editor : editor[e].pc = "patch" /\ Fresh(e) =>
    Patched(editor[e].plan, editor[e].min, editor[e].max)
ListsHold ==
  \A e \in Editor : editor[e].pc = "price" /\ Fresh(e) =>
    ActivePlans # {} /\ IsPrice(editor[e].advert)

(* The advertised price is right, or somebody is still to write the right one.  *)
Mends(e) == editor[e].pc = "list" \/ (editor[e].pc = "price" /\ Fresh(e))
PriceIsMended ==
  ~unsettled /\ ActivePlans # {} => IsPrice(advert) \/ \E e \in Editor : Mends(e)

PricingInv ==
  /\ PricingTypeOK
  /\ \A e \in outdated : editor[e].pc \in {"patch", "price"}
  /\ ChecksHold /\ ListsHold /\ PriceIsMended

LEMMA PlansAre ==
  ASSUME PricingTypeOK, NEW p \in Plan
  PROVE  /\ plan[p].min \in Months /\ plan[p].min \in Nat /\ plan[p].min >= 1
         /\ plan[p].rent \in Rent /\ plan[p].rent \in Nat
         /\ plan[p].currency \in Currency
         /\ plan[p].max # NoLimit => plan[p].max \in Nat
PROOF
<1>1. plan[p] \in PlanRow
  BY DEF PricingTypeOK
<1>2. /\ plan[p].min \in Months /\ plan[p].rent \in Rent /\ plan[p].currency \in Currency
      /\ plan[p].max \in Months \union {NoLimit}
  BY <1>1 DEF PlanRow
<1>3. \A m \in Months : m \in Nat /\ m >= 1
  BY MonthsAreCounted
<1>4. plan[p].rent \in Nat
  BY <1>2, RentsAreAmounts
<1> QED
  BY <1>2, <1>3, <1>4

LEMMA PriceIs ==
  ASSUME PricingTypeOK, ActivePlans # {}, NEW price \in Prices
  PROVE  price \in Advert /\ IsPrice(price)
PROOF
<1> DEFINE M == {plan[p].min : p \in ActivePlans}
<1>1. ActivePlans \subseteq Plan
  BY DEF ActivePlans
<1>2. M \in SUBSET Nat /\ M \subseteq Months /\ M # {}
  BY <1>1, PlansAre
<1>3. \E m \in M : \A p \in ActivePlans : m <= plan[p].min
  <2>1. PICK m \in M : \A s \in M : m <= s
    <3> HIDE DEF M
    <3> QED
      BY <1>2, LeastIs
  <2> QED
    BY <2>1
<1>4. LeastMin \in M /\ \A p \in ActivePlans : LeastMin <= plan[p].min
  BY <1>3 DEF LeastMin
<1>5. PICK p \in ActivePlans : price = Priced(p) /\ \A q \in ActivePlans : plan[p].rent <= plan[q].rent
  BY DEF Prices
<1>6. price.rent = plan[p].rent /\ price.min = LeastMin /\ price.currency = plan[p].currency
  BY <1>5 DEF Priced
<1>7. \E q \in ActivePlans : plan[q].min = LeastMin
  BY <1>4
<1>8. price \in Advert
  <2>1. plan[p].rent \in Rent /\ plan[p].currency \in Currency /\ LeastMin \in Months
    BY <1>1, <1>2, <1>4, <1>5, PlansAre
  <2> QED
    BY <1>5, <2>1 DEF Priced, Advert
<1> HIDE DEF M
<1> QED
  BY <1>4, <1>5, <1>6, <1>7, <1>8 DEF IsPrice

LEMMA StatesAre ==
  /\ Waiting \in EditorState /\ Waiting.pc = "idle"
  /\ [pc |-> "list"] \in EditorState /\ [pc |-> "list"] # Waiting
  /\ \A r \in EditorState :
       /\ r.pc = "patch" => /\ r.plan \in Plan /\ r.min \in Months \union {NoLimit}
                            /\ r.max \in Months \union {NoLimit} /\ r.clears \in BOOLEAN
       /\ r.pc = "price" => r.advert \in Advert
       /\ r.pc \in {"patch", "list", "price"} => r # Waiting
PROOF
BY DEF EditorState, Waiting

LEMMA PriceStays ==
  ASSUME plan' = plan
  PROVE  /\ ActivePlans' = ActivePlans
         /\ \A price : IsPrice(price)' <=> IsPrice(price)
         /\ \A p, min, max : Patched(p, min, max)' <=> Patched(p, min, max)
PROOF
BY DEF IsPrice, ActivePlans, Patched, ValidRange

(* A change of a plan makes the checks of that plan and all lists outdated,    *)
(* and the request that made it is still to list.                            *)
LEMMA ChangesKeep ==
  ASSUME PricingInv, NEW e \in Editor, NEW p \in Plan, Changes(e, p),
         plan' \in [Plan -> PlanRow], \A q \in Plan \ {p} : plan'[q] = plan[q]
  PROVE  PricingInv'
PROOF
<1>1. /\ PricingTypeOK /\ editor' = [editor EXCEPT ![e] = [pc |-> "list"]]
      /\ outdated' = (outdated \union Checking(p) \union Listing) \ {e}
      /\ advert' = advert /\ unsettled' = unsettled
  BY DEF Changes, PricingInv
<1>2. PricingTypeOK'
  BY <1>1, StatesAre DEF PricingTypeOK, Checking, Listing
<1>3. editor'[e] = [pc |-> "list"] /\ \A x \in Editor \ {e} : editor'[x] = editor[x]
  BY <1>1 DEF PricingTypeOK
<1>4. \A x \in outdated' : editor'[x].pc \in {"patch", "price"}
  BY <1>1, <1>3 DEF PricingInv, PricingTypeOK, Checking, Listing
<1>5. ChecksHold'
  <2> SUFFICES ASSUME NEW x \in Editor, editor'[x].pc = "patch", x \notin outdated'
               PROVE  Patched(editor[x].plan, editor[x].min, editor[x].max)'
    BY DEF ChecksHold, Fresh
  <2>1. x # e /\ editor'[x] = editor[x]
    BY <1>3
  <2>2. x \notin outdated /\ editor[x].plan # p
    BY <1>1, <2>1 DEF Checking
  <2>3. Patched(editor[x].plan, editor[x].min, editor[x].max)
    BY <2>1, <2>2 DEF PricingInv, ChecksHold, Fresh
  <2>4. editor[x].plan \in Plan
    BY <1>1, <2>1, StatesAre DEF PricingTypeOK
  <2>5. plan'[editor[x].plan] = plan[editor[x].plan]
    BY <2>2, <2>4
  <2> QED
    BY <2>1, <2>3, <2>5 DEF Patched, ValidRange
<1>6. ListsHold'
  BY <1>1, <1>3 DEF ListsHold, Fresh, Listing
<1>7. PriceIsMended'
  BY <1>3 DEF PriceIsMended, Mends
<1> QED
  BY <1>2, <1>4, <1>5, <1>6, <1>7 DEF PricingInv

LEMMA CreatePlanKeeps ==
  ASSUME PricingInv, NEW e \in Editor, NEW p \in Plan, NEW row \in PlanRow,
         CreatePlan(e, p, row)
  PROVE  PricingInv'
PROOF
<1>1. plan' = [plan EXCEPT ![p] = row] /\ Changes(e, p) /\ plan \in [Plan -> PlanRow]
  BY DEF CreatePlan, PricingInv, PricingTypeOK
<1> QED
  BY <1>1, ChangesKeep

LEMMA NoRowIs == NoRow \in PlanRow /\ NoRow.max = NoLimit /\ ~NoRow.exists
PROOF
<1>1. /\ (CHOOSE m \in Months : TRUE) \in Months /\ (CHOOSE r \in Rent : TRUE) \in Rent
      /\ (CHOOSE c \in Currency : TRUE) \in Currency
  BY MonthsAreCounted, RentsAreAmounts, PlansAreNamed
<1> QED
  BY <1>1 DEF NoRow, PlanRow

LEMMA DeletePlanKeeps ==
  ASSUME PricingInv, NEW e \in Editor, NEW p \in Plan, DeletePlan(e, p)
  PROVE  PricingInv'
PROOF
<1>1. plan' = [plan EXCEPT ![p] = NoRow] /\ Changes(e, p) /\ plan \in [Plan -> PlanRow]
  BY DEF DeletePlan, PricingInv, PricingTypeOK
<1> QED
  BY <1>1, NoRowIs, ChangesKeep

LEMMA TermsAre ==
  ASSUME PricingTypeOK, NEW e \in Editor, NEW p \in Plan, NEW active \in BOOLEAN,
         NEW rent \in Rent, NEW currency \in Currency, UpdateTerms(e, p, active, rent, currency)
  PROVE  /\ plan' \in [Plan -> PlanRow] /\ \A q \in Plan \ {p} : plan'[q] = plan[q]
         /\ \A q \in Plan : plan'[q].min = plan[q].min /\ plan'[q].max = plan[q].max
PROOF
<1> DEFINE row == [plan[p] EXCEPT !.active = active, !.rent = rent, !.currency = currency]
<1>1. plan' = [plan EXCEPT ![p] = row] /\ plan \in [Plan -> PlanRow]
  BY DEF UpdateTerms, PricingTypeOK
<1>2. row \in PlanRow /\ row.min = plan[p].min /\ row.max = plan[p].max
  <2>1. plan[p] \in PlanRow
    BY <1>1
  <2> QED
    BY <2>1 DEF PlanRow
<1> HIDE DEF row
<1> QED
  BY <1>1, <1>2

LEMMA UpdateTermsKeeps ==
  ASSUME PricingInv, NEW e \in Editor, NEW p \in Plan, NEW active \in BOOLEAN,
         NEW rent \in Rent, NEW currency \in Currency, UpdateTerms(e, p, active, rent, currency)
  PROVE  PricingInv'
PROOF
<1>1. Changes(e, p) /\ PricingTypeOK
  BY DEF UpdateTerms, PricingInv
<1> QED
  BY <1>1, TermsAre, ChangesKeep

LEMMA UpdateReadKeeps ==
  ASSUME PricingInv, NEW e \in Editor, NEW p \in Plan,
         NEW min \in Months \union {NoLimit}, NEW max \in Months \union {NoLimit},
         NEW clears \in BOOLEAN, UpdateRead(e, p, min, max, clears)
  PROVE  PricingInv'
PROOF
<1> DEFINE state == [pc |-> "patch", plan |-> p, min |-> min, max |-> max, clears |-> clears]
<1>1. state \in EditorState /\ state.pc = "patch"
  BY DEF EditorState
<1>2. /\ PricingTypeOK /\ editor[e] = Waiting /\ editor' = [editor EXCEPT ![e] = state]
      /\ Patched(p, min, max) /\ UNCHANGED <<plan, advert, outdated, unsettled>>
  BY DEF UpdateRead, PricingInv
<1>3. Patched(state.plan, state.min, state.max)
  BY <1>2
<1> HIDE DEF state
<1>4. editor'[e] = state /\ \A x \in Editor \ {e} : editor'[x] = editor[x]
  BY <1>2 DEF PricingTypeOK
<1>5. PricingTypeOK'
  BY <1>1, <1>2 DEF PricingTypeOK
<1>6. editor[e].pc = "idle"
  BY <1>2, StatesAre
<1>7. \A x \in outdated' : editor'[x].pc \in {"patch", "price"}
  BY <1>1, <1>2, <1>4 DEF PricingInv, PricingTypeOK
<1>8. ChecksHold' /\ ListsHold'
  BY <1>1, <1>2, <1>3, <1>4, PriceStays DEF PricingInv, ChecksHold, ListsHold, Fresh
<1>9. PriceIsMended'
  BY <1>2, <1>4, <1>6, PriceStays DEF PricingInv, PriceIsMended, Mends, Fresh
<1> QED
  BY <1>5, <1>7, <1>8, <1>9 DEF PricingInv

LEMMA EditedIs ==
  ASSUME PricingTypeOK, NEW e \in Editor, editor[e].pc = "patch"
  PROVE  LET r == editor[e] IN
         /\ r.plan \in Plan
         /\ Edited(plan[r.plan], r) \in PlanRow
         /\ Edited(plan[r.plan], r).min = IF r.min = NoLimit THEN plan[r.plan].min ELSE r.min
         /\ Edited(plan[r.plan], r).max = IF r.max = NoLimit /\ ~r.clears
                                          THEN plan[r.plan].max ELSE r.max
PROOF
<1> DEFINE r == editor[e]
<1>1. r \in EditorState /\ r.pc = "patch"
  BY DEF PricingTypeOK
<1>2. /\ r.plan \in Plan /\ r.min \in Months \union {NoLimit}
      /\ r.max \in Months \union {NoLimit} /\ r.clears \in BOOLEAN
  BY <1>1, StatesAre
<1>3. plan[r.plan] \in PlanRow
  BY <1>2 DEF PricingTypeOK
<1> HIDE DEF r
<1>4. /\ Edited(plan[r.plan], r) \in PlanRow
      /\ Edited(plan[r.plan], r).min = IF r.min = NoLimit THEN plan[r.plan].min ELSE r.min
      /\ Edited(plan[r.plan], r).max = IF r.max = NoLimit /\ ~r.clears
                                       THEN plan[r.plan].max ELSE r.max
  BY <1>2, <1>3 DEF PlanRow, Edited
<1> QED
  BY <1>2, <1>4 DEF r

LEMMA UpdateWriteKeeps ==
  ASSUME PricingInv, NEW e \in Editor, UpdateWrite(e)
  PROVE  PricingInv'
PROOF
<1> DEFINE r == editor[e]
<1>1. /\ PricingTypeOK /\ r.pc = "patch" /\ plan' = [plan EXCEPT ![r.plan] = Edited(plan[r.plan], r)]
      /\ Changes(e, r.plan)
  BY DEF UpdateWrite, PricingInv
<1>2. r.plan \in Plan /\ Edited(plan[r.plan], r) \in PlanRow
  BY <1>1, EditedIs
<1> HIDE DEF r
<1>3. plan' \in [Plan -> PlanRow] /\ \A q \in Plan \ {r.plan} : plan'[q] = plan[q]
  BY <1>1, <1>2 DEF PricingTypeOK
<1> QED
  BY <1>1, <1>2, <1>3, ChangesKeep

LEMMA SyncListKeeps ==
  ASSUME PricingInv, NEW e \in Editor, SyncList(e)
  PROVE  PricingInv'
PROOF
<1>1. /\ PricingTypeOK /\ editor[e].pc = "list" /\ UNCHANGED <<plan, advert, outdated, unsettled>>
  BY DEF SyncList, PricingInv
<1>2. Fresh(e)
  BY <1>1 DEF PricingInv, Fresh
<1>3. PICK state \in EditorState :
        /\ editor' = [editor EXCEPT ![e] = state]
        /\ \/ ActivePlans = {} /\ state = Waiting
           \/ ActivePlans # {} /\ state.pc = "price" /\ IsPrice(state.advert)
  <2>1. CASE editor' = [editor EXCEPT ![e] = Waiting] /\ ActivePlans = {}
    BY <2>1, StatesAre
  <2>2. CASE \E price \in Prices : editor' = [editor EXCEPT ![e] = [pc |-> "price", advert |-> price]]
    <3>1. PICK price \in Prices : editor' = [editor EXCEPT ![e] = [pc |-> "price", advert |-> price]]
      BY <2>2
    <3>2. ActivePlans # {}
      BY <3>1 DEF Prices
    <3>3. price \in Advert /\ IsPrice(price)
      BY <1>1, <3>2, PriceIs
    <3> DEFINE state == [pc |-> "price", advert |-> price]
    <3>4. state \in EditorState /\ state.pc = "price" /\ state.advert = price
      BY <3>3 DEF EditorState
    <3> HIDE DEF state
    <3> QED
      BY <3>1, <3>2, <3>3, <3>4 DEF state
  <2> QED
    BY <2>1, <2>2 DEF SyncList
<1>4. PricingTypeOK'
  BY <1>1, <1>3 DEF PricingTypeOK
<1>5. editor'[e] = state /\ \A x \in Editor \ {e} : editor'[x] = editor[x]
  BY <1>1, <1>3 DEF PricingTypeOK
<1>6. state.pc \in {"idle", "price"} /\ (ActivePlans # {} => state.pc = "price")
  BY <1>3, StatesAre
<1>7. \A x \in outdated' : editor'[x].pc \in {"patch", "price"}
  BY <1>1, <1>2, <1>5 DEF PricingInv, PricingTypeOK, Fresh
<1>8. ChecksHold'
  BY <1>1, <1>5, <1>6, PriceStays DEF PricingInv, ChecksHold, Fresh
<1>9. ListsHold'
  BY <1>1, <1>3, <1>5, PriceStays, StatesAre DEF PricingInv, ListsHold, Fresh
<1>10. PriceIsMended'
  BY <1>1, <1>2, <1>5, <1>6, PriceStays DEF PriceIsMended, Mends, Fresh
<1> QED
  BY <1>4, <1>7, <1>8, <1>9, <1>10 DEF PricingInv

LEMMA SyncWriteKeeps ==
  ASSUME PricingInv, NEW e \in Editor, SyncWrite(e)
  PROVE  PricingInv'
PROOF
<1>1. /\ PricingTypeOK /\ editor[e].pc = "price" /\ editor' = [editor EXCEPT ![e] = Waiting]
      /\ advert' = editor[e].advert /\ plan' = plan
      /\ outdated' = outdated \ {e} /\ unsettled' = (e \in outdated)
  BY DEF SyncWrite, PricingInv
<1>2. editor[e] # Waiting /\ editor[e].advert \in Advert
  BY <1>1, StatesAre DEF PricingTypeOK
<1>3. PricingTypeOK'
  BY <1>1, <1>2, StatesAre DEF PricingTypeOK
<1>4. editor'[e] = Waiting /\ \A x \in Editor \ {e} : editor'[x] = editor[x]
  BY <1>1 DEF PricingTypeOK
<1>5. \A x \in outdated' : editor'[x].pc \in {"patch", "price"}
  BY <1>1, <1>4 DEF PricingInv, PricingTypeOK
<1>6. ChecksHold' /\ ListsHold'
  BY <1>1, <1>4, PriceStays, StatesAre DEF PricingInv, ChecksHold, ListsHold, Fresh
<1>7. PriceIsMended'
  <2>1. ASSUME ~unsettled' PROVE IsPrice(advert')
    BY <1>1, <2>1 DEF PricingInv, ListsHold, Fresh
  <2>2. IsPrice(advert') <=> IsPrice(advert)'
    BY <1>1 DEF IsPrice, ActivePlans
  <2> QED
    BY <2>1, <2>2 DEF PriceIsMended
<1> QED
  BY <1>3, <1>5, <1>6, <1>7 DEF PricingInv

(* A request that dies before it has written a plan leaves the price to those   *)
(* that have; one that dies after is remembered.                             *)
LEMMA GiveUpKeeps ==
  ASSUME PricingInv, NEW e \in Editor, GiveUp(e)
  PROVE  PricingInv'
PROOF
<1>1. /\ PricingTypeOK /\ editor' = [editor EXCEPT ![e] = Waiting] /\ plan' = plan /\ advert' = advert
      /\ outdated' = outdated \ {e} /\ unsettled' = (unsettled \/ editor[e].pc # "patch")
  BY DEF GiveUp, PricingInv
<1>2. PricingTypeOK'
  BY <1>1, StatesAre DEF PricingTypeOK
<1>3. editor'[e] = Waiting /\ \A x \in Editor \ {e} : editor'[x] = editor[x]
  BY <1>1 DEF PricingTypeOK
<1>4. \A x \in outdated' : editor'[x].pc \in {"patch", "price"}
  BY <1>1, <1>3 DEF PricingInv, PricingTypeOK
<1>5. ChecksHold' /\ ListsHold'
  BY <1>1, <1>3, PriceStays, StatesAre DEF PricingInv, ChecksHold, ListsHold, Fresh
<1>6. PriceIsMended'
  BY <1>1, <1>3, PriceStays DEF PricingInv, PriceIsMended, Mends, Fresh
<1> QED
  BY <1>2, <1>4, <1>5, <1>6 DEF PricingInv

LEMMA PricingInvHolds == PricingSpec => []PricingInv
PROOF
<1>1. PricingInit => PricingInv
  <2> SUFFICES ASSUME PricingInit PROVE PricingInv
    OBVIOUS
  <2>1. (CHOOSE c \in Currency : TRUE) \in Currency
    BY PlansAreNamed
  <2>2. PricingTypeOK
    BY <2>1, NoRowIs, StatesAre DEF PricingInit, PricingTypeOK, Advert
  <2>3. ActivePlans = {}
    BY NoRowIs DEF PricingInit, ActivePlans
  <2>4. \A e \in Editor : editor[e].pc = "idle"
    BY StatesAre DEF PricingInit
  <2> QED
    BY <2>2, <2>3, <2>4 DEF PricingInv, PricingInit, ChecksHold, ListsHold, PriceIsMended
<1>2. PricingInv /\ [PricingNext]_pricingVars => PricingInv'
  <2> SUFFICES ASSUME PricingInv, [PricingNext]_pricingVars PROVE PricingInv'
    OBVIOUS
  <2>1. ASSUME NEW e \in Editor, NEW p \in Plan,
               \/ \E row \in PlanRow : CreatePlan(e, p, row)
               \/ DeletePlan(e, p)
               \/ \E active \in BOOLEAN, rent \in Rent, currency \in Currency :
                    UpdateTerms(e, p, active, rent, currency)
               \/ \E min, max \in Months \union {NoLimit}, clears \in BOOLEAN :
                    UpdateRead(e, p, min, max, clears)
        PROVE  PricingInv'
    BY <2>1, CreatePlanKeeps, DeletePlanKeeps, UpdateTermsKeeps, UpdateReadKeeps
  <2>2. ASSUME NEW e \in Editor, UpdateWrite(e) \/ SyncList(e) \/ SyncWrite(e) \/ GiveUp(e)
        PROVE  PricingInv'
    BY <2>2, UpdateWriteKeeps, SyncListKeeps, SyncWriteKeeps, GiveUpKeeps
  <2>3. ASSUME NEW price \in Advert, SetPrice(price)
        PROVE  PricingInv'
    BY <2>3, PriceStays DEF SetPrice, PricingInv, PricingTypeOK, ChecksHold, ListsHold,
                            PriceIsMended, Fresh
  <2>4. CASE UNCHANGED pricingVars
    BY <2>4, PriceStays DEF pricingVars, PricingInv, PricingTypeOK, ChecksHold, ListsHold,
                            PriceIsMended, Fresh, Mends
  <2> QED
    BY <2>1, <2>2, <2>3, <2>4 DEF PricingNext, EditorStep
<1> QED
  BY <1>1, <1>2, PTL DEF PricingSpec

LEMMA ResolvedIs ==
  ASSUME NEW n \in Months, NEW named, NEW p \in Resolved(n, named)
  PROVE  p \in ActivePlans /\ FitsPlan(n, p) /\ named \in {NoPlan, p}
PROOF
BY DEF Resolved, FittingPlans

LEMMA QuotesAreRight ==
  ASSUME PricingInv
  PROVE  QuotesRight
PROOF
<1> DEFINE Named == Plan \union {NoPlan}
<1>1. PricingTypeOK /\ ActivePlans \subseteq Plan
  BY DEF PricingInv, ActivePlans
<1>2. \A n \in Months : n \in Nat
  BY MonthsAreCounted
<1>3. AdvertIsCheapestQuote
  <2> SUFFICES ASSUME ~unsettled, \A e \in Editor : editor[e] = Waiting, ActivePlans # {}
               PROVE  LET quoted == UNION {Quotes(n, named) : n \in Months, named \in Named} IN
                      /\ \A q \in quoted : advert.rent <= q.rent
                      /\ \A n \in Months, named \in Named :
                           n < advert.min => Quotes(n, named) = {}
                      /\ \E p \in ActivePlans :
                           plan[p].rent = advert.rent /\ plan[p].currency = advert.currency
    BY DEF AdvertIsCheapestQuote
  <2>1. IsPrice(advert)
    BY StatesAre DEF PricingInv, PriceIsMended, Mends
  <2>2. \A n \in Months, named \in Named :
          Quotes(n, named) = {Quoted(p, plan[p], n) : p \in Resolved(n, named)}
    BY DEF Quotes
  <2>3. ASSUME NEW n \in Months, NEW named \in Named, NEW q \in Quotes(n, named)
        PROVE  advert.rent <= q.rent
    <3>1. PICK p \in Resolved(n, named) : q.rent = plan[p].rent
      BY <2>2 DEF Quoted
    <3> QED
      BY ResolvedIs, <2>1, <3>1 DEF IsPrice
  <2>4. ASSUME NEW n \in Months, NEW named \in Named, n < advert.min
        PROVE  Quotes(n, named) = {}
    <3>1. ASSUME NEW p \in Resolved(n, named) PROVE FALSE
      <4>1. p \in ActivePlans /\ p \in Plan /\ n >= plan[p].min
        BY <1>1, ResolvedIs DEF FitsPlan
      <4>2. advert.min <= plan[p].min /\ plan[p].min \in Nat /\ n \in Nat /\ advert.min \in Nat
        BY <1>1, <1>2, <2>1, <4>1, PlansAre DEF IsPrice
      <4> QED
        BY <2>4, <4>1, <4>2
    <3> QED
      BY <2>2, <3>1
  <2> QED
    BY <2>1, <2>3, <2>4 DEF IsPrice
<1>4. QuoteIsOfLongestPlan
  <2> SUFFICES ASSUME NEW n \in Months
               PROVE  /\ \A named \in Named : \A p \in Resolved(n, named) :
                           /\ plan[p].min <= n
                           /\ plan[p].max # NoLimit => n <= plan[p].max
                           /\ named \in {NoPlan, p}
                      /\ \A p \in Resolved(n, NoPlan) : \A q \in ActivePlans :
                           plan[q].min > plan[p].min =>
                             n < plan[q].min \/ (plan[q].max # NoLimit /\ plan[q].max < n)
                      /\ \A q \in Quotes(n, NoPlan) : Quotes(n, q.plan) = {q}
    BY DEF QuoteIsOfLongestPlan
  <2>1. ASSUME NEW named \in Named, NEW p \in Resolved(n, named)
        PROVE  /\ plan[p].min <= n
               /\ plan[p].max # NoLimit => n <= plan[p].max
               /\ named \in {NoPlan, p}
    BY <1>1, <1>2, ResolvedIs, PlansAre DEF FitsPlan
  <2>2. ASSUME NEW p \in Resolved(n, NoPlan), NEW q \in ActivePlans, plan[q].min > plan[p].min
        PROVE  n < plan[q].min \/ (plan[q].max # NoLimit /\ plan[q].max < n)
    <3>1. /\ plan[p].min \in Nat /\ plan[q].min \in Nat
          /\ plan[q].max # NoLimit => plan[q].max \in Nat
      BY <1>1, ResolvedIs, PlansAre
    <3>2. ~FitsPlan(n, q)
      BY <2>2, <3>1 DEF Resolved, FittingPlans
    <3> QED
      BY <1>2, <3>1, <3>2 DEF FitsPlan
  <2>3. ASSUME NEW q \in Quotes(n, NoPlan) PROVE Quotes(n, q.plan) = {q}
    <3>1. CASE ActivePlans = {}
      BY <2>3, <3>1 DEF Quotes
    <3>2. CASE ActivePlans # {}
      <4>1. PICK p \in Resolved(n, NoPlan) : q = Quoted(p, plan[p], n)
        BY <2>3, <3>2 DEF Quotes
      <4>2. q.plan = p /\ p # NoPlan /\ p \in FittingPlans(n)
        BY <1>1, <4>1, ResolvedIs, PlansAreNamed DEF Quoted, FittingPlans
      <4>3. Resolved(n, p) = {p}
        BY <4>2 DEF Resolved
      <4> QED
        BY <3>2, <4>1, <4>2, <4>3 DEF Quotes
    <3> QED
      BY <3>1, <3>2
  <2> QED
    BY <2>1, <2>2, <2>3
<1>5. EntryAmountsRounded
  <2> SUFFICES ASSUME NEW p \in ActivePlans, NEW e \in EntryRule
               PROVE  LET rent == plan[p].rent
                          due == EntryCommission(rent, e[1])
                      IN
                      /\ 2 * (due * e[3] - rent * e[2]) \in (0 - e[3])..e[3]
                      /\ Deposit(rent, "THIRD_OF_MONTH", NoLimit) <= Deposit(rent, "ONE_MONTH_RENT", NoLimit)
                      /\ due <= rent
    BY DEF EntryAmountsRounded
  <2> DEFINE rent == plan[p].rent
  <2>1. rent \in Nat
    BY <1>1, PlansAre
  <2> HIDE DEF rent
  <2>2. Deposit(rent, "THIRD_OF_MONTH", NoLimit) <= Deposit(rent, "ONE_MONTH_RENT", NoLimit)
    BY <2>1, Amounts DEF Deposit
  <2> DEFINE Rounded(due, num, den) ==
               2 * (due * den - rent * num) \in (0 - den)..den /\ due <= rent
  <2>3. /\ Rounded(Portion(rent, 1, 3), 1, 3) /\ Rounded(Portion(rent, 1, 2), 1, 2)
        /\ Rounded(Portion(rent, 7, 10), 7, 10) /\ Rounded(rent, 1, 1)
    BY <2>1, Amounts
  <2> HIDE DEF Rounded
  <2>4. Rounded(EntryCommission(rent, e[1]), e[2], e[3])
    BY <2>3 DEF EntryRule, EntryCommission
  <2> QED
    BY <2>2, <2>4 DEF rent, Rounded
<1> QED
  BY <1>3, <1>4, <1>5 DEF QuotesRight

(* A limit is only written that is in order with the other one, which is      *)
(* still as it was checked, or the check is out of date.                      *)
LEMMA RangeStays ==
  ASSUME PricingInv, [PricingNext]_pricingVars, NEW p \in Plan,
         ~(\E e \in outdated : editor[e].pc = "patch"),
         ValidRange(plan[p].min, plan[p].max)
  PROVE  ValidRange(plan'[p].min, plan'[p].max)
PROOF
<1>1. PricingTypeOK /\ plan \in [Plan -> PlanRow]
  BY DEF PricingInv, PricingTypeOK
<1>2. ASSUME NEW e \in Editor, NEW q \in Plan, NEW row \in PlanRow, CreatePlan(e, q, row)
      PROVE  ValidRange(plan'[p].min, plan'[p].max)
  BY <1>1, <1>2 DEF CreatePlan
<1>3. ASSUME NEW e \in Editor, NEW q \in Plan, DeletePlan(e, q)
      PROVE  ValidRange(plan'[p].min, plan'[p].max)
  <2>1. plan'[p] = IF p = q THEN NoRow ELSE plan[p]
    BY <1>1, <1>3 DEF DeletePlan
  <2> QED
    BY <2>1, NoRowIs DEF ValidRange
<1>4. ASSUME NEW e \in Editor, NEW q \in Plan, NEW active \in BOOLEAN, NEW rent \in Rent,
             NEW currency \in Currency, UpdateTerms(e, q, active, rent, currency)
      PROVE  ValidRange(plan'[p].min, plan'[p].max)
  BY <1>1, <1>4, TermsAre
<1>5. ASSUME NEW e \in Editor, UpdateWrite(e)
      PROVE  ValidRange(plan'[p].min, plan'[p].max)
  <2> DEFINE r == editor[e]
             row == Edited(plan[r.plan], r)
  <2>1. r.pc = "patch" /\ plan' = [plan EXCEPT ![r.plan] = row]
    BY <1>5 DEF UpdateWrite
  <2>2. /\ r.plan \in Plan /\ row.min = IF r.min = NoLimit THEN plan[r.plan].min ELSE r.min
        /\ row.max = IF r.max = NoLimit /\ ~r.clears THEN plan[r.plan].max ELSE r.max
    BY <1>1, <2>1, EditedIs
  <2>3. Patched(r.plan, r.min, r.max)
    BY <2>1 DEF PricingInv, ChecksHold, Fresh
  <2> HIDE DEF row, r
  <2>4. ValidRange(row.min, row.max)
    BY <2>2, <2>3 DEF Patched, ValidRange
  <2>5. plan'[p] = IF p = r.plan THEN row ELSE plan[p]
    BY <1>1, <2>1, <2>2
  <2> QED
    BY <2>4, <2>5
<1>6. ASSUME NEW e \in Editor,
             \/ SyncList(e) \/ SyncWrite(e) \/ GiveUp(e)
             \/ \E q \in Plan, min, max \in Months \union {NoLimit}, clears \in BOOLEAN :
                  UpdateRead(e, q, min, max, clears)
      PROVE  plan' = plan
  BY <1>6 DEF SyncList, SyncWrite, GiveUp, UpdateRead
<1>7. CASE \E price \in Advert : SetPrice(price)
  BY <1>7 DEF SetPrice
<1>8. CASE UNCHANGED pricingVars
  BY <1>8 DEF pricingVars
<1> QED
  BY <1>2, <1>3, <1>4, <1>5, <1>6, <1>7, <1>8 DEF PricingNext, EditorStep

(* For any plans, rents, currencies and requests, however they cross: at rest  *)
(* what is advertised is the price of the cheapest quote, unless it was last   *)
(* written from an outdated list or by staff or a request died before writing   *)
(* it; a quote is of the plan named, or of the one for the longest stay; and    *)
(* what is paid to enter is right to half a cent and no more than a month.      *)
THEOREM QuotesStayRight == PricingSpec => []QuotesRight
PROOF
BY PricingInvHolds, QuotesAreRight, PTL

(* While no request is about to write a limit that it checked before another    *)
(* changed the plan, no change of a plan puts its limits out of order.          *)
THEOREM RangesKept == PricingSpec => RangesStayOrdered
PROOF
<1>1. PricingInv /\ [PricingNext]_pricingVars =>
        [\A p \in Plan :
           ValidRange(plan[p].min, plan[p].max) /\ ~(\E e \in outdated : editor[e].pc = "patch") =>
             ValidRange(plan'[p].min, plan'[p].max)]_pricingVars
  BY RangeStays
<1> QED
  BY <1>1, PricingInvHolds, PTL DEF PricingSpec, RangesStayOrdered

-----------------------------------------------------------------------------
(* FlexCalendar.                                                             *)

(* Every day of the calendar is of a month.                                  *)
LEMMA MonthOfIs ==
  ASSUME NEW d \in Nat, MonthStart[0] <= d
  PROVE  MonthOf(d) \in Month /\ MonthStart[MonthOf(d)] <= d
PROOF
<1> DEFINE T == {k \in Nat : k + 1 \notin Month \/ d < MonthStart[k + 1]}
<1>1. LastMonth \in T
  BY CalendarRuns
<1>2. PICK m \in T : \A k \in T : m <= k
  <2>1. T \in SUBSET Nat /\ T # {}
    BY <1>1
  <2> HIDE DEF T
  <2> QED
    BY <2>1, LeastIs
<1>3. m \in Month /\ (m + 1 \in Month => d < MonthStart[m + 1])
  <2>1. m \in Nat /\ m <= LastMonth /\ LastMonth \in Nat
    BY <1>1, <1>2, CalendarRuns
  <2>2. m \in 0..LastMonth
    BY <2>1
  <2> QED
    BY <2>2, CalendarRuns
<1>4. MonthStart[m] <= d
  <2>1. CASE m = 0
    BY <2>1
  <2>2. CASE m # 0
    <3>1. m - 1 \in Nat /\ m - 1 \notin T
      BY <1>2, <2>2
    <3>2. ~(d < MonthStart[m])
      BY <3>1, <2>2
    <3> QED
      BY <1>3, <3>2, CalendarRuns
  <2> QED
    BY <2>1, <2>2
<1>5. \E k \in Month : MonthStart[k] <= d /\ (k + 1 \in Month => d < MonthStart[k + 1])
  BY <1>3, <1>4
<1> QED
  BY <1>5 DEF MonthOf

(* A stay of some months ends on a later day.                                *)
LEMMA LaterDay ==
  ASSUME NEW d \in Nat, MonthStart[0] <= d, NEW n \in StayMonths, MonthOf(d) + n \in Month
  PROVE  AddMonths(d, n) \in Nat /\ d < AddMonths(d, n)
PROOF
<1> DEFINE m == MonthOf(d)
<1>1. m \in Month /\ MonthStart[m] <= d
  BY MonthOfIs
<1>2. n \in Nat /\ n > 0
  BY StaysAreMonths
<1> HIDE DEF m
<1>3. m + n \in Month
  BY DEF m
<1>4. m < m + n
  BY <1>1, <1>2, CalendarRuns
<1>5. MonthStart[m] < MonthStart[m + n] /\ MonthStart[m] \in Nat /\ MonthStart[m + n] \in Nat
  BY <1>1, <1>3, <1>4, CalendarRuns
<1>6. AddMonths(d, n) = MonthStart[m + n] + (d - MonthStart[m])
  BY DEF AddMonths, m
<1> QED
  BY <1>1, <1>5, <1>6

Period == [start : Nat, end : Nat]

CalendarInv == taken \subseteq Period /\ \A p \in taken : p.start < p.end

LEMMA CalendarInvHolds == CalendarSpec => []CalendarInv
PROOF
<1>1. CalendarInit => CalendarInv
  BY DEF CalendarInit, CalendarInv
<1>2. CalendarInv /\ [CalendarNext]_taken => CalendarInv'
  <2> SUFFICES ASSUME CalendarInv, [CalendarNext]_taken PROVE CalendarInv'
    OBVIOUS
  <2>1. ASSUME NEW start \in 0..LastDay, NEW end \in 0..LastDay, start < end,
               Take([start |-> start, end |-> end])
        PROVE  CalendarInv'
    <3> DEFINE s == [start |-> start, end |-> end]
    <3>1. s \in Period /\ s.start < s.end
      BY <2>1, DaysAreCounted DEF Period
    <3> QED
      BY <2>1, <3>1 DEF CalendarInv, Take
  <2>2. ASSUME NEW p \in taken, Release(p) PROVE CalendarInv'
    BY <2>2 DEF Release, CalendarInv
  <2>3. CASE UNCHANGED taken
    BY <2>3 DEF CalendarInv
  <2> QED
    BY <2>1, <2>2, <2>3 DEF CalendarNext
<1> QED
  BY <1>1, <1>2, PTL DEF CalendarSpec

(* Where a stay meets no reservation booked up to the horizon, it meets none    *)
(* that starts before it; and it meets none where all its days are free.       *)
LEMMA FitsMeetsNone ==
  ASSUME CalendarInv, NEW n \in StayMonths, NEW d \in Today..(Until - 1)
  PROVE  /\ Fits(d, n) => \A e \in Stay(d, n) : \A p \in TakenOn(e) : Until <= p.start
         /\ TrulyFree(d, n) => Fits(d, n)
PROOF
<1>1. d \in Nat /\ Today \in Nat /\ MonthStart[0] <= d /\ Today <= d /\ Until \in Nat
  BY CalendarIsLong, CalendarRuns
<1>2. AddMonths(d, n) \in Nat /\ d < AddMonths(d, n)
  BY <1>1, LaterDay, CalendarIsLong
<1> DEFINE end == AddMonths(d, n)
<1>3. ASSUME NEW p \in taken
      PROVE  /\ p.start \in Nat /\ p.end \in Nat /\ p.start < p.end
             /\ Overlap(StayAt(d, n), p) <=> d < p.end /\ end > p.start
  BY DEF CalendarInv, Period, Overlap, StayAt
<1>4. Stay(d, n) = d..(end - 1)
  BY DEF Stay
<1> HIDE DEF end
<1>5. ASSUME Fits(d, n), NEW e \in Stay(d, n), NEW p \in TakenOn(e), ~(Until <= p.start)
      PROVE  FALSE
  <2>1. e \in Nat /\ d <= e /\ e < end
    BY <1>1, <1>2, <1>4 DEF end
  <2>2. p \in taken /\ p.start <= e /\ e < p.end
    BY DEF TakenOn
  <2>3. p.start \in Nat /\ p.end \in Nat
    BY <1>3, <2>2
  <2>4. p.start < Until /\ p.end > Today /\ d < p.end /\ end > p.start
    BY <1>1, <1>2, <1>5, <2>1, <2>2, <2>3 DEF end
  <2>5. p \in Booked /\ Overlap(StayAt(d, n), p)
    BY <1>3, <2>2, <2>4 DEF Booked
  <2> QED
    BY <1>5, <2>5 DEF Fits
<1>6. ASSUME TrulyFree(d, n), NEW p \in Booked, Overlap(StayAt(d, n), p)
      PROVE  FALSE
  <2>1. p \in taken
    BY DEF Booked
  <2>2. /\ p.start \in Nat /\ p.end \in Nat /\ p.start < p.end /\ d < p.end /\ end > p.start
    BY <1>3, <1>6, <2>1
  <2>3. PICK e \in d..(end - 1) : p.start <= e /\ e < p.end
    <3>1. CASE d <= p.start
      <4>1. p.start \in d..(end - 1)
        BY <1>1, <1>2, <2>2, <3>1 DEF end
      <4> QED
        BY <2>2, <4>1
    <3>2. CASE p.start < d
      <4>1. d \in d..(end - 1)
        BY <1>1, <1>2 DEF end
      <4> QED
        BY <1>1, <2>2, <3>2, <4>1
    <3> QED
      BY <1>1, <2>2, <3>1, <3>2
  <2> QED
    BY <1>4, <1>6, <2>1, <2>3 DEF TrulyFree, TakenOn
<1> QED
  BY <1>5, <1>6 DEF Fits

LEMMA FirstIsFound == CalendarInv => NextStartIsFirst
PROOF
<1> SUFFICES ASSUME CalendarInv, NEW n \in StayMonths
             PROVE  /\ \A d \in NextStarts(n) :
                         /\ \A e \in Stay(d, n) : \A p \in TakenOn(e) : Until <= p.start
                         /\ \A e \in Today..(d - 1) : ~TrulyFree(e, n)
                    /\ NextStarts(n) = {} => \A e \in Today..(Until - 1) : ~TrulyFree(e, n)
  BY DEF NextStartIsFirst
<1>1. Today \in Nat /\ Until \in Nat
  BY CalendarIsLong
<1>2. \A d \in Today..(Until - 1) : TrulyFree(d, n) => Fits(d, n)
  BY FitsMeetsNone
<1>3. ASSUME NEW d \in NextStarts(n)
      PROVE  /\ \A e \in Stay(d, n) : \A p \in TakenOn(e) : Until <= p.start
             /\ \A e \in Today..(d - 1) : ~TrulyFree(e, n)
  <2>1. /\ d \in Today..(Until - 1) /\ Fits(d, n)
        /\ \A e \in Today..(d - 1) : ~Fits(e, n)
    BY DEF NextStarts
  <2>2. \A e \in Today..(d - 1) : e \in Today..(Until - 1)
    BY <1>1, <2>1
  <2>3. \A e \in Stay(d, n) : \A p \in TakenOn(e) : Until <= p.start
    BY <2>1, FitsMeetsNone
  <2> QED
    BY <1>2, <2>1, <2>2, <2>3
<1>4. ASSUME NEW e \in Today..(Until - 1), Fits(e, n)
      PROVE  NextStarts(n) # {}
  <2> DEFINE T == {d \in Today..(Until - 1) : Fits(d, n)}
  <2>1. T \in SUBSET Nat /\ T # {}
    BY <1>1, <1>4
  <2>2. PICK d \in T : \A c \in T : d <= c
    <3> HIDE DEF T
    <3> QED
      BY <2>1, LeastIs
  <2>3. ASSUME NEW c \in Today..(d - 1) PROVE ~Fits(c, n)
    <3>1. c \in Today..(Until - 1) /\ ~(d <= c)
      BY <1>1, <2>2
    <3> QED
      BY <2>2, <3>1
  <2>4. d \in NextStarts(n)
    BY <2>2, <2>3 DEF NextStarts
  <2> QED
    BY <2>4
<1> QED
  BY <1>2, <1>3, <1>4

(* Whatever the lengths of the months and the reservations that come and go,    *)
(* overlapping or not: on the first day the search finds a stay meets none that *)
(* starts before the horizon, no earlier day is free for so long, and where it   *)
(* finds none there is none.                                                   *)
THEOREM CalendarIsRight == CalendarSpec => []NextStartIsFirst
PROOF
BY CalendarInvHolds, FirstIsFound, PTL

-----------------------------------------------------------------------------
(* All three at once.                                                        *)

LEMMA ScenesAreOfEach == MCSpec => RatesSpec /\ PricingSpec /\ CalendarSpec
PROOF
<1>1. MCInit => RatesInit /\ PricingInit /\ CalendarInit
  BY DEF MCInit
<1>2. [MCNext]_<<rateVars, pricingVars, taken, focus>> =>
        [RatesNext]_rateVars /\ [PricingNext]_pricingVars /\ [CalendarNext]_taken
  BY DEF MCNext, RatesMove, PricingMoves, CalendarMoves
<1> QED
  BY <1>1, <1>2, PTL DEF MCSpec, RatesSpec, PricingSpec, CalendarSpec

(* The tables of rates, plans and stays keep their types in the scenes of the  *)
(* run, whatever the constants are.                                            *)
THEOREM TablesAreOf == MCSpec => []TypeOK
PROOF
<1>1. RatesTypeOK /\ PricingInv => TypeOK
  BY DEF TypeOK, PricingInv
<1> QED
  BY <1>1, ScenesAreOfEach, RatesTypeCorrect, PricingInvHolds, PTL

(* What a guest is offered, the price and the first day there is room, is      *)
(* right in the scenes of the run, whatever the constants are.                 *)
THEOREM OffersStayRight == MCSpec => []OffersRight
PROOF
<1>1. QuotesRight /\ NextStartIsFirst => OffersRight
  BY DEF OffersRight
<1> QED
  BY <1>1, ScenesAreOfEach, QuotesStayRight, CalendarIsRight, PTL
=============================================================================
