-------------------------- MODULE CloudbedsAvailability --------------------------
(***************************************************************************)
(* Searches, totals, preparations and confirmations against the hotel's    *)
(* booking engine, which is external: how many calls go out at once, what  *)
(* is tried again, and what is answered when the engine does not.  What    *)
(* the engine says of a search is told by the time it says it; one search  *)
(* (property, dates, currency, language) has one entry in the cache.       *)
(***************************************************************************)
EXTENDS Naturals, Sequences, FiniteSets, SequencesExt

CONSTANTS Caller,          \* requests in flight
          Shell,           \* reservations the engine prepares
          MaxConcurrent,   \* CLOUDBEDS_MAX_CONCURRENT
          MaxAttempts,     \* of a search
          Ttl, MaxStale,   \* ages, in ticks of the clock: of the cache, beyond it
          MaxAge,          \* of a snapshot
          Flight,          \* the longest an answer is on its way
          Horizon,         \* bound of the clock
          Missing
ASSUME SlotsAreSome == MaxConcurrent \in Nat \ {0} /\ MaxAttempts \in Nat \ {0}
ASSUME AgesAreTicks ==
  Ttl \in Nat /\ MaxStale \in Nat /\ MaxAge \in Nat /\ Flight \in Nat /\ Horizon \in Nat
ASSUME CallersAreFinite == IsFiniteSet(Caller)
ASSUME MissingIsNone == Missing \notin Shell

VARIABLES clock,
          caller,          \* the requests: what for, where they are, what they know
          active, waiters, \* activeRequests, requestWaiters
          cached,          \* the entry of the cache: what was said, when it was kept
          snapshot,        \* the latest snapshot
          saving,          \* what is being recorded as a snapshot, not awaited
          served           \* the last answer served, and as what
engineVars == <<clock, caller, active, waiters, cached, snapshot, saving, served>>

Free == [pc |-> "free"]
Posting == {c \in Caller : caller[c].pc = "posted"}
Slotted == {c \in Posting : caller[c].use # "confirmation"}
Answer == [said |-> Missing, kept |-> Missing]

EngineInit ==
  /\ clock = 0
  /\ caller = [c \in Caller |-> Free]
  /\ active = 0 /\ waiters = <<>>
  /\ cached = Answer /\ snapshot = Answer
  /\ saving = {}
  /\ served = [said |-> Missing, at |-> 0, as |-> "none"]

(* What the engine has said arrives within Flight ticks, or the call times out; *)
(* a snapshot is recorded, or not, within the tick.                            *)
Tick ==
  /\ clock < Horizon /\ saving = {}
  /\ \A c \in Posting : caller[c].said # Missing => caller[c].said + Flight > clock
  /\ clock' = clock + 1
  /\ UNCHANGED <<caller, active, waiters, cached, snapshot, saving, served>>

(* AvailabilityCacheService.get, getStale; findLatestForSearch.                *)
Fresh_Ever == cached.said # Missing
Fresh == cached.said # Missing /\ cached.kept + Ttl >= clock
StillUseful_Ever == cached.said # Missing
StillUseful == cached.said # Missing /\ cached.kept + Ttl + MaxStale >= clock
SnapshotUseful == snapshot.said # Missing /\ snapshot.kept + MaxAge >= clock

(* acquireRequestSlot, releaseRequestSlot, in one synchronous step each; `with' *)
(* is what becomes of the caller.                                             *)
Enter(c, rec) ==
  IF active < MaxConcurrent
  THEN /\ active' = active + 1
       /\ waiters' = waiters
       /\ caller' = [caller EXCEPT ![c] = [rec EXCEPT !.pc = "posted"]]
  ELSE /\ waiters' = Append(waiters, c)
       /\ active' = active
       /\ caller' = [caller EXCEPT ![c] = [rec EXCEPT !.pc = "slot"]]

Released_Uncounted(n) == n
Released(n) == IF n = 0 THEN 0 ELSE n - 1
Woken(n) == IF waiters = <<>> THEN n ELSE n + 1
Leave(c, rec) ==
  /\ active' = Woken(Released(active))
  /\ waiters' = IF waiters = <<>> THEN <<>> ELSE Tail(waiters)
  /\ caller' = [d \in Caller |->
       IF d = c THEN rec
       ELSE IF waiters # <<>> /\ d = Head(waiters) THEN [caller[d] EXCEPT !.pc = "posted"]
       ELSE caller[d]]

Started(use) ==
  [use |-> use, pc |-> "slot", tries |-> 1, said |-> Missing, shell |-> Missing]

(* searchAvailability: a fresh entry answers without a call.                    *)
ServeFresh(c) ==
  /\ caller[c] = Free /\ Fresh
  /\ served' = [said |-> cached.said, at |-> clock, as |-> "fresh"]
  /\ UNCHANGED <<clock, caller, active, waiters, cached, snapshot, saving>>

Search(c) ==
  /\ caller[c] = Free /\ ~Fresh
  /\ Enter(c, Started("search"))
  /\ UNCHANGED <<clock, cached, snapshot, saving, served>>

(* calculateTotals, prepareBooking: never tried again.                          *)
Totals(c) ==
  /\ caller[c] = Free
  /\ Enter(c, Started("totals"))
  /\ UNCHANGED <<clock, cached, snapshot, saving, served>>

Prepare(c) ==
  /\ caller[c] = Free
  /\ Enter(c, Started("prepare"))
  /\ UNCHANGED <<clock, cached, snapshot, saving, served>>

(* getConfirmation: httpGet takes no slot.                                      *)
Confirmation(c) ==
  /\ caller[c] = Free
  /\ caller' = [caller EXCEPT ![c] = [Started("confirmation") EXCEPT !.pc = "posted"]]
  /\ UNCHANGED <<clock, active, waiters, cached, snapshot, saving, served>>

(* The engine takes a search, or prepares a reservation; what it says is on its *)
(* way from then on.  It may do so and the answer be lost.                      *)
Says(c) ==
  /\ caller[c].pc = "posted" /\ caller[c].use = "search" /\ caller[c].said = Missing
  /\ caller' = [caller EXCEPT ![c].said = clock]
  /\ UNCHANGED <<clock, active, waiters, cached, snapshot, saving, served>>

Prepares(c, s) ==
  /\ caller[c].pc = "posted" /\ caller[c].use = "prepare" /\ caller[c].shell = Missing
  /\ caller' = [caller EXCEPT ![c].shell = s]
  /\ UNCHANGED <<clock, active, waiters, cached, snapshot, saving, served>>

(* A well-formed answer to a search: it is kept, and recorded without waiting.  *)
Answered(c) == [said |-> caller[c].said, kept |-> clock]
SearchAnswered(c) ==
  /\ caller[c].pc = "posted" /\ caller[c].said # Missing
  /\ Leave(c, Free)
  /\ cached' = Answered(c)
  /\ saving' = saving \union {caller[c].said}
  /\ served' = [said |-> caller[c].said, at |-> clock, as |-> "answer"]
  /\ UNCHANGED <<clock, snapshot>>

(* The record is created when it is; one that fails is dropped.                 *)
SnapshotDone(t) ==
  /\ t \in saving
  /\ saving' = saving \ {t}
  /\ snapshot' \in {snapshot, [said |-> t, kept |-> clock]}
  /\ UNCHANGED <<clock, caller, active, waiters, cached, served>>

(* httpPostWithRetry: 429, 502, 503 and 504 wait and try again, out of the slot. *)
Busy(c) ==
  /\ caller[c].pc = "posted" /\ caller[c].use = "search" /\ caller[c].tries < MaxAttempts
  /\ Leave(c, [caller[c] EXCEPT !.pc = "backoff", !.tries = @ + 1, !.said = Missing])
  /\ UNCHANGED <<clock, cached, snapshot, saving, served>>

Again(c) ==
  /\ caller[c].pc = "backoff"
  /\ Enter(c, caller[c])
  /\ UNCHANGED <<clock, cached, snapshot, saving, served>>

(* Any other failure: a time-out, a status, a malformed body.                   *)
Fallback ==
  served' = IF StillUseful THEN [said |-> cached.said, at |-> clock, as |-> "stale"]
            ELSE IF SnapshotUseful
            THEN [said |-> snapshot.said, at |-> clock, as |-> "snapshot"]
            ELSE [said |-> Missing, at |-> clock, as |-> "error"]
CallFails(c) ==
  /\ caller[c].pc = "posted"
  /\ IF caller[c].use = "confirmation"
     THEN caller' = [caller EXCEPT ![c] = Free] /\ UNCHANGED <<active, waiters>>
     ELSE Leave(c, Free)
  /\ IF caller[c].use = "search" THEN Fallback ELSE UNCHANGED served
  /\ cached' = IF caller[c].use = "search" /\ ~StillUseful THEN Answer ELSE cached
  /\ UNCHANGED <<clock, snapshot, saving>>

(* Totals and confirmations just answer.                                       *)
Done(c) ==
  /\ caller[c].pc = "posted" /\ caller[c].use \in {"totals", "confirmation"}
  /\ IF caller[c].use = "confirmation"
     THEN caller' = [caller EXCEPT ![c] = Free] /\ UNCHANGED <<active, waiters>>
     ELSE Leave(c, Free)
  /\ UNCHANGED <<clock, cached, snapshot, saving, served>>

(* prepareBooking: a reply that names a reservation is a success even when its  *)
(* flag says otherwise, as when the payment is pending.  The engine's flag is    *)
(* only up when it has prepared one.                                            *)
Accepted_ByFlag(c, flag) == flag
Accepted(c, flag) == flag \/ caller[c].shell # Missing
PrepareReplied(c, flag) ==
  /\ caller[c].pc = "posted" /\ caller[c].use = "prepare"
  /\ flag => caller[c].shell # Missing
  /\ Leave(c, Free)
  /\ served' = [said |-> caller[c].shell, at |-> clock,
                as |-> IF Accepted(c, flag) THEN "prepared" ELSE "refused"]
  /\ UNCHANGED <<clock, cached, snapshot, saving>>

EngineNext ==
  \/ Tick
  \/ \E c \in Caller :
       \/ ServeFresh(c) \/ Search(c) \/ Totals(c) \/ Prepare(c) \/ Confirmation(c)
       \/ Says(c) \/ SearchAnswered(c) \/ Busy(c) \/ Again(c) \/ CallFails(c) \/ Done(c)
       \/ \E flag \in BOOLEAN : PrepareReplied(c, flag)
       \/ \E s \in Shell : Prepares(c, s)
  \/ \E t \in saving : SnapshotDone(t)

EngineSpec == EngineInit /\ [][EngineNext]_engineVars
-----------------------------------------------------------------------------
EngineTypeOK ==
  /\ clock \in 0..Horizon
  /\ \A c \in Caller : caller[c] = Free \/
       /\ caller[c].use \in {"search", "totals", "prepare", "confirmation"}
       /\ caller[c].pc \in {"slot", "posted", "backoff"}
       /\ caller[c].tries \in 1..MaxAttempts
  /\ active \in 0..MaxConcurrent
  /\ waiters \in Seq(Caller)

(* The slots of the provider are those of the calls that are out, waiters wait   *)
(* only while all are taken, and each once: no slot is lost and nobody forgotten, *)
(* whatever fails or is tried again (cloudbeds-public-booking.provider.ts:510).   *)
SlotsAccounted ==
  /\ active = Cardinality(Slotted) /\ active <= MaxConcurrent
  /\ waiters # <<>> => active = MaxConcurrent
  /\ {c \in Caller : caller[c].pc = "slot"} = ToSet(waiters)
  /\ Len(waiters) = Cardinality(ToSet(waiters))

(* What is served is what the engine said, and no older than the cache, the       *)
(* stale cache and the snapshots allow, plus the time it was on its way: answers  *)
(* that come out of order take the entry back by no more than that               *)
(* (cloudbeds.service.ts:84, availability-cache.service.ts:44).                   *)
ServedInTime ==
  LET age == served.at - served.said IN
  /\ served.as = "answer" => age <= Flight
  /\ served.as = "fresh" => age <= Ttl + Flight
  /\ served.as = "stale" => age <= Ttl + MaxStale + Flight
  /\ served.as = "snapshot" => age <= MaxAge + Flight

(* A reply that comes says that a reservation is prepared exactly when one is,   *)
(* also while its payment is pending (cloudbeds-public-booking.provider.ts:1114). *)
RepliesToldRight ==
  /\ served.as = "prepared" => served.said \in Shell
  /\ served.as = "refused" => served.said = Missing

(* No call is lost from the account: neither its slot nor what it prepared.   *)
CallsAccounted == SlotsAccounted /\ RepliesToldRight
=============================================================================
