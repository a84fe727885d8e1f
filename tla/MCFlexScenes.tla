---------------------------- MODULE MCFlexScenes ----------------------------
(***************************************************************************)
(* Instances of FlexReservations for TLC.  A behaviour plays one scene:    *)
(*   "concurrent"  two requests at a time on one reservation, with         *)
(*                 cancellation requests;                                  *)
(*   "calendar"    one request at a time, two reservations of one flat,    *)
(*                 which no ambassador brought;                            *)
(*   "review"      one request at a time on one reservation, with rents    *)
(*                 and cancellation requests.                              *)
(* A request may die between two of its steps in all of them.              *)
(***************************************************************************)
EXTENDS MCFlexReservations, FiniteSets

VARIABLE scene

AllDtos == StatusDtos \union DateDtos \union RentDtos

OneAtATime == \A p, q \in Request : req'[p] # Idle /\ req'[q] # Idle => p = q
Made == {f \in Flex : Exists(f)'}
Creations == {p \in Request : req'[p].pc = "createCommit"}
Bodies == {req'[p].dto : p \in {q \in Request : req'[q].pc \in {"updateCheck", "updateCommit"}}}

ConcurrentScene ==
  /\ Cardinality(Made) <= 1
  /\ \A p \in Creations : req'[p].monthly = 1 /\ req'[p].start = 0 /\ req'[p].end = 2
  /\ Bodies \subseteq StatusDtos
CalendarScene ==
  /\ OneAtATime
  /\ \A p \in Creations : req'[p].monthly = 1 /\ req'[p].profile = None
  /\ Bodies \subseteq DateDtos
  /\ UNCHANGED cancelRequest
ReviewScene ==
  /\ OneAtATime
  /\ Cardinality(Made) <= 1
  /\ \A p \in Creations : req'[p].start = 0 /\ req'[p].end = 1
  /\ Bodies \subseteq RentDtos

MCInit == Init /\ scene \in {"concurrent", "calendar", "review"}
MCNext ==
  /\ Next
  /\ scene = "concurrent" => ConcurrentScene
  /\ scene = "calendar" => CalendarScene
  /\ scene = "review" => ReviewScene
  /\ UNCHANGED scene
MCSpec == MCInit /\ [][MCNext]_<<vars, scene>>

Serial == scene # "concurrent"

(* While requests are served one at a time, a reservation starts before it    *)
(* ends and stays cancelled when deleted, its commission follows its rent     *)
(* until it is earned, and one request to cancel it is open at most.          *)
SerialRowsSound ==
  Serial =>
    DatesOrdered /\ DeletedStaysCancelled /\ CommissionFollowsRent /\ OneOpenRequest

(* While requests are served one at a time, only a PATCH that revives a       *)
(* cancelled reservation can double-book a flat.                             *)
SerialOnlyRevivalDoubleBooks ==
  [][Serial => \A f, g \in Flex : RevivedOrApart(f, g)]_vars

(* While requests are served one at a time, the review of a request to cancel *)
(* says what became of the booking.                                          *)
SerialReviewIsTruthful == [][Serial => \A c \in CancelRequest : ReviewedRight(c)]_vars
=============================================================================
