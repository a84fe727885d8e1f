-------------------------------- MODULE MCServices --------------------------------
(***************************************************************************)
(* Small instances of the services around the reservations.  They share no *)
(* state: a behaviour moves one of them, its focus, so that the states of  *)
(* the run are the sum of theirs, not the product.                         *)
(***************************************************************************)
EXTENDS TrackingReports, MediaUploads, Notifications, CloudbedsAvailability,
        AdminDashboard, TLC

CONSTANTS room1, widget1, widget2, hotelA, hotelB,
          q1, q2, f1, f2, flat1, papers, ana,
          lea, max, lead1, promo1, news1, booking1,
          k1, k2, k3, shell1, shell2, stay1, stay2, works, u1, u2

VARIABLE focus

Mapped == widget1 :> hotelA @@ widget2 :> Absent
Rooms == [p \in Place |-> {room1}]
Dates == {1, 2}
OldUrls == {[in |-> 2, out |-> Absent, room |-> room1, widget |-> widget1,
             session |-> FALSE]}
Owners == [s \in Slot |-> ana]
Holders == "ADMIN" :> {max} @@ "OPERATOR" :> {lea, max}
Kinds == [e \in Event |-> IF e = lead1 THEN "staff" ELSE IF e = promo1 THEN "promotion"
                         ELSE IF e = news1 THEN "broadcast" ELSE "person"]
Types == [u \in Unit |-> "double"]
Days == 0..2

TypeOK == /\ TrackTypeOK /\ UploadsTypeOK /\ NoticesTypeOK /\ EngineTypeOK

(* A page that tells where it is tells no amount.                              *)
TrackingMoves ==
  /\ TrackNext
  /\ said' # Absent /\ said'.at # Absent =>
       said'.total = Absent /\ said'.roomTotal = Absent
  /\ UNCHANGED <<uploadVars, noticeVars, engineVars, tables, focus>>

(* The second file is for an image and is not left behind; only one request    *)
(* fills slots.                                                               *)
UploadsMove ==
  /\ UploadsNext
  /\ f2 \notin old' \union doomed'
  /\ \A r \in Request : request'[r].pc = "wait" =>
       request'[r].where = flat1 \/ (r = q1 /\ request'[r].file = f1)
  /\ UNCHANGED <<trackVars, noticeVars, engineVars, tables, focus>>

(* Only one of the two reads what they are told; the other changes preferences. *)
(* One event, which may tell a person twice.                                   *)
NoticesMove ==
  /\ NoticesNext
  /\ \A n \in Of(lea) : note'[n] \in {"ABSENT", "UNREAD"}
  /\ clearing' \subseteq {max} /\ promos'[max]
  /\ Cardinality(raised') <= 1
  /\ UNCHANGED <<trackVars, uploadVars, engineVars, tables, focus>>

(* Three calls in no time, one of them a calculation, or two searches over time. *)
EngineMoves ==
  /\ EngineNext
  /\ IF focus = "slots"
     THEN clock' = 0 /\ (caller'[k3] # Free => caller'[k3].use = "totals")
     ELSE /\ caller'[k3] = Free
          /\ \A c \in {k1, k2} : caller'[c] # Free => caller'[c].use = "search"
  /\ UNCHANGED <<trackVars, uploadVars, noticeVars, tables, focus>>

(* One unit is always listed, for stays by the night; the second booking is of two *)
(* nights in that unit or in none, by the night, and stays as it was made; staff    *)
(* blocks one night.                                                               *)
TablesMove ==
  /\ TablesNext
  /\ unit'[u1] = unit[u1]
  /\ registry'[stay2] \notin {NoRow, Deleted} =>
       /\ registry'[stay2].start = 0 /\ registry'[stay2].end = 2
       /\ registry'[stay2].source # "FLEX" /\ registry'[stay2].unit # u2
  /\ \A b \in block' : b.of = works => b.start = 1 /\ b.end = 2
  /\ UNCHANGED <<trackVars, uploadVars, noticeVars, engineVars, focus>>

MCInit ==
  /\ TrackInit /\ UploadsInit /\ NoticesInit /\ EngineInit /\ TablesInit
  /\ focus \in {"tracking", "uploads", "notices", "slots", "ages", "dashboard"}
  /\ unit[u1] = [listed |-> TRUE, modality |-> "TEMPORAL"]
  /\ focus # "dashboard" => unit[u2] = unit[u1]
MCNext ==
  \/ focus = "tracking" /\ TrackingMoves
  \/ focus = "uploads" /\ UploadsMove
  \/ focus = "notices" /\ NoticesMove
  \/ focus \in {"slots", "ages"} /\ EngineMoves
  \/ focus = "dashboard" /\ TablesMove

MCSpec ==
  MCInit /\ [][MCNext]_<<trackVars, uploadVars, noticeVars, engineVars, tables, focus>>
=============================================================================
