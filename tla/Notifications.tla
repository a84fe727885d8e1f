------------------------------ MODULE Notifications ------------------------------
(***************************************************************************)
(* Notices in the application: a row per event, person and the role it is  *)
(* sent to, and the count of unread ones that the person's socket shows    *)
(* (its badge).  What happens to leads and bookings is told to the staff,  *)
(* once per role, or to one ambassador; staff may also broadcast.  A send  *)
(* reads the preferences, creates the row, counts and emits the count, in  *)
(* steps that other sends and the person's own clicks come between.        *)
(***************************************************************************)
EXTENDS Naturals, FiniteSets

CONSTANTS User,           \* active users
          Role, holders,  \* who holds each role: [Role -> SUBSET User]
          Event, kindOf,  \* "staff", "admins", "person", "promotion" or "broadcast"
          person,         \* whom a "person" event is about
          Limit           \* bound: times a person changes preferences
ASSUME RolesAssumption == holders \in [Role -> SUBSET User] /\ "ADMIN" \in Role
ASSUME EventsAssumption ==
  kindOf \in [Event -> {"staff", "admins", "person", "promotion", "broadcast"}]
ASSUME PersonIsUser == person \in User
ASSUME NoticesAreFinite == IsFiniteSet(Event) /\ IsFiniteSet(User) /\ IsFiniteSet(Role)

VARIABLES note,           \* Notification rows
          send,           \* sendToUser in flight: its stage and the count it read
          listed, queue,  \* whom a broadcast is for, and who of them is still to be told
          raised,         \* events told
          promos,         \* promosEnabled
          changes,
          badge,          \* the last count emitted to each person
          clearing,       \* markAllAsRead that wrote and has not emitted
          (* History, which no action reads but to keep it: *)
          missed,         \* the notices that a failure left out
          unsure,         \* people whose notices changed since they were last counted
          willing,        \* who had promotions enabled at some time since the event
          reluctant       \* who had them disabled at some time since
noticeVars == <<note, send, listed, queue, raised, promos, changes, badge, clearing,
                missed, unsure, willing, reluctant>>
telling == <<raised, listed, willing, reluctant>>
preferences == <<promos, changes>>

Capacity == Role \union {"PERSON"}
Notice == Event \X User \X Capacity
Broadcasts == {e \in Event : kindOf[e] \in {"promotion", "broadcast"}}

(* Whom an event is for: sendToRole once for each role, and a person with two   *)
(* roles is told twice; one person; or those whom a broadcast has listed.        *)
RolesOf(e) == IF kindOf[e] = "staff" THEN Role ELSE {"ADMIN"}
Told(e) ==
  CASE e \in Broadcasts     -> {<<e, u, "PERSON">> : u \in listed[e]}
    [] kindOf[e] = "person" -> {<<e, person, "PERSON">>}
    [] OTHER -> {n \in {e} \X User \X RolesOf(e) : n[2] \in holders[n[3]]}

Of(u) == {n \in Notice : n[2] = u}
Unread(u) == Cardinality({n \in Of(u) : note[n] = "UNREAD"})
Waiting(u) == {n \in Of(u) : send[n].pc \in {"count", "emit"}}
NotSent == [pc |-> "none", count |-> 0]

NoticesInit ==
  /\ note = [n \in Notice |-> "ABSENT"]
  /\ send = [n \in Notice |-> NotSent]
  /\ listed = [e \in Event |-> {}] /\ queue = listed
  /\ raised = {} /\ clearing = {} /\ missed = {} /\ unsure = {}
  /\ promos = [u \in User |-> TRUE]
  /\ changes = 0
  /\ badge = [u \in User |-> 0]
  /\ willing = [e \in Event |-> {}] /\ reluctant = willing

(* notifyNewLead, notifyBookingCreated; notifyCancellationRequested;           *)
(* notifyBookingConfirmed and the others to one person.                        *)
Notify(e) ==
  /\ e \notin raised \union Broadcasts
  /\ raised' = raised \union {e}
  /\ send' = [n \in Notice |-> IF n \in Told(e) THEN [NotSent EXCEPT !.pc = "ask"]
                                               ELSE send[n]]
  /\ UNCHANGED <<note, listed, queue, badge, clearing, missed, unsure, willing, reluctant,
                 preferences>>

(* broadcast: the people are listed, and then told one after the other.        *)
Broadcast(e, people) ==
  /\ e \in Broadcasts \ raised
  /\ raised' = raised \union {e}
  /\ listed' = [listed EXCEPT ![e] = people]
  /\ queue' = [queue EXCEPT ![e] = people]
  /\ willing' = [willing EXCEPT ![e] = {u \in User : promos[u]}]
  /\ reluctant' = [reluctant EXCEPT ![e] = {u \in User : ~promos[u]}]
  /\ UNCHANGED <<note, send, badge, clearing, missed, unsure, preferences>>

(* Who does not want promotions is passed over, and the loop goes on.           *)
Refuses_Never(e, u) == FALSE
Refuses_Any(e, u) == e \in Broadcasts /\ ~promos[u]
Refuses(e, u) == kindOf[e] = "promotion" /\ ~promos[u]
Remaining_Refused(e, u) == IF Refuses(e, u) THEN {} ELSE queue[e] \ {u}
Remaining(e, u) == queue[e] \ {u}

ToReach(e) == {<<e, u, "PERSON">> : u \in queue[e]}
Resting(e) == \A n \in Notice : n[1] = e => send[n].pc = "none"
BroadcastNext(e, u) ==
  /\ u \in queue[e] /\ Resting(e)
  /\ queue' = [queue EXCEPT ![e] = Remaining(e, u)]
  /\ send' = [send EXCEPT ![<<e, u, "PERSON">>].pc = "ask"]
  /\ UNCHANGED <<note, badge, clearing, missed, unsure, telling, preferences>>

(* sendToUser: the preferences; a promotion to who does not want it ends here. *)
AskPreferences(n) ==
  /\ send[n].pc = "ask"
  /\ send' = [send EXCEPT ![n].pc = IF Refuses(n[1], n[2]) THEN "none" ELSE "create"]
  /\ UNCHANGED <<note, queue, badge, clearing, missed, unsure, telling, preferences>>

Crossed(u) == IF Waiting(u) # {} \/ u \in clearing THEN unsure \union {u} ELSE unsure

Create(n) ==
  /\ send[n].pc = "create"
  /\ note' = [note EXCEPT ![n] = "UNREAD"]
  /\ send' = [send EXCEPT ![n].pc = "count"]
  /\ unsure' = Crossed(n[2])
  /\ UNCHANGED <<queue, badge, clearing, missed, telling, preferences>>

(* unreadCount                                                               *)
Counted_Others(n) == Cardinality({m \in Of(n[2]) \ {n} : note[m] = "UNREAD"})
Counted(n) == Unread(n[2])
CountUnread(n) ==
  /\ send[n].pc = "count"
  /\ send' = [send EXCEPT ![n] = [pc |-> "emit", count |-> Counted(n)]]
  /\ unsure' = IF Waiting(n[2]) = {n} /\ n[2] \notin clearing
               THEN unsure \ {n[2]} ELSE unsure
  /\ UNCHANGED <<note, queue, badge, clearing, missed, telling, preferences>>

Emit(n) ==
  /\ send[n].pc = "emit"
  /\ badge' = [badge EXCEPT ![n[2]] = send[n].count]
  /\ send' = [send EXCEPT ![n] = NotSent]
  /\ UNCHANGED <<note, queue, clearing, missed, unsure, telling, preferences>>

(* A statement that throws: the others of a role go on, a broadcast ends.       *)
SendFails(n) ==
  /\ send[n].pc \in {"ask", "create", "count"}
  /\ send' = [send EXCEPT ![n] = NotSent]
  /\ queue' = [queue EXCEPT ![n[1]] = {}]
  /\ missed' = missed \union ToReach(n[1]) \union (IF send[n].pc = "count" THEN {} ELSE {n})
  /\ unsure' = IF send[n].pc = "count" THEN unsure \union {n[2]} ELSE unsure
  /\ UNCHANGED <<note, badge, clearing, telling, preferences>>

(* The person: markAsRead and remove emit nothing, markAllAsRead emits zero.    *)
MarkAsRead(n) ==
  /\ note[n] = "UNREAD"
  /\ note' = [note EXCEPT ![n] = "READ"]
  /\ unsure' = unsure \union {n[2]}
  /\ UNCHANGED <<send, queue, badge, clearing, missed, telling, preferences>>

RemoveNotice(n) ==
  /\ note[n] \in {"UNREAD", "READ"}
  /\ note' = [note EXCEPT ![n] = "REMOVED"]
  /\ unsure' = IF note[n] = "UNREAD" THEN unsure \union {n[2]} ELSE unsure
  /\ UNCHANGED <<send, queue, badge, clearing, missed, telling, preferences>>

Cleared(u) == {n \in Of(u) : note[n] = "UNREAD"}
MarkAllAsRead(u) ==
  /\ u \notin clearing
  /\ note' = [n \in Notice |-> IF n \in Cleared(u) THEN "READ" ELSE note[n]]
  /\ clearing' = clearing \union {u}
  /\ unsure' = IF Waiting(u) # {} THEN unsure \union {u} ELSE unsure \ {u}
  /\ UNCHANGED <<send, queue, badge, missed, telling, preferences>>

EmitZero(u) ==
  /\ u \in clearing
  /\ badge' = [badge EXCEPT ![u] = 0]
  /\ clearing' = clearing \ {u}
  /\ UNCHANGED <<note, send, queue, missed, unsure, telling, preferences>>

UpdatePreferences(u) ==
  /\ changes < Limit
  /\ changes' = changes + 1
  /\ promos' = [promos EXCEPT ![u] = ~@]
  /\ willing' = [e \in Event |-> IF e \in raised /\ promos'[u]
                                 THEN willing[e] \union {u} ELSE willing[e]]
  /\ reluctant' = [e \in Event |-> IF e \in raised /\ ~promos'[u]
                                   THEN reluctant[e] \union {u} ELSE reluctant[e]]
  /\ UNCHANGED <<note, send, listed, queue, raised, badge, clearing, missed, unsure>>

NoticesNext ==
  \/ \E e \in Event :
       \/ Notify(e)
       \/ Broadcast(e, User)
       \/ \E r \in Role : Broadcast(e, holders[r])
       \/ \E u \in User : Broadcast(e, {u}) \/ BroadcastNext(e, u)
  \/ \E n \in Notice :
       \/ AskPreferences(n) \/ Create(n) \/ CountUnread(n) \/ Emit(n) \/ SendFails(n)
       \/ MarkAsRead(n) \/ RemoveNotice(n)
  \/ \E u \in User : MarkAllAsRead(u) \/ EmitZero(u) \/ UpdatePreferences(u)

NoticesSpec == NoticesInit /\ [][NoticesNext]_noticeVars

-----------------------------------------------------------------------------
NoticesTypeOK ==
  /\ note \in [Notice -> {"ABSENT", "UNREAD", "READ", "REMOVED"}]
  /\ send \in [Notice -> [pc : {"none", "ask", "create", "count", "emit"},
                          count : 0..Cardinality(Notice)]]
  /\ queue \in [Event -> SUBSET User]
  /\ badge \in [User -> 0..Cardinality(Notice)]

(* The badge is the number of unread notices, once their handlers have ended,    *)
(* except for who read or removed one since it was counted, or was told two       *)
(* things at once: each send emits the count it read some steps before           *)
(* (notifications.service.ts:84).                                                *)
BadgeTellsUnread ==
  \A u \in User \ unsure :
    Waiting(u) = {} /\ u \notin clearing => badge[u] = Unread(u)

(* When what tells of an event has ended, everyone it is for has been told, once   *)
(* per role: but the notice at which it failed, with whom a broadcast had still   *)
(* to reach, and a promotion for who did not want any at some time since.  And    *)
(* nobody else has: none of those left out, none it was not for, and no promotion *)
(* reached who never wanted any since (notifications.service.ts:62, 387).         *)
ToldAsWanted ==
  /\ \A e \in raised : queue[e] = {} /\ Resting(e) =>
       \A n \in Told(e) \ missed :
         note[n] = "ABSENT" => kindOf[e] = "promotion" /\ n[2] \in reluctant[e]
  /\ \A n \in Notice : note[n] # "ABSENT" =>
       /\ n \in Told(n[1]) \ missed
       /\ kindOf[n[1]] = "promotion" => n[2] \in willing[n[1]]

(* People are told what they are to be told, and how much of it they have not *)
(* read.                                                                      *)
PeopleAreTold == BadgeTellsUnread /\ ToldAsWanted
=============================================================================
