--------------------------------- MODULE MCPeople ---------------------------------
(***************************************************************************)
(* Small instances of AmbassadorOnboarding and Sessions.  They share no    *)
(* state; a behaviour plays one scene, in one of them, so that the states  *)
(* of the run are the sum of the scenes', not the product.                 *)
(***************************************************************************)
EXTENDS AmbassadorOnboarding, Sessions, TLC

CONSTANTS d1, d2, ana, bea, leo, firm1, firm2, tax1,
          c1, c2, user1, s1, s2, s3, ticket1, ticket2

VARIABLE scene

TypeOK == OnboardingTypeOK /\ SessionsTypeOK

Busy == {d \in Desk : desk'[d] # Clear}
OnlyLeoIsInvited ==
  \A d \in Desk : /\ desk'[d].pc = "claim" => desk'[d].invited \subseteq {leo}
                  /\ desk'[d].pc = "invite" => desk'[d].member = leo

(* One request at a time: an agency and its one member, who may become an     *)
(* ambassador on their own.                                                   *)
TeamScene ==
  /\ Cardinality(Busy) <= 1 /\ ~irregular'
  /\ account'[bea] = "ABSENT" /\ account'[ana] \in {"ABSENT", "ACTIVE"}
  /\ papers'[ana] \in {{}, {"COMPANY"}} /\ papers'[leo] \in {{}, {"INDIVIDUAL"}}
  /\ \A d \in Busy :
       desk'[d].pc = "claim" /\ desk'[d].of = leo => desk'[d].kind = "INDIVIDUAL"

(* Two requests at a time about one person's request; nobody answers the      *)
(* invitations, and staff leave the role alone.                               *)
ReviewScene ==
  /\ \A p \in {bea, leo} : account'[p] = "ABSENT"
  /\ account'[ana] \in {"ABSENT", "ACTIVE"}
  /\ firm'[firm2] = "UNUSED"
  /\ desk' = desk => role' = role
  /\ \A d \in Busy : desk'[d].pc = "lookUp" => papers'[ana] = {}

(* One request at a time: two agencies with one tax identifier invite one      *)
(* person.                                                                    *)
FirmScene ==
  /\ Cardinality(Busy) <= 1 /\ ~irregular'
  /\ \A p \in {ana, bea} : /\ account'[p] \in {"ABSENT", "ACTIVE"}
                           /\ papers'[p] \in {{}, {"COMPANY"}}
                           /\ role'[p] # "ASSIGNED"
  /\ account'[leo] \in {"ABSENT", "ACTIVE"}
  /\ papers'[leo] = {} /\ role'[leo] # "ASSIGNED"

(* Two requests at a time: sessions opened, refreshed and ended; no tickets.   *)
(* Identifiers of sessions are taken in order.                                *)
RefreshScene ==
  /\ session'[s2].used => session[s1].used
  /\ session'[s3].used => session[s2].used
  /\ \A t \in Ticket : ticket'[t].state = "UNUSED"
  /\ \A c \in Client : client'[c].pc # "mail"

(* Two requests at a time: tickets mailed and used, one session.               *)
TicketScene ==
  /\ \A s \in {s2, s3} : ~session'[s].used
  /\ user'[user1].state \in {"ABSENT", "ACTIVE"}

OnboardingMoves ==
  /\ OnboardingNext
  /\ OnlyLeoIsInvited
  /\ scene = "team" => TeamScene
  /\ scene = "review" => ReviewScene
  /\ scene = "firm" => FirmScene
  /\ UNCHANGED <<sessionVars, scene>>

SessionsMove ==
  /\ SessionsNext
  /\ scene = "refreshing" => RefreshScene
  /\ scene = "tickets" => TicketScene
  /\ UNCHANGED <<onboardingVars, scene>>

MCInit ==
  /\ OnboardingInit /\ SessionsInit
  /\ scene \in {"team", "review", "firm", "refreshing", "tickets"}
MCNext ==
  \/ scene \in {"team", "review", "firm"} /\ OnboardingMoves
  \/ scene \in {"refreshing", "tickets"} /\ SessionsMove

MCSpec == MCInit /\ [][MCNext]_<<onboardingVars, sessionVars, scene>>

Symmetry == Permutations(Desk) \union Permutations(Client) \union Permutations(Ticket)
=============================================================================
