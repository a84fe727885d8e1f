--------------------------- MODULE AmbassadorOnboarding ---------------------------
(***************************************************************************)
(* How a user becomes an ambassador, alone or as an agency with a team,    *)
(* and loses it again: the request, its review, suspension, the team's     *)
(* accounts, and the AMBASSADOR role that goes with all of these.          *)
(*                                                                         *)
(* Sources: professionals.service.ts, agency-team.service.ts,              *)
(* ambassador-access.service.ts, users.service.ts; registration and Google *)
(* login of auth.service.ts as far as they link a member of a team.        *)
(*                                                                         *)
(* A request runs in steps at a desk: it reads and checks, then writes, in *)
(* one transaction or several.  Requests at other desks run in between.    *)
(* A user, the profile made with it, and the e-mail a team lists it under  *)
(* are one person.  Documents are in MediaUploads, sessions in Sessions.   *)
(***************************************************************************)
EXTENDS Integers, FiniteSets

CONSTANTS
  Desk,     \* concurrent requests
  Person,   \* users
  Firm,     \* identifiers of CompanyProfile rows
  TaxId,    \* tax identifiers of agencies
  Nobody    \* an absent (null) reference

ASSUME NobodyIsNone == Nobody \notin Person \union Firm \union TaxId

VARIABLES
  account,    \* the users table
  profile,    \* the professional_profiles table
  papers,     \* the kinds of request a person has all documents for
  role,       \* the AMBASSADOR rows of user_roles
  firm,       \* the company_profiles table
  membership, \* the user_company_memberships table
  team,       \* the agency_team_members table
  desk,       \* what each request is doing and what it has read
  irregular   \* requests have overlapped, one died, or staff wrote a status or
              \* took a role by hand

people == <<account, profile, papers, role>>
agencies == <<firm, membership, team>>
onboardingVars == <<people, agencies, desk, irregular>>

-----------------------------------------------------------------------------
Kind == {"INDIVIDUAL", "COMPANY"}
Status == {"PENDING", "ACTIVE", "REJECTED", "SUSPENDED"}

ProfileRow == [kind : Kind \union {"NONE"}, requested : BOOLEAN, status : Status,
               verified : BOOLEAN]
NewProfile ==
  [kind |-> "NONE", requested |-> FALSE, status |-> "PENDING", verified |-> FALSE]

MemberRow == [exists : BOOLEAN, active : BOOLEAN, linked : BOOLEAN,
              firm : Firm \union {Nobody}]
NoMember == [exists |-> FALSE, active |-> FALSE, linked |-> FALSE, firm |-> Nobody]
InvitedBy(f) == [exists |-> TRUE, active |-> TRUE, linked |-> FALSE, firm |-> f]

Clear == [pc |-> "idle"]
DeskState ==
  {Clear}
    \union [pc : {"claim", "form"}, of : Person, kind : Kind, tax : TaxId,
            invited : SUBSET Person]
    \union [pc : {"approve", "grant"}, of : Person]
    \union [pc : {"revoke", "close"}, of : Person, firm : Firm \union {Nobody},
            as : {"REJECTED", "SUSPENDED"}]
    \union [pc : {"invite"}, of : Person, member : Person, firm : Firm,
            existed : BOOLEAN]
    \union [pc : {"letGo", "takeRole", "bringBack", "switchOn"},
            of : Person, member : Person, linked : BOOLEAN]
    \union [pc : {"remove"}, of : Person, member : Person]
    \union [pc : {"lookUp"}, member : Person]
    \union [pc : {"join"}, of : Person, member : Person, approved : BOOLEAN,
            firm : Firm \union {Nobody}]

OnboardingTypeOK ==
  /\ account \in [Person -> {"ABSENT", "ACTIVE", "INACTIVE", "DELETED"}]
  /\ profile \in [Person -> ProfileRow]
  /\ papers \in [Person -> SUBSET Kind]
  /\ role \in [Person -> {"NONE", "GRANTED", "ASSIGNED"}]
  /\ firm \in [Firm -> {"UNUSED", "GONE"} \union TaxId]
  /\ membership \in [Person \X Firm -> {"NONE", "MEMBER", "OWNER"}]
  /\ team \in [Person \X Person -> MemberRow]
  /\ desk \in [Desk -> DeskState]
  /\ irregular \in BOOLEAN

OnboardingInit ==
  /\ account = [p \in Person |-> "ABSENT"]
  /\ profile = [p \in Person |-> NewProfile]
  /\ papers = [p \in Person |-> {}]
  /\ role = [p \in Person |-> "NONE"]
  /\ firm = [f \in Firm |-> "UNUSED"]
  /\ membership = [pair \in Person \X Firm |-> "NONE"]
  /\ team = [pair \in Person \X Person |-> NoMember]
  /\ desk = [d \in Desk |-> Clear]
  /\ irregular = FALSE

-----------------------------------------------------------------------------
HasAccount(p) == account[p] \in {"ACTIVE", "INACTIVE"}
Registered(p) == account[p] # "ABSENT"

Team(a) == {m \in Person : team[<<a, m>>].exists}
LinkedTo(a) == {m \in Team(a) : team[<<a, m>>].linked}
Firms == {f \in Firm : firm[f] \in TaxId}
OwnedBy(p) == {f \in Firms : membership[<<p, f>>] = "OWNER"}

(* isApprovedAgencyProfile                                                   *)
Approved(a) ==
  profile[a].kind = "COMPANY" /\ profile[a].status = "ACTIVE" /\ profile[a].verified

(* getAgencyOwnerContext                                                     *)
MayManage(a) ==
  account[a] = "ACTIVE" /\ Approved(a) /\ OwnedBy(a) # {} /\ role[a] # "NONE"

(* grantAmbassadorRole leaves a role that is there as it is.                 *)
WithRole(S) == [p \in Person |->
  IF p \in S /\ role[p] = "NONE" THEN "GRANTED" ELSE role[p]]
WithoutRole(S) == [p \in Person |-> IF p \in S THEN "NONE" ELSE role[p]]

Begin(d, state) ==
  /\ desk[d] = Clear
  /\ desk' = [desk EXCEPT ![d] = state]
  /\ irregular' = (irregular \/ \E x \in Desk \ {d} : desk[x] # Clear)
Go(d, state) == desk' = [desk EXCEPT ![d] = state] /\ UNCHANGED irregular
Leave(d) == Go(d, Clear)

-----------------------------------------------------------------------------
(* The request                                                               *)

(* A document is confirmed, the last one a kind of request asks for.         *)
ConfirmPapers(p, kind) ==
  /\ account[p] = "ACTIVE" /\ profile[p].status # "ACTIVE"
  /\ papers' = [papers EXCEPT ![p] = @ \union {kind}]
  /\ UNCHANGED <<account, profile, role, agencies, desk, irregular>>

MayRequest(p) ==
  /\ profile[p].status # "ACTIVE"
  /\ ~profile[p].requested \/ profile[p].status \in {"REJECTED", "SUSPENDED"}

(* normalizeTeamMembers and assertTeamEmailsAvailable                        *)
Available(p, m) ==
  /\ m # p /\ ~HasAccount(m)
  /\ \A a \in Person \ {p} : ~(team[<<a, m>>].exists /\ team[<<a, m>>].active)

Request(d, p, kind, tax, invited) ==
  /\ account[p] = "ACTIVE" /\ MayRequest(p)
  /\ kind = "COMPANY" => invited # {} /\ \A m \in invited : Available(p, m)
  /\ Begin(d, [pc |-> "claim", of |-> p, kind |-> kind, tax |-> tax,
               invited |-> invited])
  /\ UNCHANGED <<people, agencies>>

(* The updateMany asks again whether the request is still to be made; the    *)
(* documents are looked at just before, and none is ever taken away.         *)
Claimable_Late(r) == TRUE
Claimable(r) == MayRequest(r.of)
Complete_Either(r) == papers[r.of] # {}
Complete(r) == r.kind \in papers[r.of]

Claim(d) ==
  LET r == desk[d] IN
  /\ r.pc = "claim"
  /\ IF Complete(r) /\ Claimable(r)
     THEN /\ profile' = [profile EXCEPT ![r.of] =
               [@ EXCEPT !.kind = r.kind, !.requested = TRUE, !.status = "PENDING"]]
          /\ IF r.kind = "COMPANY" THEN Go(d, [r EXCEPT !.pc = "form"]) ELSE Leave(d)
     ELSE UNCHANGED profile /\ Leave(d)
  /\ UNCHANGED <<account, papers, role, agencies>>

(* The firm with that tax identifier, or a new one; whoever asks owns it; the *)
(* team is replaced.                                                          *)
FormTeam(d) ==
  LET r == desk[d]
      known == {f \in Firms : firm[f] = r.tax}
      fresh == {f \in Firm : firm[f] = "UNUSED"}
  IN
  /\ r.pc = "form"
  /\ \E f \in IF known # {} THEN known ELSE fresh :
       /\ firm' = [firm EXCEPT ![f] = r.tax]
       /\ membership' = [membership EXCEPT ![<<r.of, f>>] = "OWNER"]
       /\ team' = [pair \in Person \X Person |->
            IF pair[1] # r.of THEN team[pair]
            ELSE IF pair[2] \in r.invited THEN InvitedBy(f) ELSE NoMember]
  /\ Leave(d)
  /\ UNCHANGED people

-----------------------------------------------------------------------------
(* The review                                                                *)

(* verify: the profile, its documents and its team, in one read.             *)
Verify(d, p) ==
  /\ profile[p].status = "PENDING" /\ profile[p].requested
  /\ profile[p].kind \in papers[p]
  /\ profile[p].kind = "COMPANY" => Team(p) # {}
  /\ Begin(d, [pc |-> "approve", of |-> p])
  /\ UNCHANGED <<people, agencies>>

Approve(d) ==
  LET p == desk[d].of IN
  /\ desk[d].pc = "approve"
  /\ profile' = [profile EXCEPT ![p] = [@ EXCEPT !.verified = TRUE, !.status = "ACTIVE"]]
  /\ role' = WithRole({p})
  /\ Go(d, [pc |-> "grant", of |-> p])
  /\ UNCHANGED <<account, papers, agencies>>

(* grantAmbassadorRolesForLinkedTeamMembers; the mails that follow change    *)
(* nothing here.                                                             *)
Grant(d) ==
  /\ desk[d].pc = "grant"
  /\ role' = WithRole({m \in LinkedTo(desk[d].of) : team[<<desk[d].of, m>>].active})
  /\ Leave(d)
  /\ UNCHANGED <<account, profile, papers, agencies>>

(* reject: a profile that never asked is PENDING too.                        *)
Reject(d, p) ==
  /\ Registered(p) /\ profile[p].status = "PENDING"
  /\ \E f \in IF OwnedBy(p) = {} THEN {Nobody} ELSE OwnedBy(p) :
       Begin(d, [pc |-> "revoke", of |-> p, firm |-> f, as |-> "REJECTED"])
  /\ UNCHANGED <<people, agencies>>

Suspend(d, p) ==
  /\ profile[p].status = "ACTIVE"
  /\ Begin(d, [pc |-> "revoke", of |-> p, firm |-> Nobody, as |-> "SUSPENDED"])
  /\ UNCHANGED <<people, agencies>>

(* revokeAgencyAccess: of the owner and of every linked member.              *)
Revoked_OwnerOnly(p) == {p}
Revoked(p) == {p} \union LinkedTo(p)

Revoke(d) ==
  /\ desk[d].pc = "revoke"
  /\ role' = WithoutRole(Revoked(desk[d].of))
  /\ Go(d, [desk[d] EXCEPT !.pc = "close"])
  /\ UNCHANGED <<account, profile, papers, agencies>>

Closed(p, status) ==
  [profile EXCEPT ![p] =
     [@ EXCEPT !.status = status, !.requested = FALSE, !.verified = FALSE]]

CloseSuspended(d) ==
  LET r == desk[d] IN
  /\ r.pc = "close" /\ r.as = "SUSPENDED"
  /\ profile' = Closed(r.of, "SUSPENDED")
  /\ Leave(d)
  /\ UNCHANGED <<account, papers, role, agencies>>

(* The rejected agency's team and memberships go, and its firm if it has no  *)
(* other member: its other rows then refer to no firm.  A firm that is gone  *)
(* already makes the transaction fail as a whole.                            *)
Left(p, f) ==
  [pair \in Person \X Firm |->
     IF pair[1] = p \/ pair[2] = f THEN "NONE" ELSE membership[pair]]
Unfirmed(p, f) ==
  [pair \in Person \X Person |->
     IF pair[1] = p THEN NoMember
     ELSE IF f # Nobody /\ team[pair].firm = f THEN [team[pair] EXCEPT !.firm = Nobody]
     ELSE team[pair]]
Others_None(p, f) == {}
Others(p, f) == {q \in Person \ {p} : membership[<<q, f>>] # "NONE"}

CloseRejected(d) ==
  LET r == desk[d]
      dropped == IF r.firm # Nobody /\ Others(r.of, r.firm) = {} THEN r.firm ELSE Nobody
  IN
  /\ r.pc = "close" /\ r.as = "REJECTED"
  /\ IF dropped # Nobody /\ firm[dropped] = "GONE"
     THEN UNCHANGED <<profile, agencies>>
     ELSE /\ profile' = Closed(r.of, "REJECTED")
          /\ membership' = Left(r.of, dropped)
          /\ team' = Unfirmed(r.of, dropped)
          /\ firm' = [f \in Firm |-> IF f = dropped THEN "GONE" ELSE firm[f]]
  /\ Leave(d)
  /\ UNCHANGED <<account, papers, role>>

-----------------------------------------------------------------------------
(* The team of an approved agency                                            *)

AddMember(d, a, m) ==
  /\ MayManage(a) /\ m # a /\ ~HasAccount(m)
  /\ ~(team[<<a, m>>].exists /\ team[<<a, m>>].active)
  /\ \E f \in OwnedBy(a) :
       Begin(d, [pc |-> "invite", of |-> a, member |-> m, firm |-> f,
                 existed |-> team[<<a, m>>].exists])
  /\ UNCHANGED <<people, agencies>>

(* The row that was there is made new, or one is; either fails if the row has *)
(* come or gone meanwhile.                                                    *)
Invite(d) ==
  LET r == desk[d]
      row == <<r.of, r.member>>
      ok == team[row].exists = r.existed
  IN
  /\ r.pc = "invite"
  /\ team' = IF ~ok THEN team
             ELSE [team EXCEPT ![row] =
               InvitedBy(IF r.existed THEN team[row].firm ELSE r.firm)]
  /\ Leave(d)
  /\ UNCHANGED <<people, firm, membership>>

Deactivate(d, a, m) ==
  /\ MayManage(a) /\ team[<<a, m>>].exists /\ team[<<a, m>>].active
  /\ Begin(d, [pc |-> "letGo", of |-> a, member |-> m, linked |-> team[<<a, m>>].linked])
  /\ UNCHANGED <<people, agencies>>

Switched_Suspended(m, on) ==
  [account EXCEPT ![m] = IF on THEN "ACTIVE" ELSE "SUSPENDED"]
Switched(m, on) ==
  [account EXCEPT ![m] = IF @ = "DELETED" THEN @ ELSE IF on THEN "ACTIVE" ELSE "INACTIVE"]

(* One transaction for the member and the account, another for the role.     *)
LetGo(d) ==
  LET r == desk[d]
      row == <<r.of, r.member>>
  IN
  /\ r.pc = "letGo"
  /\ IF ~team[row].exists THEN UNCHANGED <<team, account>> /\ Leave(d)
     ELSE /\ team' = [team EXCEPT ![row].active = FALSE]
          /\ account' = IF r.linked THEN Switched(r.member, FALSE) ELSE account
          /\ IF r.linked THEN Go(d, [r EXCEPT !.pc = "takeRole"]) ELSE Leave(d)
  /\ UNCHANGED <<profile, papers, role, firm, membership>>
TakeRole(d) ==
  /\ desk[d].pc = "takeRole"
  /\ role' = WithoutRole({desk[d].member})
  /\ Leave(d)
  /\ UNCHANGED <<account, profile, papers, agencies>>

Activate(d, a, m) ==
  /\ MayManage(a) /\ team[<<a, m>>].exists /\ ~team[<<a, m>>].active
  /\ Begin(d, [pc |-> "bringBack", of |-> a, member |-> m,
               linked |-> team[<<a, m>>].linked])
  /\ UNCHANGED <<people, agencies>>

BringBack(d) ==
  LET r == desk[d]
      row == <<r.of, r.member>>
  IN
  /\ r.pc = "bringBack"
  /\ IF ~team[row].exists THEN UNCHANGED team /\ Leave(d)
     ELSE /\ team' = [team EXCEPT ![row].active = TRUE]
          /\ IF r.linked THEN Go(d, [r EXCEPT !.pc = "switchOn"]) ELSE Leave(d)
  /\ UNCHANGED <<people, firm, membership>>
SwitchOn(d) ==
  LET m == desk[d].member IN
  /\ desk[d].pc = "switchOn"
  /\ account' = Switched(m, TRUE)
  /\ role' = WithRole({m})
  /\ Leave(d)
  /\ UNCHANGED <<profile, papers, agencies>>

RemoveMember(d, a, m) ==
  /\ MayManage(a) /\ team[<<a, m>>].exists /\ ~team[<<a, m>>].linked
  /\ Begin(d, [pc |-> "remove", of |-> a, member |-> m])
  /\ UNCHANGED <<people, agencies>>
Remove(d) ==
  /\ desk[d].pc = "remove"
  /\ team' = [team EXCEPT ![<<desk[d].of, desk[d].member>>] = NoMember]
  /\ Leave(d)
  /\ UNCHANGED <<people, firm, membership>>

-----------------------------------------------------------------------------
(* Accounts                                                                  *)

(* register, and googleLogin of somebody new: the user with a profile.       *)
Register(d, m) ==
  /\ account[m] = "ABSENT"
  /\ account' = [account EXCEPT ![m] = "ACTIVE"]
  /\ Begin(d, [pc |-> "lookUp", member |-> m])
  /\ UNCHANGED <<profile, papers, role, agencies>>

(* googleLogin of somebody known looks for a team as well.                   *)
GoogleLogin(d, m) ==
  /\ HasAccount(m)
  /\ Begin(d, [pc |-> "lookUp", member |-> m])
  /\ UNCHANGED <<people, agencies>>

(* linkAgencyTeamMemberOnRegister: one of the teams that invite the address. *)
LookUp(d) ==
  LET m == desk[d].member
      inviting == {a \in Person : team[<<a, m>>].exists /\ team[<<a, m>>].active
                                    /\ ~team[<<a, m>>].linked}
  IN
  /\ desk[d].pc = "lookUp"
  /\ IF inviting = {} THEN Leave(d)
     ELSE \E a \in inviting :
            Go(d, [pc |-> "join", of |-> a, member |-> m, approved |-> Approved(a),
                   firm |-> team[<<a, m>>].firm])
  /\ UNCHANGED <<people, agencies>>

(* A user is in one team only, the row and the firm must still be there: else *)
(* the transaction fails, and the registration or login with it.              *)
Earns_Always(r) == TRUE
Earns(r) == r.approved

Join(d) ==
  LET r == desk[d]
      m == r.member
      row == <<r.of, m>>
      ok == /\ team[row].exists
            /\ \A a \in Person \ {r.of} : ~team[<<a, m>>].linked
            /\ r.firm # Nobody => r.firm \in Firms
  IN
  /\ r.pc = "join"
  /\ IF ~ok THEN UNCHANGED <<team, membership, role>>
     ELSE /\ team' = [team EXCEPT ![row].linked = TRUE]
          /\ membership' =
               IF r.firm = Nobody THEN membership
               ELSE [membership EXCEPT ![<<m, r.firm>>] = IF @ = "NONE" THEN "MEMBER" ELSE @]
          /\ role' = IF Earns(r) THEN WithRole({m}) ELSE role
  /\ Leave(d)
  /\ UNCHANGED <<account, profile, papers, firm>>

(* Staff: assignRole and removeRole, PATCH and DELETE of a user, and PATCH of *)
(* a profile, whose status may be written like any other field.               *)
AssignRole(p) ==
  /\ HasAccount(p)
  /\ role' = [role EXCEPT ![p] = "ASSIGNED"]
  /\ UNCHANGED <<account, profile, papers, agencies, desk, irregular>>
RemoveRole(p) ==
  /\ HasAccount(p) /\ role[p] # "NONE"
  /\ role' = [role EXCEPT ![p] = "NONE"]
  /\ UNCHANGED <<account, profile, papers, agencies, desk, irregular>>
SwitchAccount(p, on) ==
  /\ HasAccount(p)
  /\ account' = Switched(p, on)
  /\ UNCHANGED <<profile, papers, role, agencies, desk, irregular>>
DeleteAccount(p) ==
  /\ HasAccount(p)
  /\ account' = [account EXCEPT ![p] = "DELETED"]
  /\ UNCHANGED <<profile, papers, role, agencies, desk, irregular>>
PatchStatus(p, status) ==
  /\ Registered(p)
  /\ profile' = [profile EXCEPT ![p].status = status]
  /\ irregular' = TRUE
  /\ UNCHANGED <<account, papers, role, agencies, desk>>

(* The process dies, or a database call of the request fails.                *)
Drop(d) ==
  /\ desk[d] # Clear
  /\ desk' = [desk EXCEPT ![d] = Clear]
  /\ irregular' = TRUE
  /\ UNCHANGED <<people, agencies>>

-----------------------------------------------------------------------------
Applies(d, p) ==
  \/ \E tax \in TaxId :
       \/ Request(d, p, "INDIVIDUAL", tax, {})
       \/ \E invited \in SUBSET Person : Request(d, p, "COMPANY", tax, invited)
  \/ Verify(d, p)
  \/ Reject(d, p)
  \/ Suspend(d, p)
  \/ Register(d, p)
  \/ GoogleLogin(d, p)

Manages(d, a, m) ==
  AddMember(d, a, m) \/ Deactivate(d, a, m) \/ Activate(d, a, m) \/ RemoveMember(d, a, m)

Proceeds(d) ==
  \/ Claim(d) \/ FormTeam(d)
  \/ Approve(d) \/ Grant(d)
  \/ Revoke(d) \/ CloseSuspended(d) \/ CloseRejected(d)
  \/ Invite(d) \/ LetGo(d) \/ TakeRole(d) \/ BringBack(d) \/ SwitchOn(d) \/ Remove(d)
  \/ LookUp(d) \/ Join(d)
  \/ Drop(d)

Staff(p) ==
  \/ AssignRole(p) \/ RemoveRole(p) \/ DeleteAccount(p)
  \/ \E on \in BOOLEAN : SwitchAccount(p, on)
  \/ \E status \in Status : PatchStatus(p, status)

OnboardingNext ==
  \/ \E d \in Desk : \/ Proceeds(d)
                     \/ \E p \in Person : \/ Applies(d, p)
                                          \/ \E m \in Person : Manages(d, p, m)
  \/ \E p \in Person : \/ Staff(p)
                       \/ \E kind \in Kind : ConfirmPapers(p, kind)

OnboardingSpec == OnboardingInit /\ [][OnboardingNext]_onboardingVars

-----------------------------------------------------------------------------
(* Properties                                                                *)

AllClear == \A d \in Desk : desk[d] = Clear

(* Whoever holds the role without staff having assigned it has earned it: by  *)
(* a profile that is ACTIVE, or as an active member of the team of one.  The  *)
(* role is granted and taken in eight places, for owners and for members.     *)
RoleIsEarned ==
  ~irregular /\ AllClear =>
    \A p \in Person : role[p] = "GRANTED" /\ HasAccount(p) =>
      \/ profile[p].status = "ACTIVE"
      \/ \E a \in Person :
           team[<<a, p>>].linked /\ team[<<a, p>>].active /\ profile[a].status = "ACTIVE"

(* Whoever is verified has the documents of the kind they are, although the   *)
(* review reads them before it approves, a review may be decided twice, and   *)
(* the kind may change from one request to the next                           *)
(* (professionals.service.ts:484-501, 608-661).                               *)
VerifiedHasPapers ==
  \A p \in Person : profile[p].verified => profile[p].kind \in papers[p]

(* A request under review is not replaced by another, however many are sent   *)
(* at once (professionals.service.ts:484-501).                                *)
ReviewNotReplaced ==
  [][\A p \in Person :
       profile[p].status = "PENDING" /\ profile[p].requested =>
         profile'[p].kind = profile[p].kind]_onboardingVars

(* An approved agency owns a firm that exists, the firm being shared by all   *)
(* that gave its tax identifier and deleted when the last one is rejected.    *)
AgencyOwnsFirm ==
  ~irregular /\ AllClear => \A a \in Person : Approved(a) => OwnedBy(a) # {}

(* Being an ambassador, verified, and an agency with its firm, are each backed *)
(* by what they stand for, whatever became of the others.                     *)
StandingIsBacked == RoleIsEarned /\ VerifiedHasPapers /\ AgencyOwnsFirm
=============================================================================
