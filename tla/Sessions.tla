--------------------------------- MODULE Sessions ---------------------------------
(***************************************************************************)
(* Logins, refresh tokens and their rotation, and the tickets mailed to    *)
(* verify an address or reset a password.                                  *)
(*                                                                         *)
(* Sources: auth.service.ts, token.service.ts, jwt.strategy.ts; the places *)
(* of agency-team.service.ts and users.service.ts that end the sessions of *)
(* a user.  A request runs in steps, others in between.  A session stands  *)
(* for its refresh token, which only its holder knows; a password for how  *)
(* often it has been reset.                                                *)
(***************************************************************************)
EXTENDS Integers, FiniteSets

CONSTANTS
  Client,     \* concurrent requests
  User,       \* users
  Session,    \* identifiers of Session rows
  Ticket,     \* identifiers of VerificationToken rows
  MaxResets   \* bound on the resets of a password

ASSUME ResetsBounded == MaxResets \in Nat
(* Users, logins and tickets are marked in one set when they are raced for.  *)
ASSUME IdsDiffer == User \intersect (Session \union Ticket) = {}

VARIABLES
  user,     \* the users table
  session,  \* the sessions table
  ticket,   \* the verification_tokens table
  client,   \* what each request is doing and what it has read
  letGo,    \* users an agency has let go and nobody has switched on since
  raced     \* logins and tickets that two requests used at once, and users whose
            \* sessions were not all ended: one was being opened, or the request died

sessionVars == <<user, session, ticket, client, letGo, raced>>

-----------------------------------------------------------------------------
Password == 0..MaxResets
ByGoogle == MaxResets + 1
Key == 0..ByGoogle

UserRow == [state : {"ABSENT", "ACTIVE", "INACTIVE", "DELETED"}, verified : BOOLEAN,
            password : Password]

(* line: the login this session descends from by refreshing; key: what that   *)
(* login was made with.                                                       *)
SessionRow == [used : BOOLEAN, of : User, live : BOOLEAN, line : Session, key : Key]

TicketRow == [state : {"UNUSED", "OPEN", "EXPIRED", "GONE"}, of : User,
              type : {"EMAIL_VERIFICATION", "PASSWORD_RESET"}, uses : 0..2]

Ready == [pc |-> "idle"]
ClientState ==
  {Ready}
    \union [pc : {"open"}, of : User, key : Key]
    \union [pc : {"rotate", "renew"}, from : Session]
    \union [pc : {"endAll"}, of : User]
    \union [pc : {"replace", "mail"}, of : User,
            type : {"EMAIL_VERIFICATION", "PASSWORD_RESET"}]
    \union [pc : {"verify", "reset"}, ticket : Ticket]

SessionsTypeOK ==
  /\ user \in [User -> UserRow]
  /\ session \in [Session -> SessionRow]
  /\ ticket \in [Ticket -> TicketRow]
  /\ client \in [Client -> ClientState]
  /\ letGo \subseteq User
  /\ raced \subseteq Session \union Ticket \union User

SessionsInit ==
  /\ user = [u \in User |-> [state |-> "ABSENT", verified |-> FALSE, password |-> 0]]
  /\ \E u \in User :
       /\ session = [s \in Session |->
            [used |-> FALSE, of |-> u, live |-> FALSE, line |-> s, key |-> 0]]
       /\ ticket = [t \in Ticket |->
            [state |-> "UNUSED", of |-> u, type |-> "EMAIL_VERIFICATION", uses |-> 0]]
  /\ client = [c \in Client |-> Ready]
  /\ letGo = {}
  /\ raced = {}

-----------------------------------------------------------------------------
Known(u) == user[u].state \in {"ACTIVE", "INACTIVE"}
Live(u) == {s \in Session : session[s].used /\ session[s].live /\ session[s].of = u}

Goes(c, state) == client' = [client EXCEPT ![c] = state] /\ UNCHANGED raced
Starts(c, state) == client[c] = Ready /\ Goes(c, state)
Ends(c) == Goes(c, Ready)

(* The requests but c that are about to open a session of u.                 *)
OpeningFor(c, u) ==
  {x \in Client \ {c} :
     \/ client[x].pc = "open" /\ client[x].of = u
     \/ client[x].pc \in {"rotate", "renew"} /\ session[client[x].from].of = u}

(* createSession                                                             *)
Opened(s, u, line, key) ==
  [session EXCEPT ![s] =
     [used |-> TRUE, of |-> u, live |-> TRUE, line |-> line, key |-> key]]
Fresh == {s \in Session : ~session[s].used}

(* revokeAllUserSessions: whatever was live is not any more.                 *)
AllEnded_Logins(u) ==
  [s \in Session |->
     IF s \in Live(u) /\ session[s].line = s THEN [session[s] EXCEPT !.live = FALSE]
     ELSE session[s]]
AllEnded(u) ==
  [s \in Session |->
     IF s \in Live(u) THEN [session[s] EXCEPT !.live = FALSE] ELSE session[s]]

-----------------------------------------------------------------------------
(* Accounts and logins                                                       *)

(* register: the user, then a ticket by mail.                                *)
SignUp(c, u) ==
  /\ user[u].state = "ABSENT"
  /\ user' = [user EXCEPT ![u].state = "ACTIVE"]
  /\ Starts(c, [pc |-> "mail", of |-> u, type |-> "EMAIL_VERIFICATION"])
  /\ UNCHANGED <<session, ticket, letGo>>

(* login: whoever knows the password, has a verified address and is active.  *)
MayLogin(u, password) ==
  user[u].state = "ACTIVE" /\ user[u].verified /\ user[u].password = password
Login(c, u, password) ==
  /\ MayLogin(u, password)
  /\ Starts(c, [pc |-> "open", of |-> u, key |-> password])
  /\ UNCHANGED <<user, session, ticket, letGo>>

(* googleLogin: creates a verified user if there is none.                    *)
LoginByGoogle(c, u) ==
  /\ user[u].state \in {"ABSENT", "ACTIVE"}
  /\ user' = IF user[u].state = "ACTIVE" THEN user
             ELSE [user EXCEPT ![u].state = "ACTIVE", ![u].verified = TRUE]
  /\ Starts(c, [pc |-> "open", of |-> u, key |-> ByGoogle])
  /\ UNCHANGED <<session, ticket, letGo>>

Open(c) ==
  LET r == client[c] IN
  /\ r.pc = "open"
  /\ \E s \in Fresh : session' = Opened(s, r.of, s, r.key)
  /\ Ends(c)
  /\ UNCHANGED <<user, ticket, letGo>>

(* logout, by whoever the guard lets in.                                     *)
Logout(s) ==
  /\ session[s].used /\ user[session[s].of].state = "ACTIVE"
  /\ session' = [session EXCEPT ![s].live = FALSE]
  /\ UNCHANGED <<user, ticket, client, letGo, raced>>

(* A session expires: like a revoked one, it is no good any more.            *)
ExpireSession(s) ==
  /\ session[s].used /\ session[s].live
  /\ session' = [session EXCEPT ![s].live = FALSE]
  /\ UNCHANGED <<user, ticket, client, letGo, raced>>

-----------------------------------------------------------------------------
(* rotateRefreshToken: a token that is no good any more ends every session of *)
(* its user; a good one is replaced.                                          *)
Refresh(c, s) ==
  /\ session[s].used
  /\ client[c] = Ready
  /\ IF session[s].live
     THEN /\ client' = [client EXCEPT ![c] = [pc |-> "rotate", from |-> s]]
          /\ raced' = IF \E x \in Client : client[x] = [pc |-> "rotate", from |-> s]
                      THEN raced \union {session[s].line} ELSE raced
     ELSE Starts(c, [pc |-> "endAll", of |-> session[s].of])
  /\ UNCHANGED <<user, session, ticket, letGo>>

Retired_Not(s) == session
Retired(s) == [session EXCEPT ![s].live = FALSE]

Rotate(c) ==
  /\ client[c].pc = "rotate"
  /\ session' = Retired(client[c].from)
  /\ Goes(c, [client[c] EXCEPT !.pc = "renew"])
  /\ UNCHANGED <<user, ticket, letGo>>

(* The new session is there before anybody looks whether its user still may.  *)
Renew(c) ==
  LET old == session[client[c].from] IN
  /\ client[c].pc = "renew"
  /\ \E s \in Fresh : session' = Opened(s, old.of, old.line, old.key)
  /\ Ends(c)
  /\ UNCHANGED <<user, ticket, letGo>>

EndAll(c) ==
  /\ client[c].pc = "endAll"
  /\ session' = AllEnded(client[c].of)
  /\ client' = [client EXCEPT ![c] = Ready]
  /\ raced' = IF OpeningFor(c, client[c].of) # {} THEN raced \union {client[c].of}
              ELSE raced \ {client[c].of}
  /\ UNCHANGED <<user, ticket, letGo>>

-----------------------------------------------------------------------------
(* Tickets                                                                   *)

(* createVerificationToken                                                   *)
Mail(c) ==
  LET r == client[c] IN
  /\ r.pc = "mail"
  /\ \E t \in Ticket :
       /\ ticket[t].state = "UNUSED"
       /\ ticket' = [ticket EXCEPT ![t] =
            [state |-> "OPEN", of |-> r.of, type |-> r.type, uses |-> 0]]
  /\ Ends(c)
  /\ UNCHANGED <<user, session, letGo>>

(* resendVerification: the tickets that were not used are deleted first.     *)
Resend(c, u) ==
  /\ Known(u) /\ ~user[u].verified
  /\ Starts(c, [pc |-> "replace", of |-> u, type |-> "EMAIL_VERIFICATION"])
  /\ UNCHANGED <<user, session, ticket, letGo>>
Replace(c) ==
  LET r == client[c] IN
  /\ r.pc = "replace"
  /\ ticket' = [t \in Ticket |->
       IF /\ ticket[t].of = r.of /\ ticket[t].type = r.type
          /\ ticket[t].uses = 0 /\ ticket[t].state # "UNUSED"
       THEN [ticket[t] EXCEPT !.state = "GONE"] ELSE ticket[t]]
  /\ Goes(c, [r EXCEPT !.pc = "mail"])
  /\ UNCHANGED <<user, session, letGo>>

ForgotPassword(c, u) ==
  /\ Known(u)
  /\ Starts(c, [pc |-> "mail", of |-> u, type |-> "PASSWORD_RESET"])
  /\ UNCHANGED <<user, session, ticket, letGo>>

Good_Unexpired(t, type) == ticket[t].state = "OPEN" /\ ticket[t].type = type
Good(t, type) ==
  ticket[t].state = "OPEN" /\ ticket[t].type = type /\ ticket[t].uses = 0

Used(t) == [ticket EXCEPT ![t].uses = IF @ < 2 THEN @ + 1 ELSE @]

VerifyEmail(c, t) ==
  /\ Good(t, "EMAIL_VERIFICATION")
  /\ client[c] = Ready
  /\ client' = [client EXCEPT ![c] = [pc |-> "verify", ticket |-> t]]
  /\ raced' = IF \E x \in Client : client[x] = [pc |-> "verify", ticket |-> t]
              THEN raced \union {t} ELSE raced
  /\ UNCHANGED <<user, session, ticket, letGo>>
Confirm(c) ==
  LET t == client[c].ticket IN
  /\ client[c].pc = "verify"
  /\ IF ticket[t].state = "GONE" THEN UNCHANGED <<ticket, user>>
     ELSE /\ ticket' = Used(t)
          /\ user' = [user EXCEPT ![ticket[t].of].verified = TRUE]
  /\ Ends(c)
  /\ UNCHANGED <<session, letGo>>

(* resetPassword: the ticket and the password, then every session ends.      *)
ResetPassword(c, t) ==
  /\ Good(t, "PASSWORD_RESET")
  /\ client[c] = Ready
  /\ client' = [client EXCEPT ![c] = [pc |-> "reset", ticket |-> t]]
  /\ raced' = IF \E x \in Client : client[x] = [pc |-> "reset", ticket |-> t]
              THEN raced \union {t} ELSE raced
  /\ UNCHANGED <<user, session, ticket, letGo>>
Reset(c) ==
  LET t == client[c].ticket
      u == ticket[t].of
  IN
  /\ client[c].pc = "reset"
  /\ user[u].password < MaxResets
  /\ ticket' = Used(t)
  /\ user' = [user EXCEPT ![u].password = @ + 1]
  /\ Goes(c, [pc |-> "endAll", of |-> u])
  /\ UNCHANGED <<session, letGo>>

ExpireTicket(t) ==
  /\ ticket[t].state = "OPEN"
  /\ ticket' = [ticket EXCEPT ![t].state = "EXPIRED"]
  /\ UNCHANGED <<user, session, client, letGo, raced>>

-----------------------------------------------------------------------------
(* Who ends the sessions of others: an agency that lets a member go, staff    *)
(* who change a role.  Staff who switch an account off or delete it do not.   *)
LetMemberGo(c, u) ==
  /\ Known(u)
  /\ user' = [user EXCEPT ![u].state = "INACTIVE"]
  /\ letGo' = letGo \union {u}
  /\ Starts(c, [pc |-> "endAll", of |-> u])
  /\ UNCHANGED <<session, ticket>>

ChangeRole(c, u) ==
  /\ Known(u)
  /\ Starts(c, [pc |-> "endAll", of |-> u])
  /\ UNCHANGED <<user, session, ticket, letGo>>

SwitchUser(u, on) ==
  /\ Known(u)
  /\ user' = [user EXCEPT ![u].state = IF on THEN "ACTIVE" ELSE "INACTIVE"]
  /\ letGo' = IF on THEN letGo \ {u} ELSE letGo
  /\ UNCHANGED <<session, ticket, client, raced>>
DeleteUser(u) ==
  /\ Known(u)
  /\ user' = [user EXCEPT ![u].state = "DELETED"]
  /\ UNCHANGED <<session, ticket, client, letGo, raced>>

(* The process dies, or the database does not answer.                        *)
Abort(c) ==
  /\ client[c] # Ready
  /\ client' = [client EXCEPT ![c] = Ready]
  /\ raced' = IF client[c].pc = "endAll" THEN raced \union {client[c].of} ELSE raced
  /\ UNCHANGED <<user, session, ticket, letGo>>

-----------------------------------------------------------------------------
ClientStep(c) ==
  \/ \E u \in User :
       \/ SignUp(c, u) \/ LoginByGoogle(c, u) \/ Resend(c, u) \/ ForgotPassword(c, u)
       \/ LetMemberGo(c, u) \/ ChangeRole(c, u)
       \/ \E password \in Password : Login(c, u, password)
  \/ \E s \in Session : Refresh(c, s)
  \/ \E t \in Ticket : VerifyEmail(c, t) \/ ResetPassword(c, t)
  \/ Open(c) \/ Rotate(c) \/ Renew(c) \/ EndAll(c)
  \/ Mail(c) \/ Replace(c) \/ Confirm(c) \/ Reset(c)
  \/ Abort(c)

SessionsNext ==
  \/ \E c \in Client : ClientStep(c)
  \/ \E s \in Session : Logout(s) \/ ExpireSession(s)
  \/ \E t \in Ticket : ExpireTicket(t)
  \/ \E u \in User : DeleteUser(u) \/ \E on \in BOOLEAN : SwitchUser(u, on)

SessionsSpec == SessionsInit /\ [][SessionsNext]_sessionVars

-----------------------------------------------------------------------------
(* Properties                                                                *)

(* A login has one session alive at most, however often it was refreshed and  *)
(* whatever else went on: only two refreshes with one token at once make two  *)
(* of it (token.service.ts:44-71).                                            *)
OneLivePerLogin ==
  \A s, t \in Session :
    session[s].used /\ session[t].used /\ session[s].live /\ session[t].live
      /\ session[s].line = session[t].line /\ s # t => session[s].line \in raced

(* When no request is at work, who knew only an old password has no session,  *)
(* nor has who was let go, not even one refreshed meanwhile; a session that   *)
(* was just being opened may stay, until the next time all are ended          *)
(* (auth.service.ts:270-290, agency-team.service.ts:345-362).                 *)
OldAccessEnded ==
  (\A c \in Client : client[c] = Ready) =>
    \A u \in User \ raced : \A s \in Live(u) :
      session[s].key \in {user[u].password, ByGoogle} /\ u \notin letGo

(* A ticket works once, unless two requests use it at once.                  *)
TicketUsedOnce == \A t \in Ticket \ raced : ticket[t].uses <= 1

(* What lets a person in lets them in once, and no longer than it should.     *)
AccessEnds == OneLivePerLogin /\ OldAccessEnded /\ TicketUsedOnce
=============================================================================
