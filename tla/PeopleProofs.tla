----------------------------- MODULE PeopleProofs -----------------------------
(***************************************************************************)
(* Proofs about Sessions and AmbassadorOnboarding, for any number of       *)
(* requests, users, sessions, tickets, persons and firms.                  *)
(***************************************************************************)
EXTENDS MCPeople, TLAPS

-----------------------------------------------------------------------------
(* Sessions: the inductive invariant.                                       *)

(* Somebody refreshes a session of the login l.                             *)
Holds(w, l, S) == w.pc \in {"rotate", "renew"} /\ S[w.from].line = l
LiveOf(l, S) == {s \in Session : S[s].used /\ S[s].live /\ S[s].line = l}

SessionsKnown ==
  /\ \A s \in Session : /\ session[s].live => session[s].used
                        /\ session[s].used => session[session[s].line].used
  /\ \A c \in Client : client[c].pc \in {"rotate", "renew"} =>
                         session[client[c].from].used

(* A login has one live session or one request that renews it, not both.    *)
OneHolder ==
  \A l \in Session \ raced :
    /\ \A s, t \in LiveOf(l, session) : s = t
    /\ \A c, d \in Client :
         Holds(client[c], l, session) /\ Holds(client[d], l, session) => c = d
    /\ \A c \in Client : Holds(client[c], l, session) =>
         \A s \in LiveOf(l, session) : client[c].pc = "rotate" /\ s = client[c].from

(* A request that uses a ticket read it when it was open and of its kind.   *)
Uses(w, t) == w.pc \in {"verify", "reset"} /\ w.ticket = t
TicketsKnown ==
  \A c \in Client :
    /\ client[c].pc = "verify" => /\ ticket[client[c].ticket].state # "UNUSED"
                                  /\ ticket[client[c].ticket].type = "EMAIL_VERIFICATION"
    /\ client[c].pc = "reset" => /\ ticket[client[c].ticket].state # "UNUSED"
                                 /\ ticket[client[c].ticket].type = "PASSWORD_RESET"

OneUser ==
  \A t \in Ticket \ raced :
    /\ ticket[t].uses <= 1
    /\ \A c, d \in Client : Uses(client[c], t) /\ Uses(client[d], t) => c = d
    /\ \A c \in Client : Uses(client[c], t) => ticket[t].uses = 0

(* What opens a session of u, and with which key.                           *)
Opens(w, u, S) ==
  \/ w.pc = "open" /\ w.of = u
  \/ w.pc \in {"rotate", "renew"} /\ S[w.from].of = u
KeyOf(w, S) == IF w.pc = "open" THEN w.key ELSE S[w.from].key

Ending(u) == \E c \in Client : client[c].pc = "endAll" /\ client[c].of = u

(* Until all sessions of a user are ended, whoever has one or is about to   *)
(* has it rightly.                                                          *)
Rightly ==
  \A u \in User \ raced :
    \/ Ending(u)
    \/ /\ \A s \in Live(u) : session[s].key \in {user[u].password, ByGoogle}
                               /\ u \notin letGo
       /\ \A c \in Client : Opens(client[c], u, session) =>
            KeyOf(client[c], session) \in {user[u].password, ByGoogle} /\ u \notin letGo

LetGoIsOff == \A u \in letGo : user[u].state \in {"INACTIVE", "DELETED"}

SInv ==
  /\ SessionsTypeOK
  /\ SessionsKnown
  /\ OneHolder
  /\ TicketsKnown
  /\ OneUser
  /\ Rightly
  /\ LetGoIsOff

(* What a request is, by the step it stands at.                             *)
LEMMA ClientAt ==
  ASSUME SessionsTypeOK, NEW c \in Client
  PROVE  /\ client[c] \in ClientState
         /\ client[c].pc = "open" => client[c].of \in User /\ client[c].key \in Key
         /\ client[c].pc \in {"rotate", "renew"} => client[c].from \in Session
         /\ client[c].pc = "endAll" => client[c].of \in User
         /\ client[c].pc \in {"replace", "mail"} =>
              /\ client[c].of \in User
              /\ client[c].type \in {"EMAIL_VERIFICATION", "PASSWORD_RESET"}
         /\ client[c].pc \in {"verify", "reset"} => client[c].ticket \in Ticket
<1>1. client[c] \in ClientState
  BY DEF SessionsTypeOK
<1>2. client[c].pc = "open" => client[c].of \in User /\ client[c].key \in Key
  BY <1>1 DEF ClientState, Ready
<1>3. client[c].pc \in {"rotate", "renew"} => client[c].from \in Session
  BY <1>1 DEF ClientState, Ready
<1>4. client[c].pc = "endAll" => client[c].of \in User
  BY <1>1 DEF ClientState, Ready
<1>5. client[c].pc \in {"replace", "mail"} =>
        /\ client[c].of \in User
        /\ client[c].type \in {"EMAIL_VERIFICATION", "PASSWORD_RESET"}
  BY <1>1 DEF ClientState, Ready
<1>6. client[c].pc \in {"verify", "reset"} => client[c].ticket \in Ticket
  BY <1>1 DEF ClientState, Ready
<1> QED BY <1>1, <1>2, <1>3, <1>4, <1>5, <1>6

-----------------------------------------------------------------------------
(* The parts of the invariant that a step leaves alone.                     *)

(* A step that touches no session and starts no refresh.                    *)
LEMMA SessionFrame ==
  ASSUME SInv, session' = session, raced \intersect Session \subseteq raced',
         \A d \in Client : \/ client'[d] = client[d]
                           \/ client'[d].pc \notin {"rotate", "renew"}
  PROVE  SessionsKnown' /\ OneHolder'
<1>1. SessionsKnown'
  BY DEF SInv, SessionsKnown
<1>2. OneHolder'
  <2> SUFFICES ASSUME NEW l \in Session, l \notin raced'
               PROVE  /\ \A s, t \in LiveOf(l, session') : s = t
                      /\ \A c, d \in Client :
                           Holds(client'[c], l, session') /\ Holds(client'[d], l, session')
                             => c = d
                      /\ \A c \in Client : Holds(client'[c], l, session') =>
                           \A s \in LiveOf(l, session') :
                             client'[c].pc = "rotate" /\ s = client'[c].from
    BY DEF OneHolder
  <2>1. l \in Session \ raced
    OBVIOUS
  <2>2. \A c \in Client : Holds(client'[c], l, session') =>
                            client'[c] = client[c] /\ Holds(client[c], l, session)
    BY DEF Holds
  <2>3. LiveOf(l, session') = LiveOf(l, session)
    BY DEF LiveOf
  <2>4. /\ \A s, t \in LiveOf(l, session) : s = t
        /\ \A c, d \in Client :
             Holds(client[c], l, session) /\ Holds(client[d], l, session) => c = d
        /\ \A c \in Client : Holds(client[c], l, session) =>
             \A s \in LiveOf(l, session) : client[c].pc = "rotate" /\ s = client[c].from
    BY <2>1 DEF SInv, OneHolder
  <2> QED BY <2>2, <2>3, <2>4
<1> QED BY <1>1, <1>2

(* A step that touches no ticket and starts no use of one.                  *)
LEMMA TicketFrame ==
  ASSUME SInv, ticket' = ticket, raced \intersect Ticket \subseteq raced',
         \A d \in Client : \/ client'[d] = client[d]
                           \/ client'[d].pc \notin {"verify", "reset"}
  PROVE  TicketsKnown' /\ OneUser'
<1>1. TicketsKnown'
  BY DEF SInv, TicketsKnown
<1>2. OneUser'
  <2> SUFFICES ASSUME NEW t \in Ticket, t \notin raced'
               PROVE  /\ ticket'[t].uses <= 1
                      /\ \A c, d \in Client :
                           Uses(client'[c], t) /\ Uses(client'[d], t) => c = d
                      /\ \A c \in Client : Uses(client'[c], t) => ticket'[t].uses = 0
    BY DEF OneUser
  <2>1. t \in Ticket \ raced
    OBVIOUS
  <2>2. \A c \in Client : Uses(client'[c], t) => Uses(client[c], t)
    BY DEF Uses
  <2> QED BY <2>1, <2>2 DEF SInv, OneUser
<1> QED BY <1>1, <1>2

(* A step that opens nothing, and gives nobody a new password nor lets them  *)
(* go unless their sessions are about to be ended.                          *)
LEMMA RightlyFrame ==
  ASSUME SInv, session' = session, raced \intersect User \subseteq raced',
         \A u \in User : \/ Ending(u)'
                         \/ /\ user'[u].password = user[u].password
                            /\ u \in letGo' => u \in letGo,
         \A d \in Client :
            \/ client'[d] = client[d]
            \/ /\ client'[d].pc \notin {"open", "rotate", "renew"}
               /\ client[d].pc = "endAll" => client[d].of \in raced'
  PROVE  Rightly'
<1> SUFFICES ASSUME NEW u \in User, u \notin raced', ~Ending(u)'
             PROVE  /\ \A s \in Live(u)' :
                         /\ session'[s].key \in {user'[u].password, ByGoogle}
                         /\ u \notin letGo'
                    /\ \A c \in Client : Opens(client'[c], u, session') =>
                         /\ KeyOf(client'[c], session') \in {user'[u].password, ByGoogle}
                         /\ u \notin letGo'
  BY DEF Rightly
<1>1. ~Ending(u)
  <2> SUFFICES ASSUME NEW c \in Client, client[c].pc = "endAll", client[c].of = u
               PROVE  FALSE
    BY DEF Ending
  <2>1. client'[c] = client[c]
    OBVIOUS
  <2> QED BY <2>1 DEF Ending
<1>2. /\ \A s \in Live(u) : session[s].key \in {user[u].password, ByGoogle} /\ u \notin letGo
      /\ \A c \in Client : Opens(client[c], u, session) =>
           KeyOf(client[c], session) \in {user[u].password, ByGoogle} /\ u \notin letGo
  BY <1>1 DEF SInv, Rightly
<1>3. user'[u].password = user[u].password /\ (u \in letGo' => u \in letGo)
  OBVIOUS
<1>4. Live(u)' = Live(u)
  BY DEF Live
<1>5. \A c \in Client : Opens(client'[c], u, session') =>
                          client'[c] = client[c] /\ Opens(client[c], u, session)
  BY DEF Opens
<1>6. ByGoogle' = ByGoogle
  BY DEF ByGoogle
<1> QED BY <1>2, <1>3, <1>4, <1>5, <1>6

(* The request c goes on and the others stay.                               *)
LEMMA OneMoves ==
  ASSUME SessionsTypeOK, NEW c \in Client, NEW w \in ClientState,
         client' = [client EXCEPT ![c] = w]
  PROVE  /\ client' \in [Client -> ClientState]
         /\ client'[c] = w
         /\ \A d \in Client : d # c => client'[d] = client[d]
BY DEF SessionsTypeOK

(* At first no session is used, no ticket is and no request is at work.      *)
LEMMA SInvInit == SessionsInit => SInv
<1> SUFFICES ASSUME SessionsInit PROVE SInv
  OBVIOUS
<1> PICK u \in User :
      /\ session = [s \in Session |->
            [used |-> FALSE, of |-> u, live |-> FALSE, line |-> s, key |-> 0]]
      /\ ticket = [t \in Ticket |->
            [state |-> "UNUSED", of |-> u, type |-> "EMAIL_VERIFICATION", uses |-> 0]]
  BY DEF SessionsInit
<1>1. \A c \in Client : client[c] = Ready /\ client[c].pc = "idle"
  BY DEF SessionsInit, Ready
<1>2. SessionsTypeOK
  <2>1. 0 \in Password /\ 0 \in Key
    BY ResetsBounded DEF Password, Key, ByGoogle
  <2>2. user \in [User -> UserRow]
    BY <2>1 DEF SessionsInit, UserRow
  <2>3. session \in [Session -> SessionRow]
    BY <2>1 DEF SessionRow
  <2>4. ticket \in [Ticket -> TicketRow]
    BY DEF TicketRow
  <2>5. client \in [Client -> ClientState]
    BY DEF SessionsInit, ClientState
  <2> QED BY <2>2, <2>3, <2>4, <2>5 DEF SessionsTypeOK, SessionsInit
<1>3. SessionsKnown
  BY <1>1 DEF SessionsKnown
<1>4. OneHolder
  BY <1>1 DEF OneHolder, Holds, LiveOf
<1>5. TicketsKnown
  BY <1>1 DEF TicketsKnown
<1>6. OneUser
  BY <1>1 DEF OneUser, Uses
<1>7. Rightly
  BY <1>1 DEF Rightly, Live, Opens
<1>8. LetGoIsOff
  BY DEF LetGoIsOff, SessionsInit
<1> QED BY <1>2, <1>3, <1>4, <1>5, <1>6, <1>7, <1>8 DEF SInv

(* A step to a request that mails, replaces or ends, and of the users at     *)
(* most their state and mail address.                                       *)
LEMMA QuietStep ==
  ASSUME SInv, NEW c \in Client, NEW w \in ClientState,
         client[c] = Ready,
         client' = [client EXCEPT ![c] = w],
         w.pc \in {"mail", "replace", "endAll", "verify", "reset"},
         UNCHANGED session, raced \subseteq raced',
         \A u \in User : \/ Ending(u)'
                         \/ /\ user'[u].password = user[u].password
                            /\ u \in letGo' => u \in letGo
  PROVE  /\ SessionsKnown' /\ OneHolder' /\ Rightly'
         /\ UNCHANGED ticket /\ w.pc \notin {"verify", "reset"} => TicketsKnown' /\ OneUser'
<1>1. /\ client'[c] = w
      /\ \A d \in Client : d # c => client'[d] = client[d]
  BY OneMoves DEF SInv
<1>2. \A d \in Client : \/ client'[d] = client[d]
                        \/ client'[d].pc \notin {"rotate", "renew"}
  BY <1>1
<1>3. \A d \in Client :
            \/ client'[d] = client[d]
            \/ /\ client'[d].pc \notin {"open", "rotate", "renew"}
               /\ client[d].pc = "endAll" => client[d].of \in raced'
  BY <1>1 DEF Ready
<1>4. SessionsKnown' /\ OneHolder'
  BY <1>2, SessionFrame
<1>5. Rightly'
  BY <1>3, RightlyFrame
<1>6. ASSUME UNCHANGED ticket, w.pc \notin {"verify", "reset"}
      PROVE  TicketsKnown' /\ OneUser'
  <2>1. \A d \in Client : \/ client'[d] = client[d]
                          \/ client'[d].pc \notin {"verify", "reset"}
    BY <1>1, <1>6
  <2> QED BY <2>1, <1>6, TicketFrame
<1> QED BY <1>4, <1>5, <1>6

LEMMA SignUpKeeps ==
  ASSUME SInv, NEW c \in Client, NEW u \in User, SignUp(c, u)
  PROVE  SInv'
<1> DEFINE w == [pc |-> "mail", of |-> u, type |-> "EMAIL_VERIFICATION"]
<1>1. w \in ClientState /\ w.pc = "mail"
  BY DEF ClientState
<1>2. /\ client[c] = Ready
      /\ client' = [client EXCEPT ![c] = w]
      /\ user[u].state = "ABSENT"
      /\ user' = [user EXCEPT ![u].state = "ACTIVE"]
      /\ UNCHANGED <<session, ticket, letGo, raced>>
  BY DEF SignUp, Starts, Goes
<1> HIDE DEF w
<1>3. user' \in [User -> UserRow] /\ \A x \in User : user'[x].password = user[x].password
  BY <1>2 DEF SInv, SessionsTypeOK, UserRow
<1>4. SessionsTypeOK'
  BY <1>1, <1>2, <1>3, OneMoves DEF SInv, SessionsTypeOK, Key, ByGoogle
<1>5. SessionsKnown' /\ OneHolder' /\ Rightly' /\ TicketsKnown' /\ OneUser'
  BY <1>1, <1>2, <1>3, QuietStep
<1>6. LetGoIsOff'
  BY <1>2 DEF SInv, LetGoIsOff, SessionsTypeOK, UserRow
<1> QED BY <1>4, <1>5, <1>6 DEF SInv

LEMMA ResendKeeps ==
  ASSUME SInv, NEW c \in Client, NEW u \in User,
         \/ Resend(c, u) \/ ForgotPassword(c, u) \/ ChangeRole(c, u)
  PROVE  SInv'
<1>1. PICK w \in ClientState :
        /\ w.pc \in {"mail", "replace", "endAll"}
        /\ client[c] = Ready
        /\ client' = [client EXCEPT ![c] = w]
  BY DEF Resend, ForgotPassword, ChangeRole, Starts, Goes, ClientState
<1>2. UNCHANGED <<user, session, ticket, letGo, raced>>
  BY DEF Resend, ForgotPassword, ChangeRole, Starts, Goes
<1>3. SessionsTypeOK'
  BY <1>1, <1>2, OneMoves DEF SInv, SessionsTypeOK
<1>4. SessionsKnown' /\ OneHolder' /\ Rightly' /\ TicketsKnown' /\ OneUser'
  BY <1>1, <1>2, QuietStep
<1>5. LetGoIsOff'
  BY <1>2 DEF SInv, LetGoIsOff
<1> QED BY <1>3, <1>4, <1>5 DEF SInv

LEMMA LetMemberGoKeeps ==
  ASSUME SInv, NEW c \in Client, NEW u \in User, LetMemberGo(c, u)
  PROVE  SInv'
<1> DEFINE w == [pc |-> "endAll", of |-> u]
<1>1. w \in ClientState /\ w.pc = "endAll" /\ w.of = u
  BY DEF ClientState
<1>2. /\ client[c] = Ready
      /\ client' = [client EXCEPT ![c] = w]
      /\ user' = [user EXCEPT ![u].state = "INACTIVE"]
      /\ letGo' = letGo \union {u}
      /\ UNCHANGED <<session, ticket, raced>>
  BY DEF LetMemberGo, Starts, Goes
<1> HIDE DEF w
<1>3. user' \in [User -> UserRow] /\ \A x \in User : user'[x].password = user[x].password
  BY <1>2 DEF SInv, SessionsTypeOK, UserRow
<1>4. SessionsTypeOK'
  BY <1>1, <1>2, <1>3, OneMoves DEF SInv, SessionsTypeOK
<1>5. Ending(u)'
  BY <1>1, <1>2, OneMoves DEF SInv, Ending
<1>6. \A x \in User : \/ Ending(x)'
                      \/ /\ user'[x].password = user[x].password
                         /\ x \in letGo' => x \in letGo
  BY <1>2, <1>3, <1>5
<1>7. SessionsKnown' /\ OneHolder' /\ Rightly' /\ TicketsKnown' /\ OneUser'
  BY <1>1, <1>2, <1>6, QuietStep
<1>8. LetGoIsOff'
  BY <1>2 DEF SInv, LetGoIsOff, SessionsTypeOK, UserRow
<1> QED BY <1>4, <1>7, <1>8 DEF SInv

(* Two requests with one ticket at once are a race.                         *)
LEMMA UseStarts ==
  ASSUME SInv, NEW c \in Client, NEW t \in Ticket, NEW w \in ClientState,
         w.pc \in {"verify", "reset"}, w.ticket = t,
         ticket[t].state = "OPEN", ticket[t].uses = 0,
         ticket[t].type = IF w.pc = "verify" THEN "EMAIL_VERIFICATION" ELSE "PASSWORD_RESET",
         client[c] = Ready,
         client' = [client EXCEPT ![c] = w],
         raced' = IF \E x \in Client : client[x] = w THEN raced \union {t} ELSE raced,
         UNCHANGED <<user, session, ticket, letGo>>
  PROVE  SInv'
<1>1. /\ client' \in [Client -> ClientState]
      /\ client'[c] = w
      /\ \A d \in Client : d # c => client'[d] = client[d]
  BY OneMoves DEF SInv
<1>2. SessionsTypeOK'
  BY <1>1 DEF SInv, SessionsTypeOK
<1>3. SessionsKnown' /\ OneHolder' /\ Rightly'
  BY QuietStep
<1>4. TicketsKnown'
  BY <1>1 DEF SInv, TicketsKnown
<1>5. t \notin raced' => \A x \in Client : ~Uses(client[x], t)
  <2> SUFFICES ASSUME NEW x \in Client, Uses(client[x], t) PROVE client[x] = w
    OBVIOUS
  <2>1. client[x].pc = w.pc
    BY DEF SInv, TicketsKnown, Uses
  <2>2. client[x] \in ClientState /\ w \in ClientState
    BY DEF SInv, SessionsTypeOK
  <2>3. /\ client[x] = [pc |-> client[x].pc, ticket |-> client[x].ticket]
        /\ w = [pc |-> w.pc, ticket |-> w.ticket]
    BY <2>1, <2>2 DEF ClientState, Ready
  <2> QED BY <2>1, <2>3 DEF Uses
<1>6. OneUser'
  <2> SUFFICES ASSUME NEW y \in Ticket, y \notin raced'
               PROVE  /\ ticket'[y].uses <= 1
                      /\ \A a, d \in Client :
                           Uses(client'[a], y) /\ Uses(client'[d], y) => a = d
                      /\ \A d \in Client : Uses(client'[d], y) => ticket'[y].uses = 0
    BY DEF OneUser
  <2>1. y \notin raced
    OBVIOUS
  <2>2. /\ ticket[y].uses <= 1
        /\ \A a, d \in Client : Uses(client[a], y) /\ Uses(client[d], y) => a = d
        /\ \A d \in Client : Uses(client[d], y) => ticket[y].uses = 0
    BY <2>1 DEF SInv, OneUser
  <2>3. CASE y # t
    <3>1. ~Uses(client'[c], y)
      BY <1>1, <2>3 DEF Uses
    <3> QED BY <1>1, <2>2, <3>1
  <2>4. CASE y = t
    <3>1. \A x \in Client : Uses(client'[x], y) => x = c
      BY <1>1, <1>5, <2>4
    <3> QED BY <2>2, <2>4, <3>1
  <2> QED BY <2>3, <2>4
<1>7. LetGoIsOff'
  BY DEF SInv, LetGoIsOff
<1> QED BY <1>2, <1>3, <1>4, <1>6, <1>7 DEF SInv

LEMMA VerifyEmailKeeps ==
  ASSUME SInv, NEW c \in Client, NEW t \in Ticket, VerifyEmail(c, t)
  PROVE  SInv'
<1> DEFINE w == [pc |-> "verify", ticket |-> t]
<1>1. w \in ClientState /\ w.pc = "verify" /\ w.ticket = t
  BY DEF ClientState
<1>2. /\ client[c] = Ready
      /\ client' = [client EXCEPT ![c] = w]
      /\ raced' = IF \E x \in Client : client[x] = w THEN raced \union {t} ELSE raced
      /\ UNCHANGED <<user, session, ticket, letGo>>
      /\ ticket[t].state = "OPEN" /\ ticket[t].uses = 0
      /\ ticket[t].type = "EMAIL_VERIFICATION"
  BY DEF VerifyEmail, Good
<1> HIDE DEF w
<1> QED BY <1>1, <1>2, UseStarts

LEMMA ResetPasswordKeeps ==
  ASSUME SInv, NEW c \in Client, NEW t \in Ticket, ResetPassword(c, t)
  PROVE  SInv'
<1> DEFINE w == [pc |-> "reset", ticket |-> t]
<1>1. w \in ClientState /\ w.pc = "reset" /\ w.ticket = t
  BY DEF ClientState
<1>2. /\ client[c] = Ready
      /\ client' = [client EXCEPT ![c] = w]
      /\ raced' = IF \E x \in Client : client[x] = w THEN raced \union {t} ELSE raced
      /\ UNCHANGED <<user, session, ticket, letGo>>
      /\ ticket[t].state = "OPEN" /\ ticket[t].uses = 0
      /\ ticket[t].type = "PASSWORD_RESET"
  BY DEF ResetPassword, Good
<1> HIDE DEF w
<1> QED BY <1>1, <1>2, UseStarts

(* A request that is at a ticket leaves it, or one goes on to end sessions.  *)
LEMMA MailKeeps ==
  ASSUME SInv, NEW c \in Client, Mail(c)
  PROVE  SInv'
<1>1. PICK t \in Ticket :
        /\ ticket[t].state = "UNUSED"
        /\ ticket' = [ticket EXCEPT ![t] =
             [state |-> "OPEN", of |-> client[c].of, type |-> client[c].type, uses |-> 0]]
  BY DEF Mail
<1>2. /\ client[c].pc = "mail"
      /\ client' = [client EXCEPT ![c] = Ready]
      /\ UNCHANGED <<user, session, letGo, raced>>
  BY DEF Mail, Ends, Goes
<1>3. Ready \in ClientState /\ Ready.pc = "idle"
  BY DEF ClientState, Ready
<1>4. /\ client' \in [Client -> ClientState]
      /\ client'[c] = Ready
      /\ \A d \in Client : d # c => client'[d] = client[d]
  BY <1>2, <1>3, OneMoves DEF SInv
<1>5. client[c].of \in User /\ client[c].type \in {"EMAIL_VERIFICATION", "PASSWORD_RESET"}
  BY <1>2, ClientAt DEF SInv
<1>6. SessionsTypeOK'
  <2>1. ticket' \in [Ticket -> TicketRow]
    BY <1>1, <1>5 DEF SInv, SessionsTypeOK, TicketRow
  <2> QED BY <1>2, <1>4, <2>1 DEF SInv, SessionsTypeOK
<1>7. SessionsKnown' /\ OneHolder'
  BY <1>2, <1>3, <1>4, SessionFrame
<1>8. Rightly'
  BY <1>2, <1>3, <1>4, RightlyFrame
<1>9. \A x \in Client : client[x].pc \in {"verify", "reset"} => client[x].ticket # t
  BY <1>1 DEF SInv, TicketsKnown
<1>10. TicketsKnown'
  <2> SUFFICES ASSUME NEW x \in Client, client'[x].pc \in {"verify", "reset"}
               PROVE  /\ ticket'[client'[x].ticket] = ticket[client[x].ticket]
                      /\ client'[x] = client[x]
    BY DEF SInv, TicketsKnown
  <2>1. client'[x] = client[x]
    BY <1>3, <1>4
  <2>2. client[x].ticket \in Ticket \ {t}
    BY <2>1, <1>9, ClientAt DEF SInv
  <2> QED BY <2>1, <2>2, <1>1 DEF SInv, SessionsTypeOK
<1>11. OneUser'
  <2> SUFFICES ASSUME NEW y \in Ticket, y \notin raced'
               PROVE  /\ ticket'[y].uses <= 1
                      /\ \A a, d \in Client :
                           Uses(client'[a], y) /\ Uses(client'[d], y) => a = d
                      /\ \A d \in Client : Uses(client'[d], y) => ticket'[y].uses = 0
    BY DEF OneUser
  <2>1. /\ ticket[y].uses <= 1
        /\ \A a, d \in Client : Uses(client[a], y) /\ Uses(client[d], y) => a = d
        /\ \A d \in Client : Uses(client[d], y) => ticket[y].uses = 0
    BY <1>2 DEF SInv, OneUser
  <2>2. ticket'[y] = ticket[y] \/ ticket'[y].uses = 0
    BY <1>1 DEF SInv, SessionsTypeOK
  <2>3. \A d \in Client : Uses(client'[d], y) => Uses(client[d], y)
    BY <1>3, <1>4 DEF Uses
  <2> QED BY <2>1, <2>2, <2>3
<1>12. LetGoIsOff'
  BY <1>2 DEF SInv, LetGoIsOff
<1> QED BY <1>6, <1>7, <1>8, <1>10, <1>11, <1>12 DEF SInv

(* Tickets change their state only, to another one they have left UNUSED for. *)
LEMMA TicketStates ==
  ASSUME SInv, ticket' \in [Ticket -> TicketRow], raced \intersect Ticket \subseteq raced',
         \A t \in Ticket : /\ ticket'[t].of = ticket[t].of
                           /\ ticket'[t].type = ticket[t].type
                           /\ ticket'[t].uses = ticket[t].uses
                           /\ ticket'[t].state = "UNUSED" => ticket[t].state = "UNUSED",
         \A d \in Client : \/ client'[d] = client[d]
                           \/ client'[d].pc \notin {"verify", "reset"}
  PROVE  TicketsKnown' /\ OneUser'
<1>1. \A d \in Client : client[d].pc \in {"verify", "reset"} => client[d].ticket \in Ticket
  BY ClientAt DEF SInv
<1>2. TicketsKnown'
  BY <1>1 DEF SInv, TicketsKnown
<1>3. \A d \in Client, t \in Ticket : Uses(client'[d], t) => Uses(client[d], t)
  BY DEF Uses
<1>4. OneUser'
  BY <1>3 DEF SInv, OneUser
<1> QED BY <1>2, <1>4

LEMMA ReplaceKeeps ==
  ASSUME SInv, NEW c \in Client, Replace(c)
  PROVE  SInv'
<1> DEFINE w == [client[c] EXCEPT !.pc = "mail"]
<1>1. /\ client[c].pc = "replace"
      /\ client' = [client EXCEPT ![c] = w]
      /\ UNCHANGED <<user, session, letGo, raced>>
  BY DEF Replace, Goes
<1>2. w \in ClientState /\ w.pc = "mail"
  <2>1. client[c] \in [pc : {"replace", "mail"}, of : User,
                       type : {"EMAIL_VERIFICATION", "PASSWORD_RESET"}]
    BY <1>1 DEF SInv, SessionsTypeOK, ClientState, Ready
  <2>2. w \in [pc : {"replace", "mail"}, of : User,
               type : {"EMAIL_VERIFICATION", "PASSWORD_RESET"}] /\ w.pc = "mail"
    BY <2>1
  <2> QED BY <2>2 DEF ClientState
<1> HIDE DEF w
<1>3. /\ client' \in [Client -> ClientState]
      /\ client'[c] = w
      /\ \A d \in Client : d # c => client'[d] = client[d]
  BY <1>1, <1>2, OneMoves DEF SInv
<1>4. /\ ticket' \in [Ticket -> TicketRow]
      /\ \A t \in Ticket : /\ ticket'[t].of = ticket[t].of
                           /\ ticket'[t].type = ticket[t].type
                           /\ ticket'[t].uses = ticket[t].uses
                           /\ ticket'[t].state = "UNUSED" => ticket[t].state = "UNUSED"
  BY DEF Replace, SInv, SessionsTypeOK, TicketRow
<1>5. SessionsTypeOK'
  BY <1>1, <1>3, <1>4 DEF SInv, SessionsTypeOK
<1>6. SessionsKnown' /\ OneHolder'
  BY <1>1, <1>2, <1>3, SessionFrame
<1>7. Rightly'
  BY <1>1, <1>2, <1>3, RightlyFrame
<1>8. TicketsKnown' /\ OneUser'
  BY <1>1, <1>2, <1>3, <1>4, TicketStates
<1>9. LetGoIsOff'
  BY <1>1 DEF SInv, LetGoIsOff
<1> QED BY <1>5, <1>6, <1>7, <1>8, <1>9 DEF SInv

LEMMA ExpireTicketKeeps ==
  ASSUME SInv, NEW t \in Ticket, ExpireTicket(t)
  PROVE  SInv'
<1>1. UNCHANGED <<user, session, client, letGo, raced>>
  BY DEF ExpireTicket
<1>2. /\ ticket' \in [Ticket -> TicketRow]
      /\ \A y \in Ticket : /\ ticket'[y].of = ticket[y].of
                           /\ ticket'[y].type = ticket[y].type
                           /\ ticket'[y].uses = ticket[y].uses
                           /\ ticket'[y].state = "UNUSED" => ticket[y].state = "UNUSED"
  BY DEF ExpireTicket, SInv, SessionsTypeOK, TicketRow
<1>3. SessionsTypeOK'
  BY <1>1, <1>2 DEF SInv, SessionsTypeOK
<1>4. SessionsKnown' /\ OneHolder' /\ Rightly'
  BY <1>1, SessionFrame, RightlyFrame
<1>5. TicketsKnown' /\ OneUser'
  BY <1>1, <1>2, TicketStates
<1>6. LetGoIsOff'
  BY <1>1 DEF SInv, LetGoIsOff
<1> QED BY <1>3, <1>4, <1>5, <1>6 DEF SInv

(* The use of a ticket: its one user has it to itself.                      *)
LEMMA UseEnds ==
  ASSUME SInv, NEW c \in Client, NEW w \in ClientState, NEW t \in Ticket,
         Uses(client[c], t), ticket' = Used(t), UNCHANGED raced,
         w.pc \notin {"verify", "reset"}, client' = [client EXCEPT ![c] = w]
  PROVE  ticket' \in [Ticket -> TicketRow] /\ TicketsKnown' /\ OneUser'
<1>1. /\ client'[c] = w
      /\ \A d \in Client : d # c => client'[d] = client[d]
  BY OneMoves DEF SInv
<1>2. /\ ticket' \in [Ticket -> TicketRow]
      /\ \A y \in Ticket : y # t => ticket'[y] = ticket[y]
      /\ ticket'[t].type = ticket[t].type /\ ticket'[t].state = ticket[t].state
      /\ ticket[t].uses = 0 => ticket'[t].uses = 1
  BY DEF SInv, SessionsTypeOK, TicketRow, Used
<1>3. \A d \in Client : client[d].pc \in {"verify", "reset"} => client[d].ticket \in Ticket
  BY ClientAt DEF SInv
<1>4. TicketsKnown'
  <2> SUFFICES ASSUME NEW d \in Client, client'[d].pc \in {"verify", "reset"}
               PROVE  /\ client'[d] = client[d]
                      /\ ticket'[client[d].ticket].type = ticket[client[d].ticket].type
                      /\ ticket'[client[d].ticket].state = ticket[client[d].ticket].state
    BY DEF SInv, TicketsKnown
  <2>1. client'[d] = client[d]
    BY <1>1
  <2>2. client[d].ticket \in Ticket
    BY <2>1, <1>3
  <2> QED BY <2>1, <2>2, <1>2
<1>5. OneUser'
  <2> SUFFICES ASSUME NEW y \in Ticket, y \notin raced'
               PROVE  /\ ticket'[y].uses <= 1
                      /\ \A a, d \in Client :
                           Uses(client'[a], y) /\ Uses(client'[d], y) => a = d
                      /\ \A d \in Client : Uses(client'[d], y) => ticket'[y].uses = 0
    BY DEF OneUser
  <2>1. /\ ticket[y].uses <= 1
        /\ \A a, d \in Client : Uses(client[a], y) /\ Uses(client[d], y) => a = d
        /\ \A d \in Client : Uses(client[d], y) => ticket[y].uses = 0
    BY DEF SInv, OneUser
  <2>2. \A d \in Client : Uses(client'[d], y) => Uses(client[d], y) /\ d # c
    BY <1>1 DEF Uses
  <2>3. CASE y # t
    BY <2>1, <2>2, <2>3, <1>2
  <2>4. CASE y = t
    <3>1. ticket[t].uses = 0
      BY <2>1, <2>4
    <3>2. \A d \in Client : ~Uses(client'[d], y)
      BY <2>1, <2>2, <2>4
    <3> QED BY <3>1, <3>2, <2>4, <1>2
  <2> QED BY <2>3, <2>4
<1> QED BY <1>2, <1>4, <1>5

LEMMA ConfirmKeeps ==
  ASSUME SInv, NEW c \in Client, Confirm(c)
  PROVE  SInv'
<1> DEFINE t == client[c].ticket
<1>1. /\ client[c].pc = "verify"
      /\ client' = [client EXCEPT ![c] = Ready]
      /\ UNCHANGED <<session, letGo, raced>>
  BY DEF Confirm, Ends, Goes
<1>2. t \in Ticket /\ Uses(client[c], t)
  BY <1>1, ClientAt DEF SInv, Uses
<1>3. \/ UNCHANGED <<ticket, user>>
      \/ ticket' = Used(t) /\ user' = [user EXCEPT ![ticket[t].of].verified = TRUE]
  BY DEF Confirm
<1> HIDE DEF t
<1>4. Ready \in ClientState /\ Ready.pc = "idle"
  BY DEF ClientState, Ready
<1>5. /\ client' \in [Client -> ClientState]
      /\ client'[c] = Ready
      /\ \A d \in Client : d # c => client'[d] = client[d]
  BY <1>1, <1>4, OneMoves DEF SInv
<1>6. ticket' \in [Ticket -> TicketRow] /\ TicketsKnown' /\ OneUser'
  <2>1. CASE UNCHANGED <<ticket, user>>
    <3>1. TicketsKnown' /\ OneUser'
      BY <2>1, <1>1, <1>4, <1>5, TicketFrame
    <3> QED BY <2>1, <3>1 DEF SInv, SessionsTypeOK
  <2>2. CASE ticket' = Used(t)
    BY <2>2, <1>1, <1>2, <1>4, UseEnds
  <2> QED BY <1>3, <2>1, <2>2
<1>7. user' \in [User -> UserRow] /\ \A u \in User : /\ user'[u].password = user[u].password
                                                     /\ user'[u].state = user[u].state
  <2>1. ticket[t].of \in User
    BY <1>2 DEF SInv, SessionsTypeOK, TicketRow
  <2>2. CASE user' = user
    BY <2>2 DEF SInv, SessionsTypeOK
  <2>3. CASE user' = [user EXCEPT ![ticket[t].of].verified = TRUE]
    BY <2>1, <2>3 DEF SInv, SessionsTypeOK, UserRow
  <2> QED BY <1>3, <2>2, <2>3
<1>8. SessionsTypeOK'
  BY <1>1, <1>5, <1>6, <1>7 DEF SInv, SessionsTypeOK
<1>9. SessionsKnown' /\ OneHolder'
  BY <1>1, <1>4, <1>5, SessionFrame
<1>10. Rightly'
  BY <1>1, <1>4, <1>5, <1>7, RightlyFrame
<1>11. LetGoIsOff'
  BY <1>1, <1>7 DEF SInv, LetGoIsOff, SessionsTypeOK
<1> QED BY <1>6, <1>8, <1>9, <1>10, <1>11 DEF SInv

LEMMA ResetKeeps ==
  ASSUME SInv, NEW c \in Client, Reset(c)
  PROVE  SInv'
<1> DEFINE t == client[c].ticket
           u == ticket[t].of
           w == [pc |-> "endAll", of |-> u]
<1>1. /\ client[c].pc = "reset"
      /\ client' = [client EXCEPT ![c] = w]
      /\ ticket' = Used(t)
      /\ user[u].password < MaxResets
      /\ user' = [user EXCEPT ![u].password = @ + 1]
      /\ UNCHANGED <<session, letGo, raced>>
  BY DEF Reset, Goes
<1>2. t \in Ticket /\ Uses(client[c], t)
  BY <1>1, ClientAt DEF SInv, Uses
<1>3. u \in User
  BY <1>2 DEF SInv, SessionsTypeOK, TicketRow
<1>4. w \in ClientState /\ w.pc = "endAll" /\ w.of = u
  BY <1>3 DEF ClientState
<1> HIDE DEF t, u, w
<1>5. /\ client' \in [Client -> ClientState]
      /\ client'[c] = w
      /\ \A d \in Client : d # c => client'[d] = client[d]
  BY <1>1, <1>4, OneMoves DEF SInv
<1>6. ticket' \in [Ticket -> TicketRow] /\ TicketsKnown' /\ OneUser'
  BY <1>1, <1>2, <1>4, UseEnds
<1>7. user' \in [User -> UserRow] /\ \A x \in User : /\ x # u => user'[x] = user[x]
                                                     /\ user'[x].state = user[x].state
  BY <1>1, <1>3, ResetsBounded DEF SInv, SessionsTypeOK, UserRow, Password
<1>8. SessionsTypeOK'
  BY <1>1, <1>5, <1>6, <1>7 DEF SInv, SessionsTypeOK
<1>9. SessionsKnown' /\ OneHolder'
  BY <1>1, <1>4, <1>5, SessionFrame
<1>10. \A x \in User : x = u => Ending(x)'
  BY <1>4, <1>5 DEF Ending
<1>11. \A x \in User : \/ Ending(x)'
                       \/ /\ user'[x].password = user[x].password
                          /\ x \in letGo' => x \in letGo
  BY <1>1, <1>7, <1>10
<1>12. Rightly'
  BY <1>1, <1>4, <1>5, <1>11, RightlyFrame
<1>13. LetGoIsOff'
  BY <1>1, <1>7 DEF SInv, LetGoIsOff, SessionsTypeOK
<1> QED BY <1>6, <1>8, <1>9, <1>12, <1>13 DEF SInv

(* Staff: no request moves.                                                 *)
LEMMA StaffKeeps ==
  ASSUME SInv, NEW u \in User,
         DeleteUser(u) \/ \E on \in BOOLEAN : SwitchUser(u, on)
  PROVE  SInv'
<1>1. UNCHANGED <<session, ticket, client, raced>> /\ letGo' \subseteq letGo
  BY DEF DeleteUser, SwitchUser
<1>2. user' \in [User -> UserRow] /\ \A x \in User : user'[x].password = user[x].password
  BY DEF DeleteUser, SwitchUser, SInv, SessionsTypeOK, UserRow
<1>3. SessionsTypeOK'
  BY <1>1, <1>2 DEF SInv, SessionsTypeOK
<1>4. SessionsKnown' /\ OneHolder' /\ TicketsKnown' /\ OneUser'
  BY <1>1, SessionFrame, TicketFrame
<1>5. Rightly'
  BY <1>1, <1>2, RightlyFrame
<1>6. LetGoIsOff'
  <2>1. CASE DeleteUser(u)
    BY <2>1 DEF SInv, LetGoIsOff, SessionsTypeOK, UserRow, DeleteUser
  <2>2. ASSUME NEW on \in BOOLEAN, SwitchUser(u, on) PROVE LetGoIsOff'
    <3>1. CASE on
      BY <3>1, <2>2 DEF SInv, LetGoIsOff, SessionsTypeOK, UserRow, SwitchUser
    <3>2. CASE ~on
      BY <3>2, <2>2 DEF SInv, LetGoIsOff, SessionsTypeOK, UserRow, SwitchUser
    <3> QED BY <3>1, <3>2
  <2> QED BY <2>1, <2>2
<1> QED BY <1>3, <1>4, <1>5, <1>6 DEF SInv

(* A request dies: what it was to end stays, and counts as a race.           *)
LEMMA AbortKeeps ==
  ASSUME SInv, NEW c \in Client, Abort(c)
  PROVE  SInv'
<1>1. /\ client' = [client EXCEPT ![c] = Ready]
      /\ raced' = IF client[c].pc = "endAll" THEN raced \union {client[c].of} ELSE raced
      /\ UNCHANGED <<user, session, ticket, letGo>>
  BY DEF Abort
<1>2. Ready \in ClientState /\ Ready.pc = "idle"
  BY DEF ClientState, Ready
<1>3. /\ client' \in [Client -> ClientState]
      /\ client'[c] = Ready
      /\ \A d \in Client : d # c => client'[d] = client[d]
  BY <1>1, <1>2, OneMoves DEF SInv
<1>4. raced' \subseteq Session \union Ticket \union User /\ raced \subseteq raced'
  BY <1>1, ClientAt DEF SInv, SessionsTypeOK
<1>5. SessionsTypeOK'
  BY <1>1, <1>3, <1>4 DEF SInv, SessionsTypeOK
<1>6. SessionsKnown' /\ OneHolder' /\ TicketsKnown' /\ OneUser'
  BY <1>1, <1>2, <1>3, <1>4, SessionFrame, TicketFrame
<1>7. Rightly'
  BY <1>1, <1>2, <1>3, <1>4, RightlyFrame
<1>8. LetGoIsOff'
  BY <1>1 DEF SInv, LetGoIsOff
<1> QED BY <1>5, <1>6, <1>7, <1>8 DEF SInv

(* Whoever has a session or opens one has it as somebody had it before, or   *)
(* rightly by itself.                                                       *)
LEMMA RightlyKept ==
  ASSUME SInv, raced \intersect User \subseteq raced', letGo' = letGo,
         \A u \in User : user'[u].password = user[u].password,
         \A u \in User : Ending(u) => Ending(u)' \/ u \in raced',
         \A u \in User : \A s \in Live(u)' :
            \/ s \in Live(u) /\ session'[s].key = session[s].key
            \/ \E d \in Client : /\ Opens(client[d], u, session)
                                 /\ session'[s].key = KeyOf(client[d], session),
         \A u \in User, d \in Client : Opens(client'[d], u, session') =>
            \/ /\ Opens(client[d], u, session)
               /\ KeyOf(client'[d], session') = KeyOf(client[d], session)
            \/ \E s \in Live(u) : KeyOf(client'[d], session') = session[s].key
            \/ /\ KeyOf(client'[d], session') \in {user[u].password, ByGoogle}
               /\ u \notin letGo
  PROVE  Rightly'
<1> SUFFICES ASSUME NEW u \in User, u \notin raced', ~Ending(u)'
             PROVE  /\ \A s \in Live(u)' :
                         /\ session'[s].key \in {user'[u].password, ByGoogle}
                         /\ u \notin letGo'
                    /\ \A c \in Client : Opens(client'[c], u, session') =>
                         /\ KeyOf(client'[c], session') \in {user'[u].password, ByGoogle}
                         /\ u \notin letGo'
  BY DEF Rightly
<1>1. ~Ending(u) /\ u \notin raced
  OBVIOUS
<1>2. /\ \A s \in Live(u) : session[s].key \in {user[u].password, ByGoogle} /\ u \notin letGo
      /\ \A c \in Client : Opens(client[c], u, session) =>
           KeyOf(client[c], session) \in {user[u].password, ByGoogle} /\ u \notin letGo
  BY <1>1 DEF SInv, Rightly
<1>3. user'[u].password = user[u].password /\ letGo' = letGo
  OBVIOUS
<1>4. ASSUME NEW s \in Live(u)'
      PROVE  session'[s].key \in {user[u].password, ByGoogle} /\ u \notin letGo
  BY <1>2, <1>4
<1>5. ASSUME NEW d \in Client, Opens(client'[d], u, session')
      PROVE  /\ KeyOf(client'[d], session') \in {user[u].password, ByGoogle}
             /\ u \notin letGo
  BY <1>2, <1>5
<1> QED BY <1>3, <1>4, <1>5

(* A login that may be: with the password there is, or by Google.           *)
LEMMA LoginStarts ==
  ASSUME SInv, NEW c \in Client, NEW u \in User, NEW key \in Key, NEW w \in ClientState,
         w = [pc |-> "open", of |-> u, key |-> key],
         key \in {user[u].password, ByGoogle}, u \notin letGo,
         client[c] = Ready, client' = [client EXCEPT ![c] = w],
         UNCHANGED <<session, ticket, letGo, raced>>,
         user' \in [User -> UserRow],
         \A x \in User : /\ user'[x].password = user[x].password
                         /\ x # u => user'[x] = user[x]
  PROVE  SInv'
<1>1. /\ client' \in [Client -> ClientState]
      /\ client'[c] = w
      /\ \A d \in Client : d # c => client'[d] = client[d]
  BY OneMoves DEF SInv
<1>2. SessionsTypeOK'
  BY <1>1 DEF SInv, SessionsTypeOK
<1>3. w.pc = "open" /\ w.of = u /\ w.key = key
  OBVIOUS
<1>4. SessionsKnown' /\ OneHolder' /\ TicketsKnown' /\ OneUser'
  BY <1>1, <1>3, SessionFrame, TicketFrame
<1>5. Rightly'
  <2>1. \A x \in User : Ending(x) => Ending(x)'
    BY <1>1 DEF Ending, Ready
  <2>2. \A x \in User : Live(x)' = Live(x)
    BY DEF Live
  <2>3. ASSUME NEW x \in User, NEW d \in Client, Opens(client'[d], x, session')
        PROVE  \/ /\ Opens(client[d], x, session)
                  /\ KeyOf(client'[d], session') = KeyOf(client[d], session)
               \/ /\ KeyOf(client'[d], session') \in {user[x].password, ByGoogle}
                  /\ x \notin letGo
    BY <1>1, <1>3, <2>3 DEF Opens, KeyOf
  <2> QED BY <2>1, <2>2, <2>3, RightlyKept
<1>6. LetGoIsOff'
  BY DEF SInv, LetGoIsOff, SessionsTypeOK
<1> QED BY <1>2, <1>4, <1>5, <1>6 DEF SInv

LEMMA LoginKeeps ==
  ASSUME SInv, NEW c \in Client, NEW u \in User,
         LoginByGoogle(c, u) \/ \E password \in Password : Login(c, u, password)
  PROVE  SInv'
<1>1. PICK key \in Key :
        /\ key \in {user[u].password, ByGoogle}
        /\ client[c] = Ready
        /\ client' = [client EXCEPT ![c] = [pc |-> "open", of |-> u, key |-> key]]
  <2>1. ByGoogle \in Key /\ \A password \in Password : password \in Key
    BY ResetsBounded DEF Key, Password, ByGoogle
  <2>2. CASE LoginByGoogle(c, u)
    BY <2>1, <2>2 DEF LoginByGoogle, Starts, Goes
  <2>3. ASSUME NEW password \in Password, Login(c, u, password)
        PROVE  /\ password \in Key /\ password = user[u].password
               /\ client[c] = Ready
               /\ client' = [client EXCEPT ![c] = [pc |-> "open", of |-> u, key |-> password]]
    BY <2>1, <2>3 DEF Login, MayLogin, Starts, Goes
  <2> QED BY <2>1, <2>2, <2>3
<1> DEFINE w == [pc |-> "open", of |-> u, key |-> key]
<1>2. w \in ClientState /\ w = [pc |-> "open", of |-> u, key |-> key]
  BY DEF ClientState
<1>3. UNCHANGED <<session, ticket, letGo, raced>>
  BY DEF Login, LoginByGoogle, Starts, Goes
<1>4. u \notin letGo
  BY DEF SInv, LetGoIsOff, Login, LoginByGoogle, MayLogin
<1>5. \/ user' = user
      \/ user' = [user EXCEPT ![u].state = "ACTIVE", ![u].verified = TRUE]
  BY DEF Login, LoginByGoogle
<1>6. /\ user' \in [User -> UserRow]
      /\ \A x \in User : /\ user'[x].password = user[x].password
                         /\ x # u => user'[x] = user[x]
  <2>1. CASE user' = user
    BY <2>1 DEF SInv, SessionsTypeOK
  <2>2. CASE user' = [user EXCEPT ![u].state = "ACTIVE", ![u].verified = TRUE]
    BY <2>2 DEF SInv, SessionsTypeOK, UserRow
  <2> QED BY <1>5, <2>1, <2>2
<1> HIDE DEF w
<1>7. client' = [client EXCEPT ![c] = w]
  BY <1>1 DEF w
<1> QED BY <1>1, <1>2, <1>3, <1>4, <1>6, <1>7, LoginStarts

(* Sessions end and none begins.                                            *)
LEMMA LiveShrinks ==
  ASSUME SInv, session' \in [Session -> SessionRow],
         raced \intersect Session \subseteq raced',
         \A s \in Session : /\ session'[s].used = session[s].used
                            /\ session'[s].line = session[s].line
                            /\ session'[s].live => session[s].live,
         \A d \in Client : \/ client'[d] = client[d]
                           \/ client'[d].pc \notin {"rotate", "renew"}
  PROVE  SessionsKnown' /\ OneHolder'
<1>1. \A d \in Client : client'[d].pc \in {"rotate", "renew"} =>
                          client'[d] = client[d] /\ client[d].from \in Session
  BY ClientAt DEF SInv
<1>2. \A s \in Session : session[s].line \in Session
  BY DEF SInv, SessionsTypeOK, SessionRow
<1>3. SessionsKnown'
  <2>1. \A s \in Session : /\ session'[s].live => session'[s].used
                           /\ session'[s].used => session'[session'[s].line].used
    BY <1>2 DEF SInv, SessionsKnown
  <2>2. \A d \in Client : client'[d].pc \in {"rotate", "renew"} =>
                            session'[client'[d].from].used
    BY <1>1 DEF SInv, SessionsKnown
  <2> QED BY <2>1, <2>2 DEF SessionsKnown
<1>4. OneHolder'
  <2> SUFFICES ASSUME NEW l \in Session, l \notin raced'
               PROVE  /\ \A s, t \in LiveOf(l, session') : s = t
                      /\ \A c, d \in Client :
                           Holds(client'[c], l, session') /\ Holds(client'[d], l, session')
                             => c = d
                      /\ \A c \in Client : Holds(client'[c], l, session') =>
                           \A s \in LiveOf(l, session') :
                             client'[c].pc = "rotate" /\ s = client'[c].from
    BY DEF OneHolder
  <2>1. l \in Session \ raced
    OBVIOUS
  <2>2. \A c \in Client : Holds(client'[c], l, session') =>
                            client'[c] = client[c] /\ Holds(client[c], l, session)
    BY <1>1 DEF Holds
  <2>3. LiveOf(l, session') \subseteq LiveOf(l, session)
    BY DEF LiveOf
  <2>4. /\ \A s, t \in LiveOf(l, session) : s = t
        /\ \A c, d \in Client :
             Holds(client[c], l, session) /\ Holds(client[d], l, session) => c = d
        /\ \A c \in Client : Holds(client[c], l, session) =>
             \A s \in LiveOf(l, session) : client[c].pc = "rotate" /\ s = client[c].from
    BY <2>1 DEF SInv, OneHolder
  <2> QED BY <2>2, <2>3, <2>4
<1> QED BY <1>3, <1>4

(* One session ends, and keeps whose it is.                                 *)
LEMMA OneRetired ==
  ASSUME SInv, NEW s \in Session, session' = [session EXCEPT ![s].live = FALSE]
  PROVE  /\ session' \in [Session -> SessionRow]
         /\ ~session'[s].live
         /\ \A x \in Session : /\ session'[x].used = session[x].used
                               /\ session'[x].line = session[x].line
                               /\ session'[x].of = session[x].of
                               /\ session'[x].key = session[x].key
                               /\ session'[x].live => session[x].live
<1>1. session \in [Session -> SessionRow]
  BY DEF SInv, SessionsTypeOK
<1>2. \A x \in Session : session'[x] = IF x = s THEN [session[s] EXCEPT !.live = FALSE]
                                       ELSE session[x]
  BY <1>1
<1> DEFINE new == [session[s] EXCEPT !.live = FALSE]
<1>3. /\ new \in SessionRow
      /\ new.used = session[s].used /\ new.line = session[s].line
      /\ new.of = session[s].of /\ new.key = session[s].key /\ ~new.live
  <2>1. session[s] \in SessionRow
    BY <1>1
  <2> QED BY <2>1 DEF SessionRow
<1> HIDE DEF new
<1>4. \A x \in Session : session'[x] = IF x = s THEN new ELSE session[x]
  BY <1>2 DEF new
<1>5. session' \in [Session -> SessionRow]
  BY <1>1, <1>3 DEF new
<1> QED BY <1>3, <1>4, <1>5

(* Logout, and the end of a session's time.                                 *)
LEMMA LogoutKeeps ==
  ASSUME SInv, NEW s \in Session, Logout(s) \/ ExpireSession(s)
  PROVE  SInv'
<1>1. /\ session' = [session EXCEPT ![s].live = FALSE]
      /\ UNCHANGED <<user, ticket, client, letGo, raced>>
  BY DEF Logout, ExpireSession
<1>2. /\ session' \in [Session -> SessionRow]
      /\ \A x \in Session : /\ session'[x].used = session[x].used
                            /\ session'[x].line = session[x].line
                            /\ session'[x].of = session[x].of
                            /\ session'[x].key = session[x].key
                            /\ session'[x].live => session[x].live
  BY <1>1, OneRetired
<1>3. SessionsTypeOK'
  BY <1>1, <1>2 DEF SInv, SessionsTypeOK
<1>4. SessionsKnown' /\ OneHolder'
  BY <1>1, <1>2, LiveShrinks
<1>5. TicketsKnown' /\ OneUser'
  BY <1>1, TicketFrame
<1>6. Rightly'
  <2>1. \A d \in Client : client[d].pc \in {"rotate", "renew"} => client[d].from \in Session
    BY ClientAt DEF SInv
  <2>2. \A x \in User, d \in Client : Opens(client'[d], x, session') =>
            /\ Opens(client[d], x, session)
            /\ KeyOf(client'[d], session') = KeyOf(client[d], session)
    BY <2>1, <1>1, <1>2 DEF Opens, KeyOf
  <2>3. \A x \in User : \A y \in Live(x)' :
            y \in Live(x) /\ session'[y].key = session[y].key
    BY <1>2 DEF Live
  <2>4. \A x \in User : Ending(x) => Ending(x)'
    BY <1>1 DEF Ending
  <2> QED BY <1>1, <2>2, <2>3, <2>4, RightlyKept
<1>7. LetGoIsOff'
  BY <1>1 DEF SInv, LetGoIsOff
<1> QED BY <1>3, <1>4, <1>5, <1>6, <1>7 DEF SInv

(* Every session of a user ends.  One that was being opened, or a request    *)
(* that refreshes one, makes it a race; else the user has none left.         *)
LEMMA EndAllKeeps ==
  ASSUME SInv, NEW c \in Client, EndAll(c)
  PROVE  SInv'
<1> PICK u \in User : client[c].pc = "endAll" /\ client[c].of = u
  BY ClientAt DEF SInv, EndAll
<1>1. /\ session' = AllEnded(u)
      /\ client' = [client EXCEPT ![c] = Ready]
      /\ raced' = IF OpeningFor(c, u) # {} THEN raced \union {u} ELSE raced \ {u}
      /\ UNCHANGED <<user, ticket, letGo>>
  BY DEF EndAll
<1>2. Ready \in ClientState /\ Ready.pc = "idle"
  BY DEF ClientState, Ready
<1>3. /\ client' \in [Client -> ClientState]
      /\ client'[c] = Ready
      /\ \A d \in Client : d # c => client'[d] = client[d]
  BY <1>1, <1>2, OneMoves DEF SInv
<1>4. /\ session' \in [Session -> SessionRow]
      /\ \A x \in Session : /\ session'[x].used = session[x].used
                            /\ session'[x].line = session[x].line
                            /\ session'[x].of = session[x].of
                            /\ session'[x].key = session[x].key
                            /\ session'[x].live => session[x].live
                            /\ x \in Live(u) => ~session'[x].live
  <2>1. session \in [Session -> SessionRow]
    BY DEF SInv, SessionsTypeOK
  <2> DEFINE new(x) == [session[x] EXCEPT !.live = FALSE]
  <2>2. ASSUME NEW x \in Session
        PROVE  /\ new(x) \in SessionRow
               /\ new(x).used = session[x].used /\ new(x).line = session[x].line
               /\ new(x).of = session[x].of /\ new(x).key = session[x].key
               /\ ~new(x).live
    <3>1. session[x] \in SessionRow
      BY <2>1, <2>2
    <3> QED BY <3>1 DEF SessionRow
  <2>3. session' = [x \in Session |-> IF x \in Live(u) THEN new(x) ELSE session[x]]
    BY <1>1 DEF AllEnded
  <2> HIDE DEF new
  <2>4. \A x \in Session : session'[x] = IF x \in Live(u) THEN new(x) ELSE session[x]
    BY <2>3
  <2>5. session' \in [Session -> SessionRow]
    BY <2>1, <2>2, <2>3
  <2> QED BY <2>2, <2>4, <2>5
<1>5. /\ u \notin Session \union Ticket
      /\ raced' \subseteq Session \union Ticket \union User
      /\ raced \intersect Session \subseteq raced'
      /\ raced \intersect Ticket \subseteq raced'
      /\ \A x \in User \ {u} : x \in raced => x \in raced'
  BY <1>1, IdsDiffer DEF SInv, SessionsTypeOK
<1>6. SessionsTypeOK'
  BY <1>1, <1>3, <1>4, <1>5 DEF SInv, SessionsTypeOK
<1>7. SessionsKnown' /\ OneHolder'
  BY <1>2, <1>3, <1>4, <1>5, LiveShrinks
<1>8. TicketsKnown' /\ OneUser'
  BY <1>1, <1>2, <1>3, <1>5, TicketFrame
<1>9. \A d \in Client : client[d].pc \in {"rotate", "renew"} => client[d].from \in Session
  BY ClientAt DEF SInv
<1>10. \A x \in User, d \in Client : Opens(client'[d], x, session') =>
           /\ d # c /\ client'[d] = client[d]
           /\ Opens(client[d], x, session)
           /\ KeyOf(client'[d], session') = KeyOf(client[d], session)
  BY <1>2, <1>3, <1>4, <1>9 DEF Opens, KeyOf
<1>11. Rightly'
  <2> SUFFICES ASSUME NEW x \in User, x \notin raced', ~Ending(x)'
               PROVE  /\ \A s \in Live(x)' :
                           /\ session'[s].key \in {user'[x].password, ByGoogle}
                           /\ x \notin letGo'
                      /\ \A d \in Client : Opens(client'[d], x, session') =>
                           /\ KeyOf(client'[d], session') \in {user'[x].password, ByGoogle}
                           /\ x \notin letGo'
    BY DEF Rightly
  <2>1. CASE x = u
    <3>1. OpeningFor(c, u) = {}
      BY <1>1, <2>1
    <3>2. \A d \in Client : ~Opens(client'[d], u, session')
      BY <1>10, <3>1 DEF Opens, OpeningFor
    <3>3. Live(u)' = {}
      BY <1>4 DEF Live
    <3> QED BY <2>1, <3>2, <3>3
  <2>2. CASE x # u
    <3>1. x \notin raced
      BY <1>5, <2>2
    <3>2. ~Ending(x)
      <4> SUFFICES ASSUME NEW d \in Client, client[d].pc = "endAll", client[d].of = x
                   PROVE  FALSE
        BY DEF Ending
      <4>1. d # c
        BY <2>2
      <4> QED BY <4>1, <1>3 DEF Ending
    <3>3. /\ \A s \in Live(x) : session[s].key \in {user[x].password, ByGoogle} /\ x \notin letGo
          /\ \A d \in Client : Opens(client[d], x, session) =>
               KeyOf(client[d], session) \in {user[x].password, ByGoogle} /\ x \notin letGo
      BY <3>1, <3>2 DEF SInv, Rightly
    <3>4. \A s \in Live(x)' : s \in Live(x) /\ session'[s].key = session[s].key
      BY <1>4 DEF Live
    <3> QED BY <3>3, <3>4, <1>1, <1>10
  <2> QED BY <2>1, <2>2
<1>12. LetGoIsOff'
  BY <1>1 DEF SInv, LetGoIsOff
<1> QED BY <1>6, <1>7, <1>8, <1>11, <1>12 DEF SInv

(* A refresh begins with a live session: one alone, or it is a race.         *)
LEMMA RefreshKeeps ==
  ASSUME SInv, NEW c \in Client, NEW s \in Session, Refresh(c, s)
  PROVE  SInv'
<1>1. session[s].used /\ client[c] = Ready /\ UNCHANGED <<user, session, ticket, letGo>>
  BY DEF Refresh
<1>2. session[s].of \in User /\ session[s].line \in Session
  BY DEF SInv, SessionsTypeOK, SessionRow
<1>3. LetGoIsOff'
  BY <1>1 DEF SInv, LetGoIsOff
<1>4. CASE ~session[s].live
  <2> DEFINE w == [pc |-> "endAll", of |-> session[s].of]
  <2>1. w \in ClientState /\ w.pc = "endAll"
    BY <1>2 DEF ClientState
  <2>2. client' = [client EXCEPT ![c] = w] /\ UNCHANGED raced
    BY <1>4 DEF Refresh, Starts, Goes
  <2> HIDE DEF w
  <2>3. SessionsTypeOK'
    BY <1>1, <2>1, <2>2, OneMoves DEF SInv, SessionsTypeOK
  <2>4. SessionsKnown' /\ OneHolder' /\ Rightly' /\ TicketsKnown' /\ OneUser'
    BY <1>1, <2>1, <2>2, QuietStep
  <2> QED BY <1>3, <2>3, <2>4 DEF SInv
<1>5. CASE session[s].live
  <2> DEFINE w == [pc |-> "rotate", from |-> s]
  <2>1. w \in ClientState /\ w.pc = "rotate" /\ w.from = s
    BY DEF ClientState
  <2>2. /\ client' = [client EXCEPT ![c] = w]
        /\ raced' = IF \E x \in Client : client[x] = w
                    THEN raced \union {session[s].line} ELSE raced
    BY <1>5 DEF Refresh
  <2>3. \A x \in Client : client[x].pc = "rotate" /\ client[x].from = s => client[x] = w
    BY DEF SInv, SessionsTypeOK, ClientState, Ready
  <2> HIDE DEF w
  <2>4. /\ client' \in [Client -> ClientState]
        /\ client'[c] = w
        /\ \A d \in Client : d # c => client'[d] = client[d]
    BY <2>1, <2>2, OneMoves DEF SInv
  <2>5. raced \subseteq raced' /\ raced' \subseteq Session \union Ticket \union User
    BY <1>2, <2>2 DEF SInv, SessionsTypeOK
  <2>6. SessionsTypeOK'
    BY <1>1, <2>4, <2>5 DEF SInv, SessionsTypeOK
  <2>7. SessionsKnown'
    BY <1>1, <2>1, <2>4 DEF SInv, SessionsKnown
  <2>8. TicketsKnown' /\ OneUser'
    BY <1>1, <2>1, <2>4, <2>5, TicketFrame
  <2>9. OneHolder'
    <3> SUFFICES ASSUME NEW l \in Session, l \notin raced'
                 PROVE  /\ \A x, t \in LiveOf(l, session) : x = t
                        /\ \A a, d \in Client :
                             Holds(client'[a], l, session) /\ Holds(client'[d], l, session)
                               => a = d
                        /\ \A a \in Client : Holds(client'[a], l, session) =>
                             \A x \in LiveOf(l, session) :
                               client'[a].pc = "rotate" /\ x = client'[a].from
      BY <1>1 DEF OneHolder
    <3>1. l \notin raced
      BY <2>5
    <3>2. /\ \A x, t \in LiveOf(l, session) : x = t
          /\ \A a, d \in Client :
               Holds(client[a], l, session) /\ Holds(client[d], l, session) => a = d
          /\ \A a \in Client : Holds(client[a], l, session) =>
               \A x \in LiveOf(l, session) : client[a].pc = "rotate" /\ x = client[a].from
      BY <3>1 DEF SInv, OneHolder
    <3>3. CASE session[s].line # l
      <4>1. \A d \in Client : Holds(client'[d], l, session) =>
              client'[d] = client[d] /\ Holds(client[d], l, session)
        BY <3>3, <2>1, <2>4 DEF Holds
      <4> QED BY <3>2, <4>1
    <3>4. CASE session[s].line = l
      <4>1. s \in LiveOf(l, session)
        BY <3>4, <1>1, <1>5 DEF LiveOf
      <4>2. \A d \in Client : client[d] # w
        BY <2>2, <3>4
      <4>3. \A d \in Client : ~Holds(client[d], l, session)
        BY <2>3, <3>2, <4>1, <4>2
      <4>4. \A d \in Client : Holds(client'[d], l, session) => d = c
        BY <2>4, <4>3
      <4>5. \A x \in LiveOf(l, session) : client'[c].pc = "rotate" /\ x = client'[c].from
        BY <2>1, <2>4, <3>2, <4>1
      <4> QED BY <3>2, <4>4, <4>5
    <3> QED BY <3>3, <3>4
  <2>10. Rightly'
    <3>1. \A x \in User : Ending(x) => Ending(x)'
      BY <1>1, <2>4 DEF Ending, Ready
    <3>2. \A x \in User : Live(x)' = Live(x)
      BY <1>1 DEF Live
    <3>3. ASSUME NEW x \in User, NEW d \in Client, Opens(client'[d], x, session')
          PROVE  \/ /\ Opens(client[d], x, session)
                    /\ KeyOf(client'[d], session') = KeyOf(client[d], session)
                 \/ \E y \in Live(x) : KeyOf(client'[d], session') = session[y].key
      <4>1. CASE d = c
        BY <3>3, <4>1, <1>1, <1>5, <2>1, <2>4 DEF Opens, KeyOf, Live
      <4>2. CASE d # c
        BY <3>3, <4>2, <1>1, <2>4
      <4> QED BY <4>1, <4>2
    <3> QED BY <1>1, <2>5, <3>1, <3>2, <3>3, RightlyKept
  <2> QED BY <1>3, <2>6, <2>7, <2>8, <2>9, <2>10 DEF SInv
<1> QED BY <1>4, <1>5

(* The old session is retired before the new one is made.                   *)
LEMMA RotateKeeps ==
  ASSUME SInv, NEW c \in Client, Rotate(c)
  PROVE  SInv'
<1> PICK s \in Session : client[c].pc = "rotate" /\ client[c].from = s
  BY ClientAt DEF SInv, Rotate
<1> DEFINE w == [client[c] EXCEPT !.pc = "renew"]
<1>1. /\ session' = [session EXCEPT ![s].live = FALSE]
      /\ client' = [client EXCEPT ![c] = w]
      /\ UNCHANGED <<user, ticket, letGo, raced>>
  BY DEF Rotate, Retired, Goes
<1>2. w \in ClientState /\ w.pc = "renew" /\ w.from = s
  <2>1. client[c] \in [pc : {"rotate", "renew"}, from : Session]
    BY DEF SInv, SessionsTypeOK, ClientState, Ready
  <2>2. w \in [pc : {"rotate", "renew"}, from : Session] /\ w.pc = "renew" /\ w.from = s
    BY <2>1
  <2> QED BY <2>2 DEF ClientState
<1> HIDE DEF w
<1>3. /\ client' \in [Client -> ClientState]
      /\ client'[c] = w
      /\ \A d \in Client : d # c => client'[d] = client[d]
  BY <1>1, <1>2, OneMoves DEF SInv
<1>4. /\ session' \in [Session -> SessionRow]
      /\ ~session'[s].live
      /\ \A x \in Session : /\ session'[x].used = session[x].used
                            /\ session'[x].line = session[x].line
                            /\ session'[x].of = session[x].of
                            /\ session'[x].key = session[x].key
                            /\ session'[x].live => session[x].live
  BY <1>1, OneRetired
<1>5. \A d \in Client : client[d].pc \in {"rotate", "renew"} => client[d].from \in Session
  BY ClientAt DEF SInv
<1>6. SessionsTypeOK'
  BY <1>1, <1>3, <1>4 DEF SInv, SessionsTypeOK
<1>7. SessionsKnown'
  <2>1. \A x \in Session : session[x].line \in Session
    BY DEF SInv, SessionsTypeOK, SessionRow
  <2>2. \A x \in Session : /\ session'[x].live => session'[x].used
                           /\ session'[x].used => session'[session'[x].line].used
    BY <1>4, <2>1 DEF SInv, SessionsKnown
  <2>3. \A d \in Client : client'[d].pc \in {"rotate", "renew"} =>
                            session'[client'[d].from].used
    BY <1>2, <1>3, <1>4, <1>5 DEF SInv, SessionsKnown
  <2> QED BY <2>2, <2>3 DEF SessionsKnown
<1>8. TicketsKnown' /\ OneUser'
  BY <1>1, <1>2, <1>3, TicketFrame
<1>9. OneHolder'
  <2> SUFFICES ASSUME NEW l \in Session, l \notin raced
               PROVE  /\ \A x, t \in LiveOf(l, session') : x = t
                      /\ \A a, d \in Client :
                           Holds(client'[a], l, session') /\ Holds(client'[d], l, session')
                             => a = d
                      /\ \A a \in Client : Holds(client'[a], l, session') =>
                           \A x \in LiveOf(l, session') :
                             client'[a].pc = "rotate" /\ x = client'[a].from
    BY <1>1 DEF OneHolder
  <2>1. /\ \A x, t \in LiveOf(l, session) : x = t
        /\ \A a, d \in Client :
             Holds(client[a], l, session) /\ Holds(client[d], l, session) => a = d
        /\ \A a \in Client : Holds(client[a], l, session) =>
             \A x \in LiveOf(l, session) : client[a].pc = "rotate" /\ x = client[a].from
    BY DEF SInv, OneHolder
  <2>2. LiveOf(l, session') \subseteq LiveOf(l, session) \ {s}
    BY <1>4 DEF LiveOf
  <2>3. \A d \in Client : Holds(client'[d], l, session') => Holds(client[d], l, session)
    BY <1>2, <1>3, <1>4, <1>5 DEF Holds
  <2>4. ASSUME NEW a \in Client, Holds(client'[a], l, session'), NEW x \in LiveOf(l, session')
        PROVE  client'[a].pc = "rotate" /\ x = client'[a].from
    <3>1. Holds(client[a], l, session) /\ x \in LiveOf(l, session) /\ x # s
      BY <2>2, <2>3, <2>4
    <3>2. x = client[a].from /\ client[a].pc = "rotate"
      BY <2>1, <3>1
    <3> QED BY <3>1, <3>2, <1>3
  <2> QED BY <2>1, <2>2, <2>3, <2>4
<1>10. Rightly'
  <2>1. \A x \in User : Ending(x) => Ending(x)'
    BY <1>3 DEF Ending
  <2>2. \A x \in User : \A y \in Live(x)' : y \in Live(x) /\ session'[y].key = session[y].key
    BY <1>4 DEF Live
  <2>3. ASSUME NEW x \in User, NEW d \in Client, Opens(client'[d], x, session')
        PROVE  /\ Opens(client[d], x, session)
               /\ KeyOf(client'[d], session') = KeyOf(client[d], session)
    <3>1. CASE d = c
      BY <2>3, <3>1, <1>2, <1>3, <1>4 DEF Opens, KeyOf
    <3>2. CASE d # c
      BY <2>3, <3>2, <1>3, <1>4, <1>5 DEF Opens, KeyOf
    <3> QED BY <3>1, <3>2
  <2> QED BY <1>1, <2>1, <2>2, <2>3, RightlyKept
<1>11. LetGoIsOff'
  BY <1>1 DEF SInv, LetGoIsOff
<1> QED BY <1>6, <1>7, <1>8, <1>9, <1>10, <1>11 DEF SInv

(* A new session of a login: of a new one, or in the place of the one that   *)
(* the request has retired.                                                 *)
LEMMA Opening ==
  ASSUME SInv, NEW c \in Client, NEW s \in Session, ~session[s].used,
         NEW u \in User, NEW l \in Session, NEW key \in Key,
         session' = Opened(s, u, l, key), client' = [client EXCEPT ![c] = Ready],
         UNCHANGED <<user, ticket, letGo, raced>>,
         Opens(client[c], u, session), key = KeyOf(client[c], session),
         client[c].pc # "endAll",
         \/ l = s
         \/ client[c].pc = "renew" /\ Holds(client[c], l, session)
  PROVE  SInv'
<1> DEFINE new == [used |-> TRUE, of |-> u, live |-> TRUE, line |-> l, key |-> key]
<1>1. /\ new \in SessionRow
      /\ new.used /\ new.of = u /\ new.live /\ new.line = l /\ new.key = key
  BY DEF SessionRow
<1>2. session' = [session EXCEPT ![s] = new]
  BY DEF Opened
<1> HIDE DEF new
<1>3. /\ session' \in [Session -> SessionRow]
      /\ session'[s] = new
      /\ \A x \in Session : x # s => session'[x] = session[x]
  BY <1>1, <1>2 DEF SInv, SessionsTypeOK
<1>4. Ready \in ClientState /\ Ready.pc = "idle"
  BY DEF ClientState, Ready
<1>5. /\ client' \in [Client -> ClientState]
      /\ client'[c] = Ready
      /\ \A d \in Client : d # c => client'[d] = client[d]
  BY <1>4, OneMoves DEF SInv
<1>6. \A d \in Client : client[d].pc \in {"rotate", "renew"} =>
        /\ client[d].from \in Session \ {s}
        /\ session[client[d].from].used
  BY ClientAt DEF SInv, SessionsKnown
<1>7. \A d \in Client : client'[d].pc \in {"rotate", "renew"} =>
        /\ d # c /\ client'[d] = client[d]
        /\ session'[client'[d].from] = session[client[d].from]
  BY <1>3, <1>4, <1>5, <1>6
<1>8. SessionsTypeOK'
  BY <1>3, <1>5 DEF SInv, SessionsTypeOK
<1>9. \A x \in Session : x # s /\ session[x].used => session[x].line \in Session \ {s}
  BY DEF SInv, SessionsTypeOK, SessionRow, SessionsKnown
<1>10. l # s => session[l].used
  <2> SUFFICES ASSUME l # s PROVE session[l].used
    OBVIOUS
  <2>1. client[c].pc = "renew" /\ session[client[c].from].line = l
    BY DEF Holds
  <2>2. session[client[c].from].used /\ client[c].from \in Session
    BY <1>6, <2>1
  <2> QED BY <2>1, <2>2 DEF SInv, SessionsKnown
<1>11. SessionsKnown'
  <2>1. \A x \in Session : session'[x].live => session'[x].used
    BY <1>1, <1>3 DEF SInv, SessionsKnown
  <2>2. ASSUME NEW x \in Session, session'[x].used
        PROVE  session'[session'[x].line].used
    <3>1. CASE x = s
      BY <3>1, <1>1, <1>3, <1>10
    <3>2. CASE x # s
      BY <3>2, <2>2, <1>3, <1>9 DEF SInv, SessionsKnown
    <3> QED BY <3>1, <3>2
  <2>3. \A d \in Client : client'[d].pc \in {"rotate", "renew"} =>
                            session'[client'[d].from].used
    BY <1>6, <1>7
  <2> QED BY <2>1, <2>2, <2>3 DEF SessionsKnown
<1>12. OneHolder'
  <2> SUFFICES ASSUME NEW m \in Session, m \notin raced
               PROVE  /\ \A x, t \in LiveOf(m, session') : x = t
                      /\ \A a, d \in Client :
                           Holds(client'[a], m, session') /\ Holds(client'[d], m, session')
                             => a = d
                      /\ \A a \in Client : Holds(client'[a], m, session') =>
                           \A x \in LiveOf(m, session') :
                             client'[a].pc = "rotate" /\ x = client'[a].from
    BY DEF OneHolder
  <2>1. /\ \A x, t \in LiveOf(m, session) : x = t
        /\ \A a, d \in Client :
             Holds(client[a], m, session) /\ Holds(client[d], m, session) => a = d
        /\ \A a \in Client : Holds(client[a], m, session) =>
             \A x \in LiveOf(m, session) : client[a].pc = "rotate" /\ x = client[a].from
    BY DEF SInv, OneHolder
  <2>2. \A d \in Client : Holds(client'[d], m, session') =>
          d # c /\ client'[d] = client[d] /\ Holds(client[d], m, session)
    BY <1>7 DEF Holds
  <2>3. CASE m # l
    <3>1. LiveOf(m, session') \subseteq LiveOf(m, session)
      BY <1>1, <1>3, <2>3 DEF LiveOf
    <3> QED BY <2>1, <2>2, <3>1
  <2>4. CASE m = l
    <3>1. LiveOf(m, session) = {} /\ \A d \in Client : d # c => ~Holds(client[d], m, session)
      <4>1. CASE l = s
        <5>1. LiveOf(m, session) = {}
          BY <4>1, <2>4, <1>9 DEF LiveOf
        <5>2. \A d \in Client : ~Holds(client[d], m, session)
          BY <4>1, <2>4, <1>6, <1>9 DEF Holds
        <5> QED BY <5>1, <5>2
      <4>2. CASE client[c].pc = "renew" /\ Holds(client[c], l, session)
        BY <4>2, <2>1, <2>4
      <4> QED BY <4>1, <4>2
    <3>2. LiveOf(m, session') \subseteq {s}
      BY <3>1, <1>3 DEF LiveOf
    <3> QED BY <2>2, <3>1, <3>2
  <2> QED BY <2>3, <2>4
<1>13. TicketsKnown' /\ OneUser'
  BY <1>4, <1>5, TicketFrame
<1>14. Rightly'
  <2>1. \A x \in User : Ending(x) => Ending(x)'
    BY <1>5 DEF Ending
  <2>2. ASSUME NEW x \in User, NEW y \in Live(x)'
        PROVE  \/ y \in Live(x) /\ session'[y].key = session[y].key
               \/ \E d \in Client : /\ Opens(client[d], x, session)
                                    /\ session'[y].key = KeyOf(client[d], session)
    <3>1. CASE y = s
      BY <2>2, <3>1, <1>1, <1>3 DEF Live
    <3>2. CASE y # s
      BY <2>2, <3>2, <1>3 DEF Live
    <3> QED BY <3>1, <3>2
  <2>3. ASSUME NEW x \in User, NEW d \in Client, Opens(client'[d], x, session')
        PROVE  /\ Opens(client[d], x, session)
               /\ KeyOf(client'[d], session') = KeyOf(client[d], session)
    <3>1. d # c /\ client'[d] = client[d]
      BY <2>3, <1>4, <1>5 DEF Opens
    <3>2. CASE client[d].pc = "open"
      BY <2>3, <3>1, <3>2 DEF Opens, KeyOf
    <3>3. CASE client[d].pc # "open"
      <4>1. client'[d].pc \in {"rotate", "renew"}
        BY <2>3, <3>1, <3>3 DEF Opens
      <4>2. session'[client[d].from] = session[client[d].from]
        BY <3>1, <4>1, <1>7
      <4> QED BY <2>3, <3>1, <3>3, <4>1, <4>2 DEF Opens, KeyOf
    <3> QED BY <3>2, <3>3
  <2> QED BY <2>1, <2>2, <2>3, RightlyKept
<1>15. LetGoIsOff'
  BY DEF SInv, LetGoIsOff
<1> QED BY <1>8, <1>11, <1>12, <1>13, <1>14, <1>15 DEF SInv

LEMMA OpenKeeps ==
  ASSUME SInv, NEW c \in Client, Open(c)
  PROVE  SInv'
<1>1. client[c].pc = "open" /\ client[c].of \in User /\ client[c].key \in Key
  BY ClientAt DEF SInv, Open
<1>2. PICK s \in Session :
        ~session[s].used /\ session' = Opened(s, client[c].of, s, client[c].key)
  BY DEF Open, Fresh
<1>3. client' = [client EXCEPT ![c] = Ready] /\ UNCHANGED <<user, ticket, letGo, raced>>
  BY DEF Open, Ends, Goes
<1>4. /\ Opens(client[c], client[c].of, session)
      /\ client[c].key = KeyOf(client[c], session)
  BY <1>1 DEF Opens, KeyOf
<1> QED BY <1>1, <1>2, <1>3, <1>4, Opening

LEMMA RenewKeeps ==
  ASSUME SInv, NEW c \in Client, Renew(c)
  PROVE  SInv'
<1> DEFINE old == session[client[c].from]
<1>1. client[c].pc = "renew" /\ client[c].from \in Session
  BY ClientAt DEF SInv, Renew
<1>2. old.of \in User /\ old.line \in Session /\ old.key \in Key
  BY <1>1 DEF SInv, SessionsTypeOK, SessionRow
<1>3. PICK s \in Session : ~session[s].used /\ session' = Opened(s, old.of, old.line, old.key)
  BY DEF Renew, Fresh
<1>4. client' = [client EXCEPT ![c] = Ready] /\ UNCHANGED <<user, ticket, letGo, raced>>
  BY DEF Renew, Ends, Goes
<1>5. /\ Opens(client[c], old.of, session)
      /\ old.key = KeyOf(client[c], session)
      /\ Holds(client[c], old.line, session)
  BY <1>1 DEF Opens, KeyOf, Holds
<1> QED BY <1>1, <1>2, <1>3, <1>4, <1>5, Opening

LEMMA SInvNext ==
  SInv /\ [SessionsNext]_sessionVars => SInv'
<1> SUFFICES ASSUME SInv, [SessionsNext]_sessionVars PROVE SInv'
  OBVIOUS
<1>1. ASSUME NEW c \in Client, ClientStep(c) PROVE SInv'
  <2>1. ASSUME NEW u \in User, SignUp(c, u) PROVE SInv'
    BY <2>1, SignUpKeeps
  <2>2. ASSUME NEW u \in User,
               LoginByGoogle(c, u) \/ \E password \in Password : Login(c, u, password)
        PROVE  SInv'
    BY <2>2, LoginKeeps
  <2>3. ASSUME NEW u \in User, Resend(c, u) \/ ForgotPassword(c, u) \/ ChangeRole(c, u)
        PROVE  SInv'
    BY <2>3, ResendKeeps
  <2>4. ASSUME NEW u \in User, LetMemberGo(c, u) PROVE SInv'
    BY <2>4, LetMemberGoKeeps
  <2>5. ASSUME NEW s \in Session, Refresh(c, s) PROVE SInv'
    BY <2>5, RefreshKeeps
  <2>6. ASSUME NEW t \in Ticket, VerifyEmail(c, t) \/ ResetPassword(c, t) PROVE SInv'
    BY <2>6, VerifyEmailKeeps, ResetPasswordKeeps
  <2>7. ASSUME Open(c) \/ Rotate(c) \/ Renew(c) \/ EndAll(c) PROVE SInv'
    BY <2>7, OpenKeeps, RotateKeeps, RenewKeeps, EndAllKeeps
  <2>8. ASSUME Mail(c) \/ Replace(c) \/ Confirm(c) \/ Reset(c) \/ Abort(c) PROVE SInv'
    BY <2>8, MailKeeps, ReplaceKeeps, ConfirmKeeps, ResetKeeps, AbortKeeps
  <2> QED BY <1>1, <2>1, <2>2, <2>3, <2>4, <2>5, <2>6, <2>7, <2>8 DEF ClientStep
<1>2. ASSUME NEW s \in Session, Logout(s) \/ ExpireSession(s) PROVE SInv'
  BY <1>2, LogoutKeeps
<1>3. ASSUME NEW t \in Ticket, ExpireTicket(t) PROVE SInv'
  BY <1>3, ExpireTicketKeeps
<1>4. ASSUME NEW u \in User, DeleteUser(u) \/ \E on \in BOOLEAN : SwitchUser(u, on)
      PROVE  SInv'
  BY <1>4, StaffKeeps
<1>5. CASE UNCHANGED sessionVars
  <2>1. UNCHANGED <<user, session, ticket, client, letGo, raced>>
    BY <1>5 DEF sessionVars
  <2>2. SessionsTypeOK'
    BY <2>1 DEF SInv, SessionsTypeOK
  <2>3. SessionsKnown' /\ OneHolder' /\ TicketsKnown' /\ OneUser' /\ Rightly'
    BY <2>1, SessionFrame, TicketFrame, RightlyFrame
  <2>4. LetGoIsOff'
    BY <2>1 DEF SInv, LetGoIsOff
  <2> QED BY <2>2, <2>3, <2>4 DEF SInv
<1> QED BY <1>1, <1>2, <1>3, <1>4, <1>5 DEF SessionsNext

(* What the invariant says of a state in which no request is at work.        *)
LEMMA SInvGivesAccessEnds == SInv => AccessEnds
<1> SUFFICES ASSUME SInv PROVE AccessEnds
  OBVIOUS
<1>1. OneLivePerLogin
  BY DEF SInv, OneHolder, LiveOf, OneLivePerLogin, SessionsTypeOK, SessionRow
<1>2. OldAccessEnded
  <2> SUFFICES ASSUME \A c \in Client : client[c] = Ready,
                      NEW u \in User \ raced, NEW s \in Live(u)
               PROVE  session[s].key \in {user[u].password, ByGoogle} /\ u \notin letGo
    BY DEF OldAccessEnded
  <2>1. ~Ending(u)
    BY DEF Ending, Ready
  <2> QED BY <2>1 DEF SInv, Rightly
<1>3. TicketUsedOnce
  BY DEF SInv, OneUser, TicketUsedOnce
<1> QED BY <1>1, <1>2, <1>3 DEF AccessEnds

(* Every row of a session and what every request carries between its awaits   *)
(* keeps its type, for any number of requests, users and sessions.           *)
THEOREM SessionsAreOf == SessionsSpec => []SessionsTypeOK
<1>1. SInv => SessionsTypeOK
  BY DEF SInv
<1> QED BY <1>1, SInvInit, SInvNext, PTL DEF SessionsSpec

(* A login has one session alive, who lost their access has none once the    *)
(* requests are done, and a ticket works once, but for the races the code    *)
(* has no guard against: for any number of requests, users and sessions.     *)
THEOREM AccessIsOver == SessionsSpec => []AccessEnds
<1> QED BY SInvInit, SInvNext, SInvGivesAccessEnds, PTL DEF SessionsSpec

-----------------------------------------------------------------------------
(* AmbassadorOnboarding: the inductive invariant.                           *)

(* What has been looked at stays looked at: a kind is only ever taken with   *)
(* its documents, which are never taken away.                               *)
Papered(p) == profile[p].kind \in papers[p]
PapersKept ==
  /\ \A p \in Person : /\ profile[p].kind = "NONE" \/ Papered(p)
                       /\ profile[p].verified => Papered(p)
  /\ \A d \in Desk : desk[d].pc = "approve" => Papered(desk[d].of)

LinkedExist == \A pair \in Person \X Person : team[pair].linked => team[pair].exists

(* While nothing was irregular, one request is at work, and what it has read *)
(* is still so.                                                             *)
Alone == \A d, e \in Desk : desk[d] # Clear /\ desk[e] # Clear => d = e

Stands(w, P, M, R) ==
  /\ w.pc = "form" => P[w.of].status # "ACTIVE"
  /\ w.pc = "approve" => P[w.of].status = "PENDING" /\ P[w.of].requested
  /\ w.pc = "grant" => P[w.of].status = "ACTIVE"
  /\ w.pc = "close" => /\ R[w.of] # "GRANTED"
                       /\ \A p \in Person : M[<<w.of, p>>].linked => R[p] # "GRANTED"
  /\ w.pc = "invite" => ~(M[<<w.of, w.member>>].linked /\ M[<<w.of, w.member>>].active)
  /\ w.pc = "letGo" => (M[<<w.of, w.member>>].linked => w.linked)
  /\ w.pc = "bringBack" => /\ P[w.of].status = "ACTIVE"
                           /\ w.linked => M[<<w.of, w.member>>].linked
  /\ w.pc = "switchOn" => /\ P[w.of].status = "ACTIVE"
                          /\ M[<<w.of, w.member>>].linked /\ M[<<w.of, w.member>>].active
  /\ w.pc = "remove" => ~M[<<w.of, w.member>>].linked
  /\ w.pc = "join" => /\ M[<<w.of, w.member>>].active
                      /\ w.approved => P[w.of].status = "ACTIVE"
ReadsHold == \A d \in Desk : Stands(desk[d], profile, team, role)

(* The role is earned, but by whom is about to lose it.                     *)
Earned(p, P, M) ==
  \/ P[p].status = "ACTIVE"
  \/ \E a \in Person : /\ M[<<a, p>>].linked /\ M[<<a, p>>].active
                       /\ P[a].status = "ACTIVE"
Losing(p, D) == \E d \in Desk : D[d].pc = "takeRole" /\ D[d].member = p
RolesEarned ==
  \A p \in Person : role[p] = "GRANTED" =>
    Earned(p, profile, team) \/ Losing(p, desk)

(* Who may be or become an approved agency owns a firm, but for the request  *)
(* that is about to form it.                                                *)
MayBeAgency(row) ==
  /\ row.kind = "COMPANY"
  /\ \/ row.status = "PENDING" /\ row.requested
     \/ row.status = "ACTIVE" /\ row.verified
Owns(p, F, B) == \E f \in Firm : F[f] \in TaxId /\ B[<<p, f>>] = "OWNER"
Forming(p, D) == \E d \in Desk : D[d].pc = "form" /\ D[d].of = p
FirmsOwned ==
  \A p \in Person : MayBeAgency(profile[p]) =>
    Owns(p, firm, membership) \/ Forming(p, desk)

InOrder == Alone /\ ReadsHold /\ RolesEarned /\ FirmsOwned

OInv ==
  /\ OnboardingTypeOK
  /\ PapersKept
  /\ LinkedExist
  /\ ~irregular => InOrder

(* What a request is, by the step it stands at.                             *)
LEMMA DeskAt ==
  ASSUME OnboardingTypeOK, NEW d \in Desk
  PROVE  /\ desk[d] \in DeskState
         /\ desk[d].pc \in {"claim", "form"} =>
              desk[d] \in [pc : {"claim", "form"}, of : Person, kind : Kind, tax : TaxId,
                           invited : SUBSET Person]
         /\ desk[d].pc \in {"approve", "grant"} =>
              desk[d] \in [pc : {"approve", "grant"}, of : Person]
         /\ desk[d].pc \in {"revoke", "close"} =>
              desk[d] \in [pc : {"revoke", "close"}, of : Person,
                           firm : Firm \union {Nobody}, as : {"REJECTED", "SUSPENDED"}]
         /\ desk[d].pc = "invite" =>
              desk[d] \in [pc : {"invite"}, of : Person, member : Person, firm : Firm,
                           existed : BOOLEAN]
         /\ desk[d].pc \in {"letGo", "takeRole", "bringBack", "switchOn"} =>
              desk[d] \in [pc : {"letGo", "takeRole", "bringBack", "switchOn"},
                           of : Person, member : Person, linked : BOOLEAN]
         /\ desk[d].pc = "remove" =>
              desk[d] \in [pc : {"remove"}, of : Person, member : Person]
         /\ desk[d].pc = "lookUp" => desk[d] \in [pc : {"lookUp"}, member : Person]
         /\ desk[d].pc = "join" =>
              desk[d] \in [pc : {"join"}, of : Person, member : Person, approved : BOOLEAN,
                           firm : Firm \union {Nobody}]
<1>1. desk[d] \in DeskState
  BY DEF OnboardingTypeOK
<1>2. desk[d].pc \in {"claim", "form"} =>
        desk[d] \in [pc : {"claim", "form"}, of : Person, kind : Kind, tax : TaxId,
                     invited : SUBSET Person]
  BY <1>1 DEF DeskState, Clear
<1>3. desk[d].pc \in {"approve", "grant"} =>
        desk[d] \in [pc : {"approve", "grant"}, of : Person]
  BY <1>1 DEF DeskState, Clear
<1>4. desk[d].pc \in {"revoke", "close"} =>
        desk[d] \in [pc : {"revoke", "close"}, of : Person,
                     firm : Firm \union {Nobody}, as : {"REJECTED", "SUSPENDED"}]
  BY <1>1 DEF DeskState, Clear
<1>5. desk[d].pc = "invite" =>
        desk[d] \in [pc : {"invite"}, of : Person, member : Person, firm : Firm,
                     existed : BOOLEAN]
  BY <1>1 DEF DeskState, Clear
<1>6. desk[d].pc \in {"letGo", "takeRole", "bringBack", "switchOn"} =>
        desk[d] \in [pc : {"letGo", "takeRole", "bringBack", "switchOn"},
                     of : Person, member : Person, linked : BOOLEAN]
  BY <1>1 DEF DeskState, Clear
<1>7. desk[d].pc = "remove" => desk[d] \in [pc : {"remove"}, of : Person, member : Person]
  BY <1>1 DEF DeskState, Clear
<1>8. desk[d].pc = "lookUp" => desk[d] \in [pc : {"lookUp"}, member : Person]
  BY <1>1 DEF DeskState, Clear
<1>9. desk[d].pc = "join" =>
        desk[d] \in [pc : {"join"}, of : Person, member : Person, approved : BOOLEAN,
                     firm : Firm \union {Nobody}]
  BY <1>1 DEF DeskState, Clear
<1> QED BY <1>1, <1>2, <1>3, <1>4, <1>5, <1>6, <1>7, <1>8, <1>9

LEMMA DeskMoves ==
  ASSUME OnboardingTypeOK, NEW d \in Desk, NEW w \in DeskState,
         desk' = [desk EXCEPT ![d] = w]
  PROVE  /\ desk' \in [Desk -> DeskState]
         /\ desk'[d] = w
         /\ \A e \in Desk : e # d => desk'[e] = desk[e]
BY DEF OnboardingTypeOK

LEMMA ClearIsIdle == Clear \in DeskState /\ Clear.pc = "idle"
BY DEF DeskState, Clear

(* What a request that is at work alone may rely on.                        *)
LEMMA Before ==
  ASSUME OInv, ~irregular, NEW d \in Desk, desk[d] # Clear
  PROVE  /\ \A e \in Desk : e # d => desk[e] = Clear
         /\ Stands(desk[d], profile, team, role)
         /\ \A p \in Person : role[p] = "GRANTED" =>
              Earned(p, profile, team) \/ (desk[d].pc = "takeRole" /\ desk[d].member = p)
         /\ \A p \in Person : MayBeAgency(profile[p]) =>
              Owns(p, firm, membership) \/ (desk[d].pc = "form" /\ desk[d].of = p)
<1>1. \A e \in Desk : e # d => desk[e] = Clear
  BY DEF OInv, InOrder, Alone
<1>2. Stands(desk[d], profile, team, role)
  BY DEF OInv, InOrder, ReadsHold
<1>3. \A p \in Person : Losing(p, desk) => desk[d].pc = "takeRole" /\ desk[d].member = p
  BY <1>1, ClearIsIdle DEF Losing
<1>4. \A p \in Person : Forming(p, desk) => desk[d].pc = "form" /\ desk[d].of = p
  BY <1>1, ClearIsIdle DEF Forming
<1>5. \A p \in Person : role[p] = "GRANTED" =>
              Earned(p, profile, team) \/ (desk[d].pc = "takeRole" /\ desk[d].member = p)
  BY <1>3 DEF OInv, InOrder, RolesEarned
<1>6. \A p \in Person : MayBeAgency(profile[p]) =>
              Owns(p, firm, membership) \/ (desk[d].pc = "form" /\ desk[d].of = p)
  BY <1>4 DEF OInv, InOrder, FirmsOwned
<1> QED BY <1>1, <1>2, <1>5, <1>6

(* What it leaves must be in order, with every other desk clear.             *)
LEMMA After ==
  ASSUME NEW d \in Desk, NEW w \in DeskState, desk'[d] = w,
         \A e \in Desk : e # d => desk'[e] = Clear,
         Stands(w, profile', team', role'),
         \A p \in Person : role'[p] = "GRANTED" =>
           Earned(p, profile', team') \/ (w.pc = "takeRole" /\ w.member = p),
         \A p \in Person : MayBeAgency(profile'[p]) =>
           Owns(p, firm', membership') \/ (w.pc = "form" /\ w.of = p)
  PROVE  InOrder'
<1>1. Alone'
  BY DEF Alone
<1>2. Stands(Clear, profile', team', role')
  BY ClearIsIdle DEF Stands
<1>3. \A e \in Desk : Stands(desk'[e], profile', team', role')
  BY <1>2
<1>4. \A p \in Person : role'[p] = "GRANTED" =>
        Earned(p, profile', team') \/ Losing(p, desk')
  BY DEF Losing
<1>5. \A p \in Person : MayBeAgency(profile'[p]) =>
        Owns(p, firm', membership') \/ Forming(p, desk')
  BY DEF Forming
<1> QED BY <1>1, <1>3, <1>4, <1>5 DEF InOrder, ReadsHold, RolesEarned, FirmsOwned

LEMMA OInvInit == OnboardingInit => OInv
<1> SUFFICES ASSUME OnboardingInit PROVE OInv
  OBVIOUS
<1>1. \A d \in Desk : desk[d] = Clear
  BY DEF OnboardingInit
<1>2. NewProfile \in ProfileRow /\ NoMember \in MemberRow
  BY DEF NewProfile, ProfileRow, Status, NoMember, MemberRow
<1>3. OnboardingTypeOK
  BY <1>2, ClearIsIdle DEF OnboardingInit, OnboardingTypeOK
<1>4. PapersKept
  BY <1>1, ClearIsIdle DEF OnboardingInit, PapersKept, NewProfile
<1>5. LinkedExist
  BY DEF OnboardingInit, LinkedExist, NoMember
<1>6. InOrder
  <2>1. Alone
    BY <1>1 DEF Alone
  <2>2. ReadsHold
    BY <1>1, ClearIsIdle DEF ReadsHold, Stands
  <2>3. RolesEarned
    BY DEF RolesEarned, OnboardingInit
  <2>4. FirmsOwned
    BY DEF FirmsOwned, OnboardingInit, MayBeAgency, NewProfile
  <2> QED BY <2>1, <2>2, <2>3, <2>4 DEF InOrder
<1> QED BY <1>3, <1>4, <1>5, <1>6 DEF OInv

(* A request begins: nothing has changed since it read what it has read.     *)
LEMMA Begins ==
  ASSUME OInv, NEW d \in Desk, NEW w \in DeskState, Begin(d, w),
         UNCHANGED <<profile, papers, role, agencies>>,
         account' \in [Person -> {"ABSENT", "ACTIVE", "INACTIVE", "DELETED"}],
         w.pc = "approve" => Papered(w.of),
         Stands(w, profile, team, role)
  PROVE  OInv'
<1>1. /\ desk[d] = Clear
      /\ desk' = [desk EXCEPT ![d] = w]
      /\ irregular' = (irregular \/ \E x \in Desk \ {d} : desk[x] # Clear)
      /\ UNCHANGED <<profile, papers, role, firm, membership, team>>
  BY DEF Begin, agencies
<1>2. /\ desk' \in [Desk -> DeskState]
      /\ desk'[d] = w
      /\ \A e \in Desk : e # d => desk'[e] = desk[e]
  BY <1>1, DeskMoves DEF OInv
<1>3. OnboardingTypeOK'
  BY <1>1, <1>2 DEF OInv, OnboardingTypeOK
<1>4. PapersKept'
  BY <1>1, <1>2 DEF OInv, PapersKept, Papered
<1>5. LinkedExist'
  BY <1>1 DEF OInv, LinkedExist
<1>6. ASSUME ~irregular' PROVE InOrder'
  <2>1. ~irregular /\ \A e \in Desk : desk[e] = Clear
    BY <1>1, <1>6
  <2>2. \A p \in Person : role'[p] = "GRANTED" => Earned(p, profile', team')
    BY <1>1, <2>1, ClearIsIdle DEF OInv, InOrder, RolesEarned, Losing
  <2>3. \A p \in Person : MayBeAgency(profile'[p]) => Owns(p, firm', membership')
    BY <1>1, <2>1, ClearIsIdle DEF OInv, InOrder, FirmsOwned, Forming
  <2>4. Stands(w, profile', team', role')
    BY <1>1
  <2> QED BY <1>2, <2>1, <2>2, <2>3, <2>4, After
<1> QED BY <1>3, <1>4, <1>5, <1>6 DEF OInv

LEMMA AppliesKeeps ==
  ASSUME OInv, NEW d \in Desk, NEW p \in Person, Applies(d, p)
  PROVE  OInv'
<1>1. ASSUME NEW kind \in Kind, NEW tax \in TaxId, NEW invited \in SUBSET Person,
             Request(d, p, kind, tax, invited)
      PROVE  OInv'
  <2> DEFINE w == [pc |-> "claim", of |-> p, kind |-> kind, tax |-> tax,
                   invited |-> invited]
  <2>1. w \in DeskState /\ w.pc = "claim"
    BY DEF DeskState
  <2>2. Begin(d, w) /\ UNCHANGED <<account, profile, papers, role, agencies>>
    BY <1>1 DEF Request, people
  <2> HIDE DEF w
  <2>3. Stands(w, profile, team, role)
    BY <2>1 DEF Stands
  <2>4. account' \in [Person -> {"ABSENT", "ACTIVE", "INACTIVE", "DELETED"}]
    BY <2>2 DEF OInv, OnboardingTypeOK
  <2> QED BY <2>1, <2>2, <2>3, <2>4, Begins
<1>2. CASE Verify(d, p)
  <2> DEFINE w == [pc |-> "approve", of |-> p]
  <2>1. w \in DeskState /\ w.pc = "approve" /\ w.of = p
    BY DEF DeskState
  <2>2. /\ Begin(d, w) /\ UNCHANGED <<account, profile, papers, role, agencies>>
        /\ profile[p].status = "PENDING" /\ profile[p].requested
        /\ profile[p].kind \in papers[p]
    BY <1>2 DEF Verify, people
  <2> HIDE DEF w
  <2>3. Stands(w, profile, team, role)
    BY <2>1, <2>2 DEF Stands
  <2>4. account' \in [Person -> {"ABSENT", "ACTIVE", "INACTIVE", "DELETED"}]
    BY <2>2 DEF OInv, OnboardingTypeOK
  <2>5. Papered(w.of)
    BY <2>1, <2>2 DEF Papered
  <2> QED BY <2>1, <2>2, <2>3, <2>4, <2>5, Begins
<1>3. CASE Reject(d, p) \/ Suspend(d, p)
  <2>1. PICK f \in Firm \union {Nobody}, as \in {"REJECTED", "SUSPENDED"} :
          Begin(d, [pc |-> "revoke", of |-> p, firm |-> f, as |-> as])
    BY <1>3 DEF Reject, Suspend, OwnedBy, Firms
  <2> DEFINE w == [pc |-> "revoke", of |-> p, firm |-> f, as |-> as]
  <2>2. w \in DeskState /\ w.pc = "revoke"
    BY DEF DeskState
  <2>3. Begin(d, w) /\ UNCHANGED <<account, profile, papers, role, agencies>>
    BY <1>3, <2>1 DEF Reject, Suspend, people
  <2> HIDE DEF w
  <2>4. Stands(w, profile, team, role)
    BY <2>2 DEF Stands
  <2>5. account' \in [Person -> {"ABSENT", "ACTIVE", "INACTIVE", "DELETED"}]
    BY <2>3 DEF OInv, OnboardingTypeOK
  <2> QED BY <2>2, <2>3, <2>4, <2>5, Begins
<1>4. CASE Register(d, p) \/ GoogleLogin(d, p)
  <2> DEFINE w == [pc |-> "lookUp", member |-> p]
  <2>1. w \in DeskState /\ w.pc = "lookUp"
    BY DEF DeskState
  <2>2. /\ Begin(d, w) /\ UNCHANGED <<profile, papers, role, agencies>>
        /\ account' = account \/ account' = [account EXCEPT ![p] = "ACTIVE"]
    BY <1>4 DEF Register, GoogleLogin, people
  <2> HIDE DEF w
  <2>3. Stands(w, profile, team, role)
    BY <2>1 DEF Stands
  <2>4. account' \in [Person -> {"ABSENT", "ACTIVE", "INACTIVE", "DELETED"}]
    BY <2>2 DEF OInv, OnboardingTypeOK
  <2> QED BY <2>1, <2>2, <2>3, <2>4, Begins
<1>5. "INDIVIDUAL" \in Kind /\ "COMPANY" \in Kind /\ {} \in SUBSET Person
  BY DEF Kind
<1> QED BY <1>1, <1>2, <1>3, <1>4, <1>5 DEF Applies

LEMMA ManagesKeeps ==
  ASSUME OInv, NEW d \in Desk, NEW a \in Person, NEW m \in Person, Manages(d, a, m)
  PROVE  OInv'
<1> DEFINE row == team[<<a, m>>]
<1>1. /\ row.exists \in BOOLEAN /\ row.active \in BOOLEAN /\ row.linked \in BOOLEAN
      /\ row.linked => row.exists
  <2>1. row \in MemberRow
    BY DEF OInv, OnboardingTypeOK
  <2> QED BY <2>1 DEF MemberRow, OInv, LinkedExist
<1>2. MayManage(a) => profile[a].status = "ACTIVE"
  BY DEF MayManage, Approved
<1>3. UNCHANGED <<account, profile, papers, role, agencies>>
  BY DEF Manages, AddMember, Deactivate, Activate, RemoveMember, people
<1>4. account' \in [Person -> {"ABSENT", "ACTIVE", "INACTIVE", "DELETED"}]
  BY <1>3 DEF OInv, OnboardingTypeOK
<1>5. CASE AddMember(d, a, m)
  <2>1. PICK f \in Firm : Begin(d, [pc |-> "invite", of |-> a, member |-> m, firm |-> f,
                                    existed |-> row.exists])
    BY <1>5 DEF AddMember, OwnedBy, Firms
  <2> DEFINE w == [pc |-> "invite", of |-> a, member |-> m, firm |-> f,
                   existed |-> row.exists]
  <2>2. w \in DeskState /\ w.pc = "invite" /\ w.of = a /\ w.member = m
    BY <1>1 DEF DeskState
  <2>3. Begin(d, w) /\ ~(row.exists /\ row.active)
    BY <1>5, <2>1 DEF AddMember
  <2> HIDE DEF w
  <2>4. Stands(w, profile, team, role)
    BY <1>1, <2>2, <2>3 DEF Stands
  <2> QED BY <1>3, <1>4, <2>2, <2>3, <2>4, Begins
<1>6. CASE Deactivate(d, a, m)
  <2> DEFINE w == [pc |-> "letGo", of |-> a, member |-> m, linked |-> row.linked]
  <2>1. /\ w \in DeskState /\ w.pc = "letGo" /\ w.of = a /\ w.member = m
        /\ w.linked = row.linked
    BY <1>1 DEF DeskState
  <2>2. Begin(d, w)
    BY <1>6 DEF Deactivate
  <2> HIDE DEF w
  <2>3. Stands(w, profile, team, role)
    BY <1>1, <2>1 DEF Stands
  <2> QED BY <1>3, <1>4, <2>1, <2>2, <2>3, Begins
<1>7. CASE Activate(d, a, m)
  <2> DEFINE w == [pc |-> "bringBack", of |-> a, member |-> m, linked |-> row.linked]
  <2>1. /\ w \in DeskState /\ w.pc = "bringBack" /\ w.of = a /\ w.member = m
        /\ w.linked = row.linked
    BY <1>1 DEF DeskState
  <2>2. Begin(d, w) /\ profile[a].status = "ACTIVE"
    BY <1>2, <1>7 DEF Activate
  <2> HIDE DEF w
  <2>3. Stands(w, profile, team, role)
    BY <1>1, <2>1, <2>2 DEF Stands
  <2> QED BY <1>3, <1>4, <2>1, <2>2, <2>3, Begins
<1>8. CASE RemoveMember(d, a, m)
  <2> DEFINE w == [pc |-> "remove", of |-> a, member |-> m]
  <2>1. w \in DeskState /\ w.pc = "remove" /\ w.of = a /\ w.member = m
    BY DEF DeskState
  <2>2. Begin(d, w) /\ ~row.linked
    BY <1>8 DEF RemoveMember
  <2> HIDE DEF w
  <2>3. Stands(w, profile, team, role)
    BY <1>1, <2>1, <2>2 DEF Stands
  <2> QED BY <1>3, <1>4, <2>1, <2>2, <2>3, Begins
<1> QED BY <1>5, <1>6, <1>7, <1>8 DEF Manages

(* A request goes on, alone or not.                                         *)
LEMMA Works ==
  ASSUME OInv, NEW d \in Desk, NEW w \in DeskState, desk[d] # Clear,
         desk' = [desk EXCEPT ![d] = w], UNCHANGED <<papers, irregular>>,
         w.pc # "approve",
         account' \in [Person -> {"ABSENT", "ACTIVE", "INACTIVE", "DELETED"}],
         profile' \in [Person -> ProfileRow],
         role' \in [Person -> {"NONE", "GRANTED", "ASSIGNED"}],
         firm' \in [Firm -> {"UNUSED", "GONE"} \union TaxId],
         membership' \in [Person \X Firm -> {"NONE", "MEMBER", "OWNER"}],
         team' \in [Person \X Person -> MemberRow],
         LinkedExist',
         \A p \in Person :
           \/ Papered(p)'
           \/ /\ profile'[p].kind = profile[p].kind
              /\ profile'[p].verified => profile[p].verified,
         ~irregular =>
           /\ Stands(w, profile', team', role')
           /\ \A p \in Person : role'[p] = "GRANTED" =>
                Earned(p, profile', team') \/ (w.pc = "takeRole" /\ w.member = p)
           /\ \A p \in Person : MayBeAgency(profile'[p]) =>
                Owns(p, firm', membership') \/ (w.pc = "form" /\ w.of = p)
  PROVE  OInv'
<1>1. /\ desk' \in [Desk -> DeskState]
      /\ desk'[d] = w
      /\ \A e \in Desk : e # d => desk'[e] = desk[e]
  BY DeskMoves DEF OInv
<1>2. OnboardingTypeOK'
  BY <1>1 DEF OInv, OnboardingTypeOK
<1>3. \A e \in Desk : desk[e].pc = "approve" => desk[e].of \in Person
  BY DeskAt DEF OInv
<1>4. PapersKept'
  <2>1. ASSUME NEW p \in Person
        PROVE  /\ Papered(p) => Papered(p)'
               /\ profile'[p].kind = "NONE" \/ Papered(p)'
               /\ profile'[p].verified => Papered(p)'
    BY <2>1 DEF OInv, PapersKept, Papered
  <2>2. ASSUME NEW e \in Desk, desk'[e].pc = "approve"
        PROVE  profile'[desk'[e].of].kind \in papers'[desk'[e].of]
    <3>1. desk'[e] = desk[e] /\ desk[e].of \in Person
      BY <1>1, <1>3, <2>2
    <3>2. Papered(desk[e].of)
      BY <2>2, <3>1 DEF OInv, PapersKept
    <3>3. \E p \in Person : p = desk[e].of /\ Papered(p)'
      BY <2>1, <3>1, <3>2
    <3> QED BY <3>1, <3>3 DEF Papered
  <2> QED BY <2>1, <2>2 DEF PapersKept, Papered
<1>5. ASSUME ~irregular' PROVE InOrder'
  <2>1. \A e \in Desk : e # d => desk'[e] = Clear
    BY <1>1, <1>5, Before
  <2> QED BY <1>1, <1>5, <2>1, After
<1> QED BY <1>2, <1>4, <1>5 DEF OInv

LEMMA ClaimKeeps ==
  ASSUME OInv, NEW d \in Desk, Claim(d)
  PROVE  OInv'
<1> DEFINE r == desk[d]
<1>1. /\ r \in [pc : {"claim", "form"}, of : Person, kind : Kind, tax : TaxId,
                invited : SUBSET Person]
      /\ r.pc = "claim"
  BY DeskAt DEF Claim, OInv
<1>2. r \in DeskState /\ r # Clear
  BY <1>1, ClearIsIdle DEF OInv, OnboardingTypeOK
<1>3. UNCHANGED <<account, papers, role, firm, membership, team, irregular>>
  BY DEF Claim, Go, Leave, agencies
<1>4. PICK p \in Person : p = r.of
  BY <1>1
<1> DEFINE new == [profile[p] EXCEPT !.kind = r.kind, !.requested = TRUE, !.status = "PENDING"]
           form == [r EXCEPT !.pc = "form"]
<1>5. profile[p] \in ProfileRow /\ r.kind \in Kind
  BY <1>1 DEF OInv, OnboardingTypeOK
<1>6. /\ new \in ProfileRow /\ new.kind = r.kind /\ new.status = "PENDING"
      /\ new.verified = profile[p].verified
  BY <1>5 DEF ProfileRow, Status
<1>7. form \in DeskState /\ form.pc = "form" /\ form.of = p
  <2>1. /\ form \in [pc : {"claim", "form"}, of : Person, kind : Kind, tax : TaxId,
                     invited : SUBSET Person]
        /\ form.pc = "form" /\ form.of = r.of
    BY <1>1
  <2> QED BY <1>4, <2>1 DEF DeskState
<1>8. \/ UNCHANGED profile /\ desk' = [desk EXCEPT ![d] = Clear]
      \/ /\ profile' = [profile EXCEPT ![p] = new]
         /\ r.kind \in papers[p] /\ profile[p].status # "ACTIVE"
         /\ \/ desk' = [desk EXCEPT ![d] = form]
            \/ r.kind # "COMPANY" /\ desk' = [desk EXCEPT ![d] = Clear]
  BY <1>4 DEF Claim, Complete, Claimable, MayRequest, Go, Leave
<1> HIDE DEF new, form
<1>9. LinkedExist'
  BY <1>3 DEF OInv, LinkedExist
<1>10. CASE UNCHANGED profile /\ desk' = [desk EXCEPT ![d] = Clear]
  <2>1. ~irregular =>
           /\ Stands(Clear, profile', team', role')
           /\ \A q \in Person : role'[q] = "GRANTED" => Earned(q, profile', team')
           /\ \A q \in Person : MayBeAgency(profile'[q]) => Owns(q, firm', membership')
    <3> SUFFICES ASSUME ~irregular
                 PROVE  /\ Stands(Clear, profile', team', role')
                        /\ \A q \in Person : role'[q] = "GRANTED" => Earned(q, profile', team')
                        /\ \A q \in Person : MayBeAgency(profile'[q]) =>
                             Owns(q, firm', membership')
      OBVIOUS
    <3>1. Stands(Clear, profile', team', role')
      BY ClearIsIdle DEF Stands
    <3> QED BY <1>1, <1>2, <1>3, <1>10, <3>1, Before
  <2> QED BY <1>2, <1>3, <1>9, <1>10, <2>1, ClearIsIdle, Works DEF OInv, OnboardingTypeOK
<1>11. ASSUME NEW w \in DeskState, desk' = [desk EXCEPT ![d] = w],
              profile' = [profile EXCEPT ![p] = new],
              r.kind \in papers[p], profile[p].status # "ACTIVE",
              w = form \/ (r.kind # "COMPANY" /\ w = Clear)
       PROVE  OInv'
  <2>1. /\ profile' \in [Person -> ProfileRow]
        /\ profile'[p] = new
        /\ \A q \in Person : q # p => profile'[q] = profile[q]
    BY <1>6, <1>11 DEF OInv, OnboardingTypeOK
  <2>2. \A q \in Person : \/ Papered(q)'
                          \/ /\ profile'[q].kind = profile[q].kind
                             /\ profile'[q].verified => profile[q].verified
    BY <1>3, <1>6, <1>11, <2>1 DEF Papered
  <2>3. w.pc \in {"form", "idle"} /\ (w.pc = "form" => w.of = p)
    BY <1>7, <1>11, ClearIsIdle
  <2>4. ASSUME ~irregular
        PROVE  /\ Stands(w, profile', team', role')
               /\ \A q \in Person : role'[q] = "GRANTED" => Earned(q, profile', team')
               /\ \A q \in Person : MayBeAgency(profile'[q]) =>
                    Owns(q, firm', membership') \/ (w.pc = "form" /\ w.of = q)
    <3>1. Stands(w, profile', team', role')
      BY <1>6, <2>1, <2>3 DEF Stands
    <3>2. ASSUME NEW q \in Person, role'[q] = "GRANTED" PROVE Earned(q, profile', team')
      <4>1. Earned(q, profile, team)
        BY <1>1, <1>2, <1>3, <2>4, <3>2, Before
      <4>2. \A x \in Person : profile[x].status = "ACTIVE" => profile'[x].status = "ACTIVE"
        BY <1>11, <2>1
      <4> QED BY <1>3, <4>1, <4>2 DEF Earned
    <3>3. ASSUME NEW q \in Person, MayBeAgency(profile'[q])
          PROVE  Owns(q, firm', membership') \/ (w.pc = "form" /\ w.of = q)
      <4>1. CASE q # p
        <5>1. MayBeAgency(profile[q])
          BY <2>1, <3>3, <4>1
        <5>2. Owns(q, firm, membership)
          BY <1>1, <1>2, <2>4, <5>1, Before
        <5> QED BY <1>3, <5>2
      <4>2. CASE q = p
        BY <1>6, <1>7, <1>11, <2>1, <3>3, <4>2 DEF MayBeAgency
      <4> QED BY <4>1, <4>2
    <3> QED BY <3>1, <3>2, <3>3
  <2>5. w.pc # "approve"
    BY <2>3
  <2> QED BY <1>2, <1>3, <1>9, <1>11, <2>1, <2>2, <2>4, <2>5, Works DEF OInv, OnboardingTypeOK
<1> QED BY <1>7, <1>8, <1>10, <1>11, ClearIsIdle

LEMMA FormTeamKeeps ==
  ASSUME OInv, NEW d \in Desk, FormTeam(d)
  PROVE  OInv'
<1> DEFINE r == desk[d]
<1>1. /\ r \in [pc : {"claim", "form"}, of : Person, kind : Kind, tax : TaxId,
                invited : SUBSET Person]
      /\ r.pc = "form"
  BY DeskAt DEF FormTeam, OInv
<1>2. r \in DeskState /\ r # Clear
  BY <1>1, ClearIsIdle DEF OInv, OnboardingTypeOK
<1>3. UNCHANGED <<account, profile, papers, role, irregular>> /\ desk' = [desk EXCEPT ![d] = Clear]
  BY DEF FormTeam, Go, Leave, people
<1>4. PICK p \in Person : p = r.of
  BY <1>1
<1>5. PICK f \in Firm :
        /\ firm[f] = r.tax \/ firm[f] = "UNUSED"
        /\ firm' = [firm EXCEPT ![f] = r.tax]
        /\ membership' = [membership EXCEPT ![<<p, f>>] = "OWNER"]
        /\ team' = [pair \in Person \X Person |->
             IF pair[1] # p THEN team[pair]
             ELSE IF pair[2] \in r.invited THEN InvitedBy(f) ELSE NoMember]
  <2> DEFINE known == {g \in Firms : firm[g] = r.tax}
             fresh == {g \in Firm : firm[g] = "UNUSED"}
  <2>1. PICK f \in (IF known # {} THEN known ELSE fresh) :
          /\ firm' = [firm EXCEPT ![f] = r.tax]
          /\ membership' = [membership EXCEPT ![<<p, f>>] = "OWNER"]
          /\ team' = [pair \in Person \X Person |->
               IF pair[1] # p THEN team[pair]
               ELSE IF pair[2] \in r.invited THEN InvitedBy(f) ELSE NoMember]
    BY <1>4, Zenon DEF FormTeam
  <2>2. f \in Firm /\ (firm[f] = r.tax \/ firm[f] = "UNUSED")
    BY DEF Firms
  <2> QED BY <2>1, <2>2
<1>6. /\ InvitedBy(f) \in MemberRow /\ ~InvitedBy(f).linked
      /\ NoMember \in MemberRow /\ ~NoMember.linked
  BY DEF InvitedBy, NoMember, MemberRow
<1>7. /\ team' \in [Person \X Person -> MemberRow]
      /\ \A a, m \in Person : a # p => team'[<<a, m>>] = team[<<a, m>>]
      /\ \A m \in Person : ~team'[<<p, m>>].linked
  BY <1>5, <1>6 DEF OInv, OnboardingTypeOK
<1>8. /\ firm' \in [Firm -> {"UNUSED", "GONE"} \union TaxId]
      /\ firm'[f] \in TaxId
      /\ \A g \in Firm : firm[g] \in TaxId => firm'[g] \in TaxId
  BY <1>1, <1>5 DEF OInv, OnboardingTypeOK
<1>9. /\ membership' \in [Person \X Firm -> {"NONE", "MEMBER", "OWNER"}]
      /\ membership'[<<p, f>>] = "OWNER"
      /\ \A q \in Person, g \in Firm :
           membership[<<q, g>>] = "OWNER" => membership'[<<q, g>>] = "OWNER"
  BY <1>5 DEF OInv, OnboardingTypeOK
<1>10. LinkedExist'
  <2> SUFFICES ASSUME NEW a \in Person, NEW m \in Person, team'[<<a, m>>].linked
               PROVE  team'[<<a, m>>].exists
    BY DEF LinkedExist
  <2>1. a # p
    BY <1>7
  <2> QED BY <1>7, <2>1 DEF OInv, LinkedExist
<1>11. ASSUME ~irregular
       PROVE  /\ Stands(Clear, profile', team', role')
              /\ \A q \in Person : role'[q] = "GRANTED" => Earned(q, profile', team')
              /\ \A q \in Person : MayBeAgency(profile'[q]) => Owns(q, firm', membership')
  <2>1. Stands(Clear, profile', team', role')
    BY ClearIsIdle DEF Stands
  <2>2. profile[p].status # "ACTIVE"
    BY <1>1, <1>2, <1>4, <1>11, Before DEF Stands
  <2>3. ASSUME NEW q \in Person, role'[q] = "GRANTED" PROVE Earned(q, profile', team')
    <3>1. Earned(q, profile, team)
      BY <1>1, <1>2, <1>3, <1>11, <2>3, Before
    <3> QED BY <1>3, <1>7, <2>2, <3>1 DEF Earned
  <2>4. ASSUME NEW q \in Person, MayBeAgency(profile'[q]) PROVE Owns(q, firm', membership')
    <3>1. Owns(q, firm, membership) \/ q = p
      BY <1>1, <1>2, <1>3, <1>4, <1>11, <2>4, Before
    <3> QED BY <1>8, <1>9, <3>1 DEF Owns
  <2> QED BY <2>1, <2>3, <2>4
<1>12. \A q \in Person : /\ profile'[q].kind = profile[q].kind
                         /\ profile'[q].verified => profile[q].verified
  BY <1>3
<1> HIDE DEF r
<1> QED BY <1>2, <1>3, <1>7, <1>8, <1>9, <1>10, <1>11, <1>12, ClearIsIdle, Works
        DEF r, OInv, OnboardingTypeOK

(* Roles given and taken, as functions.                                     *)
LEMMA RolesGiven ==
  ASSUME OnboardingTypeOK, NEW S
  PROVE  /\ WithRole(S) \in [Person -> {"NONE", "GRANTED", "ASSIGNED"}]
         /\ \A p \in Person : WithRole(S)[p] = "GRANTED" => role[p] = "GRANTED" \/ p \in S
         /\ WithoutRole(S) \in [Person -> {"NONE", "GRANTED", "ASSIGNED"}]
         /\ \A p \in Person : WithoutRole(S)[p] = "GRANTED" => role[p] = "GRANTED" /\ p \notin S
BY DEF WithRole, WithoutRole, OnboardingTypeOK

LEMMA ApproveKeeps ==
  ASSUME OInv, NEW d \in Desk, Approve(d)
  PROVE  OInv'
<1> PICK p \in Person : desk[d].pc = "approve" /\ p = desk[d].of
  BY DeskAt DEF Approve, OInv
<1> DEFINE new == [profile[p] EXCEPT !.verified = TRUE, !.status = "ACTIVE"]
           w == [pc |-> "grant", of |-> p]
<1>1. /\ profile' = [profile EXCEPT ![p] = new]
      /\ role' = WithRole({p})
      /\ desk' = [desk EXCEPT ![d] = w]
      /\ UNCHANGED <<account, papers, firm, membership, team, irregular>>
  BY DEF Approve, Go, agencies
<1>2. w \in DeskState /\ w.pc = "grant" /\ w.of = p
  BY DEF DeskState
<1>3. profile[p] \in ProfileRow
  BY DEF OInv, OnboardingTypeOK
<1>4. /\ new \in ProfileRow /\ new.kind = profile[p].kind /\ new.status = "ACTIVE"
      /\ new.verified
  BY <1>3 DEF ProfileRow, Status
<1>5. desk[d] # Clear
  BY ClearIsIdle
<1> HIDE DEF new, w
<1>6. /\ profile' \in [Person -> ProfileRow]
      /\ profile'[p] = new
      /\ \A q \in Person : q # p => profile'[q] = profile[q]
  BY <1>1, <1>4 DEF OInv, OnboardingTypeOK
<1>7. /\ role' \in [Person -> {"NONE", "GRANTED", "ASSIGNED"}]
      /\ \A q \in Person : role'[q] = "GRANTED" => role[q] = "GRANTED" \/ q = p
  BY <1>1, RolesGiven DEF OInv
<1>8. LinkedExist'
  BY <1>1 DEF OInv, LinkedExist
<1>9. \A q \in Person : \/ Papered(q)'
                        \/ /\ profile'[q].kind = profile[q].kind
                           /\ profile'[q].verified => profile[q].verified
  BY <1>1, <1>4, <1>6 DEF OInv, PapersKept, Papered
<1>10. ASSUME ~irregular
       PROVE  /\ Stands(w, profile', team', role')
              /\ \A q \in Person : role'[q] = "GRANTED" => Earned(q, profile', team')
              /\ \A q \in Person : MayBeAgency(profile'[q]) => Owns(q, firm', membership')
  <2>1. Stands(w, profile', team', role')
    BY <1>2, <1>4, <1>6 DEF Stands
  <2>2. profile[p].status = "PENDING" /\ profile[p].requested
    BY <1>5, <1>10, Before DEF Stands
  <2>3. ASSUME NEW q \in Person, role'[q] = "GRANTED" PROVE Earned(q, profile', team')
    <3>1. CASE q = p
      BY <3>1, <1>4, <1>6 DEF Earned
    <3>2. CASE q # p
      <4>1. Earned(q, profile, team)
        BY <1>5, <1>7, <1>10, <2>3, <3>2, Before
      <4>2. \A x \in Person : profile[x].status = "ACTIVE" => profile'[x].status = "ACTIVE"
        BY <1>4, <1>6
      <4> QED BY <1>1, <4>1, <4>2 DEF Earned
    <3> QED BY <3>1, <3>2
  <2>4. ASSUME NEW q \in Person, MayBeAgency(profile'[q]) PROVE Owns(q, firm', membership')
    <3>1. MayBeAgency(profile[q])
      BY <1>4, <1>6, <2>2, <2>4 DEF MayBeAgency
    <3>2. Owns(q, firm, membership)
      BY <1>5, <1>10, <3>1, Before
    <3> QED BY <1>1, <3>2
  <2> QED BY <2>1, <2>3, <2>4
<1> QED BY <1>1, <1>2, <1>5, <1>6, <1>7, <1>8, <1>9, <1>10, Works
        DEF OInv, OnboardingTypeOK

(* A step that writes roles only, gives them to who has earned them, and is  *)
(* the request's last.                                                      *)
LEMMA RoleStep ==
  ASSUME OInv, NEW d \in Desk, NEW w \in DeskState, desk[d] # Clear,
         desk[d].pc # "form", w.pc # "approve",
         desk' = [desk EXCEPT ![d] = w],
         UNCHANGED <<profile, papers, agencies, irregular>>,
         account' \in [Person -> {"ABSENT", "ACTIVE", "INACTIVE", "DELETED"}],
         role' \in [Person -> {"NONE", "GRANTED", "ASSIGNED"}],
         ~irregular => Stands(w, profile, team, role'),
         ~irregular => \A p \in Person : role'[p] = "GRANTED" =>
                         \/ role[p] = "GRANTED" /\ (desk[d].pc = "takeRole" => desk[d].member # p)
                         \/ Earned(p, profile, team)
  PROVE  OInv'
<1>1. UNCHANGED <<profile, papers, firm, membership, team, irregular>>
  BY DEF agencies
<1>2. LinkedExist'
  BY <1>1 DEF OInv, LinkedExist
<1>3. ASSUME ~irregular
      PROVE  /\ Stands(w, profile', team', role')
             /\ \A p \in Person : role'[p] = "GRANTED" => Earned(p, profile', team')
             /\ \A p \in Person : MayBeAgency(profile'[p]) => Owns(p, firm', membership')
  <2>1. Stands(w, profile', team', role')
    BY <1>1, <1>3
  <2>2. \A p \in Person : role'[p] = "GRANTED" => Earned(p, profile, team)
    BY <1>3, Before
  <2>3. \A p \in Person : MayBeAgency(profile[p]) => Owns(p, firm, membership)
    BY <1>3, Before
  <2> QED BY <1>1, <2>1, <2>2, <2>3
<1>4. \A p \in Person : /\ profile'[p].kind = profile[p].kind
                        /\ profile'[p].verified => profile[p].verified
  BY <1>1
<1> QED BY <1>1, <1>2, <1>3, <1>4, Works DEF OInv, OnboardingTypeOK

LEMMA GrantKeeps ==
  ASSUME OInv, NEW d \in Desk, Grant(d)
  PROVE  OInv'
<1> PICK a \in Person : desk[d].pc = "grant" /\ a = desk[d].of
  BY DeskAt DEF Grant, OInv
<1> DEFINE S == {m \in LinkedTo(a) : team[<<a, m>>].active}
<1>1. /\ role' = WithRole(S)
      /\ desk' = [desk EXCEPT ![d] = Clear]
      /\ UNCHANGED <<account, profile, papers, agencies, irregular>>
  BY DEF Grant, Leave, Go
<1>2. desk[d] # Clear
  BY ClearIsIdle
<1>3. ~irregular => profile[a].status = "ACTIVE"
  BY <1>2, Before DEF Stands
<1>4. \A p \in S : team[<<a, p>>].linked /\ team[<<a, p>>].active
  BY DEF LinkedTo
<1> HIDE DEF S
<1>5. /\ role' \in [Person -> {"NONE", "GRANTED", "ASSIGNED"}]
      /\ \A p \in Person : role'[p] = "GRANTED" => role[p] = "GRANTED" \/ p \in S
  BY <1>1, RolesGiven DEF OInv
<1>6. ~irregular => \A p \in Person : role'[p] = "GRANTED" =>
                      role[p] = "GRANTED" \/ Earned(p, profile, team)
  BY <1>3, <1>4, <1>5 DEF Earned
<1>7. Stands(Clear, profile, team, role')
  BY ClearIsIdle DEF Stands
<1> QED BY <1>1, <1>2, <1>5, <1>6, <1>7, ClearIsIdle, RoleStep DEF OInv, OnboardingTypeOK

LEMMA RevokeKeeps ==
  ASSUME OInv, NEW d \in Desk, Revoke(d)
  PROVE  OInv'
<1>1. /\ desk[d] \in [pc : {"revoke", "close"}, of : Person,
                      firm : Firm \union {Nobody}, as : {"REJECTED", "SUSPENDED"}]
      /\ desk[d].pc = "revoke"
  BY DeskAt DEF Revoke, OInv
<1> PICK a \in Person : a = desk[d].of
  BY <1>1
<1> DEFINE w == [desk[d] EXCEPT !.pc = "close"]
<1>2. /\ role' = WithoutRole(Revoked(a))
      /\ desk' = [desk EXCEPT ![d] = w]
      /\ UNCHANGED <<account, profile, papers, agencies, irregular>>
  BY DEF Revoke, Go
<1>3. w \in DeskState /\ w.pc = "close" /\ w.of = a
  <2>1. /\ w \in [pc : {"revoke", "close"}, of : Person,
                  firm : Firm \union {Nobody}, as : {"REJECTED", "SUSPENDED"}]
        /\ w.pc = "close" /\ w.of = a
    BY <1>1
  <2> QED BY <2>1 DEF DeskState
<1>4. desk[d] # Clear
  BY <1>1, ClearIsIdle
<1> HIDE DEF w
<1>5. /\ role' \in [Person -> {"NONE", "GRANTED", "ASSIGNED"}]
      /\ \A p \in Person : role'[p] = "GRANTED" => role[p] = "GRANTED" /\ p \notin Revoked(a)
  BY <1>2, RolesGiven DEF OInv
<1>6. a \in Revoked(a) /\ \A p \in Person : team[<<a, p>>].linked => p \in Revoked(a)
  BY DEF Revoked, LinkedTo, Team, OInv, LinkedExist
<1>7. Stands(w, profile, team, role')
  BY <1>3, <1>5, <1>6 DEF Stands
<1> QED BY <1>1, <1>2, <1>3, <1>4, <1>5, <1>7, RoleStep DEF OInv, OnboardingTypeOK

LEMMA TakeRoleKeeps ==
  ASSUME OInv, NEW d \in Desk, TakeRole(d)
  PROVE  OInv'
<1>1. /\ role' = WithoutRole({desk[d].member})
      /\ desk[d].pc = "takeRole"
      /\ desk' = [desk EXCEPT ![d] = Clear]
      /\ UNCHANGED <<account, profile, papers, agencies, irregular>>
  BY DEF TakeRole, Leave, Go
<1>2. desk[d] # Clear
  BY <1>1, ClearIsIdle
<1>3. /\ role' \in [Person -> {"NONE", "GRANTED", "ASSIGNED"}]
      /\ \A p \in Person : role'[p] = "GRANTED" => role[p] = "GRANTED" /\ p # desk[d].member
  BY <1>1, RolesGiven DEF OInv
<1>4. Stands(Clear, profile, team, role')
  BY ClearIsIdle DEF Stands
<1> QED BY <1>1, <1>2, <1>3, <1>4, ClearIsIdle, RoleStep DEF OInv, OnboardingTypeOK

LEMMA SwitchOnKeeps ==
  ASSUME OInv, NEW d \in Desk, SwitchOn(d)
  PROVE  OInv'
<1>1. desk[d] \in [pc : {"letGo", "takeRole", "bringBack", "switchOn"},
                   of : Person, member : Person, linked : BOOLEAN]
  BY DeskAt DEF SwitchOn, OInv
<1> PICK a \in Person, m \in Person :
      desk[d].pc = "switchOn" /\ a = desk[d].of /\ m = desk[d].member
  BY <1>1 DEF SwitchOn
<1>2. /\ role' = WithRole({m})
      /\ account' = Switched(m, TRUE)
      /\ desk' = [desk EXCEPT ![d] = Clear]
      /\ UNCHANGED <<profile, papers, agencies, irregular>>
  BY DEF SwitchOn, Leave, Go
<1>3. desk[d] # Clear
  BY ClearIsIdle
<1>4. /\ role' \in [Person -> {"NONE", "GRANTED", "ASSIGNED"}]
      /\ \A p \in Person : role'[p] = "GRANTED" => role[p] = "GRANTED" \/ p = m
  BY <1>2, RolesGiven DEF OInv
<1>5. account' \in [Person -> {"ABSENT", "ACTIVE", "INACTIVE", "DELETED"}]
  BY <1>2 DEF Switched, OInv, OnboardingTypeOK
<1>6. ~irregular => Earned(m, profile, team)
  BY <1>3, Before DEF Stands, Earned
<1>7. Stands(Clear, profile, team, role')
  BY ClearIsIdle DEF Stands
<1> QED BY <1>2, <1>3, <1>4, <1>5, <1>6, <1>7, ClearIsIdle, RoleStep

LEMMA LookUpKeeps ==
  ASSUME OInv, NEW d \in Desk, LookUp(d)
  PROVE  OInv'
<1>1. desk[d].pc = "lookUp" /\ desk[d] # Clear
  BY ClearIsIdle DEF LookUp
<1>2. UNCHANGED <<account, profile, papers, role, agencies, irregular>>
  BY DEF LookUp, Leave, Go, people
<1>3. PICK m \in Person : m = desk[d].member
  BY <1>1, DeskAt DEF OInv
<1>4. CASE desk' = [desk EXCEPT ![d] = Clear]
  <2>1. Stands(Clear, profile, team, role')
    BY ClearIsIdle DEF Stands
  <2> QED BY <1>1, <1>2, <1>4, <2>1, ClearIsIdle, RoleStep DEF OInv, OnboardingTypeOK
<1>5. ASSUME NEW a \in Person, team[<<a, m>>].active,
             desk' = [desk EXCEPT ![d] = [pc |-> "join", of |-> a, member |-> m,
                        approved |-> Approved(a), firm |-> team[<<a, m>>].firm]]
      PROVE  OInv'
  <2> DEFINE w == [pc |-> "join", of |-> a, member |-> m,
                   approved |-> Approved(a), firm |-> team[<<a, m>>].firm]
  <2>1. Approved(a) \in BOOLEAN /\ (Approved(a) => profile[a].status = "ACTIVE")
    BY DEF Approved, OInv, OnboardingTypeOK, ProfileRow
  <2>2. team[<<a, m>>] \in MemberRow
    BY DEF OInv, OnboardingTypeOK
  <2>3. /\ w \in DeskState /\ w.pc = "join" /\ w.of = a /\ w.member = m
        /\ w.approved = Approved(a)
    BY <2>1, <2>2 DEF DeskState, MemberRow
  <2> HIDE DEF w
  <2>4. desk' = [desk EXCEPT ![d] = w]
    BY <1>5 DEF w
  <2>5. Stands(w, profile, team, role')
    BY <1>5, <2>1, <2>3 DEF Stands
  <2> QED BY <1>1, <1>2, <2>3, <2>4, <2>5, RoleStep DEF OInv, OnboardingTypeOK
<1> QED BY <1>3, <1>4, <1>5 DEF LookUp, Leave, Go

(* The profile is closed once the roles it stood for are taken.             *)
LEMMA Closes ==
  ASSUME OInv, NEW d \in Desk, NEW p \in Person, desk[d].pc = "close", desk[d].of = p,
         NEW status \in {"REJECTED", "SUSPENDED"},
         profile' = Closed(p, status),
         desk' = [desk EXCEPT ![d] = Clear],
         UNCHANGED <<account, papers, role, irregular>>,
         firm' \in [Firm -> {"UNUSED", "GONE"} \union TaxId],
         membership' \in [Person \X Firm -> {"NONE", "MEMBER", "OWNER"}],
         team' \in [Person \X Person -> MemberRow],
         LinkedExist',
         \A a, m \in Person : a # p => /\ team'[<<a, m>>].linked = team[<<a, m>>].linked
                                       /\ team'[<<a, m>>].active = team[<<a, m>>].active,
         \A q \in Person : q # p /\ Owns(q, firm, membership) => Owns(q, firm', membership')
  PROVE  OInv'
<1> DEFINE new == [profile[p] EXCEPT !.status = status, !.requested = FALSE, !.verified = FALSE]
<1>1. profile' = [profile EXCEPT ![p] = new]
  BY DEF Closed
<1>2. profile[p] \in ProfileRow
  BY DEF OInv, OnboardingTypeOK
<1>3. /\ new \in ProfileRow /\ new.kind = profile[p].kind /\ new.status = status
      /\ ~new.verified
  BY <1>2 DEF ProfileRow, Status
<1> HIDE DEF new
<1>4. /\ profile' \in [Person -> ProfileRow]
      /\ profile'[p] = new
      /\ \A q \in Person : q # p => profile'[q] = profile[q]
  BY <1>1, <1>3 DEF OInv, OnboardingTypeOK
<1>5. desk[d] # Clear
  BY ClearIsIdle
<1>6. \A q \in Person : /\ profile'[q].kind = profile[q].kind
                        /\ profile'[q].verified => profile[q].verified
  BY <1>3, <1>4
<1>7. ASSUME ~irregular
      PROVE  /\ Stands(Clear, profile', team', role')
             /\ \A q \in Person : role'[q] = "GRANTED" => Earned(q, profile', team')
             /\ \A q \in Person : MayBeAgency(profile'[q]) => Owns(q, firm', membership')
  <2>1. Stands(Clear, profile', team', role')
    BY ClearIsIdle DEF Stands
  <2>2. /\ role[p] # "GRANTED"
        /\ \A q \in Person : team[<<p, q>>].linked => role[q] # "GRANTED"
    BY <1>5, <1>7, Before DEF Stands
  <2>3. ASSUME NEW q \in Person, role'[q] = "GRANTED" PROVE Earned(q, profile', team')
    <3>1. Earned(q, profile, team)
      BY <1>5, <1>7, <2>3, Before
    <3>2. q # p /\ ~team[<<p, q>>].linked
      BY <2>2, <2>3
    <3>3. CASE profile[q].status = "ACTIVE"
      BY <3>2, <3>3, <1>4 DEF Earned
    <3>4. ASSUME NEW a \in Person, team[<<a, q>>].linked, team[<<a, q>>].active,
                 profile[a].status = "ACTIVE"
          PROVE  Earned(q, profile', team')
      <4>1. a # p
        BY <3>2, <3>4
      <4> QED BY <3>4, <4>1, <1>4 DEF Earned
    <3> QED BY <3>1, <3>3, <3>4 DEF Earned
  <2>4. ASSUME NEW q \in Person, MayBeAgency(profile'[q]) PROVE Owns(q, firm', membership')
    <3>1. q # p
      BY <1>3, <1>4, <2>4 DEF MayBeAgency
    <3>2. Owns(q, firm, membership)
      BY <1>4, <1>5, <1>7, <2>4, <3>1, Before
    <3> QED BY <3>1, <3>2
  <2> QED BY <2>1, <2>3, <2>4
<1> QED BY <1>4, <1>5, <1>6, <1>7, ClearIsIdle, Works DEF OInv, OnboardingTypeOK

LEMMA CloseSuspendedKeeps ==
  ASSUME OInv, NEW d \in Desk, CloseSuspended(d)
  PROVE  OInv'
<1> PICK p \in Person : p = desk[d].of /\ desk[d].pc = "close"
  BY DeskAt DEF CloseSuspended, OInv
<1>1. /\ profile' = Closed(p, "SUSPENDED")
      /\ desk' = [desk EXCEPT ![d] = Clear]
      /\ UNCHANGED <<account, papers, role, firm, membership, team, irregular>>
  BY DEF CloseSuspended, Leave, Go, agencies
<1>2. LinkedExist'
  BY <1>1 DEF OInv, LinkedExist
<1> QED BY <1>1, <1>2, Closes DEF OInv, OnboardingTypeOK

(* The firm goes only if nobody else has a share in it.                     *)
LEMMA CloseRejectedKeeps ==
  ASSUME OInv, NEW d \in Desk, CloseRejected(d)
  PROVE  OInv'
<1>1. /\ desk[d] \in [pc : {"revoke", "close"}, of : Person,
                      firm : Firm \union {Nobody}, as : {"REJECTED", "SUSPENDED"}]
      /\ desk[d].pc = "close"
  BY DeskAt DEF CloseRejected, OInv
<1> PICK p \in Person, h \in Firm \union {Nobody} : p = desk[d].of /\ h = desk[d].firm
  BY <1>1
<1> DEFINE f == IF h # Nobody /\ Others(p, h) = {} THEN h ELSE Nobody
<1>2. /\ desk' = [desk EXCEPT ![d] = Clear]
      /\ UNCHANGED <<account, papers, role, irregular>>
  BY DEF CloseRejected, Leave, Go
<1>3. desk[d] # Clear
  BY <1>1, ClearIsIdle
<1>4. CASE UNCHANGED <<profile, agencies>>
  <2>1. Stands(Clear, profile, team, role')
    BY ClearIsIdle DEF Stands
  <2> QED BY <1>1, <1>2, <1>3, <1>4, <2>1, ClearIsIdle, RoleStep DEF OInv, OnboardingTypeOK
<1>5. CASE /\ profile' = Closed(p, "REJECTED")
           /\ membership' = Left(p, f)
           /\ team' = Unfirmed(p, f)
           /\ firm' = [g \in Firm |-> IF g = f THEN "GONE" ELSE firm[g]]
  <2>1. f \in Firm \union {Nobody} /\ (f \in Firm => Others(p, f) = {})
    BY NobodyIsNone
  <2> HIDE DEF f
  <2>2. firm' \in [Firm -> {"UNUSED", "GONE"} \union TaxId]
    BY <1>5 DEF OInv, OnboardingTypeOK
  <2>3. membership' \in [Person \X Firm -> {"NONE", "MEMBER", "OWNER"}]
    BY <1>5 DEF Left, OInv, OnboardingTypeOK
  <2> DEFINE unfirmed(row) == [row EXCEPT !.firm = Nobody]
  <2>4. ASSUME NEW row \in MemberRow
        PROVE  /\ unfirmed(row) \in MemberRow
               /\ unfirmed(row).exists = row.exists
               /\ unfirmed(row).linked = row.linked /\ unfirmed(row).active = row.active
    BY <2>4 DEF MemberRow
  <2>5. NoMember \in MemberRow /\ ~NoMember.linked
    BY DEF NoMember, MemberRow
  <2>6. team' = [pair \in Person \X Person |->
                   IF pair[1] = p THEN NoMember
                   ELSE IF f # Nobody /\ team[pair].firm = f THEN unfirmed(team[pair])
                   ELSE team[pair]]
    BY <1>5 DEF Unfirmed
  <2> HIDE DEF unfirmed
  <2>7. \A pair \in Person \X Person : team[pair] \in MemberRow
    BY DEF OInv, OnboardingTypeOK
  <2>8. team' \in [Person \X Person -> MemberRow]
    BY <2>4, <2>5, <2>6, <2>7
  <2>9. \A a, m \in Person :
          /\ a = p => ~team'[<<a, m>>].linked
          /\ a # p => /\ team'[<<a, m>>].linked = team[<<a, m>>].linked
                      /\ team'[<<a, m>>].active = team[<<a, m>>].active
                      /\ team'[<<a, m>>].exists = team[<<a, m>>].exists
    BY <2>4, <2>5, <2>6, <2>7
  <2>10. LinkedExist'
    <3> SUFFICES ASSUME NEW a \in Person, NEW m \in Person, team'[<<a, m>>].linked
                 PROVE  team'[<<a, m>>].exists
      BY DEF LinkedExist
    <3> QED BY <2>9 DEF OInv, LinkedExist
  <2>11. ASSUME NEW q \in Person, q # p, NEW g \in Firm,
                firm[g] \in TaxId, membership[<<q, g>>] = "OWNER"
         PROVE  firm'[g] \in TaxId /\ membership'[<<q, g>>] = "OWNER"
    <3>1. g # f
      BY <2>1, <2>11 DEF Others
    <3> QED BY <1>5, <2>11, <3>1 DEF Left
  <2>12. \A q \in Person : q # p /\ Owns(q, firm, membership) => Owns(q, firm', membership')
    BY <2>11 DEF Owns
  <2>13. \A a, m \in Person : a # p => /\ team'[<<a, m>>].linked = team[<<a, m>>].linked
                                       /\ team'[<<a, m>>].active = team[<<a, m>>].active
    BY <2>9
  <2>14. profile' = Closed(p, "REJECTED")
    BY <1>5
  <2>15. "REJECTED" \in {"REJECTED", "SUSPENDED"} /\ desk[d].pc = "close" /\ desk[d].of = p
    BY <1>1
  <2> QED BY <1>2, <2>2, <2>3, <2>8, <2>10, <2>12, <2>13, <2>14, <2>15, Closes
<1>6. \/ UNCHANGED <<profile, agencies>>
      \/ /\ profile' = Closed(p, "REJECTED")
         /\ membership' = Left(p, f)
         /\ team' = Unfirmed(p, f)
         /\ firm' = [g \in Firm |-> IF g = f THEN "GONE" ELSE firm[g]]
  BY Zenon DEF CloseRejected
<1> QED BY <1>4, <1>5, <1>6

OwnersStay ==
  /\ membership' \in [Person \X Firm -> {"NONE", "MEMBER", "OWNER"}]
  /\ \A pair \in Person \X Firm : membership[pair] = "OWNER" => membership'[pair] = "OWNER"

RowStands(w, a, m, new) ==
  ~irregular =>
    /\ Stands(w, profile, team', role')
    /\ team[<<a, m>>].linked /\ team[<<a, m>>].active =>
         (new.linked /\ new.active) \/ (w.pc = "takeRole" /\ w.member = m)
    /\ \A p \in Person : role'[p] = "GRANTED" =>
         \/ role[p] = "GRANTED"
         \/ p = m /\ new.linked /\ new.active /\ profile[a].status = "ACTIVE"

(* A step that writes one row of a team, and perhaps makes somebody a member *)
(* of its firm, and gives the role to who has it by that row.               *)
LEMMA RowStep ==
  ASSUME OInv, NEW d \in Desk, NEW w \in DeskState, desk[d] # Clear,
         desk[d].pc \notin {"form", "takeRole"}, w.pc \notin {"approve", "form"},
         desk' = [desk EXCEPT ![d] = w],
         UNCHANGED <<profile, papers, firm, irregular>>,
         NEW a \in Person, NEW m \in Person, NEW new \in MemberRow,
         team' = [team EXCEPT ![<<a, m>>] = new], new.linked => new.exists,
         account' \in [Person -> {"ABSENT", "ACTIVE", "INACTIVE", "DELETED"}],
         role' \in [Person -> {"NONE", "GRANTED", "ASSIGNED"}],
         OwnersStay,
         RowStands(w, a, m, new)
  PROVE  OInv'
<1>1. /\ team' \in [Person \X Person -> MemberRow]
      /\ team'[<<a, m>>] = new
      /\ \A b, n \in Person : b # a \/ n # m => team'[<<b, n>>] = team[<<b, n>>]
  BY DEF OInv, OnboardingTypeOK
<1>2. LinkedExist'
  <2> SUFFICES ASSUME NEW b \in Person, NEW n \in Person, team'[<<b, n>>].linked
               PROVE  team'[<<b, n>>].exists
    BY DEF LinkedExist
  <2> QED BY <1>1 DEF OInv, LinkedExist
<1>3. \A p \in Person : /\ profile'[p].kind = profile[p].kind
                        /\ profile'[p].verified => profile[p].verified
  OBVIOUS
<1>4. ASSUME ~irregular
      PROVE  /\ Stands(w, profile', team', role')
             /\ \A p \in Person : role'[p] = "GRANTED" =>
                  Earned(p, profile', team') \/ (w.pc = "takeRole" /\ w.member = p)
             /\ \A p \in Person : MayBeAgency(profile'[p]) => Owns(p, firm', membership')
  <2>1. Stands(w, profile', team', role')
    BY <1>4 DEF RowStands
  <2>2. ASSUME NEW p \in Person, role'[p] = "GRANTED"
        PROVE  Earned(p, profile', team') \/ (w.pc = "takeRole" /\ w.member = p)
    <3>1. CASE p = m /\ new.linked /\ new.active /\ profile[a].status = "ACTIVE"
      BY <3>1, <1>1 DEF Earned
    <3>2. CASE role[p] = "GRANTED"
      <4>1. Earned(p, profile, team)
        BY <1>4, <3>2, Before
      <4>2. CASE profile[p].status = "ACTIVE"
        BY <4>2 DEF Earned
      <4>3. ASSUME NEW b \in Person, team[<<b, p>>].linked, team[<<b, p>>].active,
                   profile[b].status = "ACTIVE"
            PROVE  Earned(p, profile', team') \/ (w.pc = "takeRole" /\ w.member = p)
        <5>1. CASE b = a /\ p = m
          BY <4>3, <5>1, <1>1, <1>4 DEF Earned, RowStands
        <5>2. CASE b # a \/ p # m
          <6>1. team'[<<b, p>>].linked /\ team'[<<b, p>>].active
            BY <4>3, <5>2, <1>1
          <6>2. profile'[b].status = "ACTIVE"
            BY <4>3
          <6> QED BY <6>1, <6>2 DEF Earned
        <5> QED BY <5>1, <5>2
      <4> QED BY <4>1, <4>2, <4>3 DEF Earned
    <3> QED BY <1>4, <2>2, <3>1, <3>2 DEF RowStands
  <2>3. ASSUME NEW p \in Person, MayBeAgency(profile'[p]) PROVE Owns(p, firm', membership')
    <3>1. Owns(p, firm, membership)
      BY <1>4, <2>3, Before
    <3> QED BY <3>1 DEF Owns, OwnersStay
  <2> QED BY <2>1, <2>2, <2>3
<1> QED BY <1>1, <1>2, <1>3, <1>4, Works DEF OInv, OnboardingTypeOK, OwnersStay

LEMMA RowsAre ==
  ASSUME OInv, NEW a \in Person, NEW m \in Person
  PROVE  /\ team[<<a, m>>] \in MemberRow
         /\ team[<<a, m>>].exists \in BOOLEAN /\ team[<<a, m>>].active \in BOOLEAN
         /\ team[<<a, m>>].linked \in BOOLEAN /\ team[<<a, m>>].firm \in Firm \union {Nobody}
         /\ team[<<a, m>>].linked => team[<<a, m>>].exists
<1>1. team[<<a, m>>] \in MemberRow
  BY DEF OInv, OnboardingTypeOK
<1> QED BY <1>1 DEF MemberRow, OInv, LinkedExist

(* A request that finds nothing to do leaves.                               *)
LEMMA LeaveKeeps ==
  ASSUME OInv, NEW d \in Desk, desk[d] # Clear, desk[d].pc \notin {"form", "takeRole"},
         desk' = [desk EXCEPT ![d] = Clear],
         UNCHANGED <<account, profile, papers, role, firm, membership, team, irregular>>
  PROVE  OInv'
<1>1. Stands(Clear, profile, team, role')
  BY ClearIsIdle DEF Stands
<1>2. UNCHANGED agencies
  BY DEF agencies
<1> QED BY <1>1, <1>2, ClearIsIdle, RoleStep DEF OInv, OnboardingTypeOK

LEMMA InviteKeeps ==
  ASSUME OInv, NEW d \in Desk, Invite(d)
  PROVE  OInv'
<1>1. /\ desk[d] \in [pc : {"invite"}, of : Person, member : Person, firm : Firm,
                      existed : BOOLEAN]
      /\ desk[d].pc = "invite" /\ desk[d] # Clear
  BY DeskAt, ClearIsIdle DEF Invite, OInv
<1> PICK a \in Person, m \in Person : a = desk[d].of /\ m = desk[d].member
  BY <1>1
<1>2. /\ desk' = [desk EXCEPT ![d] = Clear]
      /\ UNCHANGED <<account, profile, papers, role, firm, membership, irregular>>
  BY DEF Invite, Leave, Go, people
<1>3. PICK f \in Firm \union {Nobody} :
        team' = team \/ team' = [team EXCEPT ![<<a, m>>] = InvitedBy(f)]
  BY <1>1, RowsAre DEF Invite
<1>4. CASE team' = team
  BY <1>1, <1>2, <1>4, LeaveKeeps
<1>5. CASE team' = [team EXCEPT ![<<a, m>>] = InvitedBy(f)]
  <2> DEFINE new == InvitedBy(f)
  <2>1. new \in MemberRow /\ ~new.linked
    BY DEF InvitedBy, MemberRow
  <2> HIDE DEF new
  <2>2. team' = [team EXCEPT ![<<a, m>>] = new]
    BY <1>5 DEF new
  <2>3. Stands(Clear, profile, team', role')
    BY ClearIsIdle DEF Stands
  <2>4. ~irregular /\ team[<<a, m>>].linked /\ team[<<a, m>>].active =>
          (new.linked /\ new.active) \/ (Clear.pc = "takeRole" /\ Clear.member = m)
    BY <1>1, Before DEF Stands
  <2>5. ~irregular => \A p \in Person : role'[p] = "GRANTED" =>
           \/ role[p] = "GRANTED"
           \/ p = m /\ new.linked /\ new.active /\ profile[a].status = "ACTIVE"
    BY <1>2
  <2>6. RowStands(Clear, a, m, new)
    BY <2>3, <2>4, <2>5 DEF RowStands
  <2> QED BY <1>1, <1>2, <2>1, <2>2, <2>6, ClearIsIdle, RowStep
          DEF OInv, OnboardingTypeOK, OwnersStay
<1> QED BY <1>3, <1>4, <1>5

LEMMA RemoveKeeps ==
  ASSUME OInv, NEW d \in Desk, Remove(d)
  PROVE  OInv'
<1>1. /\ desk[d] \in [pc : {"remove"}, of : Person, member : Person]
      /\ desk[d].pc = "remove" /\ desk[d] # Clear
  BY DeskAt, ClearIsIdle DEF Remove, OInv
<1> PICK a \in Person, m \in Person : a = desk[d].of /\ m = desk[d].member
  BY <1>1
<1>2. /\ desk' = [desk EXCEPT ![d] = Clear]
      /\ UNCHANGED <<account, profile, papers, role, firm, membership, irregular>>
      /\ team' = [team EXCEPT ![<<a, m>>] = NoMember]
  BY DEF Remove, Leave, Go, people
<1>3. NoMember \in MemberRow /\ ~NoMember.linked
  BY DEF NoMember, MemberRow
<1>4. Stands(Clear, profile, team', role')
  BY ClearIsIdle DEF Stands
<1>5. ~irregular => ~team[<<a, m>>].linked
  BY <1>1, Before DEF Stands
<1>6. RowStands(Clear, a, m, NoMember)
  BY <1>2, <1>4, <1>5 DEF RowStands
<1> QED BY <1>1, <1>2, <1>3, <1>6, ClearIsIdle, RowStep
       DEF OInv, OnboardingTypeOK, OwnersStay

(* The member's row is off at once, the role a step later.                  *)
LEMMA LetGoKeeps ==
  ASSUME OInv, NEW d \in Desk, LetGo(d)
  PROVE  OInv'
<1> DEFINE r == desk[d]
<1>1. /\ r \in [pc : {"letGo", "takeRole", "bringBack", "switchOn"},
                of : Person, member : Person, linked : BOOLEAN]
      /\ r.pc = "letGo" /\ r # Clear
  BY DeskAt, ClearIsIdle DEF LetGo, OInv
<1> PICK a \in Person, m \in Person : a = r.of /\ m = r.member
  BY <1>1
<1>2. UNCHANGED <<profile, papers, role, firm, membership, irregular>>
  BY DEF LetGo, Leave, Go
<1> DEFINE w == IF r.linked THEN [r EXCEPT !.pc = "takeRole"] ELSE Clear
           new == [team[<<a, m>>] EXCEPT !.active = FALSE]
<1>3. CASE ~team[<<a, m>>].exists
  <2>1. UNCHANGED <<account, team>> /\ desk' = [desk EXCEPT ![d] = Clear]
    BY <1>3 DEF LetGo, Leave, Go
  <2> QED BY <1>1, <1>2, <2>1, LeaveKeeps
<1>4. CASE team[<<a, m>>].exists
  <2>1. /\ team' = [team EXCEPT ![<<a, m>>] = new]
        /\ account' = account \/ account' = Switched(m, FALSE)
        /\ desk' = [desk EXCEPT ![d] = w]
    BY <1>4 DEF LetGo, Leave, Go
  <2>2. /\ w \in DeskState /\ w.pc \in {"takeRole", "idle"}
        /\ r.linked => w.pc = "takeRole" /\ w.member = m
    <3>1. CASE r.linked
      <4>1. /\ w \in [pc : {"letGo", "takeRole", "bringBack", "switchOn"},
                      of : Person, member : Person, linked : BOOLEAN]
            /\ w.pc = "takeRole" /\ w.member = m
        BY <1>1, <3>1
      <4> QED BY <4>1 DEF DeskState
    <3>2. CASE ~r.linked
      BY <3>2, ClearIsIdle
    <3> QED BY <3>1, <3>2
  <2>3. new \in MemberRow /\ new.exists
    <3>1. team[<<a, m>>] \in MemberRow
      BY RowsAre
    <3> QED BY <1>4, <3>1 DEF MemberRow
  <2> HIDE DEF w, new
  <2>4. account' \in [Person -> {"ABSENT", "ACTIVE", "INACTIVE", "DELETED"}]
    BY <2>1 DEF Switched, OInv, OnboardingTypeOK
  <2>5. Stands(w, profile, team', role')
    BY <2>2 DEF Stands
  <2>6. ~irregular /\ team[<<a, m>>].linked => r.linked
    BY <1>1, Before DEF Stands
  <2>7. ~irregular /\ team[<<a, m>>].linked /\ team[<<a, m>>].active =>
          w.pc = "takeRole" /\ w.member = m
    BY <2>2, <2>6
  <2>8. /\ desk[d].pc \notin {"form", "takeRole"} /\ desk[d] # Clear
        /\ w.pc \notin {"approve", "form"}
    BY <1>1, <2>2
  <2>9. /\ role' \in [Person -> {"NONE", "GRANTED", "ASSIGNED"}]
        /\ OwnersStay
    BY <1>2 DEF OInv, OnboardingTypeOK, OwnersStay
  <2>10. RowStands(w, a, m, new)
    BY <1>2, <2>5, <2>7 DEF RowStands
  <2> QED BY <1>2, <2>1, <2>2, <2>3, <2>4, <2>8, <2>9, <2>10, RowStep
<1> QED BY <1>3, <1>4

LEMMA BringBackKeeps ==
  ASSUME OInv, NEW d \in Desk, BringBack(d)
  PROVE  OInv'
<1> DEFINE r == desk[d]
<1>1. /\ r \in [pc : {"letGo", "takeRole", "bringBack", "switchOn"},
                of : Person, member : Person, linked : BOOLEAN]
      /\ r.pc = "bringBack" /\ r # Clear
  BY DeskAt, ClearIsIdle DEF BringBack, OInv
<1> PICK a \in Person, m \in Person : a = r.of /\ m = r.member
  BY <1>1
<1>2. UNCHANGED <<account, profile, papers, role, firm, membership, irregular>>
  BY DEF BringBack, Leave, Go, people
<1> DEFINE w == IF r.linked THEN [r EXCEPT !.pc = "switchOn"] ELSE Clear
           new == [team[<<a, m>>] EXCEPT !.active = TRUE]
<1>3. CASE ~team[<<a, m>>].exists
  <2>1. UNCHANGED team /\ desk' = [desk EXCEPT ![d] = Clear]
    BY <1>3 DEF BringBack, Leave, Go
  <2> QED BY <1>1, <1>2, <2>1, LeaveKeeps
<1>4. CASE team[<<a, m>>].exists
  <2>1. /\ team' = [team EXCEPT ![<<a, m>>] = new]
        /\ desk' = [desk EXCEPT ![d] = w]
    BY <1>4 DEF BringBack, Leave, Go
  <2>2. /\ w \in DeskState /\ w.pc \in {"switchOn", "idle"}
        /\ w.pc = "switchOn" => r.linked /\ w.of = a /\ w.member = m
    <3>1. CASE r.linked
      <4>1. /\ w \in [pc : {"letGo", "takeRole", "bringBack", "switchOn"},
                      of : Person, member : Person, linked : BOOLEAN]
            /\ w.pc = "switchOn" /\ w.member = m /\ w.of = a
        BY <1>1, <3>1
      <4> QED BY <3>1, <4>1 DEF DeskState
    <3>2. CASE ~r.linked
      BY <3>2, ClearIsIdle
    <3> QED BY <3>1, <3>2
  <2>3. /\ new \in MemberRow /\ new.exists
        /\ new.active /\ new.linked = team[<<a, m>>].linked
    <3>1. team[<<a, m>>] \in MemberRow
      BY RowsAre
    <3> QED BY <1>4, <3>1 DEF MemberRow
  <2> HIDE DEF w, new
  <2>4. team'[<<a, m>>] = new
    BY <2>1 DEF OInv, OnboardingTypeOK
  <2>5. ~irregular => /\ profile[a].status = "ACTIVE"
                      /\ r.linked => team[<<a, m>>].linked
    BY <1>1, Before DEF Stands
  <2>6. ~irregular => Stands(w, profile, team', role')
    BY <2>2, <2>3, <2>4, <2>5 DEF Stands
  <2>7. ~irregular /\ team[<<a, m>>].linked /\ team[<<a, m>>].active =>
          new.linked /\ new.active
    BY <2>3
  <2>8. /\ desk[d].pc \notin {"form", "takeRole"} /\ desk[d] # Clear
        /\ w.pc \notin {"approve", "form"}
    BY <1>1, <2>2
  <2>9. /\ role' \in [Person -> {"NONE", "GRANTED", "ASSIGNED"}]
        /\ OwnersStay
        /\ account' \in [Person -> {"ABSENT", "ACTIVE", "INACTIVE", "DELETED"}]
    BY <1>2 DEF OInv, OnboardingTypeOK, OwnersStay
  <2>10. RowStands(w, a, m, new)
    BY <1>2, <2>6, <2>7 DEF RowStands
  <2> QED BY <1>2, <2>1, <2>2, <2>3, <2>8, <2>9, <2>10, RowStep
<1> QED BY <1>3, <1>4

LEMMA JoinKeeps ==
  ASSUME OInv, NEW d \in Desk, Join(d)
  PROVE  OInv'
<1> DEFINE r == desk[d]
<1>1. /\ r \in [pc : {"join"}, of : Person, member : Person, approved : BOOLEAN,
                firm : Firm \union {Nobody}]
      /\ r.pc = "join" /\ r # Clear
  BY DeskAt, ClearIsIdle DEF Join, OInv
<1> PICK a \in Person, m \in Person : a = r.of /\ m = r.member
  BY <1>1
<1>2. /\ UNCHANGED <<account, profile, papers, firm, irregular>>
      /\ desk' = [desk EXCEPT ![d] = Clear]
  BY DEF Join, Leave, Go
<1> DEFINE new == [team[<<a, m>>] EXCEPT !.linked = TRUE]
<1>3. \/ UNCHANGED <<team, membership, role>>
      \/ /\ team[<<a, m>>].exists
         /\ team' = [team EXCEPT ![<<a, m>>] = new]
         /\ membership' =
               IF r.firm = Nobody THEN membership
               ELSE [membership EXCEPT ![<<m, r.firm>>] = IF @ = "NONE" THEN "MEMBER" ELSE @]
         /\ role' = IF Earns(r) THEN WithRole({m}) ELSE role
  BY Zenon DEF Join
<1>4. CASE UNCHANGED <<team, membership, role>>
  BY <1>1, <1>2, <1>4, LeaveKeeps
<1>5. CASE /\ team[<<a, m>>].exists
           /\ team' = [team EXCEPT ![<<a, m>>] = new]
           /\ membership' =
                 IF r.firm = Nobody THEN membership
                 ELSE [membership EXCEPT ![<<m, r.firm>>] = IF @ = "NONE" THEN "MEMBER" ELSE @]
           /\ role' = IF Earns(r) THEN WithRole({m}) ELSE role
  <2>1. /\ new \in MemberRow /\ new.exists /\ new.linked
        /\ new.active = team[<<a, m>>].active
    BY <1>5, RowsAre DEF MemberRow
  <2> HIDE DEF new
  <2>2. OwnersStay
    <3>1. CASE r.firm = Nobody
      BY <1>5, <3>1 DEF OInv, OnboardingTypeOK, OwnersStay
    <3>2. CASE r.firm # Nobody
      <4>1. <<m, r.firm>> \in Person \X Firm
        BY <1>1, <3>2
      <4>2. membership' = [membership EXCEPT ![<<m, r.firm>>] =
                             IF @ = "NONE" THEN "MEMBER" ELSE @]
        BY <1>5, <3>2
      <4> QED BY <4>1, <4>2 DEF OInv, OnboardingTypeOK, OwnersStay
    <3> QED BY <3>1, <3>2
  <2>3. /\ role' \in [Person -> {"NONE", "GRANTED", "ASSIGNED"}]
        /\ \A p \in Person : role'[p] = "GRANTED" =>
             role[p] = "GRANTED" \/ (p = m /\ r.approved)
    <3>1. CASE r.approved
      BY <1>5, <3>1, RolesGiven DEF Earns, OInv
    <3>2. CASE ~r.approved
      BY <1>5, <3>2 DEF Earns, OInv, OnboardingTypeOK
    <3> QED BY <3>1, <3>2
  <2>4. ~irregular => /\ team[<<a, m>>].active
                      /\ r.approved => profile[a].status = "ACTIVE"
    BY <1>1, Before DEF Stands
  <2>5. Stands(Clear, profile, team', role')
    BY ClearIsIdle DEF Stands
  <2>6. ~irregular => \A p \in Person : role'[p] = "GRANTED" =>
           \/ role[p] = "GRANTED"
           \/ p = m /\ new.linked /\ new.active /\ profile[a].status = "ACTIVE"
    BY <2>1, <2>3, <2>4
  <2>7. ~irregular /\ team[<<a, m>>].linked /\ team[<<a, m>>].active =>
          (new.linked /\ new.active) \/ (Clear.pc = "takeRole" /\ Clear.member = m)
    BY <2>1
  <2>8. /\ desk[d].pc \notin {"form", "takeRole"} /\ desk[d] # Clear
        /\ Clear.pc \notin {"approve", "form"} /\ Clear \in DeskState
    BY <1>1, ClearIsIdle
  <2>9. account' \in [Person -> {"ABSENT", "ACTIVE", "INACTIVE", "DELETED"}]
    BY <1>2 DEF OInv, OnboardingTypeOK
  <2>10. team' = [team EXCEPT ![<<a, m>>] = new]
    BY <1>5
  <2>11. new.linked => new.exists
    BY <2>1
  <2>12. RowStands(Clear, a, m, new)
    BY <2>5, <2>6, <2>7 DEF RowStands
  <2> HIDE DEF r
  <2> QED BY <1>2, <2>1, <2>2, <2>3, <2>8, <2>9, <2>10, <2>11, <2>12, RowStep
<1> QED BY <1>3, <1>4, <1>5

LEMMA DropKeeps ==
  ASSUME OInv, NEW d \in Desk, Drop(d)
  PROVE  OInv'
<1>1. /\ desk' = [desk EXCEPT ![d] = Clear]
      /\ irregular' = TRUE
      /\ UNCHANGED <<account, profile, papers, role, firm, membership, team>>
  BY DEF Drop, people, agencies
<1>2. /\ desk' \in [Desk -> DeskState]
      /\ desk'[d] = Clear
      /\ \A e \in Desk : e # d => desk'[e] = desk[e]
  BY <1>1, ClearIsIdle, DeskMoves DEF OInv
<1>3. OnboardingTypeOK'
  BY <1>1, <1>2 DEF OInv, OnboardingTypeOK
<1>4. PapersKept'
  BY <1>1, <1>2, ClearIsIdle DEF OInv, PapersKept, Papered
<1>5. LinkedExist'
  BY <1>1 DEF OInv, LinkedExist
<1> QED BY <1>1, <1>3, <1>4, <1>5 DEF OInv

(* Staff: roles by hand are not the granted ones, and accounts hold nothing  *)
(* up; a status written by hand is irregular.                               *)
LEMMA StaffMayKeep ==
  ASSUME OInv, NEW p \in Person, Staff(p)
  PROVE  OInv'
<1>1. CASE AssignRole(p) \/ RemoveRole(p) \/ DeleteAccount(p) \/ \E on \in BOOLEAN : SwitchAccount(p, on)
  <2>1. UNCHANGED <<profile, papers, firm, membership, team, desk, irregular>>
    BY <1>1 DEF AssignRole, RemoveRole, DeleteAccount, SwitchAccount, agencies
  <2>2. /\ role' \in [Person -> {"NONE", "GRANTED", "ASSIGNED"}]
        /\ \A q \in Person : role'[q] = "GRANTED" => role[q] = "GRANTED"
    BY <1>1 DEF AssignRole, RemoveRole, DeleteAccount, SwitchAccount, OInv, OnboardingTypeOK
  <2>3. account' \in [Person -> {"ABSENT", "ACTIVE", "INACTIVE", "DELETED"}]
    BY <1>1 DEF AssignRole, RemoveRole, DeleteAccount, SwitchAccount, Switched,
                OInv, OnboardingTypeOK
  <2>4. OnboardingTypeOK'
    BY <2>1, <2>2, <2>3 DEF OInv, OnboardingTypeOK
  <2>5. PapersKept' /\ LinkedExist'
    BY <2>1 DEF OInv, PapersKept, Papered, LinkedExist
  <2>6. ASSUME ~irregular' PROVE InOrder'
    <3>1. InOrder
      BY <2>1, <2>6 DEF OInv
    <3>2. Alone'
      BY <2>1, <3>1 DEF InOrder, Alone
    <3>3. \A e \in Desk : desk[e].pc = "close" => desk[e].of \in Person
      BY DeskAt DEF OInv
    <3>4. ReadsHold'
      <4> SUFFICES ASSUME NEW e \in Desk PROVE Stands(desk'[e], profile', team', role')
        BY DEF ReadsHold
      <4>1. Stands(desk[e], profile, team, role)
        BY <3>1 DEF InOrder, ReadsHold
      <4>2. Stands(desk[e], profile, team, role')
        BY <2>2, <3>3, <4>1 DEF Stands
      <4> QED BY <2>1, <4>2
    <3>5. RolesEarned'
      BY <2>1, <2>2, <3>1 DEF InOrder, RolesEarned
    <3>6. FirmsOwned'
      BY <2>1, <3>1 DEF InOrder, FirmsOwned
    <3> QED BY <3>2, <3>4, <3>5, <3>6 DEF InOrder
  <2> QED BY <2>4, <2>5, <2>6 DEF OInv
<1>2. ASSUME NEW status \in Status, PatchStatus(p, status) PROVE OInv'
  <2>1. /\ profile' = [profile EXCEPT ![p].status = status]
        /\ irregular' = TRUE
        /\ UNCHANGED <<account, papers, role, firm, membership, team, desk>>
    BY <1>2 DEF PatchStatus, agencies
  <2> DEFINE new == [profile[p] EXCEPT !.status = status]
  <2>2. profile[p] \in ProfileRow
    BY DEF OInv, OnboardingTypeOK
  <2>3. new \in ProfileRow /\ new.kind = profile[p].kind /\ new.verified = profile[p].verified
    BY <2>2 DEF ProfileRow
  <2>4. profile' = [profile EXCEPT ![p] = new]
    BY <2>1
  <2> HIDE DEF new
  <2>5. /\ profile' \in [Person -> ProfileRow]
        /\ \A q \in Person : /\ profile'[q].kind = profile[q].kind
                             /\ profile'[q].verified = profile[q].verified
    BY <2>3, <2>4 DEF OInv, OnboardingTypeOK
  <2>6. OnboardingTypeOK'
    BY <2>1, <2>5 DEF OInv, OnboardingTypeOK
  <2>7. \A e \in Desk : desk[e].pc = "approve" => desk[e].of \in Person
    BY DeskAt DEF OInv
  <2>8. PapersKept'
    BY <2>1, <2>5, <2>7 DEF OInv, PapersKept, Papered
  <2>9. LinkedExist'
    BY <2>1 DEF OInv, LinkedExist
  <2> QED BY <2>1, <2>6, <2>8, <2>9 DEF OInv
<1> QED BY <1>1, <1>2 DEF Staff

LEMMA ConfirmPapersKeeps ==
  ASSUME OInv, NEW p \in Person, NEW kind \in Kind, ConfirmPapers(p, kind)
  PROVE  OInv'
<1>1. /\ papers' = [papers EXCEPT ![p] = @ \union {kind}]
      /\ UNCHANGED <<account, profile, role, firm, membership, team, desk, irregular>>
  BY DEF ConfirmPapers, agencies
<1>2. /\ papers' \in [Person -> SUBSET Kind]
      /\ \A q \in Person : papers[q] \subseteq papers'[q]
  BY <1>1 DEF OInv, OnboardingTypeOK
<1>3. OnboardingTypeOK'
  BY <1>1, <1>2 DEF OInv, OnboardingTypeOK
<1>4. \A e \in Desk : desk[e].pc = "approve" => desk[e].of \in Person
  BY DeskAt DEF OInv
<1>5. PapersKept'
  BY <1>1, <1>2, <1>4 DEF OInv, PapersKept, Papered
<1>6. LinkedExist'
  BY <1>1 DEF OInv, LinkedExist
<1>7. InOrder => InOrder'
  BY <1>1 DEF InOrder, Alone, ReadsHold, RolesEarned, FirmsOwned
<1> QED BY <1>1, <1>3, <1>5, <1>6, <1>7 DEF OInv

LEMMA OInvNext == OInv /\ [OnboardingNext]_onboardingVars => OInv'
<1> SUFFICES ASSUME OInv, [OnboardingNext]_onboardingVars PROVE OInv'
  OBVIOUS
<1>1. ASSUME NEW d \in Desk, Proceeds(d) PROVE OInv'
  <2>1. ASSUME Claim(d) \/ FormTeam(d) \/ Approve(d) \/ Grant(d) PROVE OInv'
    BY <2>1, ClaimKeeps, FormTeamKeeps, ApproveKeeps, GrantKeeps
  <2>2. ASSUME Revoke(d) \/ CloseSuspended(d) \/ CloseRejected(d) PROVE OInv'
    BY <2>2, RevokeKeeps, CloseSuspendedKeeps, CloseRejectedKeeps
  <2>3. ASSUME Invite(d) \/ LetGo(d) \/ TakeRole(d) \/ BringBack(d) PROVE OInv'
    BY <2>3, InviteKeeps, LetGoKeeps, TakeRoleKeeps, BringBackKeeps
  <2>4. ASSUME SwitchOn(d) \/ Remove(d) \/ LookUp(d) \/ Join(d) \/ Drop(d) PROVE OInv'
    BY <2>4, SwitchOnKeeps, RemoveKeeps, LookUpKeeps, JoinKeeps, DropKeeps
  <2> QED BY <1>1, <2>1, <2>2, <2>3, <2>4 DEF Proceeds
<1>2. ASSUME NEW d \in Desk, NEW p \in Person, Applies(d, p) PROVE OInv'
  BY <1>2, AppliesKeeps
<1>3. ASSUME NEW d \in Desk, NEW a \in Person, NEW m \in Person, Manages(d, a, m) PROVE OInv'
  BY <1>3, ManagesKeeps
<1>4. ASSUME NEW p \in Person, Staff(p) PROVE OInv'
  BY <1>4, StaffMayKeep
<1>5. ASSUME NEW p \in Person, NEW kind \in Kind, ConfirmPapers(p, kind) PROVE OInv'
  BY <1>5, ConfirmPapersKeeps
<1>6. CASE UNCHANGED onboardingVars
  <2>1. UNCHANGED <<account, profile, papers, role, firm, membership, team, desk, irregular>>
    BY <1>6 DEF onboardingVars, people, agencies
  <2>2. OnboardingTypeOK'
    BY <2>1 DEF OInv, OnboardingTypeOK
  <2>3. PapersKept' /\ LinkedExist'
    BY <2>1 DEF OInv, PapersKept, Papered, LinkedExist
  <2>4. InOrder => InOrder'
    BY <2>1 DEF InOrder, Alone, ReadsHold, RolesEarned, FirmsOwned
  <2> QED BY <2>1, <2>2, <2>3, <2>4 DEF OInv
<1> QED BY <1>1, <1>2, <1>3, <1>4, <1>5, <1>6 DEF OnboardingNext

LEMMA OInvGivesBacking == OInv => StandingIsBacked
<1> SUFFICES ASSUME OInv PROVE StandingIsBacked
  OBVIOUS
<1>1. RoleIsEarned
  <2> SUFFICES ASSUME ~irregular, AllClear, NEW p \in Person, role[p] = "GRANTED"
               PROVE  \/ profile[p].status = "ACTIVE"
                      \/ \E a \in Person : /\ team[<<a, p>>].linked /\ team[<<a, p>>].active
                                           /\ profile[a].status = "ACTIVE"
    BY DEF RoleIsEarned
  <2>1. ~Losing(p, desk)
    BY ClearIsIdle DEF Losing, AllClear
  <2>2. Earned(p, profile, team)
    BY <2>1 DEF OInv, InOrder, RolesEarned
  <2> QED BY <2>2 DEF Earned
<1>2. VerifiedHasPapers
  BY DEF OInv, PapersKept, Papered, VerifiedHasPapers
<1>3. AgencyOwnsFirm
  <2> SUFFICES ASSUME ~irregular, AllClear, NEW a \in Person, Approved(a)
               PROVE  OwnedBy(a) # {}
    BY DEF AgencyOwnsFirm
  <2>1. MayBeAgency(profile[a])
    BY DEF Approved, MayBeAgency
  <2>2. ~Forming(a, desk)
    BY ClearIsIdle DEF Forming, AllClear
  <2>3. Owns(a, firm, membership)
    BY <2>1, <2>2 DEF OInv, InOrder, FirmsOwned
  <2> QED BY <2>3 DEF Owns, OwnedBy, Firms
<1> QED BY <1>1, <1>2, <1>3 DEF StandingIsBacked

(* Only a claim writes the kind of a profile, and asks first.               *)
LEMMA KindsStay ==
  ASSUME OnboardingTypeOK, [OnboardingNext]_onboardingVars, NEW p \in Person,
         profile[p].status = "PENDING", profile[p].requested
  PROVE  profile'[p].kind = profile[p].kind
<1>1. CASE UNCHANGED profile
  BY <1>1
<1>2. ASSUME NEW d \in Desk, Claim(d) PROVE profile'[p].kind = profile[p].kind
  <2>1. desk[d].of \in Person /\ profile[desk[d].of] \in ProfileRow
    BY <1>2, DeskAt DEF Claim, OnboardingTypeOK
  <2>2. Claimable(desk[d]) => desk[d].of # p
    BY DEF Claimable, MayRequest
  <2>3. UNCHANGED profile \/ \E row : /\ Claimable(desk[d])
                                      /\ profile' = [profile EXCEPT ![desk[d].of] = row]
    BY <1>2 DEF Claim
  <2> QED BY <2>1, <2>2, <2>3 DEF OnboardingTypeOK
<1>3. ASSUME NEW q, NEW row, profile' = [profile EXCEPT ![q] = row],
             row.kind = profile[q].kind
      PROVE  profile'[p].kind = profile[p].kind
  BY <1>3 DEF OnboardingTypeOK
<1>4. ASSUME NEW d \in Desk, Approve(d) PROVE profile'[p].kind = profile[p].kind
  <2> DEFINE q == desk[d].of
             row == [profile[q] EXCEPT !.verified = TRUE, !.status = "ACTIVE"]
  <2>1. q \in Person /\ profile[q] \in ProfileRow
    BY <1>4, DeskAt DEF Approve, OnboardingTypeOK
  <2>2. profile' = [profile EXCEPT ![q] = row] /\ row.kind = profile[q].kind
    BY <1>4, <2>1 DEF Approve, ProfileRow
  <2> QED BY <1>3, <2>2
<1>5. ASSUME NEW d \in Desk, CloseSuspended(d) \/ CloseRejected(d)
      PROVE  profile'[p].kind = profile[p].kind
  <2>1. UNCHANGED profile
        \/ \E status \in Status : profile' = Closed(desk[d].of, status)
    BY <1>5 DEF CloseSuspended, CloseRejected, Status
  <2>2. ASSUME NEW status \in Status, profile' = Closed(desk[d].of, status)
        PROVE  profile'[p].kind = profile[p].kind
    <3> DEFINE q == desk[d].of
               row == [profile[q] EXCEPT !.status = status, !.requested = FALSE,
                                         !.verified = FALSE]
    <3>1. q \in Person /\ profile[q] \in ProfileRow
      BY <1>5, DeskAt DEF CloseSuspended, CloseRejected, OnboardingTypeOK
    <3>2. profile' = [profile EXCEPT ![q] = row] /\ row.kind = profile[q].kind
      BY <2>2, <3>1 DEF Closed, ProfileRow
    <3> QED BY <1>3, <3>2
  <2> QED BY <1>1, <2>1, <2>2
<1>6. ASSUME NEW q \in Person, NEW status \in Status, PatchStatus(q, status)
      PROVE  profile'[p].kind = profile[p].kind
  BY <1>6 DEF PatchStatus, OnboardingTypeOK, ProfileRow
<1>7. ASSUME NEW d \in Desk,
             \/ FormTeam(d) \/ Grant(d) \/ Revoke(d) \/ Invite(d) \/ LetGo(d)
             \/ TakeRole(d) \/ BringBack(d) \/ SwitchOn(d) \/ Remove(d) \/ LookUp(d)
             \/ Join(d) \/ Drop(d)
      PROVE  UNCHANGED profile
  BY <1>7 DEF FormTeam, Grant, Revoke, Invite, LetGo, TakeRole, BringBack, SwitchOn,
              Remove, LookUp, Join, Drop, people
<1>8. ASSUME NEW d \in Desk, NEW q \in Person, Applies(d, q) PROVE UNCHANGED profile
  BY <1>8 DEF Applies, Request, Verify, Reject, Suspend, Register, GoogleLogin, people
<1>9. ASSUME NEW d \in Desk, NEW a \in Person, NEW m \in Person, Manages(d, a, m)
      PROVE  UNCHANGED profile
  BY <1>9 DEF Manages, AddMember, Deactivate, Activate, RemoveMember, people
<1>10. ASSUME NEW q \in Person,
              \/ AssignRole(q) \/ RemoveRole(q) \/ DeleteAccount(q)
              \/ \E on \in BOOLEAN : SwitchAccount(q, on)
              \/ \E kind \in Kind : ConfirmPapers(q, kind)
       PROVE  UNCHANGED profile
  BY <1>10 DEF AssignRole, RemoveRole, DeleteAccount, SwitchAccount, ConfirmPapers
<1>11. CASE UNCHANGED onboardingVars
  BY <1>11 DEF onboardingVars, people
<1> QED BY <1>1, <1>2, <1>4, <1>5, <1>6, <1>7, <1>8, <1>9, <1>10, <1>11
        DEF OnboardingNext, Proceeds, Staff

(* Every profile, member and request keeps its type, also what a request has *)
(* read before an await.                                                     *)
THEOREM PeopleAreOf == OnboardingSpec => []OnboardingTypeOK
<1>1. OInv => OnboardingTypeOK
  BY DEF OInv
<1> QED BY <1>1, OInvInit, OInvNext, PTL DEF OnboardingSpec

(* An ambassador's role, a profile's verification and an agency's firm each  *)
(* rest on what they stand for: for any number of persons, firms and         *)
(* requests.                                                                *)
THEOREM StandingHolds == OnboardingSpec => []StandingIsBacked
<1> QED BY OInvInit, OInvNext, OInvGivesBacking, PTL DEF OnboardingSpec

(* A request under review keeps its kind, however many others are sent.      *)
THEOREM ReviewStands == OnboardingSpec => ReviewNotReplaced
<1>1. OnboardingTypeOK /\ [OnboardingNext]_onboardingVars =>
        [\A p \in Person :
           profile[p].status = "PENDING" /\ profile[p].requested =>
             profile'[p].kind = profile[p].kind]_onboardingVars
  BY KindsStay
<1> QED BY <1>1, PeopleAreOf, PTL DEF OnboardingSpec, ReviewNotReplaced

-----------------------------------------------------------------------------
(* The scenes play one of the two modules at a time: the states of both keep  *)
(* their types whatever the constants are.                                   *)
THEOREM ScenesAreOf == MCSpec => []TypeOK
<1>1. MCInit => OInv /\ SInv
  BY OInvInit, SInvInit DEF MCInit
<1>2. [MCNext]_<<onboardingVars, sessionVars, scene>> =>
        [OnboardingNext]_onboardingVars /\ [SessionsNext]_sessionVars
  BY DEF MCNext, OnboardingMoves, SessionsMove
<1>3. OInv /\ SInv => TypeOK
  BY DEF OInv, SInv, TypeOK
<1> QED BY <1>1, <1>2, <1>3, OInvNext, SInvNext, PTL DEF MCSpec
=============================================================================
