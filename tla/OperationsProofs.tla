-------------------------- MODULE OperationsProofs --------------------------
(***************************************************************************)
(* Proofs about what operators and accounts rest on: the registration of   *)
(* users, the end of sessions, the model profile that is the default, the  *)
(* parameters processes run with, the upgrade of a database, and the       *)
(* launcher of a developer's machine.                                      *)
(***************************************************************************)
EXTENDS Registration, AuthSessions, ModelProfiles, SystemSettings, Upgrades,
        DevLauncher, ListingsProofs

-----------------------------------------------------------------------------
(* Registration.                                                           *)

\* The lists insertAttempts makes, and what is left of them.
AttemptLists == {<<FALSE>>, <<TRUE, FALSE>>}

\* The table: one administrator, and names that differ.
UsersInv ==
  /\ users \subseteq [name : UserNames, admin : BOOLEAN]
  /\ users # {} => AdminExists
  /\ \A u, v \in users : (u.name = v.name \/ (u.admin /\ v.admin)) => u = v

\* What the place of a request says of the table: who tries without being an
\* administrator has seen one, and so has who was refused.
SignupInv(s) ==
  /\ s.pc \in {"insert", "recheck"} => s.attempts \in AttemptLists
  /\ (s.pc = "insert" /\ s.attempts = <<FALSE>>) => AdminExists
  /\ s.pc = "recheck" =>
       /\ AdminExists
       /\ s.attempts = <<FALSE>> => NameTaken(s.name)
  /\ s.pc \in {"created", "refused"} => NameTaken(s.name)
  /\ s.pc # "error"

\* The inductive invariant.
RegistrationInv ==
  /\ UsersInv
  /\ signups \in [Registrations -> Signup]
  /\ \A q \in Registrations : SignupInv(signups[q])

LEMMA ListFacts ==
  ASSUME NEW a, NEW b
  PROVE  /\ Head(<<a>>) = a /\ Head(<<a, b>>) = a
         /\ Tail(<<a>>) = << >> /\ Tail(<<a, b>>) = <<b>>
         /\ <<a>> # << >> /\ <<a, b>> # << >> /\ <<a>> # <<a, b>> /\ <<b>> # <<a, b>>
OBVIOUS

LEMMA AttemptListsType ==
  /\ << >> \in Seq(BOOLEAN)
  /\ \A l \in AttemptLists : l \in Seq(BOOLEAN) /\ l # << >>
BY ListFacts DEF AttemptLists

LEMMA RetryAsUser ==
  ASSUME NEW l, l = <<TRUE, FALSE>>
  PROVE  Head(l) /\ Tail(l) = <<FALSE>> /\ Tail(l) # << >>
<1>1. Head(l) = TRUE
  BY ListFacts
<1>2. Tail(l) = <<FALSE>>
  BY ListFacts
<1>3. QED
  BY <1>1, <1>2, ListFacts

LEMMA RegistrationInitially == RegistrationInit => RegistrationInv
<1> SUFFICES ASSUME RegistrationInit PROVE RegistrationInv
  OBVIOUS
<1>1. PICK n \in UserNames :
        signups = [q \in Registrations |-> [pc |-> "idle", name |-> n,
                                            attempts |-> << >>]]
  BY DEF RegistrationInit
<1>2. [pc |-> "idle", name |-> n, attempts |-> << >>] \in Signup
  BY AttemptListsType DEF Signup, SignupPc
<1>3. QED
  BY <1>1, <1>2 DEF RegistrationInit, RegistrationInv, UsersInv, SignupInv

\* Users are only added, so what is said of a request stays true.
LEMMA SignupInvStable ==
  ASSUME users \subseteq users', NEW s, SignupInv(s)
  PROVE  SignupInv(s)'
BY DEF SignupInv, AdminExists, NameTaken

\* A step of one request.
LEMMA SignupFrame ==
  ASSUME RegistrationInv, UsersInv', users \subseteq users',
         NEW q \in Registrations, NEW s \in Signup, SignupInv(s)',
         signups' = [signups EXCEPT ![q] = s]
  PROVE  RegistrationInv'
<1>1. ASSUME NEW r \in Registrations PROVE SignupInv(signups[r])'
  <2>1. CASE r = q
    BY <2>1 DEF RegistrationInv
  <2>2. CASE r # q
    BY <2>2, SignupInvStable DEF RegistrationInv
  <2>3. QED
    BY <2>1, <2>2
<1>2. QED
  BY <1>1 DEF RegistrationInv

LEMMA RegistrationStep ==
  RegistrationInv /\ [RegistrationNext]_registrationVars => RegistrationInv'
<1> SUFFICES ASSUME RegistrationInv, [RegistrationNext]_registrationVars
             PROVE  RegistrationInv'
  OBVIOUS
<1>1. ASSUME NEW q \in Registrations, UNCHANGED users, NEW s \in Signup,
             SignupInv(s), signups' = [signups EXCEPT ![q] = s]
      PROVE  RegistrationInv'
  BY <1>1, SignupFrame, SignupInvStable DEF RegistrationInv, UsersInv, AdminExists
<1>2. ASSUME NEW q \in Registrations, CheckName(q) PROVE RegistrationInv'
  <2>1. PICK n \in UserNames :
          signups' = [signups EXCEPT ![q] =
            [pc |-> IF NameTaken(n) THEN "refused" ELSE "admin", name |-> n,
             attempts |-> << >>]]
    BY <1>2 DEF CheckName
  <2> DEFINE s == [pc |-> IF NameTaken(n) THEN "refused" ELSE "admin", name |-> n,
                   attempts |-> << >>]
  <2>2. s \in Signup /\ SignupInv(s)
    BY AttemptListsType DEF Signup, SignupPc, SignupInv
  <2>3. QED
    BY <1>1, <1>2, <2>1, <2>2 DEF CheckName
<1>3. ASSUME NEW q \in Registrations, CheckAdmin(q) PROVE RegistrationInv'
  <2> DEFINE s == [signups[q] EXCEPT !.pc = "insert", !.attempts = Attempts]
  <2>1. Attempts \in AttemptLists /\ (Attempts = <<FALSE>> => AdminExists)
    BY ListFacts DEF Attempts, AttemptLists
  <2>2. s \in Signup
    BY <2>1, AttemptListsType DEF RegistrationInv, Signup, SignupPc
  <2>3. s.pc = "insert" /\ s.attempts = Attempts
    BY DEF RegistrationInv, Signup
  <2>4. SignupInv(s)
    BY <2>1, <2>3 DEF SignupInv
  <2>5. QED
    BY <1>1, <1>3, <2>2, <2>4 DEF CheckAdmin
<1>4. ASSUME NEW q \in Registrations, Insert(q) PROVE RegistrationInv'
  <2> DEFINE user == [name |-> signups[q].name, admin |-> Head(signups[q].attempts)]
             refused == NameTaken(user.name) \/ (user.admin /\ AdminExists)
  <2>1. /\ signups[q] \in Signup /\ SignupInv(signups[q])
        /\ signups[q].pc = "insert" /\ signups[q].attempts \in AttemptLists
    BY <1>4 DEF Insert, RegistrationInv, SignupInv
  <2>2. user \in [name : UserNames, admin : BOOLEAN]
    BY <2>1, ListFacts DEF Signup, AttemptLists
  <2>3. ~user.admin => AdminExists
    BY <2>1, ListFacts DEF SignupInv, AttemptLists
  <2>4. CASE refused
    <3> DEFINE s == [signups[q] EXCEPT !.pc = "recheck"]
    <3>1. s \in Signup /\ s.pc = "recheck" /\ s.attempts = signups[q].attempts
          /\ s.name = signups[q].name
      BY <2>1 DEF Signup, SignupPc
    <3>2. AdminExists
      BY <2>3, <2>4 DEF RegistrationInv, UsersInv, NameTaken
    <3>3. signups[q].attempts = <<FALSE>> => ~user.admin
      BY ListFacts
    <3>4. SignupInv(s)
      BY <2>1, <2>4, <3>1, <3>2, <3>3 DEF SignupInv
    <3>5. QED
      BY <1>1, <1>4, <2>4, <3>1, <3>4 DEF Insert, SignupGoes
  <2>5. CASE ~refused
    <3> PICK s : s = [signups[q] EXCEPT !.pc = "created"]
      OBVIOUS
    <3>1. s \in Signup /\ s.pc = "created" /\ s.name = user.name
      BY <2>1 DEF Signup, SignupPc
    <3>2. users' = users \cup {user} /\ signups' = [signups EXCEPT ![q] = s]
      BY <1>4, <2>5 DEF Insert, SignupGoes
    <3>3. UsersInv'
      BY <2>2, <2>3, <2>5, <3>2
         DEF RegistrationInv, UsersInv, AdminExists, NameTaken
    <3>4. SignupInv(s)'
      BY <3>1, <3>2 DEF SignupInv, NameTaken
    <3>5. QED
      BY <3>1, <3>2, <3>3, <3>4, SignupFrame
  <2>6. QED
    BY <2>4, <2>5
<1>5. ASSUME NEW q \in Registrations, Recheck(q) PROVE RegistrationInv'
  <2> DEFINE attempts == signups[q].attempts
  <2>1. /\ signups[q] \in Signup /\ signups[q].pc = "recheck"
        /\ AdminExists /\ attempts \in AttemptLists
        /\ attempts = <<FALSE>> => NameTaken(signups[q].name)
        /\ UNCHANGED users
    BY <1>5 DEF Recheck, RegistrationInv, SignupInv
  <2>2. CASE NameTaken(signups[q].name)
    <3> DEFINE s == [signups[q] EXCEPT !.pc = "refused"]
    <3>1. s \in Signup /\ s.pc = "refused" /\ s.name = signups[q].name
      BY <2>1 DEF Signup, SignupPc
    <3>2. SignupInv(s)
      BY <2>2, <3>1 DEF SignupInv
    <3>3. QED
      BY <1>1, <1>5, <2>1, <2>2, <3>1, <3>2 DEF Recheck, SignupGoes
  <2>3. CASE ~NameTaken(signups[q].name)
    <3> DEFINE s == [signups[q] EXCEPT !.pc = "insert", !.attempts = <<FALSE>>]
    <3>1. attempts = <<TRUE, FALSE>>
      BY <2>1, <2>3 DEF AttemptLists
    <3>2. Head(attempts) /\ Tail(attempts) = <<FALSE>> /\ Tail(attempts) # << >>
      BY <3>1, RetryAsUser
    <3>3. s \in Signup /\ s.pc = "insert" /\ s.attempts = <<FALSE>>
      BY <2>1, AttemptListsType DEF Signup, SignupPc, AttemptLists
    <3>4. SignupInv(s)
      BY <2>1, <3>3 DEF SignupInv, AttemptLists
    <3>5. signups' = [signups EXCEPT ![q] = s]
      BY <1>5, <2>3, <3>2 DEF Recheck
    <3>6. QED
      BY <1>1, <2>1, <3>3, <3>4, <3>5
  <2>4. QED
    BY <2>2, <2>3
<1>6. ASSUME NEW q \in Registrations, SignupThrows(q) PROVE RegistrationInv'
  <2> DEFINE s == [signups[q] EXCEPT !.pc = "thrown"]
  <2>1. s \in Signup /\ s.pc = "thrown"
    BY DEF RegistrationInv, Signup, SignupPc
  <2>2. SignupInv(s)
    BY <2>1 DEF SignupInv
  <2>3. QED
    BY <1>1, <1>6, <2>1, <2>2 DEF SignupThrows, SignupGoes
<1>7. CASE UNCHANGED registrationVars
  BY <1>7, SignupInvStable DEF registrationVars, RegistrationInv, UsersInv, AdminExists
<1>8. QED
  BY <1>2, <1>3, <1>4, <1>5, <1>6, <1>7 DEF RegistrationNext

LEMMA RegistrationInvariant == RegistrationSpec => []RegistrationInv
<1>1. QED
  BY RegistrationInitially, RegistrationStep, PTL DEF RegistrationSpec

\* Every variable keeps its type, and a request that inserts has an attempt left,
\* for any number of names and requests.
THEOREM RegistrationTypes == RegistrationSpec => []RegistrationTypeOK
<1>1. RegistrationInv => RegistrationTypeOK
  BY AttemptListsType DEF RegistrationInv, UsersInv, SignupInv, RegistrationTypeOK
<1>2. QED
  BY <1>1, RegistrationInvariant, PTL

\* However many register at once, exactly one user is the administrator, names
\* are unique, and every request ends as it was told.
THEOREM RegistrationCorrect == RegistrationSpec => []FirstIsAdmin
<1>1. RegistrationInv => FirstIsAdmin
  BY DEF RegistrationInv, UsersInv, SignupInv, FirstIsAdmin
<1>2. QED
  BY <1>1, RegistrationInvariant, PTL

-----------------------------------------------------------------------------
(* Sessions.                                                               *)

\* The session of a sign-in that has not made its key yet is nobody else's.
NewSessionsInv ==
  \A c \in AuthCalls : AuthAt(c, "set") =>
    /\ Session(c) \notin tokens \cup index
    /\ \A d \in AuthCalls : Session(c) \notin authCalls[d].listed
    /\ \A d \in AuthCalls \ {c} : ~AuthAt(d, "idle") => Session(d) # Session(c)

\* A session whose token a browser has, or gets next, is listed for the next
\* change of the password, unless an earlier one dropped it, or the set expired.
Listed(s) == s \in live => s \in index \cup unlisted

ListedInv ==
  /\ over \subseteq tokens
  /\ \A s \in tokens : Listed(s)
  /\ \A c \in AuthCalls : AuthAt(c, "last") => Listed(Session(c))

\* What was deleted stays deleted, up to the end of the request that did it.
DeletedInv ==
  \A c \in AuthCalls :
    /\ AuthAt(c, "drop") => authCalls[c].listed \cap live = {}
    /\ authCalls[c].pc \in {"revoke", "remove"} => Session(c) \in tokens
    /\ AuthAt(c, "remove") => Session(c) \notin live

\* The inductive invariant.
AuthInv == AuthTypeOK /\ NewSessionsInv /\ ListedInv /\ DeletedInv /\ EndedStaysEnded

\* What a change of the password notes of its two reads.
LEMMA NoteHeld ==
  ASSUME NEW a \in AuthCall, NEW b \in SUBSET Sessions, NEW x,
         x = [a EXCEPT !.pc = "list", !.before = b]
  PROVE  /\ x \in AuthCall /\ x.pc = "list" /\ x.before = b /\ x.listed = a.listed
         /\ x.kind = a.kind /\ x.session = a.session
<1>1. [a EXCEPT !.pc = "list"] \in AuthCall
  BY DEF AuthCall, AuthPc
<1>2. ASSUME NEW y \in AuthCall PROVE [y EXCEPT !.before = b] \in AuthCall
  BY DEF AuthCall
<1>3. x = [[a EXCEPT !.pc = "list"] EXCEPT !.before = b]
  OBVIOUS
<1>4. x \in AuthCall
  BY <1>1, <1>2, <1>3
<1>5. /\ x.pc = "list" /\ x.before = b /\ x.listed = a.listed
      /\ x.kind = a.kind /\ x.session = a.session
  BY DEF AuthCall
<1>6. QED
  BY <1>4, <1>5

LEMMA NoteListed ==
  ASSUME NEW a \in AuthCall, NEW b \in SUBSET Sessions, NEW x,
         x = [a EXCEPT !.pc = "delete", !.listed = b]
  PROVE  /\ x \in AuthCall /\ x.pc = "delete" /\ x.listed = b /\ x.before = a.before
         /\ x.kind = a.kind /\ x.session = a.session
<1>1. [a EXCEPT !.pc = "delete"] \in AuthCall
  BY DEF AuthCall, AuthPc
<1>2. ASSUME NEW y \in AuthCall PROVE [y EXCEPT !.listed = b] \in AuthCall
  BY DEF AuthCall
<1>3. x = [[a EXCEPT !.pc = "delete"] EXCEPT !.listed = b]
  OBVIOUS
<1>4. x \in AuthCall
  BY <1>1, <1>2, <1>3
<1>5. /\ x.pc = "delete" /\ x.listed = b /\ x.before = a.before
      /\ x.kind = a.kind /\ x.session = a.session
  BY DEF AuthCall
<1>6. QED
  BY <1>4, <1>5

\* A call that has not begun is in a state of its type.
LEMMA EmptyCall == /\ NoAuthCall \in AuthCall /\ NoAuthCall.pc = "idle"
                   /\ NoAuthCall.kind = "signin" /\ NoAuthCall.listed = {}
                   /\ NoAuthCall.before = {}
<1>1. (CHOOSE s \in Sessions : TRUE) \in Sessions
  BY SessionsAssumption
<1>2. QED
  BY <1>1 DEF NoAuthCall, NewCall, AuthCall, AuthPc, AuthKind

LEMMA AuthInitially == AuthInit => AuthInv
  BY EmptyCall
     DEF AuthInit, AuthInv, AuthTypeOK, NewSessionsInv, AuthAt, Session, ListedInv,
         Listed, DeletedInv, EndedStaysEnded

LEMMA AuthStep == AuthInv /\ [AuthNext]_authVars => AuthInv'
<1> SUFFICES ASSUME AuthInv, [AuthNext]_authVars PROVE AuthInv'
  OBVIOUS
<1> USE DEF AuthInv, AuthTypeOK, AuthCall, AuthPc, AuthKind, NewSessionsInv,
            AuthAt, ListedInv, Listed, DeletedInv, EndedStaysEnded, AuthGoes,
            AuthEnds, AuthBegins, NewCall, Session, setVars, Gone, Outlasts,
            SetOutlasts, SetGone
<1>1. ASSUME NEW c \in AuthCalls, SignIn(c) PROVE AuthInv'
  BY <1>1, EmptyCall DEF SignIn
<1>2. ASSUME NEW c \in AuthCalls, SetKey(c) PROVE AuthInv'
  BY <1>2, EmptyCall DEF SetKey
<1>3. ASSUME NEW c \in AuthCalls, NEW s \in Sessions, NEW k \in {"page", "change"},
             PageRequest(c, k, s)
      PROVE  AuthInv'
  BY <1>3 DEF PageRequest
<1>4. ASSUME NEW c \in AuthCalls, Exists(c) PROVE AuthInv'
  BY <1>4, EmptyCall DEF Exists
<1>5. ASSUME NEW c \in AuthCalls, Refresh(c) PROVE AuthInv'
  BY <1>5, EmptyCall DEF Refresh, TouchedKeys
<1>6. ASSUME NEW c \in AuthCalls, AddToIndex(c) PROVE AuthInv'
  BY <1>6, EmptyCall DEF AddToIndex
<1>7. ASSUME NEW c \in AuthCalls, RefreshIndex(c) PROVE AuthInv'
  <2>1. AuthTypeOK'
    <3>1. authCalls' \in [AuthCalls -> AuthCall]
      BY <1>7, EmptyCall DEF RefreshIndex
    <3>2. {live, index, longer, tokens, unlisted, over}' \subseteq SUBSET Sessions /\ timed' \in BOOLEAN
      <4>1. longer' \subseteq Sessions /\ timed' \in BOOLEAN
        BY <1>7 DEF RefreshIndex
      <4>2. /\ live' \subseteq Sessions /\ index' \subseteq Sessions
            /\ tokens' \subseteq Sessions /\ unlisted' \subseteq Sessions
            /\ over' \subseteq Sessions
        BY <1>7 DEF RefreshIndex
      <4>3. QED BY <4>1, <4>2
    <3>3. ASSUME NEW d \in AuthCalls
          PROVE  /\ authCalls'[d].before \subseteq tokens'
                 /\ authCalls'[d].kind # "signin" => authCalls'[d].session \in tokens'
      BY <1>7, EmptyCall DEF RefreshIndex
    <3>4. QED BY <3>1, <3>2, <3>3
  <2>2. NewSessionsInv' BY <1>7, EmptyCall DEF RefreshIndex
  <2>3. ListedInv' BY <1>7, EmptyCall DEF RefreshIndex
  <2>4. DeletedInv' BY <1>7, EmptyCall DEF RefreshIndex
  <2>5. EndedStaysEnded' BY <1>7 DEF RefreshIndex
  <2>6. QED BY <2>1, <2>2, <2>3, <2>4, <2>5
<1>8. ASSUME NEW c \in AuthCalls, UpdateHash(c) PROVE AuthInv'
  <2> DEFINE a == [authCalls[c] EXCEPT !.pc = "list", !.before = tokens]
  <2>1. /\ a \in AuthCall /\ a.pc = "list" /\ a.before = tokens /\ a.listed = authCalls[c].listed
        /\ a.kind = authCalls[c].kind /\ a.session = authCalls[c].session
    <3>1. authCalls[c] \in AuthCall /\ tokens \in SUBSET Sessions
      OBVIOUS
    <3>2. QED
      BY <3>1, NoteHeld
  <2>2. authCalls' = [authCalls EXCEPT ![c] = a]
    BY <1>8 DEF UpdateHash
  <2> HIDE DEF a
  <2>3. /\ authCalls' \in [AuthCalls -> AuthCall] /\ authCalls'[c] = a
        /\ \A d \in AuthCalls \ {c} : authCalls'[d] = authCalls[d]
    BY <2>1, <2>2
  <2>4. AuthTypeOK' /\ ListedInv' /\ EndedStaysEnded'
    BY <1>8, <2>1, <2>3 DEF UpdateHash
  <2>5. NewSessionsInv'
    BY <1>8, <2>1, <2>3 DEF UpdateHash
  <2>6. DeletedInv'
    BY <1>8, <2>1, <2>3 DEF UpdateHash
  <2>7. QED
    BY <2>4, <2>5, <2>6
<1>9. ASSUME NEW c \in AuthCalls, ListSessions(c) PROVE AuthInv'
  <2> DEFINE a == [authCalls[c] EXCEPT !.pc = "delete", !.listed = index]
  <2>1. /\ a \in AuthCall /\ a.pc = "delete" /\ a.listed = index /\ a.before = authCalls[c].before
        /\ a.kind = authCalls[c].kind /\ a.session = authCalls[c].session
    <3>1. authCalls[c] \in AuthCall /\ index \in SUBSET Sessions
      OBVIOUS
    <3>2. QED
      BY <3>1, NoteListed
  <2>2. authCalls' = [authCalls EXCEPT ![c] = a]
    BY <1>9 DEF ListSessions
  <2> HIDE DEF a
  <2>3. /\ authCalls' \in [AuthCalls -> AuthCall] /\ authCalls'[c] = a
        /\ \A d \in AuthCalls \ {c} : authCalls'[d] = authCalls[d]
    BY <2>1, <2>2
  <2>4. AuthTypeOK' /\ ListedInv' /\ EndedStaysEnded'
    BY <1>9, <2>1, <2>3 DEF ListSessions
  <2>5. NewSessionsInv'
    BY <1>9, <2>1, <2>3 DEF ListSessions
  <2>6. DeletedInv'
    BY <1>9, <2>1, <2>3 DEF ListSessions
  <2>7. QED
    BY <2>4, <2>5, <2>6
<1>10. ASSUME NEW c \in AuthCalls, DeleteKeys(c) PROVE AuthInv'
  BY <1>10, EmptyCall DEF DeleteKeys
<1>11. ASSUME NEW c \in AuthCalls, DropIndex(c) PROVE AuthInv'
  <2>1. AuthTypeOK'
    <3>1. authCalls' \in [AuthCalls -> AuthCall]
      BY <1>11, EmptyCall DEF DropIndex
    <3>2. {live, index, longer, tokens, unlisted, over}' \subseteq SUBSET Sessions /\ timed' \in BOOLEAN
      <4>1. authCalls[c].before \subseteq Sessions
        OBVIOUS
      <4>2. unlisted' \subseteq Sessions
        BY <1>11 DEF DropIndex
      <4>3. over' \subseteq Sessions
        BY <1>11, <4>1 DEF DropIndex
      <4>4. {live, index, longer, tokens}' \subseteq SUBSET Sessions /\ timed' \in BOOLEAN
        BY <1>11 DEF DropIndex
      <4>5. QED BY <4>2, <4>3, <4>4
    <3>3. ASSUME NEW d \in AuthCalls
          PROVE  /\ authCalls'[d].before \subseteq tokens'
                 /\ authCalls'[d].kind # "signin" => authCalls'[d].session \in tokens'
      BY <1>11, EmptyCall DEF DropIndex
    <3>4. QED BY <3>1, <3>2, <3>3
  <2>2. NewSessionsInv' BY <1>11, EmptyCall DEF DropIndex
  <2>3. ListedInv' BY <1>11, EmptyCall DEF DropIndex
  <2>4. DeletedInv' BY <1>11, EmptyCall DEF DropIndex
  <2>5. EndedStaysEnded' BY <1>11 DEF DropIndex
  <2>6. QED BY <2>1, <2>2, <2>3, <2>4, <2>5
<1>12. ASSUME NEW c \in AuthCalls, NEW s \in Sessions, SignOut(c, s) PROVE AuthInv'
  BY <1>12, EmptyCall DEF SignOut
<1>13. ASSUME NEW c \in AuthCalls, Revoke(c) PROVE AuthInv'
  BY <1>13, EmptyCall DEF Revoke
<1>14. ASSUME NEW c \in AuthCalls, RemoveFromIndex(c) PROVE AuthInv'
  <2>1. AuthTypeOK'
    <3>1. authCalls' \in [AuthCalls -> AuthCall]
      BY <1>14, EmptyCall DEF RemoveFromIndex
    <3>2. {live, index, longer, tokens, unlisted, over}' \subseteq SUBSET Sessions /\ timed' \in BOOLEAN
      <4>1. longer' \subseteq Sessions /\ timed' \in BOOLEAN
        BY <1>14 DEF RemoveFromIndex
      <4>2. /\ live' \subseteq Sessions /\ index' \subseteq Sessions
            /\ tokens' \subseteq Sessions /\ unlisted' \subseteq Sessions
            /\ over' \subseteq Sessions
        BY <1>14 DEF RemoveFromIndex
      <4>3. QED BY <4>1, <4>2
    <3>3. ASSUME NEW d \in AuthCalls
          PROVE  /\ authCalls'[d].before \subseteq tokens'
                 /\ authCalls'[d].kind # "signin" => authCalls'[d].session \in tokens'
      BY <1>14, EmptyCall DEF RemoveFromIndex
    <3>4. QED BY <3>1, <3>2, <3>3
  <2>2. NewSessionsInv' BY <1>14, EmptyCall DEF RemoveFromIndex
  <2>3. ListedInv' BY <1>14, EmptyCall DEF RemoveFromIndex
  <2>4. DeletedInv' BY <1>14, EmptyCall DEF RemoveFromIndex
  <2>5. EndedStaysEnded' BY <1>14 DEF RemoveFromIndex
  <2>6. QED BY <2>1, <2>2, <2>3, <2>4, <2>5
<1>15. ASSUME NEW c \in AuthCalls, CommandThrows(c) PROVE AuthInv'
  BY <1>15, EmptyCall DEF CommandThrows
<1>16. ASSUME NEW s \in Sessions, KeyExpires(s) PROVE AuthInv'
  BY <1>16 DEF KeyExpires
<1>17. ASSUME IndexExpires PROVE AuthInv'
  BY <1>17 DEF IndexExpires
<1>18. CASE UNCHANGED authVars
  BY <1>18 DEF authVars
<1> HIDE DEF AuthInv, AuthTypeOK, AuthCall, AuthPc, AuthKind, NewSessionsInv,
             AuthAt, ListedInv, Listed, DeletedInv, EndedStaysEnded, AuthGoes,
             AuthEnds, AuthBegins, NewCall, Session, setVars, Gone, Outlasts,
             SetOutlasts, SetGone
<1>19. QED
  BY <1>1, <1>2, <1>3, <1>4, <1>5, <1>6, <1>7, <1>8, <1>9, <1>10, <1>11, <1>12,
     <1>13, <1>14, <1>15, <1>16, <1>17, <1>18
     DEF AuthNext

LEMMA AuthInvariant == AuthSpec => []AuthInv
<1>1. QED
  BY AuthInitially, AuthStep, PTL DEF AuthSpec

\* Every variable keeps its type, and only tokens that were issued are in use,
\* for any number of sessions and requests.
THEOREM SessionTypes == AuthSpec => []AuthTypeOK
<1>1. AuthInv => AuthTypeOK
  BY DEF AuthInv
<1>2. QED
  BY <1>1, AuthInvariant, PTL

\* No touch that was under way brings back a session that a sign-out or a change of
\* the password ended, and a change ends every session that had its token but those
\* of unlisted (dropped by an overlapping change, or by the expiry of the set): for
\* any number of sessions and requests, any interleaving, and errors at any command.
THEOREM SessionsCorrect == AuthSpec => []EndedStaysEnded
<1>1. AuthInv => EndedStaysEnded
  BY DEF AuthInv
<1>2. QED
  BY <1>1, AuthInvariant, PTL

-----------------------------------------------------------------------------
(* Model profiles.                                                         *)

\* There is one default, and it is enabled.
OneUsable == \E d \in DOMAIN profiles : Defaults = {d} /\ profiles[d].enabled

\* What the place of a request says of the table: a default that is asked for is
\* enabled, the first profile is granted as the default, and who found that its
\* profile was not the default, or was granted to take that away, has been
\* overtaken if the profile is the default now.
EditInv(x) ==
  /\ x.pc = "read" => x.profile # 0
  /\ (x.pc = "write" /\ x.wish.default) => x.wish.enabled
  /\ (x.pc = "write" /\ x.profile = 0) => (StaysDefault(x.wish) \/ DOMAIN profiles # {})
  /\ (x.pc = "check" /\ x.profile \in Defaults /\ ~ x.was) => overtaken # {}
  /\ (x.pc = "write" /\ x.profile \in Defaults /\ ~ StaysDefault(x.wish)) => overtaken # {}

\* The inductive invariant.
ProfilesInv ==
  /\ ProfilesTypeOK
  /\ (DOMAIN profiles # {} /\ overtaken = {}) => OneUsable
  /\ \A e \in ProfileEdits : EditInv(edits[e])

LEMMA NoEditTyped == NoEdit \in ProfileEdit /\ NoEdit.profile = 0 /\ NoEdit.pc = "idle"
BY ProfilesAssumption DEF NoEdit, ProfileEdit, Wish

LEMMA ProfilesInitially == ProfilesInit => ProfilesInv
<1> SUFFICES ASSUME ProfilesInit PROVE ProfilesInv
  OBVIOUS
<1>1. profiles \in [1 .. 0 -> Wish] /\ 0 \in 0 .. MaxProfiles /\ DOMAIN profiles = {}
  BY ProfilesAssumption DEF ProfilesInit
<1>2. ProfilesTypeOK
  BY <1>1, NoEditTyped DEF ProfilesInit, ProfilesTypeOK
<1>3. QED
  BY <1>1, <1>2, NoEditTyped DEF ProfilesInit, ProfilesInv, EditInv

\* A step of one request that leaves the table alone.
LEMMA EditFrame ==
  ASSUME ProfilesInv, NEW e \in ProfileEdits, NEW x \in ProfileEdit,
         x.profile \in {0} \cup DOMAIN profiles, EditInv(x),
         edits' = [edits EXCEPT ![e] = x], UNCHANGED <<profiles, overtaken>>
  PROVE  ProfilesInv'
<1>1. Defaults' = Defaults
  BY DEF Defaults
<1>2. ProfilesTypeOK'
  BY DEF ProfilesInv, ProfilesTypeOK
<1>3. ASSUME NEW f \in ProfileEdits PROVE EditInv(edits[f])'
  <2>1. edits'[f] = IF f = e THEN x ELSE edits[f]
    BY DEF ProfilesInv, ProfilesTypeOK
  <2>2. EditInv(edits'[f])
    BY <2>1 DEF ProfilesInv
  <2>3. QED
    BY <2>2, <1>1 DEF EditInv
<1>4. OneUsable' <=> OneUsable
  BY <1>1 DEF OneUsable
<1>5. QED
  BY <1>2, <1>3, <1>4 DEF ProfilesInv

LEMMA GrantedTyped ==
  ASSUME ProfilesInv, NEW e \in ProfileEdits
  PROVE  Granted(e) \in Wish
BY DEF ProfilesInv, ProfilesTypeOK, Granted, ProfileEdit, Wish

LEMMA CheckEditInv ==
  ASSUME ProfilesInv, NEW e \in ProfileEdits, CheckEdit(e)
  PROVE  ProfilesInv'
<1> DEFINE x == edits[e]
           y == [x EXCEPT !.pc = "write", !.wish = Granted(e)]
<1>1. x \in ProfileEdit /\ x.profile \in {0} \cup DOMAIN profiles /\ EditInv(x) /\ x.pc = "check"
  BY DEF ProfilesInv, ProfilesTypeOK, CheckEdit
<1>2. CASE Refused(e)
  <2>1. edits' = [edits EXCEPT ![e] = NoEdit]
    BY <1>2 DEF CheckEdit
  <2>2. EditInv(NoEdit)
    BY NoEditTyped DEF EditInv
  <2>3. QED
    BY <2>1, <2>2, NoEditTyped, EditFrame DEF CheckEdit
<1>3. CASE ~ Refused(e)
  <2>1. edits' = [edits EXCEPT ![e] = y]
    BY <1>3 DEF CheckEdit
  <2>2. /\ y \in ProfileEdit /\ y.profile = x.profile /\ y.pc = "write"
        /\ y.wish = Granted(e) /\ y.was = x.was
    BY <1>1, GrantedTyped DEF ProfileEdit
  <2>3. (y.profile = 0) => (StaysDefault(y.wish) \/ DOMAIN profiles # {})
    BY <2>2 DEF Granted, StaysDefault, Defaults
  <2>4. y.wish.default => y.wish.enabled
    BY <1>3, <2>2 DEF Refused
  <2>5. 0 \notin Defaults
    BY DEF Defaults, ProfilesInv, ProfilesTypeOK
  <2>6. (y.profile \in Defaults /\ ~ StaysDefault(y.wish)) => overtaken # {}
    BY <1>1, <1>3, <2>2, <2>5 DEF Refused, EditInv
  <2>7. EditInv(y)
    BY <2>2, <2>3, <2>4, <2>6 DEF EditInv
  <2>8. QED
    BY <1>1, <2>1, <2>2, <2>7, EditFrame DEF CheckEdit
<1>4. QED
  BY <1>2, <1>3

LEMMA WriteEditInv ==
  ASSUME ProfilesInv, NEW e \in ProfileEdits, WriteEdit(e)
  PROVE  ProfilesInv'
<1> DEFINE w == edits[e].wish
           i == IF edits[e].profile = 0 THEN Cardinality(DOMAIN profiles) + 1
                ELSE edits[e].profile
<1>1. PICK n \in 0 .. MaxProfiles : profiles \in [1 .. n -> Wish]
  BY DEF ProfilesInv, ProfilesTypeOK
<1>2. DOMAIN profiles = 1 .. n /\ Cardinality(DOMAIN profiles) = n
  BY <1>1, FS_Interval
<1>3. /\ edits[e] \in ProfileEdit /\ w \in Wish /\ edits[e].pc = "write" /\ EditInv(edits[e])
      /\ edits[e].profile \in {0} \cup 1 .. n
  BY <1>2 DEF ProfilesInv, ProfilesTypeOK, WriteEdit, ProfileEdit
<1>4. i \in 1 .. n + 1 /\ i \in 1 .. MaxProfiles /\ (edits[e].profile = 0 <=> i = n + 1)
  BY <1>1, <1>2, <1>3, ProfilesAssumption DEF WriteEdit
<1>5. /\ DOMAIN profiles' = DOMAIN profiles \cup {i}
      /\ profiles'[i] = w
      /\ \A j \in DOMAIN profiles \ {i} :
           profiles'[j] = IF w.default THEN [profiles[j] EXCEPT !.default = FALSE]
                          ELSE profiles[j]
  BY DEF WriteEdit
<1>6. /\ overtaken' = overtaken \cup (IF w.default THEN Overtakes(e, i) ELSE {})
      /\ edits' = [edits EXCEPT ![e] = NoEdit]
  BY DEF WriteEdit
<1> HIDE DEF i, w
<1>7. \E m \in 0 .. MaxProfiles : profiles' \in [1 .. m -> Wish]
  <2>1. PICK m \in 0 .. MaxProfiles : DOMAIN profiles' = 1 .. m
    <3>1. CASE i = n + 1
      <4>1. 1 .. n + 1 = 1 .. n \cup {i} /\ n + 1 \in 0 .. MaxProfiles
        BY <3>1, <1>1, <1>4, ProfilesAssumption
      <4>2. QED
        BY <4>1, <1>2, <1>5
    <3>2. CASE i # n + 1
      BY <3>2, <1>2, <1>4, <1>5
    <3>3. QED
      BY <3>1, <3>2
  <2>2. ASSUME NEW j \in DOMAIN profiles' PROVE profiles'[j] \in Wish
    <3>1. CASE j = i
      BY <3>1, <1>3, <1>5
    <3>2. CASE j # i
      <4>1. j \in DOMAIN profiles /\ profiles[j] \in Wish
        BY <3>2, <1>1, <1>2, <1>5
      <4>2. [profiles[j] EXCEPT !.default = FALSE] \in Wish
        BY <4>1 DEF Wish
      <4>3. QED
        BY <3>2, <4>1, <4>2, <1>5
    <3>3. QED
      BY <3>1, <3>2
  <2>3. profiles' = [j \in DOMAIN profiles' |-> profiles'[j]]
    BY DEF WriteEdit
  <2>4. QED
    BY <2>1, <2>2, <2>3
<1>8. Overtakes(e, i) \subseteq {i}
  BY DEF Overtakes
<1>9. edits' \in [ProfileEdits -> ProfileEdit]
      /\ \A f \in ProfileEdits : edits'[f] = IF f = e THEN NoEdit ELSE edits[f]
  BY <1>6, NoEditTyped DEF ProfilesInv, ProfilesTypeOK
<1>10. ProfilesTypeOK'
  BY <1>5, <1>6, <1>7, <1>8, <1>9, NoEditTyped DEF ProfilesInv, ProfilesTypeOK
<1>11. Defaults' = IF w.default THEN {i} ELSE Defaults \ {i}
  <2>1. i \in Defaults' <=> w.default
    BY <1>5 DEF Defaults
  <2>2. ASSUME NEW j, j # i
        PROVE  j \in Defaults' <=> (j \in Defaults /\ ~ w.default)
    <3>1. ASSUME j \in DOMAIN profiles
          PROVE  profiles'[j].default <=> (profiles[j].default /\ ~ w.default)
      <4>1. profiles[j] \in Wish
        BY <1>1, <1>2, <3>1
      <4>2. [profiles[j] EXCEPT !.default = FALSE].default = FALSE
        BY <4>1 DEF Wish
      <4>3. QED
        BY <2>2, <3>1, <4>2, <1>5
    <3>2. QED
      BY <2>2, <3>1, <1>5 DEF Defaults
  <2>3. QED
    BY <2>1, <2>2
<1>12. (DOMAIN profiles' # {} /\ overtaken' = {}) => OneUsable'
  <2> SUFFICES ASSUME overtaken' = {} PROVE OneUsable'
    OBVIOUS
  <2>1. CASE w.default
    BY <2>1, <1>3, <1>5, <1>11 DEF OneUsable, EditInv, w
  <2>2. CASE ~ w.default
    <3>1. ~ StaysDefault(w) /\ overtaken = {}
      BY <2>2, <1>6 DEF StaysDefault
    <3>2. DOMAIN profiles # {}
      BY <3>1, <1>2, <1>3 DEF EditInv, w
    <3>3. i \notin Defaults
      BY <3>1, <1>2, <1>3, <1>4 DEF EditInv, w, i, Defaults
    <3>4. PICK d \in DOMAIN profiles : Defaults = {d} /\ profiles[d].enabled
      BY <3>1, <3>2 DEF ProfilesInv, OneUsable
    <3>5. Defaults' = {d} /\ profiles'[d] = profiles[d] /\ d \in DOMAIN profiles'
      BY <2>2, <3>3, <3>4, <1>5, <1>11
    <3>6. QED
      BY <3>4, <3>5 DEF OneUsable
  <2>3. QED
    BY <2>1, <2>2
<1>13. ASSUME NEW f \in ProfileEdits PROVE EditInv(edits[f])'
  <2>1. CASE f = e
    BY <2>1, <1>9, NoEditTyped DEF EditInv
  <2>2. CASE f # e
    <3>1. edits'[f] = edits[f] /\ EditInv(edits[f]) /\ edits[f].profile \in {0} \cup DOMAIN profiles
      BY <2>2, <1>9 DEF ProfilesInv, ProfilesTypeOK
    <3>2. DOMAIN profiles # {} => DOMAIN profiles' # {}
      BY <1>5
    <3>3. ASSUME edits[f].profile \in Defaults', overtaken' = {}
          PROVE  /\ edits[f].pc = "check" => edits[f].was
                 /\ edits[f].pc = "write" => StaysDefault(edits[f].wish)
      <4>1. CASE w.default
        BY <4>1, <3>3, <2>2, <1>6, <1>11 DEF Overtakes
      <4>2. CASE ~ w.default
        BY <4>2, <3>1, <3>3, <1>6, <1>11 DEF EditInv
      <4>3. QED
        BY <4>1, <4>2
    <3>4. QED
      BY <3>1, <3>2, <3>3 DEF EditInv
  <2>3. QED
    BY <2>1, <2>2
<1>14. QED
  BY <1>10, <1>12, <1>13 DEF ProfilesInv

LEMMA ProfilesStep == ProfilesInv /\ [ProfilesNext]_profileVars => ProfilesInv'
<1> SUFFICES ASSUME ProfilesInv, [ProfilesNext]_profileVars PROVE ProfilesInv'
  OBVIOUS
<1>1. ASSUME NEW e \in ProfileEdits, BeginEdit(e) PROVE ProfilesInv'
  <2>1. PICK i \in {0} \cup DOMAIN profiles, z \in Wish :
          edits' = [edits EXCEPT ![e] =
            [NoEdit EXCEPT !.pc = IF i = 0 THEN "check" ELSE "read",
                           !.profile = i, !.wish = z]]
    BY <1>1 DEF BeginEdit
  <2> DEFINE x == [NoEdit EXCEPT !.pc = IF i = 0 THEN "check" ELSE "read",
                                 !.profile = i, !.wish = z]
  <2>2. i \in 0 .. MaxProfiles /\ UNCHANGED <<profiles, overtaken>>
    BY <1>1, ProfilesAssumption DEF ProfilesInv, ProfilesTypeOK, BeginEdit
  <2>3. /\ x \in ProfileEdit /\ x.profile = i /\ x.pc \in {"check", "read"}
        /\ x.pc = "check" => i = 0
    BY <2>2 DEF NoEdit, ProfileEdit
  <2>4. 0 \notin Defaults
    BY DEF Defaults, ProfilesInv, ProfilesTypeOK
  <2>5. EditInv(x)
    BY <2>3, <2>4 DEF EditInv
  <2> HIDE DEF x
  <2>6. QED
    BY <2>1, <2>2, <2>3, <2>5, EditFrame DEF x
<1>2. ASSUME NEW e \in ProfileEdits, ReadProfile(e) PROVE ProfilesInv'
  <2> DEFINE x == [edits[e] EXCEPT !.pc = "check",
                                   !.was = profiles[edits[e].profile].default]
  <2>1. edits[e] \in ProfileEdit /\ edits[e].profile \in {0} \cup DOMAIN profiles /\ EditInv(edits[e])
    BY DEF ProfilesInv, ProfilesTypeOK
  <2>2. edits' = [edits EXCEPT ![e] = x]
    BY <1>2, <2>1 DEF ReadProfile, ProfilesInv, ProfilesTypeOK
  <2>3. x \in ProfileEdit /\ x.profile = edits[e].profile /\ x.pc = "check"
        /\ x.was = profiles[edits[e].profile].default
    <3>1. edits[e].profile \in DOMAIN profiles
      BY <2>1, <1>2 DEF EditInv, ReadProfile
    <3>2. profiles[edits[e].profile] \in Wish
      BY <3>1 DEF ProfilesInv, ProfilesTypeOK
    <3>3. profiles[edits[e].profile].default \in BOOLEAN
      BY <3>2 DEF Wish
    <3>4. QED
      BY <2>1, <3>3 DEF ProfileEdit
  <2>4. EditInv(x)
    BY <2>3 DEF EditInv, Defaults
  <2> HIDE DEF x
  <2>5. QED
    BY <2>1, <2>2, <2>3, <2>4, <1>2, EditFrame DEF ReadProfile
<1>3. ASSUME NEW e \in ProfileEdits, CheckEdit(e) PROVE ProfilesInv'
  BY <1>3, CheckEditInv
<1>4. ASSUME NEW e \in ProfileEdits, WriteEdit(e) PROVE ProfilesInv'
  BY <1>4, WriteEditInv
<1>5. ASSUME NEW e \in ProfileEdits, EditFails(e) PROVE ProfilesInv'
  <2>1. EditInv(NoEdit)
    BY NoEditTyped DEF EditInv
  <2>2. QED
    BY <1>5, <2>1, NoEditTyped, EditFrame DEF EditFails
<1>6. CASE UNCHANGED profileVars
  BY <1>6 DEF profileVars, ProfilesInv, ProfilesTypeOK, EditInv, OneUsable, Defaults
<1>7. QED
  BY <1>1, <1>2, <1>3, <1>4, <1>5, <1>6 DEF ProfilesNext

\* Every variable keeps its type, and requests are for profiles that exist, for any
\* number of requests and profiles.
THEOREM ProfileTypes == ProfilesSpec => []ProfilesTypeOK
<1>1. ProfilesInv => ProfilesTypeOK
  BY DEF ProfilesInv
<1>2. QED
  BY <1>1, ProfilesInitially, ProfilesStep, PTL DEF ProfilesSpec

\* However the reads and the transactions of the edits interleave, one profile is
\* the default and enabled, unless one became the default behind the back of an
\* edit of it.
THEOREM ProfilesCorrect == ProfilesSpec => []DefaultIsUsable
<1>1. ProfilesInv => DefaultIsUsable
  <2> SUFFICES ASSUME ProfilesInv, DOMAIN profiles # {}, overtaken = {}
      PROVE  Cardinality(Defaults) = 1 /\ \A i \in Defaults : profiles[i].enabled
    BY DEF DefaultIsUsable
  <2>1. PICK d \in DOMAIN profiles : Defaults = {d} /\ profiles[d].enabled
    BY DEF ProfilesInv, OneUsable
  <2>2. Cardinality({d}) = 1
    BY FS_Singleton
  <2>3. QED
    BY <2>1, <2>2
<1>2. QED
  BY <1>1, ProfilesInitially, ProfilesStep, PTL DEF ProfilesSpec

-----------------------------------------------------------------------------
(* Parameters of the system.                                               *)

\* What a process has so far of the parameters it will run with.
ProcessInv(x) ==
  /\ x.pc = "print" => x.env = x.given /\ x.how = "dev"
  /\ (x.pc = "load" /\ x.how # "dev") => x.env = x.given
  /\ (x.pc = "load" /\ x.how = "dev" /\ x.current /\ x.reached) =>
       x.env = Resolve(x.given, settings)
  /\ (x.pc = "up" /\ x.current /\ x.reached) =>
       \A k \in Keys : settings[k] # Blank =>
         Taken(x.env, k) = Taken(Resolve(x.given, settings), k)

\* The inductive invariant.
SettingsInv == SettingsTypeOK /\ \A p \in Processes : ProcessInv(processes[p])

LEMMA Numbers ==
  /\ Blank \in Words /\ DefaultWord \in Words /\ Absent \notin Words
  /\ DefaultWord # Absent /\ Blank # Absent /\ MaxWord \in Words
BY SettingsAssumption DEF Blank, DefaultWord, Words, Absent

LEMMA WinnersTyped ==
  ASSUME NEW base \in Environments, NEW rows \in Environments
  PROVE  /\ Resolve(base, rows) \in [Keys -> Words]
         /\ Resolve(base, rows) \in Environments
         /\ Inject(base, rows) \in Environments
BY Numbers DEF Environments, Resolve, Inject

\* Whatever the last stage does, the value that is taken is the same.
LEMMA LastStageAgrees ==
  ASSUME NEW base \in Environments, NEW rows \in Environments, NEW k \in Keys,
         rows[k] # Blank
  PROVE  /\ Taken(Inject(base, rows), k) = Taken(Resolve(base, rows), k)
         /\ Taken(Inject(Resolve(base, rows), rows), k) = Taken(Resolve(base, rows), k)
<1>1. Resolve(base, rows)[k] # Absent
  BY WinnersTyped, Numbers
<1>2. Inject(Resolve(base, rows), rows)[k] = Resolve(base, rows)[k]
  BY <1>1 DEF Inject
<1>3. Taken(Inject(base, rows), k) = Taken(Resolve(base, rows), k)
  BY Numbers DEF Inject, Resolve, Taken, Environments
<1>4. QED
  BY <1>2, <1>3 DEF Taken

LEMMA SettingsInitially == SettingsInit => SettingsInv
<1> SUFFICES ASSUME SettingsInit PROVE SettingsInv
  OBVIOUS
<1>1. Unset \in Environments /\ explicit \in Environments /\ editsMade \in 0 .. MaxEdits
  BY Numbers, SettingsAssumption DEF SettingsInit, Unset, Environments
<1>2. forms \in [Admins -> Form] /\ processes \in [Processes -> Process]
  BY <1>1 DEF SettingsInit, Form, Process, Hows
<1>3. QED
  BY <1>1, <1>2 DEF SettingsInit, SettingsInv, SettingsTypeOK, ProcessInv

\* New rows: what was read of the old ones counts no more.
LEMMA RowsChange ==
  ASSUME SettingsInv, Changed, settings' \in Environments
  PROVE  processes' \in [Processes -> Process]
         /\ \A p \in Processes : ProcessInv(processes[p])'
<1> SUFFICES ASSUME NEW p \in Processes
             PROVE  processes'[p] \in Process /\ ProcessInv(processes[p])'
  BY DEF Changed
<1>1. PICK x \in Process : x = processes[p] /\ ProcessInv(x)
  BY DEF SettingsInv, SettingsTypeOK
<1>2. PICK y : y = processes'[p]
  OBVIOUS
<1>3. y = [x EXCEPT !.current = x.current /\ settings' = settings]
  BY <1>1, <1>2 DEF Changed
<1>4. CASE settings' = settings
  <2>1. (x.current /\ settings' = settings) = x.current
    BY <1>4, <1>1 DEF Process
  <2>2. y = [x EXCEPT !.current = x.current]
    BY <1>3, <2>1
  <2>3. y = x
    BY <1>1, <2>2 DEF Process
  <2>4. QED
    BY <1>1, <1>2, <1>4, <2>3 DEF ProcessInv
<1>5. CASE settings' # settings
  <2>1. y = [x EXCEPT !.current = FALSE]
    BY <1>3, <1>5
  <2>2. y \in Process /\ ~ y.current /\ y.pc = x.pc /\ y.env = x.env /\ y.given = x.given
        /\ y.how = x.how
    BY <1>1, <2>1 DEF Process
  <2>3. QED
    BY <1>1, <1>2, <2>2 DEF ProcessInv
<1>6. QED
  BY <1>4, <1>5

\* A step of one process while the rows stay as they are.
LEMMA ProcessFrame ==
  ASSUME SettingsInv, NEW p \in Processes, NEW x \in Process, ProcessInv(x),
         processes' = [processes EXCEPT ![p] = x],
         UNCHANGED <<settings, backfilled, explicit, forms, editsMade>>
  PROVE  SettingsInv'
<1>1. SettingsTypeOK'
  BY DEF SettingsInv, SettingsTypeOK
<1>2. ASSUME NEW q \in Processes PROVE ProcessInv(processes[q])'
  <2>1. ProcessInv(processes'[q])
    BY DEF SettingsInv, SettingsTypeOK
  <2>2. QED
    BY <2>1 DEF ProcessInv
<1>3. QED
  BY <1>1, <1>2 DEF SettingsInv

\* A step that leaves rows and processes alone.
LEMMA OthersStep ==
  ASSUME SettingsInv, SettingsTypeOK', UNCHANGED <<settings, processes>>
  PROVE  SettingsInv'
BY DEF SettingsInv, ProcessInv

LEMMA StartInv ==
  ASSUME SettingsInv, NEW p \in Processes, NEW how \in Hows, StartProcess(p, how)
  PROVE  SettingsInv'
<1> DEFINE x == [pc |-> IF how = "dev" THEN "print" ELSE "load", how |-> how,
                 given |-> explicit, env |-> explicit, current |-> TRUE,
                 reached |-> TRUE]
<1>1. x \in Process
  BY DEF SettingsInv, SettingsTypeOK, Process
<1>2. ProcessInv(x)
  BY DEF ProcessInv
<1>3. processes' = [processes EXCEPT ![p] = x]
  BY DEF StartProcess
<1> HIDE DEF x
<1>4. QED
  BY <1>1, <1>2, <1>3, ProcessFrame DEF StartProcess

LEMMA PrintedInv ==
  ASSUME SettingsInv, NEW p \in Processes, Printed(p)
  PROVE  SettingsInv'
<1>1. PICK x \in Process : x = processes[p] /\ ProcessInv(x) /\ x.pc = "print"
  BY DEF SettingsInv, SettingsTypeOK, Printed
<1>2. PICK r \in BOOLEAN :
        processes' = [processes EXCEPT
            ![p].pc = "load", ![p].reached = r,
            ![p].env = IF r THEN PrintedEnv(x.given, settings) ELSE Resolve(x.given, Unset)]
  BY <1>1 DEF Printed
<1> DEFINE e == IF r THEN PrintedEnv(x.given, settings) ELSE Resolve(x.given, Unset)
<1>3. x.given \in Environments /\ settings \in Environments /\ Unset \in Environments
  BY <1>1, Numbers DEF Process, SettingsInv, SettingsTypeOK, Unset, Environments
<1>4. e \in Environments /\ (r => e = Resolve(x.given, settings))
  BY <1>3, WinnersTyped DEF PrintedEnv
<1> HIDE DEF e
<1>5. PICK y : y = [x EXCEPT !.pc = "load", !.reached = r, !.env = e]
  OBVIOUS
<1>6. processes' = [processes EXCEPT ![p] = y]
  BY <1>1, <1>2, <1>5 DEF e
<1>7. y \in Process
  BY <1>1, <1>4, <1>5 DEF Process
<1>8. /\ y.pc = "load" /\ y.reached = r /\ y.env = e /\ y.how = x.how
      /\ y.given = x.given
  BY <1>1, <1>5 DEF Process
<1>9. ProcessInv(y)
  BY <1>1, <1>4, <1>8 DEF ProcessInv
<1>10. QED
  BY <1>6, <1>7, <1>9, ProcessFrame DEF Printed

LEMMA LoadInv ==
  ASSUME SettingsInv, NEW p \in Processes, LoadSettings(p)
  PROVE  SettingsInv'
<1>1. PICK x \in Process : x = processes[p] /\ ProcessInv(x) /\ x.pc = "load"
  BY DEF SettingsInv, SettingsTypeOK, LoadSettings
<1>2. PICK r \in BOOLEAN :
        processes' = [processes EXCEPT
            ![p].pc = "up", ![p].reached = @ /\ r,
            ![p].env = IF ~r THEN x.env
                       ELSE IF x.how = "web" THEN Resolve(x.env, settings)
                       ELSE Inject(x.env, settings)]
  BY <1>1 DEF LoadSettings
<1> DEFINE e == IF ~r THEN x.env
                ELSE IF x.how = "web" THEN Resolve(x.env, settings)
                ELSE Inject(x.env, settings)
<1>3. /\ x.given \in Environments /\ x.env \in Environments /\ settings \in Environments
      /\ x.reached \in BOOLEAN /\ x.how \in Hows
  BY <1>1 DEF Process, SettingsInv, SettingsTypeOK
<1>4. e \in Environments
  BY <1>3, WinnersTyped
<1>5. ASSUME x.current, x.reached, r, NEW k \in Keys, settings[k] # Blank
      PROVE  Taken(e, k) = Taken(Resolve(x.given, settings), k)
  <2>1. CASE x.how = "dev"
    BY <2>1, <1>1, <1>3, <1>5, LastStageAgrees DEF ProcessInv
  <2>2. CASE x.how # "dev"
    BY <2>2, <1>1, <1>3, <1>5, LastStageAgrees DEF ProcessInv
  <2>3. QED
    BY <2>1, <2>2
<1> HIDE DEF e
<1>6. PICK y : y = [x EXCEPT !.pc = "up", !.reached = x.reached /\ r, !.env = e]
  OBVIOUS
<1>7. processes' = [processes EXCEPT ![p] = y]
  BY <1>1, <1>2, <1>6 DEF e
<1>8. y \in Process
  BY <1>1, <1>3, <1>4, <1>6 DEF Process
<1>9. /\ y.pc = "up" /\ y.reached = (x.reached /\ r) /\ y.env = e
      /\ y.given = x.given /\ y.current = x.current
  BY <1>1, <1>6 DEF Process
<1>10. ProcessInv(y)
  BY <1>5, <1>9 DEF ProcessInv
<1>11. QED
  BY <1>7, <1>8, <1>10, ProcessFrame DEF LoadSettings

LEMMA SettingsStep == SettingsInv /\ [SettingsNext]_settingsVars => SettingsInv'
<1> SUFFICES ASSUME SettingsInv, [SettingsNext]_settingsVars PROVE SettingsInv'
  OBVIOUS
<1>1. ASSUME NEW k \in Keys PROVE SeedValue(k) \in Words
  BY Numbers DEF SeedValue, SettingsInv, SettingsTypeOK, Environments
<1>2. ASSUME Changed, settings' \in Environments,
             UNCHANGED <<explicit, editsMade>>, forms' \in [Admins -> Form],
             backfilled' \in BOOLEAN
      PROVE  SettingsInv'
  BY <1>2, RowsChange DEF SettingsInv, SettingsTypeOK
<1>3. CASE SeedRows
  <2>1. settings' \in Environments
    BY <1>1, <1>3 DEF SeedRows, Environments
  <2>2. QED
    BY <1>2, <1>3, <2>1 DEF SeedRows, SettingsInv, SettingsTypeOK
<1>4. CASE FillBlanks
  <2>1. settings' \in Environments
    BY <1>1, <1>4 DEF FillBlanks, SettingsInv, SettingsTypeOK, Environments
  <2>2. QED
    BY <1>2, <1>4, <2>1 DEF FillBlanks, SettingsInv, SettingsTypeOK
<1>5. ASSUME NEW k \in Keys, NEW v \in Words \union {Absent}, ChangeEnvironment(k, v)
      PROVE  SettingsInv'
  <2>1. explicit' \in Environments /\ editsMade' \in 0 .. MaxEdits
    BY <1>5, SettingsAssumption
    DEF ChangeEnvironment, SettingsInv, SettingsTypeOK, Environments
  <2>2. QED
    BY <1>5, <2>1, OthersStep DEF ChangeEnvironment, SettingsInv, SettingsTypeOK
<1>6. ASSUME NEW a \in Admins,
             OpenForm(a) \/ SaveForm(a) \/ SaveReply(a) \/ SaveFails(a)
      PROVE  SettingsInv'
  <2>1. forms' \in [Admins -> Form]
    BY <1>6 DEF OpenForm, SaveForm, SaveReply, SaveFails, Form, SettingsInv, SettingsTypeOK
  <2>2. UNCHANGED <<settings, backfilled, explicit, processes, editsMade>>
    BY <1>6 DEF OpenForm, SaveForm, SaveReply, SaveFails
  <2>3. QED
    BY <2>1, <2>2, OthersStep DEF SettingsInv, SettingsTypeOK
<1>7. ASSUME NEW a \in Admins, NEW k \in Keys, NEW v \in Words, EditSetting(a, k, v)
      PROVE  SettingsInv'
  <2>1. forms[a] \in Form /\ [forms[a].values EXCEPT ![k] = v] \in Environments
    BY <1>7 DEF SettingsInv, SettingsTypeOK, Form, Environments
  <2>2. [forms[a] EXCEPT !.values = [forms[a].values EXCEPT ![k] = v]] \in Form
    BY <2>1 DEF Form
  <2>3. forms' \in [Admins -> Form] /\ editsMade' \in 0 .. MaxEdits
    BY <1>7, <2>2, SettingsAssumption DEF EditSetting, SettingsInv, SettingsTypeOK
  <2>4. QED
    BY <1>7, <2>3, OthersStep DEF EditSetting, SettingsInv, SettingsTypeOK
<1>8. ASSUME NEW a \in Admins, PatchSettings(a) PROVE SettingsInv'
  <2>1. settings' \in Environments /\ forms' \in [Admins -> Form]
    BY <1>8 DEF PatchSettings, SettingsInv, SettingsTypeOK, Form
  <2>2. QED
    BY <1>2, <1>8, <2>1 DEF PatchSettings, SettingsInv, SettingsTypeOK
<1>9. ASSUME NEW p \in Processes,
             Printed(p) \/ LoadSettings(p) \/ \E how \in Hows : StartProcess(p, how)
      PROVE  SettingsInv'
  BY <1>9, StartInv, PrintedInv, LoadInv
<1>10. CASE UNCHANGED settingsVars
  BY <1>10, OthersStep DEF settingsVars, SettingsInv, SettingsTypeOK
<1>11. QED
  BY <1>3, <1>4, <1>5, <1>6, <1>7, <1>8, <1>9, <1>10 DEF SettingsNext

\* Every variable keeps its type, for any set of parameters.
THEOREM SettingsTypes == SettingsSpec => []SettingsTypeOK
<1>1. SettingsInv => SettingsTypeOK
  BY DEF SettingsInv
<1>2. QED
  BY <1>1, SettingsInitially, SettingsStep, PTL DEF SettingsSpec

\* Processes that were started from the same environment and could read the rows
\* run with the same parameters, whichever of the three ways each was started and
\* however many rows were seeded, filled and saved before.
THEOREM SettingsCorrect == SettingsSpec => []StartedAlikeAgree
<1>1. SettingsInv => StartedAlikeAgree
  BY DEF SettingsInv, StartedAlikeAgree, ProcessInv
<1>2. QED
  BY <1>1, SettingsInitially, SettingsStep, PTL DEF SettingsSpec

-----------------------------------------------------------------------------
(* Upgrades.                                                               *)

\* A runner's process.
Running == [mode : {"check", "apply"}, at : Places, todo : Seq(UpgradeKeys),
            step : Nat, found : Nat]

\* What an upgrade has made of the tables when it is through.  The seeds leave
\* nothing that a later upgrade does not see to.
Effected(u, d) ==
  /\ u = "defaults" =>
       \A i \in 1 .. SettingRows : d.settings[i] \in {"default", "operator"}
  /\ u = "profiles" =>
       d.profiles # <<>> /\ d.profiles[1].default /\ d.chat = 1
  /\ u = "directories" =>
       \A w \in 1 .. Spaces : d.dirs[w] = {"root", "below"}
  /\ u = "libraries" =>
       \A w \in 1 .. Spaces : d.library[w] = 1 /\ d.owned[w] = OwnedTables

\* What an upgrade that is about to take its step s has made of them, and what it
\* remembers of its last one.
Reached(u, s, found, d) ==
  /\ u = "defaults" =>
       \A i \in 1 .. SettingRows : i < s => d.settings[i] \in {"default", "operator"}
  /\ u = "profiles" =>
       /\ s = 2 => found = Len(d.profiles)
       /\ s >= 3 => found = 1 /\ Len(d.profiles) = 1 /\ d.profiles[1].default
       /\ s >= 4 => d.chat = 1
  /\ u = "directories" =>
       \A w \in 1 .. Spaces : Spaces + w < s => d.dirs[w] = {"root", "below"}
  /\ u = "libraries" =>
       \A w \in 1 .. Spaces :
         /\ 2 * w < s => d.library[w] = 1
         /\ 2 * w = s => found = d.library[w]
         /\ 2 * Spaces + 1 < s => "documents" \in d.owned[w]
         /\ 2 * Spaces + 2 < s => "directories" \in d.owned[w]
         /\ 2 * Spaces + 3 < s => "chunks" \in d.owned[w]
         /\ 2 * Spaces + 4 < s => "anchors" \in d.owned[w]
         /\ 2 * Spaces + 5 < s => "citations" \in d.owned[w]

\* What every statement keeps: the operator's settings and key, one profile at
\* most that is enabled if it is the default, and one library at most for each
\* workspace.
Kept(d) ==
  /\ \A i \in 1 .. SettingRows :
       d.settings[i] = "operator" <=> origin.settings[i] = "operator"
  /\ Len(d.profiles) \in {0, 1}
  /\ origin.profiles # <<>> => Len(d.profiles) = 1 /\ Len(origin.profiles) = 1
  /\ Len(d.profiles) = 0 => d.legacy = origin.legacy
  /\ Len(d.profiles) = 1 =>
       /\ d.profiles[1].default => d.profiles[1].enabled
       /\ origin.profiles = <<>> /\ origin.legacy => d.profiles[1].key = "operator"
  /\ d.chat # 0 => d.chat = 1 /\ Len(d.profiles) = 1
  /\ \A w \in 1 .. Spaces : d.library[w] \in {0, 1}

\* What the place of a runner says of the rest.  What it still has to do is not
\* done, so a service that has started has left nothing to anyone.
Standing(r) ==
  /\ runner[r].at \notin {"off", "lock", "ok"} <=> lock = r
  /\ migrator[r] \in {"ok", "failed"} => runner[r].at = "migrate"
  /\ migrator[r] = "ok" => migrated
  /\ runner[r].at \in {"plan", "run", "step", "failing", "ok"} => migrated
  /\ runner[r].at \in {"run", "step", "failing"} =>
       /\ IsInjective(runner[r].todo)
       /\ \A i \in 1 .. Len(runner[r].todo) : record[runner[r].todo[i]] # "completed"
  /\ runner[r].at \in {"step", "failing"} => runner[r].todo # <<>>
  /\ runner[r].at = "step" =>
       /\ runner[r].step \in 1 .. Len(Script[runner[r].todo[1]]) + 1
       /\ Reached(runner[r].todo[1], runner[r].step, runner[r].found, data)
  /\ runner[r].at = "ok" => \A u \in UpgradeKeys : record[u] = "completed"

UpgradesTyped ==
  /\ lock \in Runners \cup {Nobody} /\ migrated \in BOOLEAN
  /\ migrator \in [Runners -> {"none", "running", "ok", "failed"}]
  /\ record \in [UpgradeKeys -> {"none", "running", "completed", "failed"}]
  /\ data \in Tables /\ origin \in Tables
  /\ runner \in [Runners -> Running]
  /\ troubles \in 0 .. MaxTroubles

\* The inductive invariant.
UpgradesInv ==
  /\ UpgradesTyped
  /\ Kept(data)
  /\ \A u \in UpgradeKeys : record[u] = "completed" => Effected(u, data)
  /\ \A r \in Runners : Standing(r)


\* The upgrades that a plan lists: each that is not done, once.
LEMMA UndoneLists ==
  ASSUME UpgradesTyped
  PROVE  /\ Undone \in Seq(UpgradeKeys) /\ IsInjective(Undone)
         /\ \A i \in 1 .. Len(Undone) : record[Undone[i]] # "completed"
         /\ Undone = <<>> => \A u \in UpgradeKeys : record[u] = "completed"
<1> DEFINE S == {u \in UpgradeKeys : record[u] # "completed"}
<1>1. Registry \in Seq(UpgradeKeys) /\ S \in SUBSET ToSet(Registry)
  BY DEF Registry, UpgradeKeys, ToSet
<1>2. PICK n \in Nat : n = Cardinality(S)
  BY <1>1, InOrderLists
<1>3. /\ Undone \in [1 .. n -> S]
      /\ \A x \in S : \E k \in 1 .. n : Undone[k] = x
      /\ IsInjective(Undone)
  <2>1. Undone = InOrder(Registry, S)
    BY DEF Undone
  <2> HIDE DEF S
  <2> QED BY <1>1, <1>2, <2>1, InOrderLists
<1>4. Undone \in [1 .. n -> UpgradeKeys]
  BY <1>3
<1>5. Undone \in Seq(UpgradeKeys) /\ Len(Undone) = n
  BY <1>4, FunctionIsList, Zenon
<1>6. \A i \in 1 .. n : Undone[i] \in S
  BY <1>3
<1>7. ASSUME Undone = <<>> PROVE S = {}
  <2>1. n = 0
    BY <1>5, <1>7
  <2> QED BY <1>3, <2>1
<1>8. \A u \in UpgradeKeys : u \notin S => record[u] = "completed"
  OBVIOUS
<1> HIDE DEF S
<1>9. Undone = <<>> => \A u \in UpgradeKeys : record[u] = "completed"
  BY <1>7, <1>8
<1>10. \A i \in 1 .. Len(Undone) : record[Undone[i]] # "completed"
  BY <1>5, <1>6 DEF S
<1> QED BY <1>3, <1>5, <1>9, <1>10

\* The statements of the upgrades.
Statements == {"root", "below", "look", "library"} \cup OwnedTables

LEMMA SettingScripts ==
  ASSUME NEW u \in {"seed", "metadata", "defaults"}
  PROVE  /\ Len(Script[u]) = SettingRows
         /\ \A i \in 1 .. SettingRows :
              Script[u][i] = <<IF u = "defaults" THEN "default" ELSE "seed", i>>
<1>1. SettingRows \in Nat
  BY UpgradesAssumption
<1> QED BY <1>1, SMTT(30) DEF Script, ForEach

LEMMA ProfileScript ==
  /\ Len(Script["profiles"]) = 4
  /\ Script["profiles"][1] = <<"find", 0>> /\ Script["profiles"][2] = <<"ensure", 0>>
  /\ Script["profiles"][3] = <<"assign", 0>> /\ Script["profiles"][4] = <<"forget", 0>>
BY DEF Script, Once

LEMMA DirectoryScript ==
  /\ Len(Script["directories"]) = 2 * Spaces
  /\ \A i \in 1 .. 2 * Spaces :
       Script["directories"][i] = IF i <= Spaces THEN <<"root", i>>
                                  ELSE <<"below", i - Spaces>>
<1> DEFINE f == ForEach(Spaces, "root")
           g == ForEach(Spaces, "below")
<1>0. Spaces \in Nat
  BY UpgradesAssumption
<1>1. /\ f \in Seq(Statements \X Nat) /\ Len(f) = Spaces
      /\ g \in Seq(Statements \X Nat) /\ Len(g) = Spaces
      /\ \A i \in 1 .. Spaces : f[i] = <<"root", i>> /\ g[i] = <<"below", i>>
  <2>1. /\ f = [i \in 1 .. Spaces |-> <<"root", i>>]
        /\ g = [i \in 1 .. Spaces |-> <<"below", i>>]
    BY DEF ForEach
  <2>2. f \in [1 .. Spaces -> Statements \X Nat] /\ g \in [1 .. Spaces -> Statements \X Nat]
    <3>1. \A i \in 1 .. Spaces : /\ <<"root", i>> \in Statements \X Nat
                                 /\ <<"below", i>> \in Statements \X Nat
      BY <1>0 DEF Statements
    <3> QED BY <2>1, <3>1
  <2>3. \A i \in 1 .. Spaces : f[i] = <<"root", i>> /\ g[i] = <<"below", i>>
    BY <2>1
  <2> HIDE DEF f, g
  <2>4. /\ f \in Seq(Statements \X Nat) /\ Len(f) = Spaces
        /\ g \in Seq(Statements \X Nat) /\ Len(g) = Spaces
    BY <1>0, <2>2, FunctionIsList, Zenon
  <2> QED BY <2>3, <2>4
<1>2. Script["directories"] = f \o g
  BY DEF Script
<1> HIDE DEF f, g
<1>3. /\ Len(f \o g) = Len(f) + Len(g)
      /\ \A i \in 1 .. Len(f) + Len(g) :
           (f \o g)[i] = IF i <= Len(f) THEN f[i] ELSE g[i - Len(f)]
  BY <1>1, ConcatProperties, Zenon
<1>4. Len(f \o g) = 2 * Spaces
  BY <1>0, <1>1, <1>3
<1>5. ASSUME NEW i \in 1 .. 2 * Spaces
      PROVE (f \o g)[i] = IF i <= Spaces THEN <<"root", i>> ELSE <<"below", i - Spaces>>
  <2>1. (f \o g)[i] = IF i <= Spaces THEN f[i] ELSE g[i - Spaces]
    BY <1>0, <1>1, <1>3
  <2>2. (i <= Spaces => i \in 1 .. Spaces) /\ (~(i <= Spaces) => i - Spaces \in 1 .. Spaces)
    BY <1>0
  <2> QED BY <1>1, <2>1, <2>2
<1> QED BY <1>2, <1>4, <1>5

LEMMA LibraryScript ==
  /\ Len(Script["libraries"]) = 2 * Spaces + 5
  /\ \A w \in 1 .. Spaces : /\ Script["libraries"][2 * w - 1] = <<"look", w>>
                            /\ Script["libraries"][2 * w] = <<"library", w>>
  /\ Script["libraries"][2 * Spaces + 1] = <<"documents", 0>>
  /\ Script["libraries"][2 * Spaces + 2] = <<"directories", 0>>
  /\ Script["libraries"][2 * Spaces + 3] = <<"chunks", 0>>
  /\ Script["libraries"][2 * Spaces + 4] = <<"anchors", 0>>
  /\ Script["libraries"][2 * Spaces + 5] = <<"citations", 0>>
<1> DEFINE f == [i \in 1 .. 2 * Spaces |-> <<IF i % 2 = 1 THEN "look" ELSE "library",
                                             (i + 1) \div 2>>]
           g == <<Once("documents"), Once("directories"), Once("chunks"),
                  Once("anchors"), Once("citations")>>
<1>0. Spaces \in Nat
  BY UpgradesAssumption
<1>1. PICK n \in Nat : n = 2 * Spaces
  BY <1>0
<1>2. f \in Seq(Statements \X Nat) /\ Len(f) = n
  <2>1. \A i \in 1 .. n : (i + 1) \div 2 \in Nat
    BY <1>1
  <2>2. \A i \in 1 .. n : (IF i % 2 = 1 THEN "look" ELSE "library") \in Statements
    BY DEF Statements
  <2>3. f \in [1 .. n -> Statements \X Nat]
    BY <1>1, <2>1, <2>2
  <2> HIDE DEF f
  <2> QED BY <2>3, FunctionIsList, Zenon
<1>3. \A w \in 1 .. Spaces : f[2 * w - 1] = <<"look", w>> /\ f[2 * w] = <<"library", w>>
  <2> SUFFICES ASSUME NEW w \in 1 .. Spaces
               PROVE f[2 * w - 1] = <<"look", w>> /\ f[2 * w] = <<"library", w>>
    OBVIOUS
  <2>0. w \in Nat /\ w <= Spaces /\ 1 <= w
    BY <1>0
  <2>1. PICK a \in 1 .. 2 * Spaces, b \in 1 .. 2 * Spaces : a = 2 * w - 1 /\ b = 2 * w
    BY <1>0, <2>0
  <2>2. a % 2 = 1 /\ (a + 1) \div 2 = w
    BY <2>0, <2>1
  <2>3. b % 2 = 0 /\ (b + 1) \div 2 = w
    BY <2>0, <2>1
  <2> QED BY <2>1, <2>2, <2>3
<1>4. /\ g \in Seq(Statements \X Nat) /\ Len(g) = 5
      /\ g[1] = <<"documents", 0>> /\ g[2] = <<"directories", 0>>
      /\ g[3] = <<"chunks", 0>> /\ g[4] = <<"anchors", 0>> /\ g[5] = <<"citations", 0>>
  <2>1. g \in Seq(OwnedTables \X Nat) /\ Len(g) = 5
    BY DEF Once, OwnedTables
  <2>2. g \in Seq(Statements \X Nat)
    BY DEF Once, OwnedTables, Statements
  <2>3. g[1] = <<"documents", 0>> /\ g[2] = <<"directories", 0>>
    BY DEF Once
  <2>4. g[3] = <<"chunks", 0>> /\ g[4] = <<"anchors", 0>> /\ g[5] = <<"citations", 0>>
    BY DEF Once
  <2> HIDE DEF g
  <2> QED BY <2>1, <2>2, <2>3, <2>4
<1>5. Script["libraries"] = f \o g
  BY DEF Script
<1> HIDE DEF f, g
<1>6. /\ Len(f \o g) = Len(f) + Len(g)
      /\ \A i \in 1 .. Len(f) + Len(g) :
           (f \o g)[i] = IF i <= Len(f) THEN f[i] ELSE g[i - Len(f)]
  BY <1>2, <1>4, ConcatProperties, Zenon
<1>7. /\ Len(f \o g) = n + 5
      /\ \A i \in 1 .. n + 5 : (f \o g)[i] = IF i <= n THEN f[i] ELSE g[i - n]
  BY <1>2, <1>4, <1>6
<1>8. \A w \in 1 .. Spaces : 2 * w - 1 \in 1 .. n /\ 2 * w \in 1 .. n
  BY <1>0, <1>1
<1>9. \A w \in 1 .. Spaces : /\ (f \o g)[2 * w - 1] = <<"look", w>>
                             /\ (f \o g)[2 * w] = <<"library", w>>
  <2>1. \A i \in 1 .. n : i \in 1 .. n + 5 /\ i <= n
    BY <1>1
  <2> QED BY <1>3, <1>7, <1>8, <2>1
<1>10. /\ (f \o g)[n + 1] = g[1] /\ (f \o g)[n + 2] = g[2] /\ (f \o g)[n + 3] = g[3]
       /\ (f \o g)[n + 4] = g[4] /\ (f \o g)[n + 5] = g[5]
  <2>1. \A i \in 1 .. 5 : n + i \in 1 .. n + 5 /\ ~(n + i <= n) /\ (n + i) - n = i
    BY <1>1
  <2>2. /\ n + 1 \in 1 .. n + 5 /\ n + 2 \in 1 .. n + 5 /\ n + 3 \in 1 .. n + 5
        /\ n + 4 \in 1 .. n + 5 /\ n + 5 \in 1 .. n + 5
    BY <2>1
  <2>3. /\ (n + 1) - n = 1 /\ (n + 2) - n = 2 /\ (n + 3) - n = 3
        /\ (n + 4) - n = 4 /\ (n + 5) - n = 5
    BY <2>1
  <2>4. ~(n + 1 <= n) /\ ~(n + 2 <= n) /\ ~(n + 3 <= n) /\ ~(n + 4 <= n) /\ ~(n + 5 <= n)
    BY <2>1
  <2> QED BY <1>7, <2>2, <2>3, <2>4
<1> QED BY <1>1, <1>4, <1>5, <1>7, <1>9, <1>10


\* One step of an upgrade: what it keeps, and how far the upgrade then is.
Advances(u, s, found, d) ==
  LET t == Script[u][s]
      e == Effect(t[1], t[2], found, d)
      f == Found(t[1], t[2], found, d)
  IN /\ e \in Tables /\ f \in Nat /\ Kept(e) /\ Reached(u, s + 1, f, e)
     /\ \A v \in UpgradeKeys : Effected(v, d) => Effected(v, e)

\* What each statement does.
LEMMA Effects ==
  ASSUME NEW i, NEW found, NEW d
  PROVE  /\ Effect("seed", i, found, d) = Seeded(d, i)
         /\ Effect("default", i, found, d) = Defaulted(d, i)
         /\ Effect("find", i, found, d) = d
         /\ Effect("look", i, found, d) = d
         /\ Effect("ensure", i, found, d) = Ensured(d, found)
         /\ Effect("assign", i, found, d) = Assigned(d, found)
         /\ Effect("forget", i, found, d) = [d EXCEPT !.legacy = FALSE]
         /\ Effect("root", i, found, d) = [d EXCEPT !.dirs[i] = d.dirs[i] \cup {"root"}]
         /\ Effect("below", i, found, d) =
              [d EXCEPT !.dirs[i] = d.dirs[i] \cup {"root", "below"}]
         /\ Effect("library", i, found, d) =
              IF found = 0 THEN [d EXCEPT !.library[i] = d.library[i] + 1] ELSE d
         /\ \A t \in OwnedTables : Effect(t, i, found, d) = Owned(d, t)
<1>1. /\ Effect("seed", i, found, d) = Seeded(d, i)
      /\ Effect("default", i, found, d) = Defaulted(d, i)
      /\ Effect("ensure", i, found, d) = Ensured(d, found)
      /\ Effect("assign", i, found, d) = Assigned(d, found)
  BY DEF Effect, OwnedTables
<1>2. /\ Effect("find", i, found, d) = d /\ Effect("look", i, found, d) = d
      /\ Effect("forget", i, found, d) = [d EXCEPT !.legacy = FALSE]
  BY DEF Effect, OwnedTables
<1>3. Effect("root", i, found, d) = [d EXCEPT !.dirs[i] = d.dirs[i] \cup {"root"}]
  <2>1. d.dirs[i] \cup {"root", "root"} = d.dirs[i] \cup {"root"}
    OBVIOUS
  <2> QED BY <2>1 DEF Effect, OwnedTables
<1>4. Effect("below", i, found, d) = [d EXCEPT !.dirs[i] = d.dirs[i] \cup {"root", "below"}]
  BY DEF Effect, OwnedTables
<1>5. Effect("library", i, found, d) =
        IF found = 0 THEN [d EXCEPT !.library[i] = d.library[i] + 1] ELSE d
  BY DEF Effect, OwnedTables
<1>6. \A t \in OwnedTables : Effect(t, i, found, d) = Owned(d, t)
  BY DEF Effect, OwnedTables
<1> QED BY <1>1, <1>2, <1>3, <1>4, <1>5, <1>6

\* The statements that concern settings.
LEMMA SettingAdvances ==
  ASSUME NEW u \in {"seed", "metadata", "defaults"}, NEW s \in 1 .. SettingRows,
         NEW found \in Nat, NEW d \in Tables, origin \in Tables, Kept(d),
         Reached(u, s, found, d)
  PROVE  Advances(u, s, found, d)
<1> DEFINE do == IF u = "defaults" THEN "default" ELSE "seed"
           e == Effect(do, s, found, d)
<1>0. SettingRows \in Nat /\ s \in Nat
  BY UpgradesAssumption
<1>1. Script[u][s] = <<do, s>>
  BY SettingScripts
<1>2. Found(do, s, found, d) = found
  BY DEF Found
<1>3. \/ e = d /\ d.settings[s] \in {"empty", "default", "operator"}
         /\ (u = "defaults" => d.settings[s] # "empty")
      \/ e = [d EXCEPT !.settings[s] = "default"] /\ d.settings[s] \in {"missing", "empty"}
  <2>1. d.settings[s] \in SettingValue
    BY DEF Tables
  <2>2. CASE u = "defaults"
    BY <2>1, <2>2, Effects DEF Defaulted, SettingValue
  <2>3. CASE u # "defaults"
    BY <2>1, <2>3, Effects DEF Seeded, SettingValue
  <2> QED BY <2>2, <2>3
<1> HIDE DEF e, do
<1>4. CASE e = d /\ d.settings[s] \in {"empty", "default", "operator"}
           /\ (u = "defaults" => d.settings[s] # "empty")
  <2>1. Reached(u, s + 1, found, e)
    BY <1>0, <1>4 DEF Reached
  <2> QED BY <1>1, <1>2, <1>4, <2>1 DEF Advances, e
<1>5. CASE e = [d EXCEPT !.settings[s] = "default"] /\ d.settings[s] \in {"missing", "empty"}
  <2>1. /\ e \in Tables /\ e.settings = [d.settings EXCEPT ![s] = "default"]
        /\ e.legacy = d.legacy /\ e.profiles = d.profiles /\ e.chat = d.chat
        /\ e.dirs = d.dirs /\ e.library = d.library /\ e.owned = d.owned
    <3>1. "default" \in SettingValue
      BY DEF SettingValue
    <3> QED BY <1>5, <3>1 DEF Tables
  <2>2. \A i \in 1 .. SettingRows :
          e.settings[i] = IF i = s THEN "default" ELSE d.settings[i]
    BY <2>1 DEF Tables
  <2>3. Kept(e)
    BY <1>5, <2>1, <2>2 DEF Kept
  <2>4. Reached(u, s + 1, found, e)
    BY <1>0, <2>2 DEF Reached
  <2>5. \A v \in UpgradeKeys : Effected(v, d) => Effected(v, e)
    BY <2>1, <2>2 DEF Effected
  <2> QED BY <1>1, <1>2, <2>1, <2>3, <2>4, <2>5 DEF Advances, e
<1> QED BY <1>3, <1>4, <1>5

\* The statements that concern the root directories.
LEMMA DirectoryAdvances ==
  ASSUME NEW s \in 1 .. 2 * Spaces,
         NEW found \in Nat, NEW d \in Tables, origin \in Tables, Kept(d),
         Reached("directories", s, found, d)
  PROVE  Advances("directories", s, found, d)
<1> DEFINE do == IF s <= Spaces THEN "root" ELSE "below"
           i == IF s <= Spaces THEN s ELSE s - Spaces
           e == Effect(do, i, found, d)
<1>0. Spaces \in Nat /\ s \in Nat /\ i \in 1 .. Spaces
  BY UpgradesAssumption
<1>1. Script["directories"][s] = <<do, i>>
  BY DirectoryScript
<1>2. Found(do, i, found, d) = found
  BY DEF Found
<1>3. e = [d EXCEPT !.dirs[i] = d.dirs[i] \cup {"root", do}]
  <2>1. CASE s <= Spaces
    <3>1. d.dirs[i] \cup {"root", do} = d.dirs[i] \cup {"root"}
      BY <2>1
    <3> QED BY <2>1, <3>1, Effects
  <2>2. CASE ~(s <= Spaces)
    <3>1. d.dirs[i] \cup {"root", do} = d.dirs[i] \cup {"root", "below"}
      BY <2>2
    <3>2. e = Effect("below", i, found, d)
      BY <2>2
    <3> HIDE DEF e, i, do
    <3> QED BY <3>1, <3>2, Effects
  <2> QED BY <2>1, <2>2
<1>4. d.dirs[i] \cup {"root", do} \in SUBSET {"root", "below"}
  BY <1>0 DEF Tables
<1>5. /\ e \in Tables /\ e.dirs = [d.dirs EXCEPT ![i] = d.dirs[i] \cup {"root", do}]
      /\ e.legacy = d.legacy /\ e.profiles = d.profiles /\ e.chat = d.chat
      /\ e.settings = d.settings /\ e.library = d.library /\ e.owned = d.owned
  <2> HIDE DEF e, do, i
  <2> QED BY <1>0, <1>3, <1>4 DEF Tables
<1> HIDE DEF e
<1>6. \A w \in 1 .. Spaces :
        /\ e.dirs[w] \in SUBSET {"root", "below"} /\ d.dirs[w] \subseteq e.dirs[w]
        /\ Spaces + w = s => e.dirs[w] = {"root", "below"}
  BY <1>0, <1>5 DEF Tables
<1>7. \A w \in 1 .. Spaces : d.dirs[w] = {"root", "below"} => e.dirs[w] = {"root", "below"}
  BY <1>6
<1>8. Kept(e)
  BY <1>5 DEF Kept
<1>9. Reached("directories", s + 1, found, e)
  BY <1>0, <1>6, <1>7 DEF Reached
<1>10. \A v \in UpgradeKeys : Effected(v, d) => Effected(v, e)
  BY <1>5, <1>7 DEF Effected
<1> HIDE DEF do, i
<1> QED BY <1>1, <1>2, <1>5, <1>8, <1>9, <1>10 DEF Advances, e


\* The statements that concern the default profile.
LEMMA FindAdvances ==
  ASSUME NEW found \in Nat, NEW d \in Tables, origin \in Tables, Kept(d)
  PROVE  Advances("profiles", 1, found, d)
<1>1. Script["profiles"][1] = <<"find", 0>> /\ Effect("find", 0, found, d) = d
  BY ProfileScript, Effects
<1>2. d.profiles \in Seq(Profile) /\ Len(d.profiles) \in {0, 1}
  BY DEF Tables, Kept
<1>3. FoundProfile(d) = Len(d.profiles)
  <2> DEFINE P == {p \in DOMAIN d.profiles : d.profiles[p].default}
  <2>1. FoundProfile(d) = IF P # {} THEN CHOOSE p \in P : TRUE
                          ELSE IF d.profiles # <<>> THEN 1 ELSE 0
    BY DEF FoundProfile
  <2>2. P \subseteq 1 .. Len(d.profiles)
    BY <1>2
  <2> HIDE DEF P
  <2>3. CASE Len(d.profiles) = 0
    <3>1. P = {} /\ d.profiles = <<>>
      BY <1>2, <2>2, <2>3
    <3> QED BY <2>1, <2>3, <3>1
  <2>4. CASE Len(d.profiles) = 1
    <3>1. d.profiles # <<>> /\ \A p \in P : p = 1
      <4>1. d.profiles # <<>>
        BY <2>4
      <4>2. \A p \in 1 .. 1 : p = 1
        OBVIOUS
      <4> QED BY <2>2, <2>4, <4>1, <4>2
    <3> QED BY <2>1, <2>4, <3>1
  <2> QED BY <1>2, <2>3, <2>4
<1>4. Found("find", 0, found, d) = Len(d.profiles)
  BY <1>3 DEF Found
<1>5. Reached("profiles", 2, Len(d.profiles), d)
  BY DEF Reached
<1> QED BY <1>1, <1>2, <1>4, <1>5 DEF Advances

LEMMA EnsureAdvances ==
  ASSUME NEW found \in Nat, NEW d \in Tables, origin \in Tables, Kept(d),
         Reached("profiles", 2, found, d)
  PROVE  Advances("profiles", 2, found, d)
<1> DEFINE e == Ensured(d, found)
<1>1. Script["profiles"][2] = <<"ensure", 0>> /\ Effect("ensure", 0, found, d) = e
  BY ProfileScript, Effects
<1>2. d.profiles \in Seq(Profile) /\ found \in {0, 1} /\ Len(d.profiles) = found
  BY DEF Tables, Kept, Reached
<1>3. Found("ensure", 0, found, d) = 1
  BY <1>2 DEF Found
<1>4. /\ e \in Tables /\ Len(e.profiles) = 1 /\ e.profiles[1].default
      /\ e.profiles[1].enabled
      /\ e.legacy = d.legacy /\ e.chat = d.chat /\ e.settings = d.settings
      /\ e.dirs = d.dirs /\ e.library = d.library /\ e.owned = d.owned
      /\ origin.profiles = <<>> /\ origin.legacy => e.profiles[1].key = "operator"
  <2>1. CASE found = 0
    <3> DEFINE new == [enabled |-> TRUE, default |-> TRUE,
                       key |-> IF d.legacy THEN "operator" ELSE "example"]
    <3>1. e = [d EXCEPT !.profiles = Append(d.profiles, new)]
      BY <2>1 DEF Ensured
    <3>2. new \in Profile
      BY DEF Profile
    <3>3. d.legacy = origin.legacy
      BY <1>2, <2>1 DEF Kept
    <3>4. /\ new.default /\ new.enabled
          /\ d.legacy => new.key = "operator"
      OBVIOUS
    <3> HIDE DEF e, new
    <3>5. /\ Append(d.profiles, new) \in Seq(Profile)
          /\ Len(Append(d.profiles, new)) = 1
          /\ Append(d.profiles, new)[1] = new
      BY <1>2, <2>1, <3>2
    <3>6. e \in Tables /\ e.profiles = Append(d.profiles, new)
      BY <3>1, <3>5 DEF Tables
    <3> QED BY <3>1, <3>3, <3>4, <3>5, <3>6 DEF Tables
  <2>2. CASE found = 1 /\ d.profiles[1].default
    <3>1. e = d
      BY <2>2 DEF Ensured
    <3> QED BY <1>2, <2>2, <3>1 DEF Kept
  <2>3. CASE found = 1 /\ ~ d.profiles[1].default
    <3>1. d.profiles[1] \in Profile
      BY <1>2, <2>3
    <3>2. e = [d EXCEPT !.profiles[1].enabled = TRUE, !.profiles[1].default = TRUE]
      BY <2>3 DEF Ensured
    <3> DEFINE new == [d.profiles[1] EXCEPT !.enabled = TRUE, !.default = TRUE]
    <3>3. new \in Profile /\ new.enabled /\ new.default /\ new.key = d.profiles[1].key
      BY <3>1 DEF Profile
    <3>4. e.profiles = [d.profiles EXCEPT ![1] = new]
      <4> DEFINE r == [d.profiles[1] EXCEPT !.enabled = TRUE]
                 d1 == [d EXCEPT !.profiles[1].enabled = TRUE]
      <4>1. d1.profiles = [d.profiles EXCEPT ![1] = r]
        BY DEF Tables
      <4>2. d1.profiles[1] = r
        BY <1>2, <2>3, <4>1
      <4>3. e = [d1 EXCEPT !.profiles[1].default = TRUE]
        BY <3>2
      <4>4. e.profiles = [d1.profiles EXCEPT ![1] = [d1.profiles[1] EXCEPT !.default = TRUE]]
        BY <4>3 DEF Tables
      <4>5. new = [r EXCEPT !.default = TRUE]
        OBVIOUS
      <4> HIDE DEF e, new, d1, r
      <4> QED BY <1>2, <2>3, <4>1, <4>2, <4>4, <4>5
    <3>5. /\ e.legacy = d.legacy /\ e.chat = d.chat /\ e.settings = d.settings
          /\ e.dirs = d.dirs /\ e.library = d.library /\ e.owned = d.owned
          /\ e = [d EXCEPT !.profiles = e.profiles]
      BY <3>2 DEF Tables
    <3> HIDE DEF e, new
    <3>6. /\ e.profiles \in Seq(Profile) /\ Len(e.profiles) = 1 /\ e.profiles[1] = new
      BY <1>2, <2>3, <3>3, <3>4
    <3>7. e \in Tables
      BY <3>5, <3>6 DEF Tables
    <3> QED BY <1>2, <2>3, <3>3, <3>5, <3>6, <3>7 DEF Kept
  <2> QED BY <1>2, <2>1, <2>2, <2>3
<1> HIDE DEF e
<1>5. Kept(e)
  BY <1>2, <1>4 DEF Kept
<1>6. Reached("profiles", 3, 1, e)
  BY <1>4 DEF Reached
<1>7. \A v \in UpgradeKeys : Effected(v, d) => Effected(v, e)
  <2>1. e.profiles # <<>>
    BY <1>4
  <2> QED BY <1>4, <2>1 DEF Effected
<1> QED BY <1>1, <1>3, <1>4, <1>5, <1>6, <1>7 DEF Advances

LEMMA AssignAdvances ==
  ASSUME NEW found \in Nat, NEW d \in Tables, origin \in Tables, Kept(d),
         Reached("profiles", 3, found, d)
  PROVE  Advances("profiles", 3, found, d)
<1> DEFINE e == Assigned(d, found)
<1>1. Script["profiles"][3] = <<"assign", 0>> /\ Effect("assign", 0, found, d) = e
  BY ProfileScript, Effects
<1>2. Found("assign", 0, found, d) = found /\ found = 1
  BY DEF Found, Reached
<1>3. /\ e \in Tables /\ e.chat = 1 /\ e.profiles = d.profiles
      /\ e.legacy = d.legacy /\ e.settings = d.settings
      /\ e.dirs = d.dirs /\ e.library = d.library /\ e.owned = d.owned
  BY <1>2 DEF Assigned, Tables, Kept
<1> HIDE DEF e
<1>4. Kept(e) /\ Reached("profiles", 4, 1, e)
  BY <1>3 DEF Kept, Reached
<1>5. \A v \in UpgradeKeys : Effected(v, d) => Effected(v, e)
  BY <1>3 DEF Effected
<1> QED BY <1>1, <1>2, <1>3, <1>4, <1>5 DEF Advances

LEMMA ForgetAdvances ==
  ASSUME NEW found \in Nat, NEW d \in Tables, origin \in Tables, Kept(d),
         Reached("profiles", 4, found, d)
  PROVE  Advances("profiles", 4, found, d)
<1> DEFINE e == [d EXCEPT !.legacy = FALSE]
<1>1. Script["profiles"][4] = <<"forget", 0>> /\ Effect("forget", 0, found, d) = e
  BY ProfileScript, Effects
<1>2. Found("forget", 0, found, d) = found
  BY DEF Found
<1>3. /\ e \in Tables /\ e.chat = d.chat /\ e.profiles = d.profiles
      /\ e.settings = d.settings
      /\ e.dirs = d.dirs /\ e.library = d.library /\ e.owned = d.owned
  BY DEF Tables
<1> HIDE DEF e
<1>4. Kept(e) /\ Reached("profiles", 5, found, e)
  BY <1>3 DEF Kept, Reached
<1>5. \A v \in UpgradeKeys : Effected(v, d) => Effected(v, e)
  BY <1>3 DEF Effected
<1> QED BY <1>1, <1>2, <1>3, <1>4, <1>5 DEF Advances

\* The statements that concern the library of a workspace.
LEMMA LookAdvances ==
  ASSUME NEW x \in 1 .. Spaces, NEW found \in Nat, NEW d \in Tables, origin \in Tables,
         Kept(d), Reached("libraries", 2 * x - 1, found, d)
  PROVE  Advances("libraries", 2 * x - 1, found, d)
<1>0. Spaces \in Nat /\ x \in Nat /\ x <= Spaces /\ x >= 1
  BY UpgradesAssumption
<1>1. /\ Script["libraries"][2 * x - 1] = <<"look", x>>
      /\ Effect("look", x, found, d) = d
  BY LibraryScript, Effects
<1>2. Found("look", x, found, d) = d.library[x] /\ d.library[x] \in Nat
  BY <1>0 DEF Found, Tables
<1>3. PICK s \in Nat : s = 2 * x - 1
  BY <1>0
<1>4. Reached("libraries", s + 1, d.library[x], d)
  <2>1. ASSUME NEW w \in 1 .. Spaces
        PROVE  /\ 2 * w < s + 1 => 2 * w < s
               /\ 2 * w = s + 1 => w = x
               /\ ~(2 * Spaces + 1 < s + 1)
    BY <1>0, <1>3
  <2>2. /\ ~(2 * Spaces + 2 < s + 1) /\ ~(2 * Spaces + 3 < s + 1)
        /\ ~(2 * Spaces + 4 < s + 1) /\ ~(2 * Spaces + 5 < s + 1)
    BY <1>0, <1>3
  <2> QED BY <1>3, <2>1, <2>2 DEF Reached
<1> QED BY <1>1, <1>2, <1>3, <1>4 DEF Advances

LEMMA LibraryAdvances ==
  ASSUME NEW x \in 1 .. Spaces, NEW found \in Nat, NEW d \in Tables, origin \in Tables,
         Kept(d), Reached("libraries", 2 * x, found, d)
  PROVE  Advances("libraries", 2 * x, found, d)
<1> DEFINE e == IF found = 0 THEN [d EXCEPT !.library[x] = d.library[x] + 1] ELSE d
<1>0. Spaces \in Nat /\ x \in Nat /\ x <= Spaces /\ x >= 1
  BY UpgradesAssumption
<1>1. /\ Script["libraries"][2 * x] = <<"library", x>>
      /\ Effect("library", x, found, d) = e
  BY LibraryScript, Effects
<1>2. Found("library", x, found, d) = found
  BY DEF Found
<1>3. PICK s \in Nat : s = 2 * x
  BY <1>0
<1>4. found = d.library[x] /\ d.library[x] \in {0, 1}
  BY <1>3 DEF Reached, Kept
<1>5. /\ e \in Tables /\ e.chat = d.chat /\ e.profiles = d.profiles /\ e.legacy = d.legacy
      /\ e.settings = d.settings /\ e.dirs = d.dirs /\ e.owned = d.owned
      /\ \A w \in 1 .. Spaces : e.library[w] = IF w = x THEN 1 ELSE d.library[w]
  <2>1. CASE found = 0
    <3>1. e = [d EXCEPT !.library[x] = 1]
      BY <1>4, <2>1
    <3> HIDE DEF e
    <3> QED BY <1>0, <3>1 DEF Tables
  <2>2. CASE found # 0
    <3>1. e = d /\ d.library[x] = 1
      BY <1>4, <2>2
    <3> HIDE DEF e
    <3> QED BY <1>0, <3>1
  <2> QED BY <2>1, <2>2
<1> HIDE DEF e
<1>6. Kept(e)
  BY <1>5 DEF Kept
<1>7. Reached("libraries", s + 1, found, e)
  <2>1. ASSUME NEW w \in 1 .. Spaces
        PROVE  /\ 2 * w < s + 1 => 2 * w < s \/ w = x
               /\ 2 * w # s + 1
               /\ ~(2 * Spaces + 1 < s + 1)
    BY <1>0, <1>3
  <2>2. /\ ~(2 * Spaces + 2 < s + 1) /\ ~(2 * Spaces + 3 < s + 1)
        /\ ~(2 * Spaces + 4 < s + 1) /\ ~(2 * Spaces + 5 < s + 1)
    BY <1>0, <1>3
  <2> QED BY <1>3, <1>5, <2>1, <2>2 DEF Reached
<1>8. \A v \in UpgradeKeys : Effected(v, d) => Effected(v, e)
  BY <1>5 DEF Effected
<1> QED BY <1>1, <1>2, <1>3, <1>5, <1>6, <1>7, <1>8 DEF Advances


\* What a statement of the rows of a table adds.
LEMMA OwnedAdds ==
  ASSUME NEW t \in OwnedTables, NEW d \in Tables
  PROVE  /\ Owned(d, t) \in Tables
         /\ Owned(d, t).legacy = d.legacy /\ Owned(d, t).profiles = d.profiles
         /\ Owned(d, t).chat = d.chat /\ Owned(d, t).settings = d.settings
         /\ Owned(d, t).dirs = d.dirs /\ Owned(d, t).library = d.library
         /\ \A w \in 1 .. Spaces :
              /\ d.owned[w] \subseteq Owned(d, t).owned[w]
              /\ Owned(d, t).owned[w] \subseteq OwnedTables
              /\ \/ Parent[t] = "library" /\ d.library[w] > 0
                 \/ Parent[t] \in d.owned[w]
                 => t \in Owned(d, t).owned[w]
<1> DEFINE gets(w) == (Parent[t] = "library" /\ d.library[w] > 0) \/ Parent[t] \in d.owned[w]
           o == [w \in 1 .. Spaces |-> IF gets(w) THEN d.owned[w] \cup {t} ELSE d.owned[w]]
           e == Owned(d, t)
<1>1. e = [d EXCEPT !.owned = o]
  BY DEF Owned
<1>2. \A w \in 1 .. Spaces : d.owned[w] \in SUBSET OwnedTables
  BY DEF Tables
<1> HIDE DEF gets
<1>3. o \in [1 .. Spaces -> SUBSET OwnedTables]
  BY <1>2
<1>4. \A w \in 1 .. Spaces : /\ d.owned[w] \subseteq o[w]
                             /\ o[w] \subseteq OwnedTables
                             /\ gets(w) => t \in o[w]
  BY <1>2
<1> HIDE DEF o, e
<1>5. /\ e \in Tables /\ e.owned = o /\ e.legacy = d.legacy /\ e.profiles = d.profiles
      /\ e.chat = d.chat /\ e.settings = d.settings /\ e.dirs = d.dirs
      /\ e.library = d.library
  BY <1>1, <1>3 DEF Tables
<1>6. \A w \in 1 .. Spaces : /\ d.owned[w] \subseteq e.owned[w]
                             /\ e.owned[w] \subseteq OwnedTables
                             /\ gets(w) => t \in e.owned[w]
  BY <1>4, <1>5
<1> QED BY <1>5, <1>6 DEF gets, e

\* Such a statement takes the upgrade on if it adds its table everywhere.
LEMMA OwnAdvances ==
  ASSUME NEW t \in OwnedTables, NEW s \in 1 .. 2 * Spaces + 5, NEW found \in Nat,
         NEW d \in Tables, origin \in Tables,
         s > 2 * Spaces, Script["libraries"][s] = <<t, 0>>,
         Kept(d), Reached("libraries", s, found, d),
         s = 2 * Spaces + 1 => t = "documents",
         s = 2 * Spaces + 2 => t = "directories",
         s = 2 * Spaces + 3 => t = "chunks",
         s = 2 * Spaces + 4 => t = "anchors",
         s = 2 * Spaces + 5 => t = "citations"
  PROVE  Advances("libraries", s, found, d)
<1> DEFINE e == Owned(d, t)
<1>0. Spaces \in Nat /\ s \in Nat
  BY UpgradesAssumption
<1>1. Effect(t, 0, found, d) = e /\ Found(t, 0, found, d) = found
  BY Effects DEF Found, OwnedTables
<1>2. /\ e \in Tables /\ e.legacy = d.legacy /\ e.profiles = d.profiles
      /\ e.chat = d.chat /\ e.settings = d.settings /\ e.dirs = d.dirs
      /\ e.library = d.library
      /\ \A w \in 1 .. Spaces :
           d.owned[w] \subseteq e.owned[w] /\ e.owned[w] \subseteq OwnedTables
  BY OwnedAdds
<1>3. ASSUME NEW w \in 1 .. Spaces PROVE 2 * w < s /\ 2 * w # s + 1 /\ d.library[w] = 1
  <2>1. 2 * w < s /\ 2 * w # s + 1
    BY <1>0
  <2> QED BY <2>1 DEF Reached
<1>4. ASSUME NEW w \in 1 .. Spaces PROVE t \in e.owned[w]
  <2>1. \/ Parent[t] = "library" /\ d.library[w] > 0
        \/ Parent[t] \in d.owned[w]
    <3>1. CASE s = 2 * Spaces + 1 \/ s = 2 * Spaces + 2
      BY <1>3, <3>1 DEF Parent
    <3>2. CASE s = 2 * Spaces + 3 \/ s = 2 * Spaces + 4
      <4>1. "documents" \in d.owned[w]
        BY <1>0, <3>2 DEF Reached
      <4> QED BY <3>2, <4>1 DEF Parent
    <3>3. CASE s = 2 * Spaces + 5
      <4>1. "anchors" \in d.owned[w]
        BY <1>0, <3>3 DEF Reached
      <4> QED BY <3>3, <4>1 DEF Parent
    <3> QED BY <1>0, <3>1, <3>2, <3>3
  <2> QED BY <2>1, OwnedAdds
<1> HIDE DEF e
<1>5. Kept(e)
  BY <1>2 DEF Kept
<1>6. Reached("libraries", s + 1, found, e)
  <2> SUFFICES ASSUME NEW w \in 1 .. Spaces
               PROVE  /\ 2 * w < s + 1 => e.library[w] = 1
                      /\ 2 * w = s + 1 => found = e.library[w]
                      /\ 2 * Spaces + 1 < s + 1 => "documents" \in e.owned[w]
                      /\ 2 * Spaces + 2 < s + 1 => "directories" \in e.owned[w]
                      /\ 2 * Spaces + 3 < s + 1 => "chunks" \in e.owned[w]
                      /\ 2 * Spaces + 4 < s + 1 => "anchors" \in e.owned[w]
                      /\ 2 * Spaces + 5 < s + 1 => "citations" \in e.owned[w]
    BY DEF Reached
  <2>1. \A k \in 1 .. 5 : 2 * Spaces + k < s + 1 => 2 * Spaces + k < s \/ s = 2 * Spaces + k
    BY <1>0
  <2>2. /\ 2 * Spaces + 1 < s => "documents" \in e.owned[w]
        /\ 2 * Spaces + 2 < s => "directories" \in e.owned[w]
        /\ 2 * Spaces + 3 < s => "chunks" \in e.owned[w]
        /\ 2 * Spaces + 4 < s => "anchors" \in e.owned[w]
        /\ 2 * Spaces + 5 < s => "citations" \in e.owned[w]
    BY <1>2 DEF Reached
  <2> QED BY <1>2, <1>3, <1>4, <2>1, <2>2
<1>7. \A v \in UpgradeKeys : Effected(v, d) => Effected(v, e)
  <2>1. \A w \in 1 .. Spaces : d.owned[w] = OwnedTables => e.owned[w] = OwnedTables
    BY <1>2
  <2> QED BY <1>2, <2>1 DEF Effected
<1> QED BY <1>1, <1>2, <1>5, <1>6, <1>7 DEF Advances

\* Every statement takes its upgrade on.
LEMMA StatementAdvances ==
  ASSUME NEW u \in UpgradeKeys, NEW s \in 1 .. Len(Script[u]), NEW found \in Nat,
         NEW d \in Tables, origin \in Tables, Kept(d), Reached(u, s, found, d)
  PROVE  Advances(u, s, found, d)
<1>0. Spaces \in Nat /\ SettingRows \in Nat
  BY UpgradesAssumption
<1>1. CASE u \in {"seed", "metadata", "defaults"}
  BY <1>1, SettingScripts, SettingAdvances
<1>2. CASE u = "directories"
  BY <1>2, DirectoryScript, DirectoryAdvances
<1>3. CASE u = "profiles"
  <2>1. s \in 1 .. 4
    BY <1>3, ProfileScript
  <2>2. CASE s = 1
    BY <1>3, <2>2, FindAdvances
  <2>3. CASE s = 2
    BY <1>3, <2>3, EnsureAdvances
  <2>4. CASE s = 3
    BY <1>3, <2>4, AssignAdvances
  <2>5. CASE s = 4
    BY <1>3, <2>5, ForgetAdvances
  <2> QED BY <2>1, <2>2, <2>3, <2>4, <2>5
<1>4. CASE u = "libraries"
  <2>1. s \in 1 .. 2 * Spaces + 5
    BY <1>4, LibraryScript
  <2>2. CASE s <= 2 * Spaces
    <3>1. PICK x \in 1 .. Spaces : s = 2 * x - 1 \/ s = 2 * x
      <4>1. (s + 1) \div 2 \in 1 .. Spaces
        BY <1>0, <2>1, <2>2
      <4>2. s = 2 * ((s + 1) \div 2) - 1 \/ s = 2 * ((s + 1) \div 2)
        BY <1>0, <2>1
      <4> QED BY <4>1, <4>2
    <3>2. CASE s = 2 * x - 1
      BY <1>4, <3>2, LookAdvances
    <3>3. CASE s = 2 * x
      BY <1>4, <3>3, LibraryAdvances
    <3> QED BY <3>1, <3>2, <3>3
  <2>3. CASE s > 2 * Spaces
    <3>1. \/ s = 2 * Spaces + 1 \/ s = 2 * Spaces + 2 \/ s = 2 * Spaces + 3
          \/ s = 2 * Spaces + 4 \/ s = 2 * Spaces + 5
      BY <1>0, <2>1, <2>3
    <3>2. CASE s = 2 * Spaces + 1
      <4>1. /\ "documents" \in OwnedTables /\ s \in 1 .. 2 * Spaces + 5 /\ s > 2 * Spaces
            /\ s = 2 * Spaces + 1 => "documents" = "documents"
            /\ s = 2 * Spaces + 2 => "documents" = "directories"
            /\ s = 2 * Spaces + 3 => "documents" = "chunks"
            /\ s = 2 * Spaces + 4 => "documents" = "anchors"
            /\ s = 2 * Spaces + 5 => "documents" = "citations"
        BY <1>0, <2>1, <2>3, <3>2 DEF OwnedTables
      <4>2. Script["libraries"][s] = <<"documents", 0>>
        BY <3>2, LibraryScript
      <4> QED BY <1>4, <4>1, <4>2, OwnAdvances
    <3>3. CASE s = 2 * Spaces + 2
      <4>1. /\ "directories" \in OwnedTables /\ s \in 1 .. 2 * Spaces + 5 /\ s > 2 * Spaces
            /\ s = 2 * Spaces + 1 => "directories" = "documents"
            /\ s = 2 * Spaces + 2 => "directories" = "directories"
            /\ s = 2 * Spaces + 3 => "directories" = "chunks"
            /\ s = 2 * Spaces + 4 => "directories" = "anchors"
            /\ s = 2 * Spaces + 5 => "directories" = "citations"
        BY <1>0, <2>1, <2>3, <3>3 DEF OwnedTables
      <4>2. Script["libraries"][s] = <<"directories", 0>>
        BY <3>3, LibraryScript
      <4> QED BY <1>4, <4>1, <4>2, OwnAdvances
    <3>4. CASE s = 2 * Spaces + 3
      <4>1. /\ "chunks" \in OwnedTables /\ s \in 1 .. 2 * Spaces + 5 /\ s > 2 * Spaces
            /\ s = 2 * Spaces + 1 => "chunks" = "documents"
            /\ s = 2 * Spaces + 2 => "chunks" = "directories"
            /\ s = 2 * Spaces + 3 => "chunks" = "chunks"
            /\ s = 2 * Spaces + 4 => "chunks" = "anchors"
            /\ s = 2 * Spaces + 5 => "chunks" = "citations"
        BY <1>0, <2>1, <2>3, <3>4 DEF OwnedTables
      <4>2. Script["libraries"][s] = <<"chunks", 0>>
        BY <3>4, LibraryScript
      <4> QED BY <1>4, <4>1, <4>2, OwnAdvances
    <3>5. CASE s = 2 * Spaces + 4
      <4>1. /\ "anchors" \in OwnedTables /\ s \in 1 .. 2 * Spaces + 5 /\ s > 2 * Spaces
            /\ s = 2 * Spaces + 1 => "anchors" = "documents"
            /\ s = 2 * Spaces + 2 => "anchors" = "directories"
            /\ s = 2 * Spaces + 3 => "anchors" = "chunks"
            /\ s = 2 * Spaces + 4 => "anchors" = "anchors"
            /\ s = 2 * Spaces + 5 => "anchors" = "citations"
        BY <1>0, <2>1, <2>3, <3>5 DEF OwnedTables
      <4>2. Script["libraries"][s] = <<"anchors", 0>>
        BY <3>5, LibraryScript
      <4> QED BY <1>4, <4>1, <4>2, OwnAdvances
    <3>6. CASE s = 2 * Spaces + 5
      <4>1. /\ "citations" \in OwnedTables /\ s \in 1 .. 2 * Spaces + 5 /\ s > 2 * Spaces
            /\ s = 2 * Spaces + 1 => "citations" = "documents"
            /\ s = 2 * Spaces + 2 => "citations" = "directories"
            /\ s = 2 * Spaces + 3 => "citations" = "chunks"
            /\ s = 2 * Spaces + 4 => "citations" = "anchors"
            /\ s = 2 * Spaces + 5 => "citations" = "citations"
        BY <1>0, <2>1, <2>3, <3>6 DEF OwnedTables
      <4>2. Script["libraries"][s] = <<"citations", 0>>
        BY <3>6, LibraryScript
      <4> QED BY <1>4, <4>1, <4>2, OwnAdvances
    <3> QED BY <3>1, <3>2, <3>3, <3>4, <3>5, <3>6
  <2> QED BY <1>0, <2>1, <2>2, <2>3
<1> QED BY <1>1, <1>2, <1>3, <1>4 DEF UpgradeKeys, Registry

\* An upgrade has reached its first step when it begins, and is through when it
\* has reached the one after its last.
LEMMA ScriptEnds ==
  ASSUME NEW u \in UpgradeKeys, NEW found, NEW d \in Tables
  PROVE  /\ Len(Script[u]) \in Nat /\ Reached(u, 1, found, d)
         /\ Reached(u, Len(Script[u]) + 1, found, d) => Effected(u, d)
<1>0. Spaces \in Nat /\ SettingRows \in Nat
  BY UpgradesAssumption
<1>1. CASE u \in {"seed", "metadata", "defaults"}
  BY <1>0, <1>1, SettingScripts DEF Reached, Effected
<1>2. CASE u = "directories"
  BY <1>0, <1>2, DirectoryScript DEF Reached, Effected
<1>3. CASE u = "profiles"
  BY <1>3, ProfileScript DEF Reached, Effected
<1>4. CASE u = "libraries"
  <2>1. Len(Script[u]) = 2 * Spaces + 5 /\ Len(Script[u]) \in Nat
    BY <1>0, <1>4, LibraryScript
  <2>2. Reached(u, 1, found, d)
    BY <1>0, <1>4 DEF Reached
  <2>3. ASSUME Reached(u, 2 * Spaces + 6, found, d), NEW w \in 1 .. Spaces
        PROVE  d.library[w] = 1 /\ d.owned[w] = OwnedTables
    <3>1. d.library[w] = 1
      BY <1>0, <1>4, <2>3 DEF Reached
    <3>2. OwnedTables \subseteq d.owned[w]
      BY <1>0, <1>4, <2>3 DEF Reached, OwnedTables
    <3>3. d.owned[w] \subseteq OwnedTables
      BY DEF Tables
    <3> QED BY <3>1, <3>2, <3>3
  <2>4. 2 * Spaces + 5 + 1 = 2 * Spaces + 6
    BY <1>0
  <2> QED BY <1>4, <2>1, <2>2, <2>3, <2>4 DEF Effected
<1> QED BY <1>1, <1>2, <1>3, <1>4 DEF UpgradeKeys, Registry


-----------------------------------------------------------------------------

LEMMA UpgradesInitially == UpgradesInit => UpgradesInv
<1> SUFFICES ASSUME UpgradesInit PROVE UpgradesInv
  OBVIOUS
<1>1. Idle \in Running /\ Idle.at = "off"
  <2>1. <<>> \in Seq(UpgradeKeys)
    OBVIOUS
  <2> QED BY <2>1 DEF Idle, Running, Places
<1>2. data \in Tables /\ Kept(data) /\ origin = data
  <2>1. data \in Before /\ origin = data
    BY DEF UpgradesInit
  <2>2. /\ data.settings \in [1 .. SettingRows -> {"missing", "empty", "operator"}]
        /\ data.legacy \in BOOLEAN /\ data.chat = 0
        /\ data.dirs = [w \in 1 .. Spaces |-> {}]
        /\ data.library \in [1 .. Spaces -> {0, 1}]
        /\ data.owned = [w \in 1 .. Spaces |-> {}]
        /\ data = [settings |-> data.settings, legacy |-> data.legacy,
                   profiles |-> data.profiles, chat |-> data.chat, dirs |-> data.dirs,
                   library |-> data.library, owned |-> data.owned]
        /\ data.profiles \in {<<>>} \cup
             {<<[enabled |-> b, default |-> b, key |-> "example"]>> : b \in BOOLEAN}
    BY <2>1 DEF Before
  <2>3. /\ data.profiles \in Seq(Profile) /\ Len(data.profiles) \in {0, 1}
        /\ data.profiles # <<>> => Len(data.profiles) = 1
        /\ Len(data.profiles) = 1 => (data.profiles[1].default => data.profiles[1].enabled)
    <3>1. CASE data.profiles = <<>>
      BY <3>1
    <3>2. CASE data.profiles # <<>>
      <4>1. PICK b \in BOOLEAN :
              data.profiles = <<[enabled |-> b, default |-> b, key |-> "example"]>>
        BY <2>2, <3>2
      <4>2. [enabled |-> b, default |-> b, key |-> "example"] \in Profile
        BY DEF Profile
      <4> QED BY <4>1, <4>2
    <3> QED BY <3>1, <3>2
  <2>4. data \in Tables
    <3>1. data.settings \in [1 .. SettingRows -> SettingValue]
      BY <2>2 DEF SettingValue
    <3>2. /\ data.dirs \in [1 .. Spaces -> SUBSET {"root", "below"}]
          /\ data.owned \in [1 .. Spaces -> SUBSET OwnedTables]
      BY <2>2
    <3>3. data.library \in [1 .. Spaces -> Nat]
      BY <2>2
    <3> QED BY <2>2, <2>3, <3>1, <3>2, <3>3 DEF Tables
  <2>5. Kept(data)
    <3>1. \A w \in 1 .. Spaces : data.library[w] \in {0, 1}
      BY <2>2
    <3>2. Len(data.profiles) = 1 => data.profiles # <<>>
      OBVIOUS
    <3> QED BY <2>1, <2>2, <2>3, <3>1, <3>2 DEF Kept
  <2> QED BY <2>1, <2>4, <2>5
<1>3. UpgradesTyped
  <2>1. MaxTroubles \in Nat
    BY UpgradesAssumption
  <2>2. /\ runner \in [Runners -> Running]
        /\ record \in [UpgradeKeys -> {"none", "running", "completed", "failed"}]
        /\ migrator \in [Runners -> {"none", "running", "ok", "failed"}]
    BY <1>1 DEF UpgradesInit
  <2>3. 0 \in 0 .. MaxTroubles
    BY <2>1
  <2>4. lock = Nobody /\ migrated = FALSE /\ troubles = 0
    BY DEF UpgradesInit
  <2> QED BY <1>2, <2>2, <2>3, <2>4 DEF UpgradesTyped
<1>4. \A u \in UpgradeKeys : record[u] # "completed"
  BY DEF UpgradesInit
<1>5. \A r \in Runners : Standing(r)
  BY <1>1, UpgradesAssumption DEF UpgradesInit, Standing
<1> QED BY <1>2, <1>3, <1>4, <1>5 DEF UpgradesInv

\* A runner that does nothing, while the lock, the tables and the record stay.
LEMMA StandsStill ==
  ASSUME UpgradesInv, NEW q \in Runners, runner'[q] = runner[q], migrator'[q] = migrator[q],
         migrated => migrated', UNCHANGED <<lock, record, data>>
  PROVE  Standing(q)'
BY DEF UpgradesInv, Standing, Reached

\* A runner that does nothing, while another one that has the lock works.
LEMMA StandsBeside ==
  ASSUME UpgradesInv, NEW q \in Runners, runner'[q] = runner[q], migrator'[q] = migrator[q],
         migrated => migrated', lock # q, lock' # q,
         (\A u \in UpgradeKeys : record[u] = "completed") => record' = record
  PROVE  Standing(q)'
<1>1. Standing(q)
  BY DEF UpgradesInv
<1>2. runner[q].at \notin {"schema", "migrate", "plan", "run", "step", "failing"}
  BY <1>1 DEF Standing
<1>3. runner[q].at \in Places
  BY DEF UpgradesInv, UpgradesTyped, Running
<1> QED BY <1>1, <1>2, <1>3 DEF Standing, Places

\* What stays as long as the tables do.
LEMMA TablesStay ==
  ASSUME UpgradesInv, UNCHANGED <<data, origin>>,
         \A u \in UpgradeKeys : record'[u] = "completed" =>
           record[u] = "completed" \/ Effected(u, data)
  PROVE  /\ data' \in Tables /\ origin' \in Tables /\ Kept(data)'
         /\ \A u \in UpgradeKeys : (record[u] = "completed" => Effected(u, data))'
BY DEF UpgradesInv, UpgradesTyped, Kept, Effected

\* The lock is with the one that works.
LEMMA LockHeld ==
  ASSUME UpgradesInv, NEW r \in Runners
  PROVE  /\ lock = r <=> runner[r].at \in {"schema", "migrate", "plan", "run", "step", "failing"}
         /\ runner[r] \in Running /\ migrator[r] \in {"ok", "failed"} => lock = r
BY DEF UpgradesInv, UpgradesTyped, Standing, Running, Places

LEMMA StartRunnerInv ==
  ASSUME UpgradesInv, NEW r \in Runners, StartRunner(r)
  PROVE  UpgradesInv'
<1>1. PICK m \in {"check", "apply"} :
        runner' = [runner EXCEPT ![r] = [Idle EXCEPT !.mode = m, !.at = "lock"]]
  BY DEF StartRunner
<1> DEFINE x == [Idle EXCEPT !.mode = m, !.at = "lock"]
<1>2. x \in Running /\ x.at = "lock"
  <2>1. <<>> \in Seq(UpgradeKeys)
    OBVIOUS
  <2> QED BY <2>1 DEF Idle, Running, Places
<1> HIDE DEF x
<1>3. /\ runner[r].at = "off" /\ lock' = lock /\ migrated' = migrated /\ migrator' = migrator
      /\ record' = record /\ data' = data /\ origin' = origin /\ troubles' = troubles
  BY DEF StartRunner, Stands, Calm, Keeps
<1>4. UpgradesTyped' /\ runner'[r] = x
  BY <1>1, <1>2, <1>3 DEF UpgradesInv, UpgradesTyped, x
<1>5. ASSUME NEW q \in Runners, q # r PROVE Standing(q)'
  BY <1>1, <1>3, <1>5, StandsStill DEF UpgradesInv, UpgradesTyped
<1>6. Standing(r)'
  BY <1>2, <1>3, <1>4 DEF UpgradesInv, Standing
<1> QED BY <1>3, <1>4, <1>5, <1>6, TablesStay DEF UpgradesInv

LEMMA TakeLockInv ==
  ASSUME UpgradesInv, NEW r \in Runners, TakeLock(r)
  PROVE  UpgradesInv'
<1>1. /\ runner[r].at = "lock" /\ lock = Nobody /\ lock' = r /\ migrated' = migrated
      /\ record' = record /\ data' = data /\ origin' = origin /\ troubles' = troubles
  BY DEF TakeLock, Stands, Calm, Keeps
<1>2. PICK p \in {"schema", "migrate"} :
        /\ runner' = [runner EXCEPT ![r].at = p]
        /\ \/ migrator' = migrator /\ p = "schema"
           \/ migrator' = [migrator EXCEPT ![r] = "running"] /\ p = "migrate"
  BY DEF TakeLock, RunnerGoes
<1>3. UpgradesTyped' /\ runner'[r].at = p
  BY <1>1, <1>2, ZenonT(60) DEF UpgradesInv, UpgradesTyped, Running, Places
<1>4. ASSUME NEW q \in Runners, q # r PROVE Standing(q)'
  BY <1>1, <1>2, <1>4, StandsBeside, UpgradesAssumption DEF UpgradesInv, UpgradesTyped
<1>5. Standing(r)'
  BY <1>1, <1>2, <1>3 DEF UpgradesInv, UpgradesTyped, Standing
<1> QED BY <1>1, <1>3, <1>4, <1>5, TablesStay DEF UpgradesInv

LEMMA MigratorEndsInv ==
  ASSUME UpgradesInv, NEW r \in Runners, MigratorEnds(r)
  PROVE  UpgradesInv'
<1>1. /\ lock' = lock /\ record' = record /\ data' = data /\ origin' = origin
      /\ runner' = runner /\ migrator[r] = "running"
  BY DEF MigratorEnds, Keeps
<1>2. /\ migrated => migrated'
      /\ migrated' \in BOOLEAN /\ troubles' \in 0 .. MaxTroubles
      /\ \E m \in {"none", "ok", "failed"} :
           /\ migrator' = [migrator EXCEPT ![r] = m]
           /\ m # "none" => runner[r].at = "migrate"
           /\ m = "ok" => migrated'
  <2>1. migrated \in BOOLEAN /\ troubles \in 0 .. MaxTroubles /\ MaxTroubles \in Nat
    BY UpgradesAssumption DEF UpgradesInv, UpgradesTyped
  <2>2. CASE /\ migrated' = TRUE /\ Calm
             /\ migrator' = [migrator EXCEPT ![r] = IF Stands(r, "migrate") THEN "ok" ELSE "none"]
    <3>1. migrated' = TRUE /\ troubles' = troubles
      BY <2>2 DEF Calm
    <3>2. CASE runner[r].at = "migrate"
      BY <2>1, <2>2, <3>1, <3>2 DEF Stands
    <3>3. CASE runner[r].at # "migrate"
      BY <2>1, <2>2, <3>1, <3>3 DEF Stands
    <3> QED BY <3>2, <3>3
  <2>3. CASE /\ UNCHANGED migrated /\ Trouble
             /\ migrator' = [migrator EXCEPT ![r] = IF Stands(r, "migrate") THEN "failed" ELSE "none"]
    <3>1. migrated' = migrated /\ troubles' \in 0 .. MaxTroubles
      BY <2>1, <2>3 DEF Trouble
    <3>2. CASE runner[r].at = "migrate"
      BY <2>1, <2>3, <3>1, <3>2 DEF Stands
    <3>3. CASE runner[r].at # "migrate"
      BY <2>1, <2>3, <3>1, <3>3 DEF Stands
    <3> QED BY <3>2, <3>3
  <2> QED BY <2>2, <2>3 DEF MigratorEnds
<1>3. UpgradesTyped'
  BY <1>1, <1>2 DEF UpgradesInv, UpgradesTyped
<1>4. ASSUME NEW q \in Runners, q # r PROVE Standing(q)'
  BY <1>1, <1>2, <1>4, StandsStill DEF UpgradesInv, UpgradesTyped
<1>5. Standing(r)'
  <2>1. migrator'[r] \in {"ok", "failed"} => runner[r].at = "migrate"
    BY <1>2 DEF UpgradesInv, UpgradesTyped
  <2>2. migrator'[r] = "ok" => migrated'
    BY <1>2 DEF UpgradesInv, UpgradesTyped
  <2> QED BY <1>1, <1>2, <2>1, <2>2 DEF UpgradesInv, Standing, Reached
<1> QED BY <1>1, <1>3, <1>4, <1>5, TablesStay DEF UpgradesInv

\* A runner that ends, having only changed the record.
LEMMA EndsInv ==
  ASSUME UpgradesInv, NEW r \in Runners, NEW p \in {"off", "ok"}, Ends(r, p), lock = r,
         migrated' = migrated, data' = data, origin' = origin,
         record' \in [UpgradeKeys -> {"none", "running", "completed", "failed"}],
         \A u \in UpgradeKeys : record'[u] = "completed" => record[u] = "completed",
         (\A u \in UpgradeKeys : record[u] = "completed") => record' = record,
         troubles' \in 0 .. MaxTroubles,
         migrator' \in [Runners -> {"none", "running", "ok", "failed"}],
         \A q \in Runners \ {r} : migrator'[q] = migrator[q],
         migrator'[r] \notin {"ok", "failed"},
         p = "ok" => migrated /\ \A u \in UpgradeKeys : record'[u] = "completed"
  PROVE  UpgradesInv'
<1> DEFINE x == [Idle EXCEPT !.at = p]
<1>1. runner' = [runner EXCEPT ![r] = x] /\ lock' = Nobody
  BY DEF Ends
<1>2. x \in Running /\ x.at = p
  <2>1. <<>> \in Seq(UpgradeKeys)
    OBVIOUS
  <2> QED BY <2>1 DEF Idle, Running, Places
<1> HIDE DEF x
<1>3. UpgradesTyped' /\ runner'[r] = x
  BY <1>1, <1>2 DEF UpgradesInv, UpgradesTyped
<1>4. ASSUME NEW q \in Runners, q # r PROVE Standing(q)'
  BY <1>1, <1>4, StandsBeside, UpgradesAssumption DEF UpgradesInv, UpgradesTyped
<1>5. Standing(r)'
  BY <1>1, <1>2, <1>3, UpgradesAssumption DEF Standing
<1> QED BY <1>3, <1>4, <1>5, TablesStay DEF UpgradesInv


LEMMA SchemaReadyInv ==
  ASSUME UpgradesInv, NEW r \in Runners, SchemaReady(r)
  PROVE  UpgradesInv'
<1>1. /\ lock' = lock /\ migrated' = migrated /\ record' = record /\ data' = data
      /\ origin' = origin /\ troubles' = troubles
      /\ runner' = [runner EXCEPT ![r].at = "plan"]
  BY DEF SchemaReady, RunnerGoes, Calm, Keeps
<1>2. /\ migrated /\ lock = r
      /\ \/ migrator' = migrator /\ migrator[r] \notin {"ok", "failed"}
         \/ migrator' = [migrator EXCEPT ![r] = "none"]
  BY DEF SchemaReady, Stands, UpgradesInv, Standing
<1>3. UpgradesTyped' /\ runner'[r].at = "plan"
  <2>1. runner' \in [Runners -> Running] /\ runner'[r].at = "plan"
    BY <1>1 DEF UpgradesInv, UpgradesTyped, Running, Places
  <2>2. migrator' \in [Runners -> {"none", "running", "ok", "failed"}]
    BY <1>2 DEF UpgradesInv, UpgradesTyped
  <2> QED BY <1>1, <2>1, <2>2 DEF UpgradesInv, UpgradesTyped
<1>4. ASSUME NEW q \in Runners, q # r PROVE Standing(q)'
  BY <1>1, <1>2, <1>4, StandsStill DEF UpgradesInv, UpgradesTyped
<1>5. Standing(r)'
  BY <1>1, <1>2, <1>3 DEF UpgradesInv, UpgradesTyped, Standing
<1> QED BY <1>1, <1>3, <1>4, <1>5, TablesStay DEF UpgradesInv

LEMMA SchemaMissingInv ==
  ASSUME UpgradesInv, NEW r \in Runners, SchemaMissing(r)
  PROVE  UpgradesInv'
<1>1. /\ Ends(r, "off") /\ migrated' = migrated /\ record' = record /\ data' = data
      /\ origin' = origin /\ troubles' = troubles
      /\ record \in [UpgradeKeys -> {"none", "running", "completed", "failed"}]
      /\ troubles \in 0 .. MaxTroubles
  BY DEF SchemaMissing, Calm, Keeps, UpgradesInv, UpgradesTyped
<1>2. /\ lock = r /\ migrator' \in [Runners -> {"none", "running", "ok", "failed"}]
      /\ \A q \in Runners \ {r} : migrator'[q] = migrator[q]
      /\ migrator'[r] \notin {"ok", "failed"}
  BY DEF SchemaMissing, Stands, UpgradesInv, UpgradesTyped, Standing
<1> QED BY <1>1, <1>2, EndsInv

LEMMA PlanUpgradesInv ==
  ASSUME UpgradesInv, NEW r \in Runners, PlanUpgrades(r)
  PROVE  UpgradesInv'
<1>1. /\ migrated' = migrated /\ record' = record /\ data' = data /\ migrator' = migrator
      /\ origin' = origin /\ troubles' = troubles /\ runner[r].at = "plan"
  BY DEF PlanUpgrades, Stands, Calm, Keeps
<1>2. /\ lock = r /\ migrated /\ migrator[r] \notin {"ok", "failed"}
      /\ record \in [UpgradeKeys -> {"none", "running", "completed", "failed"}]
      /\ troubles \in 0 .. MaxTroubles
      /\ migrator \in [Runners -> {"none", "running", "ok", "failed"}]
  BY <1>1 DEF UpgradesInv, UpgradesTyped, Standing
<1>3. CASE Undone = <<>> /\ Ends(r, "ok")
  <2>1. \A u \in UpgradeKeys : record[u] = "completed"
    BY <1>3, UndoneLists DEF UpgradesInv
  <2> QED BY <1>1, <1>2, <1>3, <2>1, EndsInv
<1>4. CASE Ends(r, "off")
  BY <1>1, <1>2, <1>4, EndsInv
<1>5. CASE /\ runner' = [runner EXCEPT ![r].at = "run", ![r].todo = Undone]
           /\ UNCHANGED lock
  <2>1. PICK list \in Seq(UpgradeKeys) :
          /\ list = Undone /\ IsInjective(list)
          /\ \A i \in 1 .. Len(list) : record[list[i]] # "completed"
    BY UndoneLists DEF UpgradesInv
  <2>2. UpgradesTyped' /\ runner'[r].at = "run" /\ runner'[r].todo = list
    BY <1>1, <1>2, <1>5, <2>1, ZenonT(60) DEF UpgradesInv, UpgradesTyped, Running, Places
  <2>3. ASSUME NEW q \in Runners, q # r PROVE Standing(q)'
    BY <1>1, <1>2, <1>5, <2>3, StandsBeside DEF UpgradesInv, UpgradesTyped
  <2>4. Standing(r)'
    BY <1>1, <1>2, <1>5, <2>1, <2>2 DEF Standing
  <2> QED BY <1>1, <2>2, <2>3, <2>4, TablesStay DEF UpgradesInv
<1> QED BY <1>3, <1>4, <1>5 DEF PlanUpgrades

\* What a runner that has something left to do is about to do.
LEMMA FirstToDo ==
  ASSUME UpgradesInv, NEW r \in Runners, runner[r].todo # <<>>
  PROVE  /\ runner[r].todo \in Seq(UpgradeKeys) /\ Len(runner[r].todo) \in Nat \ {0}
         /\ runner[r].todo[1] \in UpgradeKeys
         /\ runner[r] = [mode |-> runner[r].mode, at |-> runner[r].at,
                         todo |-> runner[r].todo, step |-> runner[r].step,
                         found |-> runner[r].found]
<1>1. runner[r] \in Running
  BY DEF UpgradesInv, UpgradesTyped
<1>2. runner[r].todo \in Seq(UpgradeKeys)
  BY <1>1 DEF Running
<1>3. Len(runner[r].todo) \in Nat \ {0} /\ runner[r].todo[1] \in UpgradeKeys
  BY <1>2
<1> QED BY <1>1, <1>2, <1>3 DEF Running

LEMMA BeginUpgradeInv ==
  ASSUME UpgradesInv, NEW r \in Runners, BeginUpgrade(r)
  PROVE  UpgradesInv'
<1> DEFINE u == runner[r].todo[1]
<1>1. /\ migrated' = migrated /\ lock' = lock /\ data' = data /\ migrator' = migrator
      /\ origin' = origin /\ troubles' = troubles
      /\ runner[r].at = "run" /\ runner[r].todo # <<>>
      /\ record' = [record EXCEPT ![u] = "running"]
      /\ runner' = [runner EXCEPT ![r].at = "step", ![r].step = 1, ![r].found = 0]
  BY DEF BeginUpgrade, Record, Stands, Calm, Keeps
<1>2. u \in UpgradeKeys /\ 1 \in 1 .. Len(runner[r].todo)
  <2>1. u \in UpgradeKeys /\ Len(runner[r].todo) \in Nat \ {0}
    BY <1>1, FirstToDo
  <2> QED BY <2>1
<1>3. /\ lock = r /\ migrated /\ migrator[r] \notin {"ok", "failed"}
      /\ IsInjective(runner[r].todo)
      /\ \A i \in 1 .. Len(runner[r].todo) : record[runner[r].todo[i]] # "completed"
  BY <1>1 DEF UpgradesInv, Standing
<1> HIDE DEF u
<1>4. /\ runner'[r].at = "step" /\ runner'[r].todo = runner[r].todo
      /\ runner'[r].step = 1 /\ runner'[r].found = 0
  BY <1>1 DEF UpgradesInv, UpgradesTyped, Running
<1>5. UpgradesTyped'
  <2>1. runner' \in [Runners -> Running]
    <3> DEFINE x == [runner[r] EXCEPT !.at = "step", !.step = 1, !.found = 0]
    <3>1. runner[r] \in Running
      BY DEF UpgradesInv, UpgradesTyped
    <3>2. x \in Running
      BY <3>1 DEF Running, Places
    <3>3. runner' = [runner EXCEPT ![r] = x]
      BY <1>1
    <3> HIDE DEF x
    <3> QED BY <3>2, <3>3 DEF UpgradesInv, UpgradesTyped
  <2>2. record' \in [UpgradeKeys -> {"none", "running", "completed", "failed"}]
    BY <1>1, <1>2 DEF UpgradesInv, UpgradesTyped
  <2> QED BY <1>1, <2>1, <2>2 DEF UpgradesInv, UpgradesTyped
<1>6. ASSUME NEW q \in Runners, q # r PROVE Standing(q)'
  <2>1. record[u] # "completed"
    BY <1>2, <1>3 DEF u
  <2> QED BY <1>1, <1>2, <1>3, <1>6, <2>1, StandsBeside DEF UpgradesInv, UpgradesTyped
<1>7. Standing(r)'
  <2>1. Len(Script[u]) \in Nat /\ Reached(u, 1, 0, data')
    BY <1>1, <1>2, ScriptEnds DEF UpgradesInv, UpgradesTyped
  <2>2. \A i \in 1 .. Len(runner[r].todo) : record'[runner[r].todo[i]] # "completed"
    BY <1>1, <1>2, <1>3, FirstToDo DEF UpgradesInv, UpgradesTyped
  <2>3. 1 \in 1 .. Len(Script[u]) + 1
    BY <2>1
  <2>4. runner'[r].todo[1] = u
    BY <1>4 DEF u
  <2>5. /\ runner'[r].step \in 1 .. Len(Script[runner'[r].todo[1]]) + 1
        /\ Reached(runner'[r].todo[1], runner'[r].step, runner'[r].found, data')
    BY <1>4, <2>1, <2>3, <2>4
  <2>6. \A i \in 1 .. Len(runner'[r].todo) : record'[runner'[r].todo[i]] # "completed"
    BY <1>4, <2>2
  <2>7. IsInjective(runner'[r].todo) /\ runner'[r].todo # <<>>
    BY <1>1, <1>3, <1>4
  <2> QED BY <1>1, <1>3, <1>4, <2>5, <2>6, <2>7 DEF Standing
<1>8. \A v \in UpgradeKeys : record'[v] = "completed" => record[v] = "completed"
  BY <1>1, <1>2 DEF UpgradesInv, UpgradesTyped
<1> QED BY <1>1, <1>5, <1>6, <1>7, <1>8, TablesStay DEF UpgradesInv

LEMMA StatementInv ==
  ASSUME UpgradesInv, NEW r \in Runners, Statement(r)
  PROVE  UpgradesInv'
<1> DEFINE u == runner[r].todo[1]
           s == runner[r].step
           t == Script[u][s]
           e == Effect(t[1], t[2], runner[r].found, data)
           f == Found(t[1], t[2], runner[r].found, data)
<1>1. /\ migrated' = migrated /\ lock' = lock /\ record' = record /\ migrator' = migrator
      /\ origin' = origin /\ troubles' = troubles
      /\ runner[r].at = "step" /\ s <= Len(Script[u])
      /\ data' = e
      /\ runner' = [runner EXCEPT ![r].step = s + 1, ![r].found = f]
  BY DEF Statement, Remaining, Stands, Calm, Keeps
<1>2. /\ lock = r /\ migrated /\ migrator[r] \notin {"ok", "failed"}
      /\ IsInjective(runner[r].todo) /\ runner[r].todo # <<>>
      /\ \A i \in 1 .. Len(runner[r].todo) : record[runner[r].todo[i]] # "completed"
      /\ s \in 1 .. Len(Script[u]) + 1 /\ Reached(u, s, runner[r].found, data)
  BY <1>1 DEF UpgradesInv, Standing
<1>3. u \in UpgradeKeys /\ runner[r].found \in Nat /\ data \in Tables /\ origin \in Tables
      /\ Kept(data)
  BY <1>2, FirstToDo DEF UpgradesInv, UpgradesTyped, Running
<1>4. Len(Script[u]) \in Nat /\ s \in 1 .. Len(Script[u])
  <2> HIDE DEF u, s
  <2>1. Len(Script[u]) \in Nat
    BY <1>3, ScriptEnds
  <2> QED BY <1>1, <1>2, <2>1
<1>5. /\ e \in Tables /\ f \in Nat /\ Kept(e) /\ Reached(u, s + 1, f, e)
      /\ \A v \in UpgradeKeys : Effected(v, data) => Effected(v, e)
  <2>1. Advances(u, s, runner[r].found, data)
    BY <1>2, <1>3, <1>4, StatementAdvances
  <2> QED BY <2>1 DEF Advances
<1> HIDE DEF e, f, t
<1>6. /\ runner'[r].at = "step" /\ runner'[r].todo = runner[r].todo
      /\ runner'[r].step = s + 1 /\ runner'[r].found = f
  BY <1>1 DEF UpgradesInv, UpgradesTyped, Running
<1>7. UpgradesTyped'
  <2>1. s + 1 \in Nat
    BY <1>4
  <2>2. runner' \in [Runners -> Running]
    BY <1>1, <1>5, <2>1 DEF UpgradesInv, UpgradesTyped, Running
  <2> QED BY <1>1, <1>5, <2>2 DEF UpgradesInv, UpgradesTyped
<1>8. ASSUME NEW q \in Runners, q # r PROVE Standing(q)'
  BY <1>1, <1>2, <1>8, StandsBeside DEF UpgradesInv, UpgradesTyped
<1>9. Standing(r)'
  <2>1. s + 1 \in 1 .. Len(Script[u]) + 1
    BY <1>4
  <2> QED BY <1>1, <1>2, <1>5, <1>6, <2>1 DEF Standing
<1>10. Kept(data)' /\ \A v \in UpgradeKeys : (record[v] = "completed" => Effected(v, data))'
  <2>1. Kept(data)'
    BY <1>1, <1>5 DEF Kept
  <2>2. \A v \in UpgradeKeys : record'[v] = "completed" => Effected(v, data')
    BY <1>1, <1>5 DEF UpgradesInv
  <2> QED BY <2>1, <2>2 DEF Effected
<1> QED BY <1>7, <1>8, <1>9, <1>10 DEF UpgradesInv

LEMMA StatementThrowsInv ==
  ASSUME UpgradesInv, NEW r \in Runners, StatementThrows(r)
  PROVE  UpgradesInv'
<1>1. /\ migrated' = migrated /\ lock' = lock /\ record' = record /\ migrator' = migrator
      /\ origin' = origin /\ data' = data /\ runner[r].at = "step"
      /\ runner' = [runner EXCEPT ![r].at = "failing"]
  BY DEF StatementThrows, RunnerGoes, Stands, Trouble, Keeps
<1>2. troubles' \in 0 .. MaxTroubles
  BY UpgradesAssumption DEF StatementThrows, Trouble, UpgradesInv, UpgradesTyped
<1>3. UpgradesTyped' /\ runner'[r].at = "failing" /\ runner'[r].todo = runner[r].todo
  BY <1>1, <1>2 DEF UpgradesInv, UpgradesTyped, Running, Places
<1>4. ASSUME NEW q \in Runners, q # r PROVE Standing(q)'
  BY <1>1, <1>4, StandsStill DEF UpgradesInv, UpgradesTyped
<1>5. Standing(r)'
  BY <1>1, <1>3 DEF UpgradesInv, Standing
<1> QED BY <1>1, <1>3, <1>4, <1>5, TablesStay DEF UpgradesInv

LEMMA MarkFailedInv ==
  ASSUME UpgradesInv, NEW r \in Runners, MarkFailed(r)
  PROVE  UpgradesInv'
<1> DEFINE u == runner[r].todo[1]
<1>1. /\ migrated' = migrated /\ data' = data /\ migrator' = migrator
      /\ origin' = origin /\ troubles' = troubles /\ runner[r].at = "failing"
      /\ record' = [record EXCEPT ![u] = "failed"] /\ Ends(r, "off")
  BY DEF MarkFailed, Record, Stands, Calm, Keeps
<1>2. /\ lock = r /\ migrator[r] \notin {"ok", "failed"} /\ runner[r].todo # <<>>
      /\ \A i \in 1 .. Len(runner[r].todo) : record[runner[r].todo[i]] # "completed"
  BY <1>1 DEF UpgradesInv, Standing
<1>3. u \in UpgradeKeys /\ record[u] # "completed"
  <2>1. u \in UpgradeKeys /\ Len(runner[r].todo) \in Nat \ {0}
    BY <1>2, FirstToDo
  <2>2. 1 \in 1 .. Len(runner[r].todo)
    BY <2>1
  <2> QED BY <1>2, <2>1, <2>2
<1> HIDE DEF u
<1>4. /\ record' \in [UpgradeKeys -> {"none", "running", "completed", "failed"}]
      /\ \A v \in UpgradeKeys : record'[v] = "completed" => record[v] = "completed"
      /\ troubles \in 0 .. MaxTroubles
      /\ migrator \in [Runners -> {"none", "running", "ok", "failed"}]
  BY <1>1, <1>3 DEF UpgradesInv, UpgradesTyped
<1> QED BY <1>1, <1>2, <1>3, <1>4, EndsInv

LEMMA CompleteUpgradeInv ==
  ASSUME UpgradesInv, NEW r \in Runners, CompleteUpgrade(r)
  PROVE  UpgradesInv'
<1> DEFINE todo == runner[r].todo
           u == todo[1]
<1>1. /\ migrated' = migrated /\ lock' = lock /\ data' = data /\ migrator' = migrator
      /\ origin' = origin /\ troubles' = troubles
      /\ runner[r].at = "step" /\ ~(runner[r].step <= Len(Script[u]))
      /\ record' = [record EXCEPT ![u] = "completed"]
      /\ runner' = [runner EXCEPT ![r].at = "run", ![r].todo = Tail(todo)]
  BY DEF CompleteUpgrade, Record, Remaining, Stands, Calm, Keeps
<1>2. /\ lock = r /\ migrated /\ migrator[r] \notin {"ok", "failed"}
      /\ IsInjective(todo) /\ todo # <<>>
      /\ \A i \in 1 .. Len(todo) : record[todo[i]] # "completed"
      /\ runner[r].step \in 1 .. Len(Script[u]) + 1
      /\ Reached(u, runner[r].step, runner[r].found, data)
  BY <1>1 DEF UpgradesInv, Standing
<1>3. u \in UpgradeKeys /\ todo \in Seq(UpgradeKeys) /\ Len(todo) \in Nat \ {0}
  BY <1>2, FirstToDo
<1>4. Effected(u, data)
  <2>1. Len(Script[u]) \in Nat
    BY <1>3, ScriptEnds DEF UpgradesInv, UpgradesTyped
  <2>2. runner[r].step = Len(Script[u]) + 1
    BY <1>1, <1>2, <2>1
  <2> HIDE DEF u, todo
  <2>3. data \in Tables
    BY DEF UpgradesInv, UpgradesTyped
  <2> QED BY <1>2, <1>3, <2>2, <2>3, ScriptEnds
<1>5. /\ Tail(todo) \in Seq(UpgradeKeys) /\ Len(Tail(todo)) = Len(todo) - 1
      /\ \A i \in 1 .. Len(Tail(todo)) : Tail(todo)[i] = todo[i + 1] /\ i + 1 \in 1 .. Len(todo)
  <2> HIDE DEF todo
  <2> QED BY <1>3
<1>6. IsInjective(Tail(todo)) /\ \A i \in 1 .. Len(Tail(todo)) : Tail(todo)[i] # u
  <2>1. \A i, j \in 1 .. Len(todo) : todo[i] = todo[j] => i = j
    BY <1>2, <1>3 DEF IsInjective
  <2>2. \A i, j \in 1 .. Len(Tail(todo)) : Tail(todo)[i] = Tail(todo)[j] => i = j
    <3> HIDE DEF todo
    <3> QED BY <1>5, <2>1
  <2>3. \A i \in 1 .. Len(Tail(todo)) : Tail(todo)[i] # todo[1]
    <3> HIDE DEF todo
    <3> QED BY <1>3, <1>5, <2>1
  <2>4. DOMAIN Tail(todo) = 1 .. Len(Tail(todo))
    <3> HIDE DEF todo
    <3> QED BY <1>5
  <2> QED BY <2>2, <2>3, <2>4 DEF IsInjective
<1> HIDE DEF u, todo
<1>7. runner'[r].at = "run" /\ runner'[r].todo = Tail(todo)
  BY <1>1 DEF UpgradesInv, UpgradesTyped, Running
<1>8. UpgradesTyped'
  <2>1. runner' \in [Runners -> Running]
    <3> DEFINE x == [runner[r] EXCEPT !.at = "run", !.todo = Tail(todo)]
    <3>1. runner[r] \in Running
      BY DEF UpgradesInv, UpgradesTyped
    <3>2. x \in Running
      BY <1>5, <3>1 DEF Running, Places
    <3>3. runner' = [runner EXCEPT ![r] = x]
      BY <1>1
    <3> HIDE DEF x
    <3> QED BY <3>2, <3>3 DEF UpgradesInv, UpgradesTyped
  <2>2. record' \in [UpgradeKeys -> {"none", "running", "completed", "failed"}]
    BY <1>1, <1>3 DEF UpgradesInv, UpgradesTyped
  <2> QED BY <1>1, <2>1, <2>2 DEF UpgradesInv, UpgradesTyped
<1>9. /\ record[u] # "completed"
      /\ \A v \in UpgradeKeys : record'[v] = IF v = u THEN "completed" ELSE record[v]
  <2>1. 1 \in 1 .. Len(todo)
    BY <1>3
  <2> QED BY <1>1, <1>2, <2>1 DEF UpgradesInv, UpgradesTyped, u
<1>10. ASSUME NEW q \in Runners, q # r PROVE Standing(q)'
  BY <1>1, <1>2, <1>3, <1>9, <1>10, StandsBeside DEF UpgradesInv, UpgradesTyped
<1>11. Standing(r)'
  <2>1. \A i \in 1 .. Len(Tail(todo)) : record'[Tail(todo)[i]] # "completed"
    BY <1>2, <1>5, <1>6, <1>9
  <2> QED BY <1>1, <1>2, <1>6, <1>7, <2>1 DEF Standing
<1>12. \A v \in UpgradeKeys : record'[v] = "completed" =>
         record[v] = "completed" \/ Effected(v, data)
  BY <1>4, <1>9
<1> QED BY <1>1, <1>8, <1>10, <1>11, <1>12, TablesStay DEF UpgradesInv

LEMMA LastPlanInv ==
  ASSUME UpgradesInv, NEW r \in Runners, LastPlan(r)
  PROVE  UpgradesInv'
<1>1. /\ migrated' = migrated /\ record' = record /\ data' = data /\ migrator' = migrator
      /\ origin' = origin /\ troubles' = troubles /\ runner[r].at = "run"
      /\ Ends(r, IF Undone = <<>> THEN "ok" ELSE "off")
  BY DEF LastPlan, Stands, Calm, Keeps
<1>2. /\ lock = r /\ migrated /\ migrator[r] \notin {"ok", "failed"}
      /\ record \in [UpgradeKeys -> {"none", "running", "completed", "failed"}]
      /\ troubles \in 0 .. MaxTroubles
      /\ migrator \in [Runners -> {"none", "running", "ok", "failed"}]
  BY <1>1 DEF UpgradesInv, UpgradesTyped, Standing
<1>3. CASE Undone = <<>>
  <2>1. \A u \in UpgradeKeys : record[u] = "completed"
    BY <1>3, UndoneLists DEF UpgradesInv
  <2>2. Ends(r, "ok")
    BY <1>1, <1>3
  <2> QED BY <1>1, <1>2, <2>1, <2>2, EndsInv
<1>4. CASE Undone # <<>>
  <2>1. Ends(r, "off")
    BY <1>1, <1>4
  <2> QED BY <1>1, <1>2, <2>1, EndsInv
<1> QED BY <1>3, <1>4

LEMMA RunnerDiesInv ==
  ASSUME UpgradesInv, NEW r \in Runners, RunnerDies(r)
  PROVE  UpgradesInv'
<1>1. /\ Ends(r, "off") /\ migrated' = migrated /\ record' = record /\ data' = data
      /\ origin' = origin /\ lock = r
      /\ record \in [UpgradeKeys -> {"none", "running", "completed", "failed"}]
      /\ migrator' = [migrator EXCEPT ![r] = IF @ = "running" THEN @ ELSE "none"]
  BY DEF RunnerDies, Keeps, UpgradesInv, UpgradesTyped
<1>2. /\ migrator' \in [Runners -> {"none", "running", "ok", "failed"}]
      /\ \A q \in Runners \ {r} : migrator'[q] = migrator[q]
      /\ migrator'[r] \notin {"ok", "failed"}
  BY <1>1 DEF UpgradesInv, UpgradesTyped
<1>3. troubles' \in 0 .. MaxTroubles
  BY UpgradesAssumption DEF RunnerDies, Trouble, UpgradesInv, UpgradesTyped
<1> QED BY <1>1, <1>2, <1>3, EndsInv

LEMMA UpgradesStep == UpgradesInv /\ [UpgradesNext]_upgradeVars => UpgradesInv'
<1> SUFFICES ASSUME UpgradesInv, [UpgradesNext]_upgradeVars PROVE UpgradesInv'
  OBVIOUS
<1>1. CASE UNCHANGED upgradeVars
  BY <1>1 DEF upgradeVars, UpgradesInv, UpgradesTyped, Kept, Effected, Standing, Reached
<1>2. ASSUME NEW r \in Runners,
             \/ StartRunner(r) \/ TakeLock(r) \/ MigratorEnds(r)
             \/ SchemaReady(r) \/ SchemaMissing(r) \/ PlanUpgrades(r)
             \/ BeginUpgrade(r) \/ Statement(r) \/ StatementThrows(r) \/ MarkFailed(r)
             \/ CompleteUpgrade(r) \/ LastPlan(r) \/ RunnerDies(r)
      PROVE UpgradesInv'
  BY <1>2, StartRunnerInv, TakeLockInv, MigratorEndsInv, SchemaReadyInv, SchemaMissingInv,
     PlanUpgradesInv, BeginUpgradeInv, StatementInv, StatementThrowsInv, MarkFailedInv,
     CompleteUpgradeInv, LastPlanInv, RunnerDiesInv
<1> QED BY <1>1, <1>2 DEF UpgradesNext

LEMMA UpgradesInvariant == UpgradesSpec => []UpgradesInv
BY UpgradesInitially, UpgradesStep, PTL DEF UpgradesSpec

\* Every variable of the upgrades keeps its type, and the lock is with the runner
\* that works, for any number of runners, settings and workspaces.
THEOREM UpgradeTypes == UpgradesSpec => []UpgradesTypeOK
<1>1. UpgradesInv => UpgradesTypeOK
  BY DEF UpgradesInv, UpgradesTyped, UpgradesTypeOK, Running, Standing
<1> QED BY <1>1, UpgradesInvariant, PTL

\* A service only starts on a database that has every migration and the effects of
\* every upgrade, whole and once, however many runners died before it and wherever.
THEOREM UpgradesCorrect == UpgradesSpec => []StartedIsUpgraded
<1>1. UpgradesInv => StartedIsUpgraded
  <2> SUFFICES ASSUME UpgradesInv, NEW r \in Runners, runner[r].at = "ok"
               PROVE  migrated /\ Upgraded
    BY DEF StartedIsUpgraded, Stands
  <2>1. migrated /\ \A u \in UpgradeKeys : Effected(u, data)
    BY DEF UpgradesInv, Standing
  <2>2. Effected("defaults", data) /\ Effected("profiles", data)
        /\ Effected("directories", data) /\ Effected("libraries", data)
    BY <2>1 DEF UpgradeKeys, Registry
  <2>3. data \in Tables /\ origin \in Tables /\ Kept(data)
    BY DEF UpgradesInv, UpgradesTyped
  <2>4. \A i \in 1 .. SettingRows :
          data.settings[i] = IF origin.settings[i] = "operator" THEN "operator" ELSE "default"
    BY <2>2, <2>3 DEF Effected, Kept
  <2>5. /\ Len(data.profiles) = 1 /\ DOMAIN data.profiles = {1} /\ data.chat = 1
        /\ data.profiles[1].default /\ data.profiles[1].enabled
        /\ origin.profiles = <<>> /\ origin.legacy => data.profiles[1].key = "operator"
    <3>1. Len(data.profiles) = 1 /\ data.profiles \in Seq(Profile)
      BY <2>2, <2>3 DEF Effected, Kept, Tables
    <3>2. DOMAIN data.profiles = {1}
      BY <3>1
    <3> QED BY <2>2, <2>3, <3>1, <3>2 DEF Effected, Kept
  <2>6. Len(data.profiles) = IF origin.profiles = <<>> THEN 1 ELSE Len(origin.profiles)
    BY <2>3, <2>5 DEF Kept
  <2>7. \A w \in 1 .. Spaces : /\ data.dirs[w] = {"root", "below"}
                               /\ data.library[w] = 1 /\ data.owned[w] = OwnedTables
    BY <2>2 DEF Effected
  <2> QED BY <2>1, <2>4, <2>5, <2>6, <2>7 DEF Upgraded
<1> QED BY <1>1, UpgradesInvariant, PTL
-----------------------------------------------------------------------------
(* The development launcher.                                               *)

LEMMA ReverseKeeps ==
  ASSUME NEW S, NEW s \in Seq(S)
  PROVE  Reverse(s) \in Seq(S) /\ ToSet(Reverse(s)) = ToSet(s)
<1>1. Reverse(s) \in Seq(S) /\ Len(Reverse(s)) = Len(s)
      /\ \A i \in 1 .. Len(s) : Reverse(s)[i] = s[Len(s) - i + 1]
  BY DEF Reverse
<1>2. \A i \in 1 .. Len(s) : Len(s) - i + 1 \in 1 .. Len(s)
                             /\ Reverse(s)[Len(s) - i + 1] = s[i]
  BY <1>1
<1>3. DOMAIN s = 1 .. Len(s) /\ DOMAIN Reverse(s) = 1 .. Len(s)
  BY <1>1
<1>4. ASSUME NEW x \in ToSet(s) PROVE x \in ToSet(Reverse(s))
  <2>1. PICK i \in 1 .. Len(s) : x = s[i]
    BY <1>3 DEF ToSet
  <2>2. QED
    BY <2>1, <1>2, <1>3 DEF ToSet
<1>5. ASSUME NEW x \in ToSet(Reverse(s)) PROVE x \in ToSet(s)
  <2>1. PICK i \in 1 .. Len(s) : x = Reverse(s)[i]
    BY <1>3 DEF ToSet
  <2>2. QED
    BY <2>1, <1>1, <1>2, <1>3 DEF ToSet
<1>6. QED
  BY <1>1, <1>4, <1>5

LEMMA QueueMembers ==
  ASSUME NEW S, NEW q \in Seq(S), q # << >>
  PROVE  /\ Head(q) \in S /\ Tail(q) \in Seq(S)
         /\ ToSet(q) = {Head(q)} \cup ToSet(Tail(q))
<1>1. Head(q) = q[1] /\ Head(q) \in S /\ Tail(q) \in Seq(S) /\ Len(Tail(q)) = Len(q) - 1
      /\ \A i \in 1 .. Len(q) - 1 : Tail(q)[i] = q[i + 1]
  OBVIOUS
<1>2. \A i \in 1 .. Len(q) : i = 1 \/ (i - 1 \in 1 .. Len(q) - 1 /\ Tail(q)[i - 1] = q[i])
  BY <1>1
<1>3. DOMAIN q = 1 .. Len(q) /\ DOMAIN Tail(q) = 1 .. Len(q) - 1
  BY <1>1
<1>4. 1 \in 1 .. Len(q) /\ \A i \in 1 .. Len(q) - 1 : i + 1 \in 1 .. Len(q)
  OBVIOUS
<1>5. ASSUME NEW x \in ToSet(q), x # Head(q) PROVE x \in ToSet(Tail(q))
  <2>1. PICK i \in 1 .. Len(q) : x = q[i]
    BY <1>3 DEF ToSet
  <2>2. i # 1
    BY <2>1, <1>5, <1>1
  <2>3. i - 1 \in 1 .. Len(q) - 1 /\ Tail(q)[i - 1] = x
    BY <1>2, <2>1, <2>2
  <2>4. QED
    BY <2>3, <1>3 DEF ToSet
<1>6. Head(q) \in ToSet(q) /\ ToSet(Tail(q)) \subseteq ToSet(q)
  BY <1>1, <1>3, <1>4 DEF ToSet
<1>7. QED
  BY <1>1, <1>5, <1>6

LEMMA FailedQueue ==
  ASSUME NEW S, NEW h \in Seq(S), NEW s \in Seq(S)
  PROVE  /\ h \o Reverse(s) \in Seq(S)
         /\ ToSet(h \o Reverse(s)) = ToSet(h) \cup ToSet(s)
<1>1. Reverse(s) \in Seq(S) /\ ToSet(Reverse(s)) = ToSet(s)
  BY ReverseKeeps
<1>2. \A r \in Seq(S) : h \o r \in Seq(S) /\ ToSet(h \o r) = ToSet(h) \cup ToSet(r)
  <2> TAKE r \in Seq(S)
  <2>1. \A i \in 1 .. Len(h) : (h \o r)[i] = h[i] /\ i \in 1 .. Len(h \o r)
    OBVIOUS
  <2>2. \A i \in 1 .. Len(r) : Len(h) + i \in 1 .. Len(h \o r) /\ (h \o r)[Len(h) + i] = r[i]
    OBVIOUS
  <2>3. \A i \in 1 .. Len(h \o r) : i \in 1 .. Len(h)
           \/ (i - Len(h) \in 1 .. Len(r) /\ (h \o r)[i] = r[i - Len(h)])
    OBVIOUS
  <2>4. /\ DOMAIN h = 1 .. Len(h) /\ DOMAIN r = 1 .. Len(r)
        /\ DOMAIN (h \o r) = 1 .. Len(h \o r) /\ h \o r \in Seq(S)
    OBVIOUS
  <2>5. ToSet(h \o r) \subseteq ToSet(h) \cup ToSet(r)
    BY <2>1, <2>3, <2>4 DEF ToSet
  <2>6. ToSet(h) \subseteq ToSet(h \o r) /\ ToSet(r) \subseteq ToSet(h \o r)
    BY <2>1, <2>2, <2>4 DEF ToSet
  <2>7. QED
    BY <2>4, <2>5, <2>6
<1>3. QED
  BY <1>1, <1>2

LEMMA AppendedMembers ==
  ASSUME NEW s \in Seq(Managed), NEW a \in Managed
  PROVE  /\ Append(s, a) \in Seq(Managed) /\ ToSet(Append(s, a)) = ToSet(s) \cup {a}
         /\ ToSet(<<a>>) = {a} /\ <<a>> \in Seq(Managed)
<1>1. Append(s, a) \in Seq(Managed) /\ Len(Append(s, a)) = Len(s) + 1
      /\ Append(s, a)[Len(s) + 1] = a
      /\ \A i \in 1 .. Len(s) : Append(s, a)[i] = s[i]
  OBVIOUS
<1>2. \A i \in 1 .. Len(s) + 1 : i = Len(s) + 1 \/ i \in 1 .. Len(s)
  OBVIOUS
<1>3. ToSet(Append(s, a)) = ToSet(s) \cup {a}
  BY <1>1, <1>2 DEF ToSet
<1>4. QED
  BY <1>1, <1>3 DEF ToSet

\* What a command goes on with has the type of a command.
LEMMA NextCommands ==
  ASSUME NEW cmd \in Command
  PROVE  /\ \A q \in Seq(Managed) : StopNext(cmd, q) \in Command
         /\ \A h \in Seq(Managed) : UpFails(cmd, h) \in Command
         /\ cmd.at \in Managed => \A q \in Seq(Managed) : StartNext(cmd, q) \in Command
<1>1. 0 \in 0 .. MaxGroups
  BY LauncherAssumption
<1>2. \A q \in Seq(Managed) : StopNext(cmd, q) \in Command
  BY <1>1 DEF StopNext, Command
<1>3. \A h \in Seq(Managed) : h \o Reverse(cmd.started) \in Seq(Managed)
  BY FailedQueue DEF Command
<1>4. cmd.at \in Managed => \A q \in Seq(Managed) : StartNext(cmd, q) \in Command
  <2>1. SUFFICES ASSUME cmd.at \in Managed, NEW q \in Seq(Managed)
                 PROVE  StartNext(cmd, q) \in Command
    OBVIOUS
  <2>2. cmd.at + 1 \in 1 .. MaxServices + 1
    BY <2>1, LauncherAssumption DEF Managed
  <2>3. QED
    BY <1>1, <2>1, <2>2 DEF StartNext, Command
<1>5. QED
  BY <1>2, <1>3, <1>4 DEF UpFails

\* What a command has in hand.
InHandType(c, cmd, gs) ==
  /\ cmd.pc \in {"idle", "look", "port", "spawn", "record", "wait", "grace"}
       => cmd.at \in Managed
  /\ cmd.pc \in {"record", "wait", "grace", "term"} => cmd.pid \in DOMAIN gs
  /\ cmd.pc \in {"record", "wait", "grace"} =>
       gs[cmd.pid].service = cmd.at /\ gs[cmd.pid].by = c
  /\ cmd.pc \in {"stop", "term"} => cmd.queue # << >>

LEMMA NextInHand ==
  ASSUME NEW c, NEW cmd \in Command
  PROVE  /\ \A q \in Seq(Managed) : InHandType(c, StopNext(cmd, q), groups)
         /\ \A h \in Seq(Managed) : InHandType(c, UpFails(cmd, h), groups)
         /\ cmd.at \in Managed => \A q \in Seq(Managed) : InHandType(c, StartNext(cmd, q), groups)
<1>1. \A q \in Seq(Managed) : InHandType(c, StopNext(cmd, q), groups)
  BY DEF StopNext, Command, InHandType
<1>2. \A h \in Seq(Managed) : h \o Reverse(cmd.started) \in Seq(Managed)
  BY FailedQueue DEF Command
<1>3. cmd.at \in Managed => \A q \in Seq(Managed) : InHandType(c, StartNext(cmd, q), groups)
  BY LauncherAssumption DEF StartNext, Command, Managed, InHandType
<1>4. QED
  BY <1>1, <1>2, <1>3 DEF UpFails

\* A service is what one busies oneself with.
LEMMA BusyServices ==
  ASSUME NEW c, NEW cmd \in Command, InHandType(c, cmd, groups)
  PROVE  BusyWith(cmd) \subseteq Managed
<1>1. cmd.pc = "term" => Head(cmd.queue) \in Managed
  BY QueueMembers DEF InHandType, Command
<1>2. QED
  BY <1>1 DEF BusyWith, InHandType, Command

\* A step of a command keeps the types, if it does so for what it changes itself.
LEMMA LauncherTypeFrame ==
  ASSUME LauncherTypeOK, NEW c \in Commands, NEW cmd \in Command, Goes(c, cmd),
         InHandType(c, cmd, groups'),
         groups' \in Seq(Group), Len(groups') <= MaxGroups,
         \A p \in Pids : p \in Pids' /\ groups'[p].service = groups[p].service
                         /\ groups'[p].by = groups[p].by,
         records' \in [Managed -> 0 .. MaxGroups],
         \A s \in Managed : records'[s] \in {records[s], 0}
                            \/ (records'[s] \in Pids' /\ groups'[records'[s]].service = s),
         lost' \subseteq Pids', interrupts' \in 0 .. MaxKills
  PROVE  LauncherTypeOK'
<1>1. commands' \in [Commands -> Command] /\ commands' = [commands EXCEPT ![c] = cmd]
  BY DEF Goes, LauncherTypeOK
<1>2. ASSUME NEW d \in Commands PROVE InHandType(d, commands'[d], groups')
  <2>1. CASE d = c
    BY <2>1, <1>1
  <2>2. CASE d # c
    BY <2>2, <1>1 DEF LauncherTypeOK, InHandType, Pids
  <2>3. QED
    BY <2>1, <2>2
<1>3. \A s \in Managed : records'[s] # 0 =>
        records'[s] \in Pids' /\ groups'[records'[s]].service = s
  BY DEF LauncherTypeOK
<1>4. contended' \subseteq Managed
  <2>1. InHandType(c, cmd, groups') => \A d \in Commands \ {c} : BusyWith(commands[d]) \subseteq Managed
    BY BusyServices DEF LauncherTypeOK, InHandType, Pids
  <2>2. contended' = contended \cup UNION {BusyWith(cmd) \cap BusyWith(commands[d]) :
                                             d \in Commands \ {c}}
    BY DEF Goes
  <2>3. QED
    BY <2>1, <2>2 DEF LauncherTypeOK
<1>5. QED
  BY <1>1, <1>2, <1>3, <1>4 DEF LauncherTypeOK, InHandType, Pids

LEMMA LauncherTypeInitially == LauncherInit => LauncherTypeOK
<1> SUFFICES ASSUME LauncherInit PROVE LauncherTypeOK
  OBVIOUS
<1>1. 0 \in 0 .. MaxGroups /\ 0 \in 0 .. MaxKills /\ 1 \in 1 .. MaxServices + 1
      /\ 0 <= MaxGroups
  BY LauncherAssumption
<1>2. NoCommand \in Command /\ NoCommand.pc = "idle" /\ NoCommand.at = 1
      /\ 1 \in Managed
  BY <1>1, LauncherAssumption DEF NoCommand, Command, Managed
<1>3. << >> \in Seq(Group) /\ Len(<< >>) = 0 /\ DOMAIN << >> = {}
  OBVIOUS
<1>4. QED
  BY <1>1, <1>2, <1>3 DEF LauncherInit, LauncherTypeOK, NoCommand, Pids

LEMMA LauncherTypeStep == LauncherTypeOK /\ [LauncherNext]_launcherVars => LauncherTypeOK'
<1> SUFFICES ASSUME LauncherTypeOK, [LauncherNext]_launcherVars PROVE LauncherTypeOK'
  OBVIOUS
<1>0. /\ groups \in Seq(Group) /\ Len(groups) <= MaxGroups
      /\ Pids = 1 .. Len(groups) /\ Len(groups) \in Nat
      /\ records \in [Managed -> 0 .. MaxGroups]
      /\ 0 \in 0 .. MaxGroups
      /\ \A p \in Pids : groups[p] \in Group /\ p \in 0 .. MaxGroups
  BY LauncherAssumption DEF LauncherTypeOK, Pids
<1>1. ASSUME NEW c \in Commands, NEW cmd \in Command, Goes(c, cmd), InHandType(c, cmd, groups),
             UNCHANGED <<groups, lost, interrupts>>,
             \/ UNCHANGED records
             \/ \E s \in Managed : \E p \in Pids \cup {0} :
                  Records(s, p) /\ (p # 0 => groups[p].service = s)
      PROVE  LauncherTypeOK'
  <2>1. InHandType(c, cmd, groups') /\ Pids' = Pids
    BY <1>1 DEF InHandType, Pids
  <2>2. CASE UNCHANGED records
    BY <1>0, <1>1, <2>1, <2>2, LauncherTypeFrame DEF LauncherTypeOK
  <2>3. ASSUME NEW s \in Managed, NEW p \in Pids \cup {0}, Records(s, p),
               p # 0 => groups[p].service = s
        PROVE  LauncherTypeOK'
    <3>1. records' = [records EXCEPT ![s] = p] /\ p \in 0 .. MaxGroups
      BY <1>0, <2>3 DEF Records
    <3>2. \A t \in Managed : records'[t] \in {records[t], 0}
                             \/ (records'[t] \in Pids' /\ groups'[records'[t]].service = t)
      BY <1>0, <1>1, <2>1, <2>3, <3>1
    <3>3. QED
      BY <1>0, <1>1, <2>1, <3>1, <3>2, LauncherTypeFrame DEF LauncherTypeOK
  <2>4. QED
    BY <1>1, <2>2, <2>3
<1>2. \A c \in Commands : commands[c] \in Command /\ InHandType(c, commands[c], groups)
  BY DEF LauncherTypeOK, InHandType, Pids
<1>3. ASSUME NEW c \in Commands, commands[c].pc \in {"stop", "term"}
      PROVE  /\ commands[c].queue \in Seq(Managed) /\ commands[c].queue # << >>
             /\ Head(commands[c].queue) \in Managed /\ Tail(commands[c].queue) \in Seq(Managed)
             /\ StopNext(commands[c], Tail(commands[c].queue)) \in Command
             /\ InHandType(c, StopNext(commands[c], Tail(commands[c].queue)), groups)
  <2>1. commands[c].queue \in Seq(Managed) /\ commands[c].queue # << >>
    BY <1>2, <1>3 DEF Command, InHandType
  <2>2. QED
    BY <1>2, <2>1, QueueMembers, NextCommands, NextInHand
<1>4. ASSUME NEW c \in Commands,
             commands[c].pc \in {"idle", "look", "port", "spawn", "record",
                               "wait", "grace"}
      PROVE  /\ commands[c].at \in Managed /\ commands[c].started \in Seq(Managed)
             /\ UpFails(commands[c], << >>) \in Command
             /\ InHandType(c, UpFails(commands[c], << >>), groups)
             /\ UpFails(commands[c], <<commands[c].at>>) \in Command
             /\ InHandType(c, UpFails(commands[c], <<commands[c].at>>), groups)
             /\ \A q \in Seq(Managed) : StartNext(commands[c], q) \in Command
                                        /\ InHandType(c, StartNext(commands[c], q), groups)
  <2>1. commands[c].at \in Managed /\ commands[c].started \in Seq(Managed)
    BY <1>2, <1>4 DEF Command, InHandType
  <2>2. << >> \in Seq(Managed) /\ <<commands[c].at>> \in Seq(Managed)
    BY <2>1
  <2>3. QED
    BY <1>2, <2>1, <2>2, NextCommands, NextInHand
<1>5. ASSUME NEW c \in Commands, BeginUp(c) PROVE LauncherTypeOK'
  <2> DEFINE cmd == [commands[c] EXCEPT !.pc = "look"]
  <2>1. cmd \in Command /\ InHandType(c, cmd, groups)
    <3>1. commands[c].pc = "idle"
      BY <1>5 DEF BeginUp, At
    <3>2. cmd \in Command /\ cmd.pc = "look" /\ cmd.at \in Managed
      BY <1>2, <1>4, <3>1 DEF Command
    <3>3. QED
      BY <3>2 DEF InHandType
  <2>2. QED
    BY <1>1, <1>5, <2>1 DEF BeginUp
<1>6. ASSUME NEW c \in Commands, BeginDown(c) PROVE LauncherTypeOK'
  <2> DEFINE old == [commands[c] EXCEPT !.kind = "down"]
             q == [k \in Managed |-> MaxServices + 1 - k]
  <2>1. old \in Command
    BY <1>2 DEF Command
  <2>2. q \in Seq(Managed)
    BY LauncherAssumption DEF Managed
  <2>3. StopNext(old, q) \in Command /\ InHandType(c, StopNext(old, q), groups)
    BY <2>1, <2>2, NextCommands, NextInHand
  <2>4. QED
    BY <1>1, <1>6, <2>3 DEF BeginDown
<1>7. ASSUME NEW c \in Commands, Look(c) PROVE LauncherTypeOK'
  <2> DEFINE cmd == [commands[c] EXCEPT !.pc = "port"]
  <2>1. cmd \in Command /\ InHandType(c, cmd, groups) /\ commands[c].pc = "look"
    BY <1>2, <1>4, <1>7 DEF Look, At, Command, InHandType
  <2>2. CASE IsProcessRunning(records[commands[c].at])
    BY <1>1, <1>4, <1>7, <2>1, <2>2 DEF Look
  <2>3. CASE ~IsProcessRunning(records[commands[c].at])
    BY <1>1, <1>4, <1>7, <2>1, <2>3 DEF Look
  <2>4. QED
    BY <2>2, <2>3
<1>8. ASSUME NEW c \in Commands, CheckPort(c) PROVE LauncherTypeOK'
  <2> DEFINE cmd == [commands[c] EXCEPT !.pc = "spawn"]
  <2>1. cmd \in Command /\ InHandType(c, cmd, groups) /\ commands[c].pc = "port"
    BY <1>2, <1>4, <1>8 DEF CheckPort, At, Command, InHandType
  <2>2. QED
    BY <1>1, <1>4, <1>8, <2>1 DEF CheckPort
<1>9. ASSUME NEW c \in Commands, Spawn(c) PROVE LauncherTypeOK'
  <2> DEFINE g == [service |-> commands[c].at, by |-> c, leader |-> TRUE,
                   server |-> "starting"]
             cmd == [commands[c] EXCEPT !.pc = "record", !.pid = Len(groups) + 1]
  <2>1. g \in Group /\ commands[c].pc = "spawn" /\ Len(groups) < MaxGroups
    BY <1>4, <1>9 DEF Spawn, At, Group
  <2>2. /\ groups' = Append(groups, g) /\ groups' \in Seq(Group)
        /\ Pids' = 1 .. Len(groups) + 1 /\ Len(groups') = Len(groups) + 1
        /\ \A p \in Pids : groups'[p] = groups[p]
    BY <1>0, <1>9, <2>1 DEF Spawn, Pids
  <2>7. /\ Len(groups) + 1 \in Pids' /\ Len(groups) + 1 \in 0 .. MaxGroups
        /\ groups'[Len(groups) + 1] = g
    BY <1>0, <2>1, <2>2, LauncherAssumption
  <2>8. cmd \in Command /\ cmd.pc = "record" /\ cmd.pid = Len(groups) + 1
        /\ cmd.at = commands[c].at /\ cmd.at \in Managed
    BY <1>2, <1>4, <2>1, <2>7 DEF Command
  <2>3. cmd \in Command /\ InHandType(c, cmd, groups')
    BY <2>7, <2>8 DEF InHandType, Pids
  <2>4. Goes(c, cmd) /\ UNCHANGED <<records, lost, interrupts>>
    BY <1>9 DEF Spawn
  <2>5. Pids \subseteq Pids' /\ Len(groups') <= MaxGroups
    BY <1>0, <2>1, <2>2, LauncherAssumption
  <2>9. /\ \A p \in Pids : p \in Pids' /\ groups'[p].service = groups[p].service
                            /\ groups'[p].by = groups[p].by
        /\ records' \in [Managed -> 0 .. MaxGroups]
        /\ \A s \in Managed : records'[s] \in {records[s], 0}
        /\ lost' \subseteq Pids' /\ interrupts' \in 0 .. MaxKills
    BY <1>0, <2>2, <2>4, <2>5 DEF LauncherTypeOK
  <2>6. QED
    BY <2>2, <2>3, <2>4, <2>5, <2>9, LauncherTypeFrame
<1>10. ASSUME NEW c \in Commands, WriteRecord(c) PROVE LauncherTypeOK'
  <2> DEFINE cmd == [commands[c] EXCEPT !.pc = "wait"]
  <2>1. cmd \in Command /\ InHandType(c, cmd, groups) /\ commands[c].pc = "record"
    BY <1>2, <1>4, <1>10 DEF WriteRecord, At, Command, InHandType
  <2>2. commands[c].pid \in Pids /\ groups[commands[c].pid].service = commands[c].at
    BY <1>2, <2>1 DEF InHandType, Pids
  <2>3. QED
    BY <1>1, <1>4, <1>10, <2>1, <2>2 DEF WriteRecord
<1>11. ASSUME NEW c \in Commands, Wait(c) PROVE LauncherTypeOK'
  <2> DEFINE cmd == [commands[c] EXCEPT !.pc = "grace"]
  <2>0. commands[c].pc = "wait"
    BY <1>11 DEF Wait, At
  <2>3. cmd \in Command /\ cmd.pc = "grace" /\ cmd.pid = commands[c].pid
        /\ cmd.at = commands[c].at
    BY <1>2 DEF Command
  <2>1. cmd \in Command /\ InHandType(c, cmd, groups) /\ commands[c].pc = "wait"
    BY <1>2, <2>0, <2>3 DEF InHandType, Pids
  <2>2. QED
    BY <1>1, <1>4, <1>11, <2>1 DEF Wait
<1>12. ASSUME NEW c \in Commands, Grace(c) PROVE LauncherTypeOK'
  <2>1. commands[c].pc = "grace" /\ commands[c].at \in Managed
        /\ Append(commands[c].started, commands[c].at) \in Seq(Managed)
    BY <1>4, <1>12 DEF Grace, At
  <2>2. QED
    BY <1>1, <1>4, <1>12, <2>1 DEF Grace
<1>13. ASSUME NEW c \in Commands, StopLook(c) PROVE LauncherTypeOK'
  <2> DEFINE s == Head(commands[c].queue)
             cmd == [commands[c] EXCEPT !.pc = "term", !.pid = records[s]]
  <2>1. commands[c].pc = "stop" /\ s \in Managed
    BY <1>3, <1>13 DEF StopLook, At
  <2>2. CASE IsProcessRunning(records[s])
    <3>1. records[s] \in Pids /\ records[s] \in 0 .. MaxGroups
      BY <1>0, <2>1, <2>2 DEF IsProcessRunning, LauncherTypeOK
    <3>4. cmd \in Command /\ cmd.pc = "term" /\ cmd.pid = records[s]
          /\ cmd.queue = commands[c].queue
      BY <1>2, <3>1 DEF Command
    <3>2. cmd \in Command /\ InHandType(c, cmd, groups)
      BY <1>3, <2>1, <3>1, <3>4 DEF InHandType, Pids
    <3>3. QED
      BY <1>1, <1>13, <2>2, <3>2 DEF StopLook
  <2>3. CASE ~IsProcessRunning(records[s])
    BY <1>1, <1>3, <1>13, <2>1, <2>3 DEF StopLook
  <2>4. QED
    BY <2>2, <2>3
<1>14. ASSUME NEW c \in Commands, StopEnds(c) PROVE LauncherTypeOK'
  BY <1>1, <1>3, <1>14 DEF StopEnds, At
<1>15. ASSUME NEW c \in Commands, StopKills(c) PROVE LauncherTypeOK'
  <2> DEFINE cmd == StopNext(commands[c], Tail(commands[c].queue))
             p == commands[c].pid
             g == [groups[p] EXCEPT !.leader = FALSE, !.server = "down"]
  <2>1. commands[c].pc = "term" /\ Head(commands[c].queue) \in Managed
        /\ cmd \in Command /\ InHandType(c, cmd, groups)
    BY <1>3, <1>15 DEF StopKills, At
  <2>2. p \in Pids /\ g \in Group /\ g.service = groups[p].service
        /\ g.by = groups[p].by
    <3>1. p \in Pids /\ groups[p] \in Group
      BY <1>0, <1>2, <2>1 DEF InHandType, Pids
    <3>2. QED
      BY <3>1 DEF Group
  <2>3. groups' = [groups EXCEPT ![p] = g]
    BY <1>0, <1>15, <2>2 DEF StopKills
  <2>4. /\ Goes(c, cmd) /\ UNCHANGED <<lost, interrupts>>
        /\ records' = [records EXCEPT ![Head(commands[c].queue)] = 0]
    BY <1>15 DEF StopKills, Records
  <2>5. /\ groups' \in Seq(Group) /\ Len(groups') = Len(groups) /\ Pids' = Pids
        /\ \A q \in Pids : groups'[q].service = groups[q].service
                           /\ groups'[q].by = groups[q].by
    BY <1>0, <2>2, <2>3 DEF Pids
  <2>6. records' \in [Managed -> 0 .. MaxGroups]
        /\ \A s \in Managed : records'[s] \in {records[s], 0}
    BY <1>0, <2>1, <2>4
  <2>7. InHandType(c, cmd, groups')
    BY <2>1, <2>5 DEF InHandType, Pids
  <2>8. lost' \subseteq Pids' /\ interrupts' \in 0 .. MaxKills /\ Len(groups') <= MaxGroups
    BY <1>0, <2>4, <2>5 DEF LauncherTypeOK
  <2>9. QED
    BY <2>1, <2>4, <2>5, <2>6, <2>7, <2>8, LauncherTypeFrame
<1>16. ASSUME NEW c \in Commands, Interrupt(c) PROVE LauncherTypeOK'
  <2> DEFINE cmd == [commands[c] EXCEPT !.pc = "killed", !.pid = 0]
  <2>7. cmd \in Command /\ cmd.pc = "killed"
    BY <1>0, <1>2 DEF Command
  <2>1. cmd \in Command /\ InHandType(c, cmd, groups')
    BY <2>7 DEF InHandType, Pids
  <2>2. Goes(c, cmd) /\ UNCHANGED <<records, groups>> /\ Pids' = Pids
    BY <1>16 DEF Interrupt, Pids
  <2>3. interrupts' \in 0 .. MaxKills
    BY <1>16, LauncherAssumption DEF Interrupt, LauncherTypeOK
  <2>4. commands[c].pc = "record" => commands[c].pid \in Pids
    BY <1>2 DEF InHandType, Pids
  <2>5. lost' \subseteq Pids
    BY <1>16, <2>4 DEF Interrupt, At, LauncherTypeOK
  <2>8. /\ \A p \in Pids : p \in Pids' /\ groups'[p].service = groups[p].service
                            /\ groups'[p].by = groups[p].by
        /\ groups' \in Seq(Group) /\ Len(groups') <= MaxGroups
        /\ records' \in [Managed -> 0 .. MaxGroups]
        /\ \A s \in Managed : records'[s] \in {records[s], 0}
    BY <1>0, <2>2
  <2>6. QED
    BY <2>1, <2>2, <2>3, <2>5, <2>8, LauncherTypeFrame
<1>17. ASSUME NEW p \in Pids, ServerUp(p) \/ ProcessEnds(p) PROVE LauncherTypeOK'
  <2>1. PICK g \in Group : groups' = [groups EXCEPT ![p] = g]
                           /\ g.service = groups[p].service /\ g.by = groups[p].by
    <3>0. groups[p] \in Group
      BY <1>0
    <3>1. CASE groups' = [groups EXCEPT ![p].leader = FALSE]
      <4> DEFINE g == [groups[p] EXCEPT !.leader = FALSE]
      <4>1. g \in Group /\ g.service = groups[p].service /\ g.by = groups[p].by
        BY <3>0 DEF Group
      <4>2. groups' = [groups EXCEPT ![p] = g]
        BY <1>0, <3>1
      <4>3. QED
        BY <4>1, <4>2
    <3>2. ASSUME NEW v \in {"starting", "up", "down"},
                 groups' = [groups EXCEPT ![p].server = v]
          PROVE  \E g \in Group : groups' = [groups EXCEPT ![p] = g]
                   /\ g.service = groups[p].service /\ g.by = groups[p].by
      <4> DEFINE g == [groups[p] EXCEPT !.server = v]
      <4>1. g \in Group /\ g.service = groups[p].service /\ g.by = groups[p].by
        BY <3>0 DEF Group
      <4>2. groups' = [groups EXCEPT ![p] = g]
        BY <1>0, <3>2
      <4>3. QED
        BY <4>1, <4>2
    <3>3. QED
      BY <1>17, <3>1, <3>2 DEF ServerUp, ProcessEnds
  <2>2. /\ groups' \in Seq(Group) /\ Len(groups') = Len(groups) /\ Pids' = Pids
        /\ \A q \in Pids : groups'[q].service = groups[q].service
                         /\ groups'[q].by = groups[q].by
    BY <1>0, <2>1 DEF Pids
  <2>3. UNCHANGED <<records, commands, lost, contended, interrupts>>
    BY <1>17 DEF ServerUp, ProcessEnds
  <2>4. QED
    BY <2>2, <2>3 DEF LauncherTypeOK
<1>18. CASE UNCHANGED launcherVars
  BY <1>18 DEF launcherVars, LauncherTypeOK, Pids
<1>19. QED
  BY <1>5, <1>6, <1>7, <1>8, <1>9, <1>10, <1>11, <1>12, <1>13, <1>14, <1>15, <1>16,
     <1>17, <1>18 DEF LauncherNext

\* The types of the launcher's state, for any number of services, commands and groups.
THEOREM LauncherTypes == LauncherSpec => []LauncherTypeOK
<1>1. QED
  BY LauncherTypeInitially, LauncherTypeStep, PTL DEF LauncherSpec

\* Two commands are only busy with one service where that is contended.
Apart ==
  \A c, d \in Commands : c # d => BusyWith(commands[c]) \cap BusyWith(commands[d]) \subseteq contended

\* What the record of the service that a command is busy with may be.
RecordOf(cmd, recs, busyTwice) ==
  \A s \in BusyWith(cmd) \ busyTwice :
    /\ cmd.pc \in {"port", "spawn", "record"} => recs[s] = 0
    /\ cmd.pc = "term" => recs[s] \in {cmd.pid, 0}

\* The groups that count.
Counts(p) ==
  p \in Pids /\ groups[p].leader /\ p \notin lost /\ groups[p].service \notin contended

\* Such a group is recorded or about to be.
Known(p, cmd, recs) ==
  recs[groups[p].service] = p \/ (cmd.pc = "record" /\ cmd.pid = p)

\* And its command, should it fail, will stop it.
Remembers(p, s, cmd) ==
  /\ cmd.pc \in {"look", "port", "spawn"} => s \in ToSet(cmd.started)
  /\ cmd.pc \in {"record", "wait", "grace"} => p = cmd.pid \/ s \in ToSet(cmd.started)
  /\ cmd.pc \in {"stop", "term"} => s \in ToSet(cmd.queue)
  /\ cmd.pc \notin {"idle", "failed"}

\* The inductive invariant.
LauncherInv ==
  /\ LauncherTypeOK
  /\ Apart
  /\ \A c \in Commands : RecordOf(commands[c], records, contended)
  /\ \A p \in Pids : Counts(p) =>
       /\ Known(p, commands[groups[p].by], records)
       /\ Remembers(p, groups[p].service, commands[groups[p].by])

LEMMA LauncherInitially == LauncherInit => LauncherInv
<1> SUFFICES ASSUME LauncherInit PROVE LauncherInv
  OBVIOUS
<1>1. LauncherTypeOK
  BY LauncherTypeInitially
<1>2. Pids = {}
  BY DEF LauncherInit, Pids
<1>3. \A c \in Commands : BusyWith(commands[c]) = {}
  BY DEF LauncherInit, NoCommand, BusyWith
<1>4. QED
  BY <1>1, <1>2, <1>3 DEF LauncherInv, Apart, RecordOf

\* A step of a command keeps the invariant, if it does so for the command and for the
\* groups that it spawned, leaves the records of other groups that count, and writes
\* other records only to empty them.
LEMMA LauncherFrame ==
  ASSUME LauncherInv, LauncherTypeOK', NEW c \in Commands, NEW cmd \in Command,
         Goes(c, cmd), lost \subseteq lost',
         \A p \in Pids : groups'[p].service = groups[p].service
                         /\ groups'[p].by = groups[p].by
                         /\ (groups'[p].leader => groups[p].leader),
         \A p \in Pids' : p \in Pids \/ groups'[p].by = c,
         \A s \in Managed : s \in BusyWith(commands[c]) \/ records'[s] \in {records[s], 0},
         RecordOf(cmd, records', contended'),
         \A p \in Pids : Counts(p)' /\ records[groups[p].service] = p
                           => records'[groups[p].service] = p,
         \A p \in Pids' : Counts(p)' /\ groups'[p].by = c =>
           /\ records'[groups'[p].service] = p \/ (cmd.pc = "record" /\ cmd.pid = p)
           /\ Remembers(p, groups'[p].service, cmd)
  PROVE  LauncherInv'
<1>1. /\ commands' = [commands EXCEPT ![c] = cmd] /\ commands \in [Commands -> Command]
      /\ contended' = contended \cup UNION {BusyWith(cmd) \cap BusyWith(commands[d]) :
                                              d \in Commands \ {c}}
  BY DEF Goes, LauncherInv, LauncherTypeOK
<1>2. \A d \in Commands : d # c => commands'[d] = commands[d]
  BY <1>1
<1>3. commands'[c] = cmd
  BY <1>1
<1>4. contended \subseteq contended'
  BY <1>1
<1>5. Apart'
  <2>1. SUFFICES ASSUME NEW d \in Commands, NEW e \in Commands, d # e
                 PROVE  BusyWith(commands'[d]) \cap BusyWith(commands'[e]) \subseteq contended'
    BY DEF Apart, BusyWith
  <2>2. CASE d # c /\ e # c
    BY <1>2, <1>4, <2>1, <2>2 DEF LauncherInv, Apart
  <2>3. CASE d = c \/ e = c
    BY <1>1, <1>2, <1>3, <2>1, <2>3
  <2>4. QED
    BY <2>2, <2>3
<1>6. ASSUME NEW d \in Commands PROVE RecordOf(commands'[d], records', contended')
  <2>1. CASE d = c
    BY <1>3, <2>1
  <2>2. CASE d # c
    <3>1. commands'[d] = commands[d]
      BY <1>2, <2>2
    <3>2. BusyWith(commands[d]) \subseteq Managed
      BY BusyServices, <1>1 DEF LauncherInv, LauncherTypeOK, InHandType, Pids
    <3>3. ASSUME NEW s \in BusyWith(commands[d]) \ contended'
          PROVE  /\ s \in BusyWith(commands[d]) \ contended
                 /\ records'[s] \in {records[s], 0}
      BY <1>4, <2>2, <3>2, <3>3 DEF LauncherInv, Apart
    <3>4. QED
      BY <3>1, <3>3 DEF LauncherInv, RecordOf
  <2>3. QED
    BY <2>1, <2>2
<1>7. ASSUME NEW p \in Pids', Counts(p)'
      PROVE  /\ Known(p, commands[groups[p].by], records)'
             /\ Remembers(p, groups[p].service, commands[groups[p].by])'
  <2>1. CASE groups'[p].by = c
    BY <1>3, <1>7, <2>1 DEF Known, Remembers
  <2>2. CASE groups'[p].by # c
    <3>1. p \in Pids /\ groups'[p].service = groups[p].service
          /\ groups'[p].by = groups[p].by /\ groups[p].leader
      BY <1>7, <2>2 DEF Counts
    <3>2. Counts(p)
      BY <1>4, <1>7, <3>1 DEF Counts
    <3>3. groups[p].by \in Commands
      <4>1. groups[p] \in Group
        BY <3>1 DEF LauncherInv, LauncherTypeOK, Pids
      <4>2. QED
        BY <4>1 DEF Group
    <3>4. commands'[groups'[p].by] = commands[groups[p].by]
      BY <1>2, <2>2, <3>1, <3>3
    <3>5. Known(p, commands[groups[p].by], records)
          /\ Remembers(p, groups[p].service, commands[groups[p].by])
      BY <3>1, <3>2 DEF LauncherInv
    <3>6. QED
      BY <1>7, <3>1, <3>4, <3>5 DEF Known, Remembers
  <2>3. QED
    BY <2>1, <2>2
<1>8. QED
  BY <1>5, <1>6, <1>7 DEF LauncherInv

LEMMA LauncherStep == LauncherInv /\ [LauncherNext]_launcherVars => LauncherInv'
<1> SUFFICES ASSUME LauncherInv, [LauncherNext]_launcherVars PROVE LauncherInv'
  OBVIOUS
<1>0. LauncherTypeOK /\ LauncherTypeOK'
  BY LauncherTypeStep DEF LauncherInv
<1>1. /\ groups \in Seq(Group) /\ Pids = 1 .. Len(groups) /\ Len(groups) \in Nat
      /\ \A p \in Pids : groups[p] \in Group /\ p # 0 /\ groups[p].service \in Managed
      /\ records \in [Managed -> 0 .. MaxGroups]
      /\ \A c \in Commands : /\ commands[c] \in Command
                             /\ commands[c].started \in Seq(Managed)
                             /\ commands[c].queue \in Seq(Managed)
  <2>1. /\ groups \in Seq(Group) /\ Pids = 1 .. Len(groups) /\ Len(groups) \in Nat
        /\ \A p \in Pids : groups[p] \in Group /\ p # 0
        /\ records \in [Managed -> 0 .. MaxGroups]
        /\ \A c \in Commands : commands[c] \in Command
    BY <1>0 DEF LauncherTypeOK, Pids
  <2>2. \A p \in Pids : groups[p].service \in Managed
    BY <2>1 DEF Group
  <2>3. \A c \in Commands : /\ commands[c].started \in Seq(Managed)
                            /\ commands[c].queue \in Seq(Managed)
    BY <2>1 DEF Command
  <2>4. QED
    BY <2>1, <2>2, <2>3
\* What was known of a group that counts after a step of c.
<1>2. ASSUME NEW c \in Commands, NEW cmd, Goes(c, cmd), lost \subseteq lost',
             NEW p \in Pids, Counts(p)', groups'[p].service = groups[p].service,
             groups'[p].leader => groups[p].leader
      PROVE  /\ Counts(p) /\ groups[p].leader
             /\ groups[p].service \notin contended /\ groups[p].service \notin contended'
             /\ p \notin lost'
             /\ Known(p, commands[groups[p].by], records)
             /\ Remembers(p, groups[p].service, commands[groups[p].by])
  BY <1>2 DEF Counts, Goes, LauncherInv
\* A step of c that neither spawns nor writes a record.
<1>3. ASSUME NEW c \in Commands, NEW cmd \in Command, Goes(c, cmd),
             UNCHANGED <<groups, lost>>,
             \/ UNCHANGED records
             \/ \E s \in Managed : /\ Records(s, 0)
                                   /\ s \in contended' \/ ~IsProcessRunning(records[s]),
             RecordOf(cmd, records', contended'),
             commands[c].pc # "record" \/ (cmd.pc = "record" /\ cmd.pid = commands[c].pid),
             \A p \in Pids : (/\ Counts(p)' /\ groups[p].by = c
                              /\ Remembers(p, groups[p].service, commands[c])
                              /\ Known(p, commands[c], records))
                             => Remembers(p, groups[p].service, cmd)
      PROVE  LauncherInv'
  <2>1. ASSUME NEW p \in Pids, Counts(p)', records[groups[p].service] = p
        PROVE  records'[groups[p].service] = p
    BY <1>1, <1>2, <1>3, <2>1 DEF IsProcessRunning, Records
  <2>2. \A s \in Managed : records'[s] \in {records[s], 0}
    BY <1>1, <1>3 DEF Records
  <2>3. ASSUME NEW p \in Pids, Counts(p)', groups[p].by = c
        PROVE  /\ records'[groups[p].service] = p \/ (cmd.pc = "record" /\ cmd.pid = p)
               /\ Remembers(p, groups[p].service, cmd)
    <3>1. Known(p, commands[c], records) /\ Remembers(p, groups[p].service, commands[c])
      BY <1>2, <1>3, <2>3
    <3>2. Remembers(p, groups[p].service, cmd)
      BY <1>3, <2>3, <3>1
    <3>3. CASE records[groups[p].service] = p
      BY <2>1, <2>3, <3>2, <3>3
    <3>4. CASE commands[c].pc = "record" /\ commands[c].pid = p
      BY <1>3, <3>2, <3>4
    <3>5. QED
      BY <3>1, <3>3, <3>4 DEF Known
  <2>4. Pids' = Pids
    BY <1>3 DEF Pids
  <2>5. QED
    BY <1>0, <1>3, <2>1, <2>2, <2>3, <2>4, LauncherFrame
\* What a failed start has left to stop, and what a step leaves for later.
<1>4. ASSUME NEW c \in Commands, NEW h \in Seq(Managed)
      PROVE  /\ UpFails(commands[c], h) \in Command /\ BusyWith(UpFails(commands[c], h)) = {}
             /\ \A p \in Pids : groups[p].service \in ToSet(h) \cup ToSet(commands[c].started)
                  => Remembers(p, groups[p].service, UpFails(commands[c], h))
  <2> DEFINE q == h \o Reverse(commands[c].started)
             cmd == UpFails(commands[c], h)
  <2>1. q \in Seq(Managed) /\ ToSet(q) = ToSet(h) \cup ToSet(commands[c].started)
    BY <1>1, <1>4, FailedQueue
  <2>2. cmd \in Command
    BY <1>1, <1>4, NextCommands
  <2>3. /\ cmd.queue = q
        /\ cmd.pc = IF q # << >> THEN "stop"
                    ELSE IF commands[c].kind = "up" THEN "failed" ELSE "done"
    BY <1>1 DEF UpFails, StopNext, Command
  <2>4. \A x \in ToSet(q) : q # << >>
    BY DEF ToSet
  <2>5. BusyWith(cmd) = {}
    BY <2>3 DEF BusyWith
  <2>6. QED
    BY <2>1, <2>2, <2>3, <2>4, <2>5 DEF Remembers
<1>5. ASSUME NEW c \in Commands, commands[c].pc \in {"stop", "term"}
      PROVE  LET cmd == StopNext(commands[c], Tail(commands[c].queue))
             IN /\ cmd \in Command /\ BusyWith(cmd) = {} /\ cmd.pc # "record"
                /\ Head(commands[c].queue) \in Managed
                /\ \A p \in Pids :
                     /\ Remembers(p, groups[p].service, commands[c])
                     /\ groups[p].service # Head(commands[c].queue)
                     => Remembers(p, groups[p].service, cmd)
  <2> DEFINE q == commands[c].queue
             cmd == StopNext(commands[c], Tail(q))
  <2>1. q \in Seq(Managed) /\ q # << >>
    BY <1>0, <1>1, <1>5 DEF LauncherTypeOK
  <2>2. Head(q) \in Managed /\ Tail(q) \in Seq(Managed)
        /\ ToSet(q) = {Head(q)} \cup ToSet(Tail(q))
    BY <2>1, QueueMembers
  <2>3. cmd \in Command
    BY <1>1, <2>2, NextCommands
  <2>4. /\ cmd.queue = Tail(q)
        /\ cmd.pc = IF Tail(q) # << >> THEN "stop"
                    ELSE IF commands[c].kind = "up" THEN "failed" ELSE "done"
    BY <1>1 DEF StopNext, Command
  <2>5. \A x \in ToSet(Tail(q)) : Tail(q) # << >>
    BY DEF ToSet
  <2>6. BusyWith(cmd) = {} /\ cmd.pc # "record"
    BY <2>4 DEF BusyWith
  <2>7. ASSUME NEW p \in Pids, Remembers(p, groups[p].service, commands[c]),
               groups[p].service # Head(q)
        PROVE  Remembers(p, groups[p].service, cmd)
    BY <1>5, <2>2, <2>4, <2>5, <2>7 DEF Remembers
  <2>8. QED
    BY <2>2, <2>3, <2>6, <2>7
<1>6. ASSUME NEW c \in Commands, commands[c].at \in Managed, NEW q \in Seq(Managed)
      PROVE  LET cmd == StartNext(commands[c], q)
             IN /\ cmd \in Command /\ BusyWith(cmd) = {} /\ cmd.pc # "record"
                /\ \A p \in Pids : groups[p].service \in ToSet(q)
                                     => Remembers(p, groups[p].service, cmd)
  <2> DEFINE cmd == StartNext(commands[c], q)
  <2>1. cmd \in Command
    BY <1>1, <1>6, NextCommands
  <2>2. cmd.pc \in {"done", "look"} /\ cmd.started = q
    BY <1>1 DEF StartNext, Command
  <2>3. QED
    BY <2>1, <2>2 DEF BusyWith, Remembers
<1>7. \A c \in Commands :
        /\ commands[c].pc \in {"idle", "look", "port", "spawn", "record", "wait", "grace"}
             => commands[c].at \in Managed
        /\ commands[c].pc \in {"record", "wait", "grace", "term"} => commands[c].pid \in Pids
        /\ commands[c].pc \in {"record", "wait", "grace"} =>
             groups[commands[c].pid].service = commands[c].at
             /\ groups[commands[c].pid].by = c
  BY <1>0 DEF LauncherTypeOK
<1>8. \A c \in Commands : \A cmd : Goes(c, cmd) => contended \subseteq contended'
  BY DEF Goes
<1>11. ASSUME NEW c \in Commands, BeginUp(c) PROVE LauncherInv'
  <2> DEFINE cmd == [commands[c] EXCEPT !.pc = "look"]
  <2>1. commands[c].pc = "idle" /\ Goes(c, cmd) /\ UNCHANGED <<records, groups, lost>>
    BY <1>11 DEF BeginUp, At
  <2>2. cmd \in Command /\ cmd.pc = "look"
    BY <1>1 DEF Command
  <2>3. BusyWith(cmd) = {}
    BY <2>2 DEF BusyWith
  <2>4. \A p \in Pids : ~Remembers(p, groups[p].service, commands[c])
    BY <2>1 DEF Remembers
  <2>5. QED
    BY <1>3, <2>1, <2>2, <2>3, <2>4 DEF RecordOf
<1>12. ASSUME NEW c \in Commands, BeginDown(c) PROVE LauncherInv'
  <2> DEFINE old == [commands[c] EXCEPT !.kind = "down"]
             q == [k \in Managed |-> MaxServices + 1 - k]
             cmd == StopNext(old, q)
  <2>1. commands[c].pc = "idle" /\ Goes(c, cmd) /\ UNCHANGED <<records, groups, lost>>
    BY <1>12 DEF BeginDown, At
  <2>2. old \in Command /\ q \in Seq(Managed)
    <3>1. old \in Command
      BY <1>1 DEF Command
    <3>2. q \in Seq(Managed)
      BY LauncherAssumption DEF Managed
    <3>3. QED
      BY <3>1, <3>2
  <2>3. cmd \in Command
    BY <2>2, NextCommands
  <2>4. cmd.pc \in {"stop", "failed", "done"}
    BY <2>2 DEF StopNext, Command
  <2>5. BusyWith(cmd) = {}
    BY <2>4 DEF BusyWith
  <2>6. \A p \in Pids : ~Remembers(p, groups[p].service, commands[c])
    BY <2>1 DEF Remembers
  <2>7. QED
    BY <1>3, <2>1, <2>3, <2>5, <2>6 DEF RecordOf
<1>13. ASSUME NEW c \in Commands, Look(c) PROVE LauncherInv'
  <2>1. commands[c].pc = "look" /\ commands[c].at \in Managed
        /\ UNCHANGED <<groups, lost>>
    BY <1>7, <1>13 DEF Look, At
  <2>2. \A p \in Pids : Remembers(p, groups[p].service, commands[c])
                          => groups[p].service \in ToSet(commands[c].started)
    BY <2>1 DEF Remembers
  <2>3. CASE IsProcessRunning(records[commands[c].at])
    <3> DEFINE cmd == StartNext(commands[c], commands[c].started)
    <3>1. Goes(c, cmd) /\ UNCHANGED records
      BY <1>13, <2>3 DEF Look
    <3>2. /\ cmd \in Command /\ BusyWith(cmd) = {} /\ cmd.pc # "record"
          /\ \A p \in Pids : groups[p].service \in ToSet(commands[c].started)
                               => Remembers(p, groups[p].service, cmd)
      BY <1>1, <1>6, <2>1
    <3>3. RecordOf(cmd, records', contended')
      BY <3>2 DEF RecordOf
    <3>4. QED
      BY <1>3, <2>1, <2>2, <3>1, <3>2, <3>3
  <2>4. CASE ~IsProcessRunning(records[commands[c].at])
    <3> DEFINE cmd == [commands[c] EXCEPT !.pc = "port"]
    <3>1. Goes(c, cmd) /\ Records(commands[c].at, 0)
      BY <1>13, <2>4 DEF Look
    <3>2. /\ cmd \in Command /\ cmd.pc = "port" /\ cmd.at = commands[c].at
          /\ cmd.started = commands[c].started
      BY <1>1 DEF Command
    <3>3. RecordOf(cmd, records', contended')
      BY <1>1, <2>1, <3>1, <3>2 DEF RecordOf, BusyWith, Records
    <3>4. \A p \in Pids : Remembers(p, groups[p].service, commands[c])
                            => Remembers(p, groups[p].service, cmd)
      BY <2>2, <3>2 DEF Remembers
    <3>5. QED
      BY <1>3, <2>1, <2>4, <3>1, <3>2, <3>3, <3>4
  <2>5. QED
    BY <2>3, <2>4
<1>14. ASSUME NEW c \in Commands, CheckPort(c) PROVE LauncherInv'
  <2>1. commands[c].pc = "port" /\ UNCHANGED <<records, groups, lost>>
    BY <1>14 DEF CheckPort, At
  <2>2. \A p \in Pids : Remembers(p, groups[p].service, commands[c])
                          => groups[p].service \in ToSet(commands[c].started)
    BY <2>1 DEF Remembers
  <2>3. CASE Answers(commands[c].at)
    <3> DEFINE cmd == UpFails(commands[c], << >>)
    <3>1. Goes(c, cmd) /\ << >> \in Seq(Managed)
      BY <1>14, <2>3 DEF CheckPort
    <3>2. QED
      BY <1>3, <1>4, <2>1, <2>2, <3>1 DEF RecordOf
  <2>4. CASE ~Answers(commands[c].at)
    <3> DEFINE cmd == [commands[c] EXCEPT !.pc = "spawn"]
    <3>1. Goes(c, cmd)
      BY <1>14, <2>4 DEF CheckPort
    <3>2. /\ cmd \in Command /\ cmd.pc = "spawn" /\ cmd.at = commands[c].at
          /\ cmd.started = commands[c].started
      BY <1>1 DEF Command
    <3>3. RecordOf(commands[c], records, contended)
      BY DEF LauncherInv
    <3>4. RecordOf(cmd, records', contended')
      BY <1>8, <2>1, <3>1, <3>2, <3>3 DEF RecordOf, BusyWith
    <3>5. \A p \in Pids : Remembers(p, groups[p].service, commands[c])
                            => Remembers(p, groups[p].service, cmd)
      BY <2>2, <3>2 DEF Remembers
    <3>6. QED
      BY <1>3, <2>1, <3>1, <3>2, <3>4, <3>5
  <2>5. QED
    BY <2>3, <2>4
<1>15. ASSUME NEW c \in Commands, Wait(c) PROVE LauncherInv'
  <2>1. commands[c].pc = "wait" /\ UNCHANGED <<records, groups, lost>>
    BY <1>15 DEF Wait, At
  <2>2. \A p \in Pids : Remembers(p, groups[p].service, commands[c])
          => p = commands[c].pid \/ groups[p].service \in ToSet(commands[c].started)
    BY <2>1 DEF Remembers
  <2>3. CASE Ready(commands[c])
    <3> DEFINE cmd == [commands[c] EXCEPT !.pc = "grace"]
    <3>1. Goes(c, cmd)
      BY <1>15, <2>3 DEF Wait
    <3>2. /\ cmd \in Command /\ cmd.pc = "grace" /\ cmd.pid = commands[c].pid
          /\ cmd.started = commands[c].started
      BY <1>1 DEF Command
    <3>3. RecordOf(cmd, records', contended')
      BY <3>2 DEF RecordOf
    <3>4. \A p \in Pids : Remembers(p, groups[p].service, commands[c])
                            => Remembers(p, groups[p].service, cmd)
      BY <2>2, <3>2 DEF Remembers
    <3>5. QED
      BY <1>3, <2>1, <3>1, <3>2, <3>3, <3>4
  <2>4. CASE ~Ready(commands[c])
    <3> DEFINE cmd == UpFails(commands[c], <<commands[c].at>>)
    <3>1. Goes(c, cmd)
      BY <1>15, <2>4 DEF Wait
    <3>2. /\ <<commands[c].at>> \in Seq(Managed)
          /\ commands[c].at \in ToSet(<<commands[c].at>>)
      BY <1>1, <1>7, <2>1, AppendedMembers
    <3>3. \A p \in Pids : Remembers(p, groups[p].service, commands[c])
            => groups[p].service \in ToSet(<<commands[c].at>>) \cup ToSet(commands[c].started)
      BY <1>7, <2>1, <2>2, <3>2
    <3>4. /\ cmd \in Command /\ BusyWith(cmd) = {}
          /\ \A p \in Pids : Remembers(p, groups[p].service, commands[c])
                               => Remembers(p, groups[p].service, cmd)
      BY <1>4, <3>2, <3>3
    <3>5. RecordOf(cmd, records', contended')
      BY <3>4 DEF RecordOf
    <3>6. QED
      BY <1>3, <2>1, <3>1, <3>4, <3>5
  <2>5. QED
    BY <2>3, <2>4
<1>16. ASSUME NEW c \in Commands, Grace(c) PROVE LauncherInv'
  <2>1. commands[c].pc = "grace" /\ UNCHANGED <<records, groups, lost>>
        /\ commands[c].at \in Managed
    BY <1>7, <1>16 DEF Grace, At
  <2>2. \A p \in Pids : Remembers(p, groups[p].service, commands[c])
          => groups[p].service = commands[c].at
             \/ groups[p].service \in ToSet(commands[c].started)
    BY <1>7, <2>1 DEF Remembers
  <2>3. CASE IsProcessRunning(commands[c].pid)
    <3> DEFINE q == Append(commands[c].started, commands[c].at)
               cmd == StartNext(commands[c], q)
    <3>1. Goes(c, cmd)
      BY <1>16, <2>3 DEF Grace
    <3>2. q \in Seq(Managed) /\ ToSet(q) = ToSet(commands[c].started) \cup {commands[c].at}
      <4>1. commands[c].started \in Seq(Managed)
        BY <1>1
      <4>2. q \in Seq(Managed)
        BY <2>1, <4>1
      <4>3. ToSet(q) = ToSet(commands[c].started) \cup {commands[c].at}
        BY <2>1, <4>1, AppendedMembers
      <4>4. QED
        BY <4>2, <4>3
    <3>3. /\ cmd \in Command /\ BusyWith(cmd) = {} /\ cmd.pc # "record"
          /\ \A p \in Pids : groups[p].service \in ToSet(q)
                               => Remembers(p, groups[p].service, cmd)
      BY <1>6, <2>1, <3>2
    <3>4. RecordOf(cmd, records', contended')
      BY <3>3 DEF RecordOf
    <3>5. \A p \in Pids : Remembers(p, groups[p].service, commands[c])
                            => Remembers(p, groups[p].service, cmd)
      BY <2>2, <3>2, <3>3
    <3>6. QED
      BY <1>3, <2>1, <3>1, <3>3, <3>4, <3>5
  <2>4. CASE ~IsProcessRunning(commands[c].pid)
    <3> DEFINE cmd == UpFails(commands[c], <<commands[c].at>>)
    <3>1. Goes(c, cmd)
      BY <1>16, <2>4 DEF Grace
    <3>2. /\ <<commands[c].at>> \in Seq(Managed)
          /\ commands[c].at \in ToSet(<<commands[c].at>>)
      BY <1>1, <2>1, AppendedMembers
    <3>3. \A p \in Pids : Remembers(p, groups[p].service, commands[c])
            => groups[p].service \in ToSet(<<commands[c].at>>) \cup ToSet(commands[c].started)
      BY <2>2, <3>2
    <3>4. /\ cmd \in Command /\ BusyWith(cmd) = {}
          /\ \A p \in Pids : Remembers(p, groups[p].service, commands[c])
                               => Remembers(p, groups[p].service, cmd)
      BY <1>4, <3>2, <3>3
    <3>5. RecordOf(cmd, records', contended')
      BY <3>4 DEF RecordOf
    <3>6. QED
      BY <1>3, <2>1, <3>1, <3>4, <3>5
  <2>5. QED
    BY <2>3, <2>4
<1>17. ASSUME NEW c \in Commands, StopLook(c) PROVE LauncherInv'
  <2> DEFINE s == Head(commands[c].queue)
  <2>1. commands[c].pc = "stop" /\ UNCHANGED <<groups, lost>> /\ s \in Managed
    BY <1>5, <1>17 DEF StopLook, At
  <2>2. CASE IsProcessRunning(records[s])
    <3> DEFINE cmd == [commands[c] EXCEPT !.pc = "term", !.pid = records[s]]
    <3>1. Goes(c, cmd) /\ UNCHANGED records
      BY <1>17, <2>2 DEF StopLook
    <3>2. /\ cmd \in Command /\ cmd.pc = "term" /\ cmd.pid = records[s]
          /\ cmd.queue = commands[c].queue
      BY <1>1, <2>1 DEF Command
    <3>3. RecordOf(cmd, records', contended')
      BY <3>1, <3>2 DEF RecordOf, BusyWith
    <3>4. \A p \in Pids : Remembers(p, groups[p].service, commands[c])
                            => Remembers(p, groups[p].service, cmd)
      BY <2>1, <3>2 DEF Remembers
    <3>5. QED
      BY <1>3, <2>1, <3>1, <3>2, <3>3, <3>4
  <2>3. CASE ~IsProcessRunning(records[s])
    <3> DEFINE cmd == StopNext(commands[c], Tail(commands[c].queue))
    <3>1. Goes(c, cmd) /\ Records(s, 0)
      BY <1>17, <2>3 DEF StopLook
    <3>2. ASSUME NEW p \in Pids, Counts(p)', Known(p, commands[c], records)
          PROVE  groups[p].service # s
      BY <1>1, <1>2, <2>1, <2>3, <3>1, <3>2 DEF Known, IsProcessRunning
    <3>3. QED
      BY <1>3, <1>5, <2>1, <2>3, <3>1, <3>2 DEF RecordOf
  <2>4. QED
    BY <2>2, <2>3
\* The record of a service that is being stopped, if nobody else is busy with it.
<1>18. ASSUME NEW c \in Commands, commands[c].pc = "term",
              Head(commands[c].queue) \notin contended
       PROVE  records[Head(commands[c].queue)] \in {commands[c].pid, 0}
  BY <1>18 DEF LauncherInv, RecordOf, BusyWith
<1>19. ASSUME NEW c \in Commands, StopEnds(c) PROVE LauncherInv'
  <2> DEFINE s == Head(commands[c].queue)
             cmd == StopNext(commands[c], Tail(commands[c].queue))
  <2>1. /\ commands[c].pc = "term" /\ UNCHANGED <<groups, lost>> /\ s \in Managed
        /\ ~IsProcessRunning(commands[c].pid) /\ Goes(c, cmd) /\ Records(s, 0)
    BY <1>5, <1>19 DEF StopEnds, At
  <2>2. s \in contended' \/ ~IsProcessRunning(records[s])
    BY <1>8, <1>18, <2>1 DEF IsProcessRunning
  <2>3. ASSUME NEW p \in Pids, Counts(p)', Known(p, commands[c], records)
        PROVE  groups[p].service # s
    BY <1>1, <1>2, <2>1, <2>2, <2>3 DEF Known, IsProcessRunning
  <2>4. QED
    BY <1>3, <1>5, <2>1, <2>2, <2>3 DEF RecordOf
<1>20. ASSUME NEW c \in Commands, StopKills(c) PROVE LauncherInv'
  <2> DEFINE s == Head(commands[c].queue)
             k == commands[c].pid
             cmd == StopNext(commands[c], Tail(commands[c].queue))
  <2>1. /\ commands[c].pc = "term" /\ UNCHANGED lost /\ s \in Managed
        /\ Goes(c, cmd) /\ records' = [records EXCEPT ![s] = 0]
        /\ k \in Pids
        /\ groups' = [groups EXCEPT ![k].leader = FALSE, ![k].server = "down"]
    BY <1>5, <1>7, <1>20 DEF StopKills, At, Records
  <2>2. /\ Pids' = Pids /\ groups'[k].leader = FALSE
        /\ \A p \in Pids : /\ groups'[p].service = groups[p].service
                           /\ groups'[p].by = groups[p].by
                           /\ groups'[p].leader => groups[p].leader
    <3>1. groups[k] \in Group
      BY <1>1, <2>1
    <3> DEFINE g == [groups[k] EXCEPT !.leader = FALSE, !.server = "down"]
    <3>2. /\ g.leader = FALSE /\ g.service = groups[k].service /\ g.by = groups[k].by
      BY <3>1 DEF Group
    <3>3. groups' = [groups EXCEPT ![k] = g]
      BY <1>1, <2>1
    <3>4. QED
      BY <1>1, <2>1, <3>2, <3>3 DEF Pids
  <2>3. ASSUME NEW p \in Pids, Counts(p)', records[groups[p].service] = p
        PROVE  groups[p].service # s
    <3>1. groups'[p].leader /\ groups[p].service \notin contended
      BY <1>2, <2>1, <2>2, <2>3 DEF Counts
    <3>2. QED
      BY <1>1, <1>18, <2>1, <2>2, <2>3, <3>1
  <2>4. ASSUME NEW p \in Pids, Counts(p)', groups[p].by = c
        PROVE  /\ records'[groups[p].service] = p
               /\ Remembers(p, groups[p].service, cmd)
    <3>1. Known(p, commands[c], records) /\ Remembers(p, groups[p].service, commands[c])
      BY <1>2, <2>1, <2>2, <2>4
    <3>2. records[groups[p].service] = p
      BY <2>1, <3>1 DEF Known
    <3>3. groups[p].service # s
      BY <2>3, <2>4, <3>2
    <3>4. QED
      BY <1>1, <1>5, <2>1, <3>1, <3>2, <3>3
  <2>5. cmd \in Command /\ RecordOf(cmd, records', contended')
    BY <1>5, <2>1 DEF RecordOf
  <2>6. \A t \in Managed : records'[t] \in {records[t], 0}
    BY <1>1, <2>1
  <2>7. \A p \in Pids : Counts(p)' /\ records[groups[p].service] = p
                          => records'[groups[p].service] = p
    BY <1>1, <2>1, <2>3
  <2>8. \A p \in Pids' : Counts(p)' /\ groups'[p].by = c =>
          /\ records'[groups'[p].service] = p \/ (cmd.pc = "record" /\ cmd.pid = p)
          /\ Remembers(p, groups'[p].service, cmd)
    BY <2>2, <2>4
  <2>9. /\ \A p \in Pids' : p \in Pids \/ groups'[p].by = c
        /\ \A p \in Pids : groups'[p].service = groups[p].service
                           /\ groups'[p].by = groups[p].by
                           /\ (groups'[p].leader => groups[p].leader)
        /\ \A t \in Managed : t \in BusyWith(commands[c]) \/ records'[t] \in {records[t], 0}
    BY <2>2, <2>6
  <2>10. Goes(c, cmd) /\ lost \subseteq lost'
    BY <2>1
  <2>11. QED
    BY <1>0, <2>5, <2>7, <2>8, <2>9, <2>10, LauncherFrame
<1>21. ASSUME NEW c \in Commands, Spawn(c) PROVE LauncherInv'
  <2> DEFINE n == Len(groups) + 1
             g == [service |-> commands[c].at, by |-> c, leader |-> TRUE,
                   server |-> "starting"]
             cmd == [commands[c] EXCEPT !.pc = "record", !.pid = n]
  <2>1. /\ commands[c].pc = "spawn" /\ UNCHANGED <<records, lost>> /\ Goes(c, cmd)
        /\ groups' = Append(groups, g) /\ Len(groups) < MaxGroups
    BY <1>21 DEF Spawn, At
  <2>2. /\ Pids' = Pids \cup {n} /\ groups'[n] = g
        /\ \A p \in Pids : groups'[p] = groups[p]
    BY <1>1, <2>1 DEF Pids
  <2>3. n \in 0 .. MaxGroups
    BY <1>1, <2>1, LauncherAssumption
  <2>4. /\ cmd \in Command /\ cmd.pc = "record" /\ cmd.pid = n /\ cmd.at = commands[c].at
        /\ cmd.started = commands[c].started
    BY <1>1, <2>3 DEF Command
  <2>5. RecordOf(commands[c], records, contended)
    BY DEF LauncherInv
  <2>6. RecordOf(cmd, records', contended')
    BY <1>8, <2>1, <2>4, <2>5 DEF RecordOf, BusyWith
  <2>7. ASSUME NEW p \in Pids', Counts(p)', groups'[p].by = c
        PROVE  /\ records'[groups'[p].service] = p \/ (cmd.pc = "record" /\ cmd.pid = p)
               /\ Remembers(p, groups'[p].service, cmd)
    <3>1. CASE p = n
      BY <2>4, <3>1 DEF Remembers
    <3>2. CASE p \in Pids
      <4>1. /\ groups'[p] = groups[p]
            /\ Known(p, commands[c], records) /\ Remembers(p, groups[p].service, commands[c])
        BY <1>2, <2>1, <2>2, <2>7, <3>2
      <4>2. QED
        BY <2>1, <2>4, <4>1 DEF Known, Remembers
    <3>3. QED
      BY <2>2, <3>1, <3>2
  <2>11. g.by = c
    OBVIOUS
  <2>12. \A p \in Pids' : p \in Pids \/ groups'[p].by = c
    BY <2>2, <2>11
  <2>13. \A p \in Pids : groups'[p].service = groups[p].service
                          /\ groups'[p].by = groups[p].by
                          /\ (groups'[p].leader => groups[p].leader)
    BY <2>2
  <2>8. lost \subseteq lost' /\ \A s \in Managed : s \in BusyWith(commands[c])
                                                 \/ records'[s] \in {records[s], 0}
    BY <2>1
  <2>9. \A p \in Pids : Counts(p)' /\ records[groups[p].service] = p
                          => records'[groups[p].service] = p
    BY <2>1
  <2>10. Goes(c, cmd)
    BY <2>1
  <2>14. QED
    BY <1>0, <2>4, <2>6, <2>7, <2>8, <2>9, <2>10, <2>12, <2>13, LauncherFrame
<1>22. ASSUME NEW c \in Commands, WriteRecord(c) PROVE LauncherInv'
  <2> DEFINE s == commands[c].at
             k == commands[c].pid
             cmd == [commands[c] EXCEPT !.pc = "wait"]
  <2>1. /\ commands[c].pc = "record" /\ UNCHANGED <<groups, lost>> /\ Goes(c, cmd)
        /\ s \in Managed /\ k \in Pids /\ groups[k].service = s /\ groups[k].by = c
        /\ records' = [records EXCEPT ![s] = k]
    BY <1>7, <1>22 DEF WriteRecord, At, Records
  <2>2. /\ cmd \in Command /\ cmd.pc = "wait" /\ cmd.pid = k
        /\ cmd.started = commands[c].started
    BY <1>1 DEF Command
  <2>3. RecordOf(commands[c], records, contended) /\ BusyWith(commands[c]) = {s}
    BY <2>1 DEF LauncherInv, BusyWith
  <2>4. s \notin contended => records[s] = 0
    BY <2>1, <2>3 DEF RecordOf
  <2>5. RecordOf(cmd, records', contended')
    BY <2>2 DEF RecordOf
  <2>6. ASSUME NEW p \in Pids, Counts(p)', records[groups[p].service] = p
        PROVE  records'[groups[p].service] = p
    <3>1. groups[p].service \notin contended
      BY <1>2, <2>1, <2>6
    <3>2. groups[p].service # s
      BY <1>1, <2>4, <2>6, <3>1
    <3>3. QED
      BY <1>1, <2>1, <2>6, <3>2
  <2>7. ASSUME NEW p \in Pids, Counts(p)', groups[p].by = c
        PROVE  /\ records'[groups[p].service] = p
               /\ Remembers(p, groups[p].service, cmd)
    <3>1. Known(p, commands[c], records) /\ Remembers(p, groups[p].service, commands[c])
      BY <1>2, <2>1, <2>7
    <3>2. CASE p = k
      BY <1>1, <2>1, <2>2, <3>2 DEF Remembers
    <3>3. CASE p # k
      BY <2>1, <2>2, <2>6, <2>7, <3>1, <3>3 DEF Known, Remembers
    <3>4. QED
      BY <3>2, <3>3
  <2>8. /\ lost \subseteq lost'
        /\ \A p \in Pids' : p \in Pids \/ groups'[p].by = c
        /\ \A p \in Pids : groups'[p].service = groups[p].service
                           /\ groups'[p].by = groups[p].by
                           /\ (groups'[p].leader => groups[p].leader)
    BY <1>1, <2>1 DEF Pids
  <2>9. \A t \in Managed : t \in BusyWith(commands[c]) \/ records'[t] \in {records[t], 0}
    BY <1>1, <2>1, <2>3
  <2>10. \A p \in Pids' : Counts(p)' /\ groups'[p].by = c =>
          /\ records'[groups'[p].service] = p \/ (cmd.pc = "record" /\ cmd.pid = p)
          /\ Remembers(p, groups'[p].service, cmd)
    BY <2>1, <2>7 DEF Pids
  <2>11. Goes(c, cmd)
    BY <2>1
  <2>12. QED
    BY <1>0, <2>2, <2>5, <2>6, <2>8, <2>9, <2>10, <2>11, LauncherFrame
<1>23. ASSUME NEW c \in Commands, Interrupt(c) PROVE LauncherInv'
  <2> DEFINE cmd == [commands[c] EXCEPT !.pc = "killed", !.pid = 0]
  <2>1. /\ UNCHANGED <<records, groups>> /\ Goes(c, cmd) /\ lost \subseteq lost'
        /\ commands[c].pc # "idle" /\ commands[c].pc # "failed"
        /\ commands[c].pc = "record" => commands[c].pid \in lost'
    BY <1>23 DEF Interrupt, At
  <2>2. cmd \in Command /\ cmd.pc = "killed"
    <3>1. 0 \in 0 .. MaxGroups
      BY LauncherAssumption
    <3>2. QED
      BY <1>1, <3>1 DEF Command
  <2>3. BusyWith(cmd) = {} /\ RecordOf(cmd, records', contended')
    BY <2>2 DEF BusyWith, RecordOf
  <2>4. ASSUME NEW p \in Pids, Counts(p)', groups[p].by = c
        PROVE  records'[groups[p].service] = p /\ Remembers(p, groups[p].service, cmd)
    <3>1. Known(p, commands[c], records) /\ p \notin lost'
      BY <1>2, <2>1, <2>4
    <3>2. QED
      BY <2>1, <2>2, <3>1 DEF Known, Remembers
  <2>5. /\ Pids' = Pids /\ \A p \in Pids : groups'[p] = groups[p]
        /\ \A t \in Managed : records'[t] \in {records[t], 0}
        /\ \A p \in Pids : Counts(p)' /\ records[groups[p].service] = p
                             => records'[groups[p].service] = p
    BY <2>1 DEF Pids
  <2>6. QED
    BY <1>0, <2>1, <2>2, <2>3, <2>4, <2>5, LauncherFrame
<1>24. ASSUME NEW k \in Pids, ServerUp(k) \/ ProcessEnds(k) PROVE LauncherInv'
  <2>1. UNCHANGED <<records, commands, lost, contended>>
    BY <1>24 DEF ServerUp, ProcessEnds
  <2>2. Pids' = Pids
    BY <1>1, <1>24 DEF ServerUp, ProcessEnds, Pids
  <2>3. ASSUME NEW p \in Pids
        PROVE  /\ groups'[p].service = groups[p].service /\ groups'[p].by = groups[p].by
               /\ groups'[p].leader => groups[p].leader
    <3>1. groups[p] \in Group /\ groups[k] \in Group
      BY <1>1, <1>24
    <3>2. CASE groups' = [groups EXCEPT ![k].leader = FALSE]
      BY <1>1, <3>1, <3>2 DEF Group
    <3>3. ASSUME NEW v, groups' = [groups EXCEPT ![k].server = v]
          PROVE  /\ groups'[p].service = groups[p].service /\ groups'[p].by = groups[p].by
                 /\ groups'[p].leader => groups[p].leader
      BY <1>1, <3>1, <3>3 DEF Group
    <3>4. QED
      BY <1>24, <3>2, <3>3 DEF ServerUp, ProcessEnds
  <2>4. \A p \in Pids : Counts(p)' => Counts(p)
    BY <2>1, <2>2, <2>3 DEF Counts
  <2>5. Apart' /\ \A c \in Commands : RecordOf(commands'[c], records', contended')
    BY <2>1 DEF LauncherInv, Apart, BusyWith
  <2>6. ASSUME NEW p \in Pids', Counts(p)'
        PROVE  /\ Known(p, commands[groups[p].by], records)'
               /\ Remembers(p, groups[p].service, commands[groups[p].by])'
    <3>1. /\ Known(p, commands[groups[p].by], records)
          /\ Remembers(p, groups[p].service, commands[groups[p].by])
      BY <2>2, <2>4, <2>6 DEF LauncherInv
    <3>2. QED
      BY <2>1, <2>2, <2>3, <3>1 DEF Known, Remembers
  <2>7. QED
    BY <1>0, <2>5, <2>6 DEF LauncherInv
<1>25. CASE UNCHANGED launcherVars
  BY <1>0, <1>25 DEF LauncherInv, launcherVars, Apart, BusyWith, RecordOf, Counts, Known,
     Remembers, Pids
<1>26. QED
  BY <1>11, <1>12, <1>13, <1>14, <1>15, <1>16, <1>17, <1>19, <1>20, <1>21, <1>22, <1>23,
     <1>24, <1>25 DEF LauncherNext

\* No process is forgotten, for any number of services, commands and groups.
THEOREM LauncherCorrect == LauncherSpec => []ServicesAccounted
<1>1. ASSUME LauncherInv PROVE ServicesAccounted
  <2>1. ASSUME NEW p \in Pids, groups[p].leader, p \notin lost,
               groups[p].service \notin contended
        PROVE  /\ records[groups[p].service] = p
                  \/ (commands[groups[p].by].pc = "record"
                      /\ commands[groups[p].by].pid = p)
               /\ commands[groups[p].by].pc # "failed"
    BY <1>1, <2>1 DEF LauncherInv, Counts, Known, Remembers
  <2>2. \A p \in Pids : p # 0
    BY <1>1 DEF LauncherInv, LauncherTypeOK, Pids
  <2>3. QED
    BY <2>1, <2>2 DEF ServicesAccounted, ServiceStatus, IsProcessRunning
<1>2. QED
  BY <1>1, LauncherInitially, LauncherStep, PTL DEF LauncherSpec
=============================================================================
