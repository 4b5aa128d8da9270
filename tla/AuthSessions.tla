---------------------------- MODULE AuthSessions ----------------------------
(***************************************************************************)
(* The sessions of one user.  A session is a key in Redis that expires     *)
(* unless it is used, and is listed in a set of the user, which expires    *)
(* too.  Every request of a page touches its session; a sign-out deletes   *)
(* it, and a change of the password deletes all that are listed.  Each of  *)
(* these is a series of Redis commands, and they interleave.               *)
(*                                                                         *)
(* Keys and set live for the same time after an EXPIRE, so that the order  *)
(* of the EXPIREs tells which of them go first.                            *)
(***************************************************************************)
EXTENDS FiniteSets

CONSTANTS
  Sessions,    \* session ids
  AuthCalls    \* requests under way at the same time

ASSUME SessionsAssumption == Sessions # {}

VARIABLES
  live,      \* sessions whose key exists
  index,     \* the set of the user: sessions it lists
  timed,     \* the set has a TTL
  longer,    \* sessions whose key got its TTL after the set, and so outlasts it
  tokens,    \* sessions whose token a browser got
  authCalls, \* each request: its command, session, and what it listed
  unlisted,  \* history: left the set although nobody had listed or ended them
  over       \* history: sessions that a sign-out or a change has ended

setVars == <<index, timed, longer>>
authVars == <<live, setVars, tokens, authCalls, unlisted, over>>

AuthPc == {"idle", "set", "add", "last", "exists", "expire", "hash", "list",
           "delete", "drop", "revoke", "remove"}
AuthKind == {"signin", "page", "change", "signout"}

AuthCall == [pc : AuthPc, kind : AuthKind, session : Sessions,
             listed : SUBSET Sessions, before : SUBSET Sessions]

\* Every variable has its type, and only tokens that were issued are in use.
AuthTypeOK ==
  /\ {live, index, longer, tokens, unlisted, over} \subseteq SUBSET Sessions
  /\ timed \in BOOLEAN
  /\ authCalls \in [AuthCalls -> AuthCall]
  /\ \A c \in AuthCalls :
       /\ authCalls[c].before \subseteq tokens
       /\ authCalls[c].kind # "signin" => authCalls[c].session \in tokens

NewCall(pc, kind, s) == [pc |-> pc, kind |-> kind, session |-> s,
                         listed |-> {}, before |-> {}]
NoAuthCall == NewCall("idle", "signin", CHOOSE s \in Sessions : TRUE)

AuthInit ==
  /\ live = {} /\ index = {} /\ timed = FALSE /\ longer = {} /\ tokens = {}
  /\ authCalls = [c \in AuthCalls |-> NoAuthCall]
  /\ unlisted = {} /\ over = {}

AuthAt(c, pc) == authCalls[c].pc = pc
AuthGoes(c, pc) == authCalls' = [authCalls EXCEPT ![c].pc = pc]
AuthEnds(c) == authCalls' = [authCalls EXCEPT ![c] = NoAuthCall]
Session(c) == authCalls[c].session
AuthBegins(c, kind, s, pc) ==
  /\ AuthAt(c, "idle")
  /\ authCalls' = [authCalls EXCEPT ![c] = NewCall(pc, kind, s)]

-----------------------------------------------------------------------------

\* authorize found the user and the password right: a new id.
SignIn(c) ==
  /\ \E s \in Sessions \ (live \cup index \cup tokens) :
       /\ \A d \in AuthCalls : /\ ~AuthAt(d, "idle") => Session(d) # s
                               /\ s \notin authCalls[d].listed
       /\ AuthBegins(c, "signin", s, "set")
  /\ UNCHANGED <<live, setVars, tokens, unlisted, over>>

\* A key gets its TTL, or keys are gone.
Outlasts(s) == longer' = IF timed /\ s \in live' THEN longer \cup {s} ELSE longer
Gone(keys) == live' = live \ keys /\ longer' = longer \ keys
\* The set gets a TTL, or is gone.
SetOutlasts == timed' = TRUE /\ longer' = {}
SetGone == index' = {} /\ timed' = FALSE /\ longer' = {}

\* registerAuthSession: the key, then the set of the user.
SetKey(c) ==
  /\ AuthAt(c, "set")
  /\ live' = live \cup {Session(c)}
  /\ Outlasts(Session(c))
  /\ AuthGoes(c, "add")
  /\ UNCHANGED <<index, timed, tokens, unlisted, over>>

\* Any request of a page, one that changes the password included, passes auth().
PageRequest(c, kind, s) ==
  /\ kind \in {"page", "change"} /\ s \in tokens
  /\ AuthBegins(c, kind, s, "exists")
  /\ UNCHANGED <<live, setVars, tokens, unlisted, over>>

\* touchAuthSession: a session that is gone is refused.
Exists(c) ==
  /\ AuthAt(c, "exists")
  /\ IF Session(c) \in live THEN AuthGoes(c, "expire") ELSE AuthEnds(c)
  /\ UNCHANGED <<live, setVars, tokens, unlisted, over>>

\* Mutant: the key is written anew.
Renewed(s) == live \cup {s}

\* EXPIRE of a key that is gone does nothing.
TouchedKeys(s) == live

Refresh(c) ==
  /\ AuthAt(c, "expire")
  /\ live' = TouchedKeys(Session(c))
  /\ Outlasts(Session(c))
  /\ AuthGoes(c, "add")
  /\ UNCHANGED <<index, timed, tokens, unlisted, over>>

\* SADD, by a sign-in or a touch.  A set that is new has no TTL.
AddToIndex(c) ==
  /\ AuthAt(c, "add")
  /\ index' = index \cup {Session(c)}
  /\ unlisted' = unlisted \ {Session(c)}
  /\ AuthGoes(c, "last")
  /\ UNCHANGED <<live, timed, longer, tokens, over>>

\* EXPIRE of the set, if there is one; then the page's work, or the new password.
RefreshIndex(c) ==
  /\ AuthAt(c, "last")
  /\ IF index = {} THEN UNCHANGED <<timed, longer>> ELSE SetOutlasts
  /\ tokens' = tokens \cup {Session(c)}
  /\ IF authCalls[c].kind = "change" THEN AuthGoes(c, "hash") ELSE AuthEnds(c)
  /\ UNCHANGED <<live, index, unlisted, over>>

\* The new password is stored.
UpdateHash(c) ==
  /\ AuthAt(c, "hash")
  /\ authCalls' = [authCalls EXCEPT ![c].pc = "list", ![c].before = tokens]
  /\ UNCHANGED <<live, setVars, tokens, unlisted, over>>

\* revokeUserSessions: list, delete what was listed, delete the set.
ListSessions(c) ==
  /\ AuthAt(c, "list")
  /\ authCalls' = [authCalls EXCEPT ![c].pc = "delete", ![c].listed = index]
  /\ UNCHANGED <<live, setVars, tokens, unlisted, over>>

DeleteKeys(c) ==
  /\ AuthAt(c, "delete")
  /\ Gone(authCalls[c].listed)
  /\ AuthGoes(c, "drop")
  /\ UNCHANGED <<index, timed, tokens, unlisted, over>>

DropIndex(c) ==
  /\ AuthAt(c, "drop")
  /\ SetGone
  /\ unlisted' = unlisted \cup (index \ authCalls[c].listed)
  /\ over' = over \cup (authCalls[c].before \ unlisted')
  /\ AuthEnds(c)
  /\ UNCHANGED <<live, tokens>>

\* The signOut event: revokeAuthSession.
SignOut(c, s) ==
  /\ s \in tokens
  /\ AuthBegins(c, "signout", s, "revoke")
  /\ UNCHANGED <<live, setVars, tokens, unlisted, over>>

Revoke(c) ==
  /\ AuthAt(c, "revoke")
  /\ Gone({Session(c)})
  /\ AuthGoes(c, "remove")
  /\ UNCHANGED <<index, timed, tokens, unlisted, over>>

RemoveFromIndex(c) ==
  /\ AuthAt(c, "remove")
  /\ IF index \subseteq {Session(c)} THEN SetGone
     ELSE index' = index \ {Session(c)} /\ UNCHANGED <<timed, longer>>
  /\ over' = over \cup {Session(c)}
  /\ AuthEnds(c)
  /\ UNCHANGED <<live, tokens, unlisted>>

\* Nobody used the session for AUTH_SESSION_MAX_AGE_SECONDS.
KeyExpires(s) ==
  /\ s \in live \ longer
  /\ Gone({s})
  /\ UNCHANGED <<index, timed, tokens, authCalls, unlisted, over>>

\* The set goes when all keys have gone that expire no later.  One that expires
\* later is left by a touch or a sign-in that is under way, or of which a command
\* threw: it lives on, and until it is touched again no change lists it.
IndexExpires ==
  /\ timed /\ live \subseteq longer
  /\ SetGone
  /\ unlisted' = unlisted \cup (index \cap live)
  /\ UNCHANGED <<live, tokens, authCalls, over>>

\* A command of Redis, or the update of the password, throws.
CommandThrows(c) ==
  /\ ~AuthAt(c, "idle")
  /\ AuthEnds(c)
  /\ UNCHANGED <<live, setVars, tokens, unlisted, over>>

AuthNext ==
  \/ \E c \in AuthCalls :
       \/ SignIn(c) \/ SetKey(c)
       \/ \E s \in Sessions, k \in {"page", "change"} : PageRequest(c, k, s)
       \/ Exists(c) \/ Refresh(c) \/ AddToIndex(c) \/ RefreshIndex(c)
       \/ UpdateHash(c) \/ ListSessions(c) \/ DeleteKeys(c) \/ DropIndex(c)
       \/ \E s \in Sessions : SignOut(c, s)
       \/ Revoke(c) \/ RemoveFromIndex(c)
       \/ CommandThrows(c)
  \/ \E s \in Sessions : KeyExpires(s)
  \/ IndexExpires

AuthSpec == AuthInit /\ [][AuthNext]_authVars

-----------------------------------------------------------------------------

\* A session that ended is over: after a sign-out was answered its session is
\* gone, and after a change of the password every session that had its token
\* when the password was stored is gone, and neither comes back through a touch
\* that was under way.  Left out are the sessions of unlisted, which a change
\* misses until they are touched again: an overlapping change dropped them from
\* the set without having listed them, or the set expired before their keys, as
\* it may after a touch that an error cut off between its two EXPIREs.
EndedStaysEnded == over \cap live = {}
=============================================================================
