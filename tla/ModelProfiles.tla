---------------------------- MODULE ModelProfiles ----------------------------
(***************************************************************************)
(* The model profiles administrators edit.  Conversations that choose none *)
(* use the default one, which the routes therefore keep enabled.  They     *)
(* read and check first, and write in a transaction later; a unique index  *)
(* allows one default.                                                     *)
(***************************************************************************)
EXTENDS Naturals, FiniteSets

CONSTANTS
  ProfileEdits,   \* requests of POST and PATCH under way at the same time
  MaxProfiles     \* bound: profiles

ASSUME ProfilesAssumption == MaxProfiles \in Nat

VARIABLES
  profiles,       \* llm_model_profiles by number
  edits,          \* the requests: what they ask for, and what they read
  overtaken       \* history: profiles that became the default when an edit of
                  \* theirs was already past the read or the check of that

profileVars == <<profiles, edits, overtaken>>

Wish == [enabled : BOOLEAN, default : BOOLEAN]

\* A request of POST has the profile 0.
ProfileEdit == [pc : {"idle", "read", "check", "write"}, profile : 0 .. MaxProfiles,
                was : BOOLEAN, wish : Wish]

\* Every variable has its type, and edits are those of profiles that exist.
ProfilesTypeOK ==
  /\ \E n \in 0 .. MaxProfiles : profiles \in [1 .. n -> Wish]
  /\ edits \in [ProfileEdits -> ProfileEdit]
  /\ \A e \in ProfileEdits : edits[e].profile \in {0} \cup DOMAIN profiles
  /\ overtaken \subseteq DOMAIN profiles

NoEdit == [pc |-> "idle", profile |-> 0, was |-> FALSE,
           wish |-> [enabled |-> FALSE, default |-> FALSE]]

ProfilesInit ==
  /\ profiles = <<>>
  /\ edits = [e \in ProfileEdits |-> NoEdit]
  /\ overtaken = {}

Defaults == {i \in DOMAIN profiles : profiles[i].default}

\* POST or PATCH with a payload that parses.
BeginEdit(e) ==
  /\ edits[e].pc = "idle"
  /\ \E i \in {0} \cup DOMAIN profiles, w \in Wish :
       edits' = [edits EXCEPT ![e] =
         [NoEdit EXCEPT !.pc = IF i = 0 THEN "check" ELSE "read",
                        !.profile = i, !.wish = w]]
  /\ UNCHANGED <<profiles, overtaken>>

\* PATCH reads the profile.
ReadProfile(e) ==
  /\ edits[e].pc = "read"
  /\ edits' = [edits EXCEPT ![e].pc = "check",
                            ![e].was = profiles[edits[e].profile].default]
  /\ UNCHANGED <<profiles, overtaken>>

\* The first profile is enabled and the default, whatever was asked for.
Granted(e) ==
  IF edits[e].profile = 0 /\ Defaults = {}
  THEN [enabled |-> TRUE, default |-> TRUE]
  ELSE edits[e].wish

StaysDefault(w) == w.enabled /\ w.default

\* Mutant: only the flag is asked for, not who has it.
RefusedIfDefault(e) == edits[e].wish.default /\ ~edits[e].wish.enabled

\* A default has to be enabled, and the present one stays both.
Refused(e) ==
  LET w == Granted(e)
  IN \/ w.default /\ ~w.enabled
     \/ /\ edits[e].profile # 0 /\ edits[e].was /\ ~StaysDefault(w)
        /\ edits[e].profile \in Defaults

\* The default is read and the request refused or granted.
CheckEdit(e) ==
  /\ edits[e].pc = "check"
  /\ edits' = [edits EXCEPT ![e] =
       IF Refused(e) THEN NoEdit
       ELSE [@ EXCEPT !.pc = "write", !.wish = Granted(e)]]
  /\ UNCHANGED <<profiles, overtaken>>

\* Edits under way whose profile the request of e makes the default.
Overtakes(e, i) ==
  {i : x \in {x \in ProfileEdits \ {e} :
                /\ edits[x].profile = i
                /\ \/ edits[x].pc = "write"
                   \/ edits[x].pc = "check" /\ ~edits[x].was}}

\* The transaction: with a new default the old one is no longer it.  Of two that
\* overlap, the index aborts one.
WriteEdit(e) ==
  LET w == edits[e].wish
      i == IF edits[e].profile = 0 THEN Cardinality(DOMAIN profiles) + 1
           ELSE edits[e].profile
      others == [j \in DOMAIN profiles |->
                   IF w.default THEN [profiles[j] EXCEPT !.default = FALSE]
                   ELSE profiles[j]]
  IN /\ edits[e].pc = "write" /\ i <= MaxProfiles
     /\ profiles' = [j \in DOMAIN profiles \cup {i} |->
                      IF j = i THEN w ELSE others[j]]
     /\ overtaken' = overtaken \cup (IF w.default THEN Overtakes(e, i) ELSE {})
     /\ edits' = [edits EXCEPT ![e] = NoEdit]

\* The transaction is aborted, by the index or otherwise, or a read throws.
EditFails(e) ==
  /\ edits[e].pc # "idle"
  /\ edits' = [edits EXCEPT ![e] = NoEdit]
  /\ UNCHANGED <<profiles, overtaken>>

ProfilesNext ==
  \E e \in ProfileEdits :
    \/ BeginEdit(e) \/ ReadProfile(e) \/ CheckEdit(e) \/ WriteEdit(e)
    \/ EditFails(e)

ProfilesSpec == ProfilesInit /\ [][ProfilesNext]_profileVars

-----------------------------------------------------------------------------

\* As soon as there is a profile, conversations that choose none have one they
\* can use: one profile is the default, and it is enabled.  It is only lost if a
\* profile became the default while another request, which had found that it was
\* not, was about to write it.
DefaultIsUsable ==
  (DOMAIN profiles # {} /\ overtaken = {}) =>
    /\ Cardinality(Defaults) = 1
    /\ \A i \in Defaults : profiles[i].enabled
=============================================================================
