---------------------------- MODULE Registration ----------------------------
(***************************************************************************)
(* Registration of users.  The first one becomes the super administrator.  *)
(* Requests check names and administrators before they insert, all at the  *)
(* same time, and two unique indexes decide: one on the user name, one     *)
(* that allows a single administrator.                                     *)
(***************************************************************************)
EXTENDS Sequences

CONSTANTS
  UserNames,     \* what users call themselves
  Registrations  \* requests of POST register

VARIABLES
  users,    \* who is registered: a user name, and whether an administrator
  signups   \* the requests

registrationVars == <<users, signups>>

SignupPc == {"idle", "admin", "insert", "recheck", "created", "refused",
             "thrown", "error"}

Signup == [pc : SignupPc, name : UserNames, attempts : Seq(BOOLEAN)]

\* Every variable has its type, and a request that inserts has an attempt left.
RegistrationTypeOK ==
  /\ users \subseteq [name : UserNames, admin : BOOLEAN]
  /\ signups \in [Registrations -> Signup]
  /\ \A q \in Registrations :
       signups[q].pc \in {"insert", "recheck"} => signups[q].attempts # <<>>

\* The unique indexes.
NameTaken(n) == \E u \in users : u.name = n
AdminExists == \E u \in users : u.admin

RegistrationInit ==
  /\ users = {}
  /\ \E n \in UserNames :
       signups = [q \in Registrations |-> [pc |-> "idle", name |-> n,
                                           attempts |-> <<>>]]

SignupGoes(q, pc) == signups' = [signups EXCEPT ![q].pc = pc]

\* usernameExists.
CheckName(q) ==
  /\ signups[q].pc = "idle"
  /\ \E n \in UserNames :
       signups' = [signups EXCEPT ![q] =
         [pc |-> IF NameTaken(n) THEN "refused" ELSE "admin", name |-> n,
          attempts |-> <<>>]]
  /\ UNCHANGED users

\* Mutant: who finds no administrator only tries to become one.
AttemptsOnce == IF AdminExists THEN <<FALSE>> ELSE <<TRUE>>

\* insertAttempts: as an administrator if there is none, then as a user.
Attempts == IF AdminExists THEN <<FALSE>> ELSE <<TRUE, FALSE>>

\* superAdminExists.
CheckAdmin(q) ==
  /\ signups[q].pc = "admin"
  /\ signups' = [signups EXCEPT ![q].pc = "insert", ![q].attempts = Attempts]
  /\ UNCHANGED users

\* insertUser, which the unique indexes may refuse.
Insert(q) ==
  /\ signups[q].pc = "insert"
  /\ LET user == [name |-> signups[q].name, admin |-> Head(signups[q].attempts)]
     IN IF NameTaken(user.name) \/ (user.admin /\ AdminExists)
        THEN SignupGoes(q, "recheck") /\ UNCHANGED users
        ELSE SignupGoes(q, "created") /\ users' = users \cup {user}

\* Which of the two indexes refused: the name, or else the administrator, and
\* then the next attempt is made, if there is one.
Recheck(q) ==
  /\ signups[q].pc = "recheck"
  /\ LET attempts == signups[q].attempts
     IN IF NameTaken(signups[q].name) THEN SignupGoes(q, "refused")
        ELSE IF Head(attempts) /\ Tail(attempts) # <<>>
        THEN signups' = [signups EXCEPT ![q].pc = "insert",
                                        ![q].attempts = Tail(attempts)]
        ELSE SignupGoes(q, "error")
  /\ UNCHANGED users

\* A statement that fails for another reason, before or after it took effect; or
\* whose error does not carry the code isUniqueViolation looks for.
SignupThrows(q) ==
  /\ signups[q].pc \in {"admin", "insert", "recheck", "created"}
  /\ SignupGoes(q, "thrown")
  /\ UNCHANGED users

RegistrationNext ==
  \E q \in Registrations :
    CheckName(q) \/ CheckAdmin(q) \/ Insert(q) \/ Recheck(q) \/ SignupThrows(q)

RegistrationSpec == RegistrationInit /\ [][RegistrationNext]_registrationVars

-----------------------------------------------------------------------------

\* However many register at once: as soon as there are users, exactly one of
\* them is the super administrator; no name is taken twice; who was told to be
\* registered is; a request is only refused because its name is taken, and none
\* runs out of attempts after an index refused it.
FirstIsAdmin ==
  /\ users # {} => AdminExists
  /\ \A u, v \in users : (u.name = v.name \/ (u.admin /\ v.admin)) => u = v
  /\ \A q \in Registrations :
       /\ signups[q].pc \in {"created", "refused"} => NameTaken(signups[q].name)
       /\ signups[q].pc # "error"
=============================================================================
