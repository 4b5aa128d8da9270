--------------------------- MODULE SystemSettings ---------------------------
(***************************************************************************)
(* The parameters of the system, from the row an administrator saves to    *)
(* the value a process runs with.                                          *)
(*                                                                         *)
(* Rows are seeded by an upgrade and saved by a form that sends all of     *)
(* them.  A process takes its parameters when it starts, by one of three   *)
(* ways: the development launcher prints a complete environment for it     *)
(* ("dev"), the web server's bootstrap completes its own ("web"), and the  *)
(* worker and the agent runtime fill in what is unset ("service").  What   *)
(* an environment leaves unset is the default of the module that reads it. *)
(***************************************************************************)
EXTENDS Naturals, FiniteSets

CONSTANTS
  Keys,         \* parameters
  MaxWord,      \* values other than the blank: 1 is the default of every key
  Admins,       \* forms that are open
  MaxProcesses, \* bound: processes, numbered as they are started
  MaxEdits      \* bound: edits of the form and of the environment

ASSUME SettingsAssumption == Keys # {} /\ MaxWord \in Nat \ {0} /\ MaxEdits \in Nat
                             /\ MaxProcesses \in Nat

VARIABLES
  settings,   \* the rows
  backfilled, \* has the upgrade that fills blank rows run?
  explicit,   \* the environment file and the shell of the deployment
  forms,      \* the form of each administrator
  processes,  \* the processes
  editsMade   \* the budget of edits used

settingsVars == <<settings, backfilled, explicit, forms, processes, editsMade>>

Blank == 0
DefaultWord == 1
Absent == MaxWord + 1
Words == Blank .. MaxWord
Environments == [Keys -> Words \union {Absent}]
Unset == [k \in Keys |-> Absent]
Processes == 1 .. MaxProcesses
Hows == {"dev", "web", "service"}

Form == [pc : {"closed", "open", "sent", "reply"}, values : Environments]
Process == [pc : {"off", "print", "load", "up"}, how : Hows, given : Environments,
            env : Environments, current : BOOLEAN, reached : BOOLEAN]

\* Every variable has its type.
SettingsTypeOK ==
  /\ settings \in Environments /\ backfilled \in BOOLEAN
  /\ explicit \in Environments /\ editsMade \in 0 .. MaxEdits
  /\ forms \in [Admins -> Form]
  /\ processes \in [Processes -> Process]

SettingsInit ==
  /\ settings = Unset /\ backfilled = FALSE /\ editsMade = 0
  /\ explicit \in [Keys -> {Absent, MaxWord}]
  /\ forms = [a \in Admins |-> [pc |-> "closed", values |-> Unset]]
  /\ processes = [p \in Processes |->
       [pc |-> "off", how |-> "web", given |-> Unset, env |-> Unset,
        current |-> TRUE, reached |-> TRUE]]

-----------------------------------------------------------------------------
(* Which value wins.                                                       *)

\* resolveSystemSettingsEnv: what the environment has, then the row, blank or not,
\* then the default.
Resolve(base, rows) ==
  [k \in Keys |-> IF base[k] # Absent THEN base[k]
                  ELSE IF rows[k] # Absent THEN rows[k] ELSE DefaultWord]

\* applySettingsToProcessEnv: a blank row counts as none.
Inject(base, rows) ==
  [k \in Keys |-> IF base[k] = Absent /\ rows[k] \notin {Absent, Blank}
                  THEN rows[k] ELSE base[k]]

\* process.env.X ?? default, in the module that reads it.
Taken(env, k) == IF env[k] = Absent THEN DefaultWord ELSE env[k]

\* The rows changed: what a process read may be old.
Changed ==
  processes' = [p \in Processes |->
                  [processes[p] EXCEPT !.current = @ /\ settings' = settings]]

-----------------------------------------------------------------------------
(* Rows.                                                                   *)

\* The upgrades write only what is missing, or blank: the explicit environment of
\* the moment, or the default.
SeedValue(k) == IF explicit[k] # Absent THEN explicit[k] ELSE DefaultWord

SeedRows ==
  /\ settings = Unset
  /\ settings' = [k \in Keys |-> SeedValue(k)]
  /\ Changed
  /\ UNCHANGED <<backfilled, explicit, forms, editsMade>>

FillBlanks ==
  /\ settings # Unset /\ ~backfilled /\ backfilled' = TRUE
  /\ settings' = [k \in Keys |-> IF settings[k] = Blank THEN SeedValue(k) ELSE settings[k]]
  /\ Changed
  /\ UNCHANGED <<explicit, forms, editsMade>>

\* A developer or an operator edits the environment of what is started next.
ChangeEnvironment(k, v) ==
  /\ editsMade < MaxEdits /\ editsMade' = editsMade + 1
  /\ v # explicit[k] /\ explicit' = [explicit EXCEPT ![k] = v]
  /\ UNCHANGED <<settings, backfilled, forms, processes>>

\* The settings page.
OpenForm(a) ==
  /\ forms[a].pc = "closed" /\ settings # Unset
  /\ forms' = [forms EXCEPT ![a] = [pc |-> "open", values |-> settings]]
  /\ UNCHANGED <<settings, backfilled, explicit, processes, editsMade>>

\* What is typed while a save is under way is lost with its reply, and left out.
EditSetting(a, k, v) ==
  /\ forms[a].pc = "open" /\ editsMade < MaxEdits /\ editsMade' = editsMade + 1
  /\ v # forms[a].values[k]
  /\ forms' = [forms EXCEPT ![a].values[k] = v]
  /\ UNCHANGED <<settings, backfilled, explicit, processes>>

\* onSubmit sends every value of the form.
SaveForm(a) ==
  /\ forms[a].pc = "open"
  /\ forms' = [forms EXCEPT ![a].pc = "sent"]
  /\ UNCHANGED <<settings, backfilled, explicit, processes, editsMade>>

\* PATCH: all of them in one transaction, if there are rows.
PatchSettings(a) ==
  /\ forms[a].pc = "sent" /\ settings # Unset
  /\ settings' = forms[a].values
  /\ forms' = [forms EXCEPT ![a].pc = "reply"]
  /\ Changed
  /\ UNCHANGED <<backfilled, explicit, editsMade>>

\* The reply lists the rows as they are by then, and the page is refreshed.
SaveReply(a) ==
  /\ forms[a].pc = "reply"
  /\ forms' = [forms EXCEPT ![a] = [pc |-> "open", values |-> settings]]
  /\ UNCHANGED <<settings, backfilled, explicit, processes, editsMade>>

\* The request or its reply is lost, or the page is closed: the form keeps its values.
SaveFails(a) ==
  /\ forms[a].pc \in {"sent", "reply"}
  /\ forms' = [forms EXCEPT ![a].pc = "open"]
  /\ UNCHANGED <<settings, backfilled, explicit, processes, editsMade>>

-----------------------------------------------------------------------------
(* Processes.                                                              *)

\* Only the launcher has a stage before the process.
StartProcess(p, how) ==
  /\ processes[p].pc = "off" /\ \A q \in 1 .. p - 1 : processes[q].pc # "off"
  /\ processes' = [processes EXCEPT
       ![p] = [pc |-> IF how = "dev" THEN "print" ELSE "load", how |-> how,
               given |-> explicit, env |-> explicit, current |-> TRUE,
               reached |-> TRUE]]
  /\ UNCHANGED <<settings, backfilled, explicit, forms, editsMade>>

\* Mutant: the defaults are filled in before the rows are asked for.
PrintedOverDefaults(base, rows) == Resolve(Resolve(base, Unset), rows)

\* print-system-env prints the whole environment; without its output the launcher
\* falls back on the defaults.
PrintedEnv(base, rows) == Resolve(base, rows)

Printed(p) ==
  /\ processes[p].pc = "print"
  /\ \E reached \in BOOLEAN :
       LET base == processes[p].given
           fallback == Resolve(base, Unset)
       IN processes' = [processes EXCEPT
            ![p].pc = "load", ![p].reached = reached,
            ![p].env = IF reached THEN PrintedEnv(base, settings) ELSE fallback]
  /\ UNCHANGED <<settings, backfilled, explicit, forms, editsMade>>

\* The process itself: applyDatabaseRuntimeSettings in the web server of a
\* deployment, initRuntimeSettings elsewhere.  If the database does not answer,
\* it goes on with what it has.
LoadSettings(p) ==
  /\ processes[p].pc = "load"
  /\ \E reached \in BOOLEAN :
       LET env == processes[p].env
       IN processes' = [processes EXCEPT
            ![p].pc = "up", ![p].reached = @ /\ reached,
            ![p].env = IF ~reached THEN env
                       ELSE IF processes[p].how = "web" THEN Resolve(env, settings)
                       ELSE Inject(env, settings)]
  /\ UNCHANGED <<settings, backfilled, explicit, forms, editsMade>>

SettingsNext ==
  \/ SeedRows \/ FillBlanks
  \/ \E k \in Keys, v \in Words \union {Absent} : ChangeEnvironment(k, v)
  \/ \E a \in Admins :
       \/ OpenForm(a) \/ SaveForm(a) \/ PatchSettings(a)
       \/ SaveReply(a) \/ SaveFails(a)
       \/ \E k \in Keys, v \in Words : EditSetting(a, k, v)
  \/ \E p \in Processes :
       Printed(p) \/ LoadSettings(p) \/ \E how \in Hows : StartProcess(p, how)

SettingsSpec == SettingsInit /\ [][SettingsNext]_settingsVars

-----------------------------------------------------------------------------
(* Properties.                                                             *)

\* Whichever way two processes are started, they run with the same parameters, if
\* their environments were the same and they could read the same rows.  Except for
\* a row saved as blank, which is the empty value to those of the launcher and of
\* the web server and no value to the others.
StartedAlikeAgree ==
  \A p, q \in Processes :
    LET a == processes[p]  b == processes[q]
    IN (/\ a.pc = "up" /\ a.current /\ a.reached
        /\ b.pc = "up" /\ b.current /\ b.reached /\ a.given = b.given)
       => \A k \in Keys : settings[k] # Blank => Taken(a.env, k) = Taken(b.env, k)
=============================================================================
