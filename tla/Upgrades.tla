------------------------------ MODULE Upgrades ------------------------------
(***************************************************************************)
(* The upgrade of a database to this release.  A runner takes a lock that  *)
(* lives as long as its database session, has the SQL migrations applied   *)
(* by a child process, and then runs the registered upgrades that are not  *)
(* yet completed, statement by statement and without a transaction; a      *)
(* runtime service starts if a runner in check mode finds nothing pending. *)
(* A runner that dies leaves an upgrade half done, which the next one runs *)
(* again from its first statement.                                         *)
(***************************************************************************)
EXTENDS Naturals, Sequences, Listings

CONSTANTS
  Runners,       \* processes of run-upgrades.mjs
  Nobody,        \* no runner
  SettingRows,   \* number of settings the release defines
  Spaces,        \* number of workspaces
  MaxTroubles    \* bound: crashes and errors

ASSUME UpgradesAssumption ==
  /\ Nobody \notin Runners
  /\ {SettingRows, Spaces, MaxTroubles} \subseteq Nat

VARIABLES
  lock,      \* the holder of the advisory lock
  migrated,  \* every SQL migration is applied
  migrator,  \* the child process of each runner
  record,    \* app_upgrades: the status of each upgrade
  data,      \* the tables the upgrades write
  runner,    \* each runner: its mode, where it is, and what it has to do
  troubles,  \* crashes and errors so far
  origin     \* history: the tables before the first runner

upgradeVars == <<lock, migrated, migrator, record, data, runner, troubles, origin>>

-----------------------------------------------------------------------------
(* The registry, and the statements of each upgrade in order.              *)

\* appUpgrades; each one is blocking and safe in dev startup, so every mode
\* but check runs every pending one.
Registry == <<"seed", "metadata", "defaults", "profiles", "directories", "libraries">>
UpgradeKeys == {Registry[i] : i \in DOMAIN Registry}
ForEach(n, do) == [i \in 1 .. n |-> <<do, i>>]
Once(do) == <<do, 0>>

\* Documents are not moved meanwhile: each workspace has some below its root.
OwnedTables == {"documents", "directories", "chunks", "anchors", "citations"}
Script ==
  [seed        |-> ForEach(SettingRows, "seed"),
   metadata    |-> ForEach(SettingRows, "seed"),
   defaults    |-> ForEach(SettingRows, "default"),
   profiles    |-> <<Once("find"), Once("ensure"), Once("assign"), Once("forget")>>,
   directories |-> ForEach(Spaces, "root") \o ForEach(Spaces, "below"),
   libraries   |->
     [i \in 1 .. 2 * Spaces |-> <<IF i % 2 = 1 THEN "look" ELSE "library",
                                  (i + 1) \div 2>>]
     \o <<Once("documents"), Once("directories"), Once("chunks"),
          Once("anchors"), Once("citations")>>]

\* A setting is an operator's, a default, empty, or not there at all.
SettingValue == {"missing", "empty", "default", "operator"}
Profile == [enabled : BOOLEAN, default : BOOLEAN, key : {"operator", "example"}]

-----------------------------------------------------------------------------
(* The statements: what each makes of the tables.                          *)

\* insert .. on conflict do nothing (or only the metadata).
Seeded(d, i) ==
  IF d.settings[i] = "missing" THEN [d EXCEPT !.settings[i] = "default"] ELSE d
Defaulted(d, i) ==
  IF d.settings[i] \in {"missing", "empty"}
  THEN [d EXCEPT !.settings[i] = "default"] ELSE d

\* The default profile, or the oldest one, or none.
FoundProfile(d) ==
  LET default == {p \in DOMAIN d.profiles : d.profiles[p].default}
  IN IF default # {} THEN CHOOSE p \in default : TRUE
     ELSE IF d.profiles # <<>> THEN 1 ELSE 0

\* ensureDefaultModelProfile: an older profile is promoted; a new one takes its
\* key from the legacy settings.
Ensured(d, p) ==
  IF p = 0
  THEN [d EXCEPT !.profiles = Append(@,
          [enabled |-> TRUE, default |-> TRUE,
           key |-> IF d.legacy THEN "operator" ELSE "example"])]
  ELSE IF d.profiles[p].default THEN d
  ELSE [d EXCEPT !.profiles[p].enabled = TRUE, !.profiles[p].default = TRUE]

Assigned(d, p) == IF d.chat = 0 THEN [d EXCEPT !.chat = p] ELSE d

\* The rows of a table that have no library get that of their workspace or of
\* the row they belong to; citations are refreshed whatever their anchor has.
Parent == [documents |-> "library", directories |-> "library",
           chunks |-> "documents", anchors |-> "documents", citations |-> "anchors"]
Owned(d, table) ==
  [d EXCEPT !.owned = [w \in 1 .. Spaces |->
     IF (Parent[table] = "library" /\ d.library[w] > 0) \/ Parent[table] \in @[w]
     THEN @[w] \cup {table} ELSE @[w]]]

Effect(do, i, found, d) ==
  CASE do = "seed"          -> Seeded(d, i)
    [] do = "default"       -> Defaulted(d, i)
    [] do \in {"find", "look"} -> d
    [] do = "ensure"        -> Ensured(d, found)
    [] do = "assign"        -> Assigned(d, found)
    [] do = "forget"        -> [d EXCEPT !.legacy = FALSE]
    [] do \in {"root", "below"} -> [d EXCEPT !.dirs[i] = @ \cup {"root", do}]
    [] do = "library"       -> IF found = 0 THEN [d EXCEPT !.library[i] = @ + 1] ELSE d
    [] do \in OwnedTables       -> Owned(d, do)

\* What a statement leaves in a local variable.
Found(do, i, found, d) ==
  CASE do = "find"   -> FoundProfile(d)
    [] do = "ensure" -> IF found = 0 THEN Len(d.profiles) + 1 ELSE found
    [] do = "look"   -> d.library[i]
    [] OTHER         -> found

-----------------------------------------------------------------------------

Tables ==
  [settings : [1 .. SettingRows -> SettingValue], legacy : BOOLEAN,
   profiles : Seq(Profile), chat : Nat, dirs : [1 .. Spaces -> SUBSET {"root", "below"}],
   library : [1 .. Spaces -> Nat], owned : [1 .. Spaces -> SUBSET OwnedTables]]

\* A database of an earlier release: none of the tables is complete.
Before ==
  [settings : [1 .. SettingRows -> {"missing", "empty", "operator"}], legacy : BOOLEAN,
   profiles : {<<>>} \cup
     {<<[enabled |-> b, default |-> b, key |-> "example"]>> : b \in BOOLEAN},
   chat : {0}, dirs : {[w \in 1 .. Spaces |-> {}]},
   library : [1 .. Spaces -> {0, 1}], owned : {[w \in 1 .. Spaces |-> {}]}]

Idle == [mode |-> "check", at |-> "off", todo |-> <<>>, step |-> 0, found |-> 0]
Places == {"off", "lock", "schema", "migrate", "plan", "run", "step", "failing", "ok"}

\* Every variable has its type, and the lock is with the runner that works.
UpgradesTypeOK ==
  /\ lock \in Runners \cup {Nobody}
  /\ migrated \in BOOLEAN
  /\ migrator \in [Runners -> {"none", "running", "ok", "failed"}]
  /\ record \in [UpgradeKeys -> {"none", "running", "completed", "failed"}]
  /\ data \in Tables /\ origin \in Tables
  /\ \A r \in Runners :
       /\ runner[r].mode \in {"check", "apply"}
       /\ runner[r].at \in Places
       /\ \A i \in DOMAIN runner[r].todo : runner[r].todo[i] \in UpgradeKeys
       /\ runner[r].at \notin {"off", "lock", "ok"} <=> lock = r
       /\ runner[r].at = "step" => runner[r].step \in 1 .. Len(Script[runner[r].todo[1]]) + 1
  /\ troubles \in 0 .. MaxTroubles

UpgradesInit ==
  /\ lock = Nobody /\ migrated = FALSE
  /\ migrator = [r \in Runners |-> "none"]
  /\ record = [u \in UpgradeKeys |-> "none"]
  /\ data \in Before /\ origin = data
  /\ runner = [r \in Runners |-> Idle]
  /\ troubles = 0

Trouble == troubles < MaxTroubles /\ troubles' = troubles + 1
Calm == UNCHANGED troubles
Stands(r, place) == runner[r].at = place
RunnerGoes(r, place) == runner' = [runner EXCEPT ![r].at = place]

\* The process ends; so does its session, and the lock with it.
Ends(r, place) ==
  runner' = [runner EXCEPT ![r] = [Idle EXCEPT !.at = place]] /\ lock' = Nobody
Keeps(vars) == UNCHANGED <<origin, vars>>

-----------------------------------------------------------------------------

\* The upgrade step of a deployment, or a service that starts.
StartRunner(r) ==
  /\ Stands(r, "off") /\ migrator[r] # "running"
  /\ \E m \in {"check", "apply"} :
       runner' = [runner EXCEPT ![r] = [Idle EXCEPT !.mode = m, !.at = "lock"]]
  /\ Calm /\ Keeps(<<lock, migrated, migrator, record, data>>)

TakeLock(r) ==
  /\ Stands(r, "lock") /\ lock = Nobody
  /\ lock' = r
  /\ IF runner[r].mode = "check"
     THEN RunnerGoes(r, "schema") /\ UNCHANGED migrator
     ELSE RunnerGoes(r, "migrate") /\ migrator' = [migrator EXCEPT ![r] = "running"]
  /\ Calm /\ Keeps(<<migrated, record, data>>)

\* drizzle-kit migrate, on a connection of its own; a runner that dies does not
\* take it along.
MigratorEnds(r) ==
  /\ migrator[r] = "running"
  /\ \/ migrated' = TRUE /\ Calm
        /\ migrator' = [migrator EXCEPT ![r] = IF Stands(r, "migrate") THEN "ok" ELSE "none"]
     \/ UNCHANGED migrated /\ Trouble
        /\ migrator' = [migrator EXCEPT ![r] = IF Stands(r, "migrate") THEN "failed" ELSE "none"]
  /\ Keeps(<<lock, record, data, runner>>)

SchemaReady(r) ==
  /\ \/ Stands(r, "schema") /\ migrated /\ UNCHANGED migrator
     \/ migrator[r] = "ok" /\ migrator' = [migrator EXCEPT ![r] = "none"]
  /\ RunnerGoes(r, "plan")
  /\ Calm /\ Keeps(<<lock, migrated, record, data>>)

SchemaMissing(r) ==
  /\ \/ Stands(r, "schema") /\ ~migrated /\ UNCHANGED migrator
     \/ migrator[r] = "failed" /\ migrator' = [migrator EXCEPT ![r] = "none"]
  /\ Ends(r, "off")
  /\ Calm /\ Keeps(<<migrated, record, data>>)

\* Mutant: an upgrade that was begun is not begun again.
UndoneNew == InOrder(Registry, {u \in UpgradeKeys : record[u] = "none"})

\* getPendingUpgrades and buildUpgradePlan.
Undone == InOrder(Registry, {u \in UpgradeKeys : record[u] # "completed"})

PlanUpgrades(r) ==
  /\ Stands(r, "plan")
  /\ IF Undone = <<>> THEN Ends(r, "ok")
     ELSE IF runner[r].mode = "check" THEN Ends(r, "off")
     ELSE /\ runner' = [runner EXCEPT ![r].at = "run", ![r].todo = Undone]
          /\ UNCHANGED lock
  /\ Calm /\ Keeps(<<migrated, migrator, record, data>>)

Record(u, status) == record' = [record EXCEPT ![u] = status]

BeginUpgrade(r) ==
  /\ Stands(r, "run") /\ runner[r].todo # <<>>
  /\ Record(runner[r].todo[1], "running")
  /\ runner' = [runner EXCEPT ![r].at = "step", ![r].step = 1, ![r].found = 0]
  /\ Calm /\ Keeps(<<lock, migrated, migrator, data>>)

Remaining(r) == runner[r].step <= Len(Script[runner[r].todo[1]])

Statement(r) ==
  /\ Stands(r, "step") /\ Remaining(r)
  /\ LET s == Script[runner[r].todo[1]][runner[r].step]
         found == runner[r].found
     IN /\ data' = Effect(s[1], s[2], found, data)
        /\ runner' = [runner EXCEPT ![r].step = @ + 1,
                                    ![r].found = Found(s[1], s[2], found, data)]
  /\ Calm /\ Keeps(<<lock, migrated, migrator, record>>)

StatementThrows(r) ==
  /\ Stands(r, "step") /\ Remaining(r)
  /\ RunnerGoes(r, "failing")
  /\ Trouble /\ Keeps(<<lock, migrated, migrator, record, data>>)

MarkFailed(r) ==
  /\ Stands(r, "failing")
  /\ Record(runner[r].todo[1], "failed")
  /\ Ends(r, "off")
  /\ Calm /\ Keeps(<<migrated, migrator, data>>)

CompleteUpgrade(r) ==
  /\ Stands(r, "step") /\ ~Remaining(r)
  /\ Record(runner[r].todo[1], "completed")
  /\ runner' = [runner EXCEPT ![r].at = "run", ![r].todo = Tail(@)]
  /\ Calm /\ Keeps(<<lock, migrated, migrator, data>>)

\* The plan once more, after the last upgrade.
LastPlan(r) ==
  /\ Stands(r, "run") /\ runner[r].todo = <<>>
  /\ Ends(r, IF Undone = <<>> THEN "ok" ELSE "off")
  /\ Calm /\ Keeps(<<migrated, migrator, record, data>>)

RunnerDies(r) ==
  /\ lock = r
  /\ Ends(r, "off")
  /\ migrator' = [migrator EXCEPT ![r] = IF @ = "running" THEN @ ELSE "none"]
  /\ Trouble /\ Keeps(<<migrated, record, data>>)

UpgradesNext ==
  \E r \in Runners :
    \/ StartRunner(r) \/ TakeLock(r) \/ MigratorEnds(r)
    \/ SchemaReady(r) \/ SchemaMissing(r) \/ PlanUpgrades(r)
    \/ BeginUpgrade(r) \/ Statement(r) \/ StatementThrows(r) \/ MarkFailed(r)
    \/ CompleteUpgrade(r) \/ LastPlan(r) \/ RunnerDies(r)

UpgradesSpec == UpgradesInit /\ [][UpgradesNext]_upgradeVars

-----------------------------------------------------------------------------
(* Properties.                                                             *)

\* What the release counts on, and what the operator had configured.
Upgraded ==
  /\ \A i \in 1 .. SettingRows :
       data.settings[i] = IF origin.settings[i] = "operator" THEN "operator" ELSE "default"
  /\ \E p \in DOMAIN data.profiles :
       /\ data.profiles[p].default /\ data.profiles[p].enabled
       /\ origin.profiles = <<>> /\ origin.legacy => data.profiles[p].key = "operator"
  /\ Len(data.profiles) = IF origin.profiles = <<>> THEN 1 ELSE Len(origin.profiles)
  /\ data.chat \in DOMAIN data.profiles
  /\ \A w \in 1 .. Spaces :
       /\ data.dirs[w] = {"root", "below"}
       /\ data.library[w] = 1
       /\ data.owned[w] = OwnedTables

\* A service only runs on a database that has every migration and the effects of
\* every upgrade, whole and once, with the operator's settings and model key
\* kept, wherever the runners before it died.
StartedIsUpgraded ==
  (\E r \in Runners : Stands(r, "ok")) => migrated /\ Upgraded
=============================================================================
