-------------------------- MODULE MCOperations -----------------------------
(***************************************************************************)
(* For TLC, in one run: a run of ConversationRun whose job is delivered    *)
(* twice, upgrades, the system's parameters, and the development           *)
(* launcher.  They share no state here: a behaviour takes the steps of one *)
(* component, chosen in its first state, and leaves the others as they     *)
(* begin.                                                                  *)
(***************************************************************************)
EXTENDS ConversationRun, Upgrades, SystemSettings, DevLauncher, TLC

VARIABLE focus   \* the component that takes steps

operationsVars == <<focus, vars, upgradeVars, settingsVars, launcherVars>>

On(c) == focus = c
Only(c, next) == On(c) /\ next /\ UNCHANGED focus

OperationsInit ==
  /\ Init /\ UpgradesInit /\ SettingsInit /\ LauncherInit
  /\ focus \in {"run", "upgrade", "settings", "launcher"}
  \* one state each for the others
  /\ data = (CHOOSE d \in Before : TRUE) \/ On("upgrade")
  /\ explicit = Unset \/ On("settings")

OperationsNext ==
  \/ Only("run", Next) /\ UNCHANGED <<upgradeVars, settingsVars, launcherVars>>
  \/ Only("upgrade", UpgradesNext) /\ UNCHANGED <<vars, settingsVars, launcherVars>>
  \/ Only("settings", SettingsNext) /\ UNCHANGED <<vars, upgradeVars, launcherVars>>
  \/ Only("launcher", LauncherNext) /\ UNCHANGED <<vars, upgradeVars, settingsVars>>

OperationsSpec == OperationsInit /\ [][OperationsNext]_operationsVars

\* The slots of the respond worker are interchangeable.
WorkerSymmetry == Permutations(Workers)
=============================================================================
