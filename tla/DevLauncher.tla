----------------------------- MODULE DevLauncher -----------------------------
(***************************************************************************)
(* pnpm dev and pnpm dev:down: starting and stopping the services of the   *)
(* system on a developer's machine.                                        *)
(*                                                                         *)
(* A service is a group of processes: the one that was spawned, which      *)
(* leads it and is the only one whose pid is recorded, and the server that *)
(* it starts.  The records are files that every command reads and writes.  *)
(* Commands run at the same time, are interrupted, and leave detached      *)
(* groups behind; processes end when they like.  Pids are not used again.  *)
(***************************************************************************)
EXTENDS Naturals, Sequences, SequencesExt

CONSTANTS
  MaxServices,  \* services, numbered in the order they are started in
  Portless,     \* those that listen on no port: the worker
  Commands,     \* runs of a command
  MaxGroups,    \* bound: groups ever spawned
  MaxKills      \* bound: commands that are interrupted

ASSUME LauncherAssumption == MaxServices \in Nat \ {0} /\ MaxGroups \in Nat /\ MaxKills \in Nat

VARIABLES
  records,    \* the pid record of each service, 0 if there is none
  groups,     \* the groups by pid
  commands,   \* the commands
  lost,       \* history: groups whose command was interrupted before it recorded them
  contended,  \* history: services that two commands were busy with at once
  interrupts  \* commands interrupted so far

launcherVars == <<records, groups, commands, lost, contended, interrupts>>

Managed == 1 .. MaxServices
Pids == DOMAIN groups

Group == [service : Managed, by : Commands, leader : BOOLEAN,
          server : {"starting", "up", "down"}]
Command ==
  [kind : {"up", "down"},
   pc : {"idle", "look", "port", "spawn", "record", "wait", "grace", "stop",
         "term", "done", "failed", "killed"},
   at : 1 .. MaxServices + 1,      \* up: the service in hand
   pid : 0 .. MaxGroups,           \* the group in hand
   started : Seq(Managed),         \* up: what it started
   queue : Seq(Managed)]           \* what it has left to stop

\* Every variable has its type, a record names a group of its service, and a
\* command that starts or stops something has it in hand.
LauncherTypeOK ==
  /\ groups \in Seq(Group) /\ Len(groups) <= MaxGroups
  /\ records \in [Managed -> 0 .. MaxGroups]
  /\ \A s \in Managed : records[s] # 0 =>
       records[s] \in Pids /\ groups[records[s]].service = s
  /\ commands \in [Commands -> Command]
  /\ \A c \in Commands :
       /\ commands[c].pc \in {"idle", "look", "port", "spawn", "record", "wait", "grace"}
            => commands[c].at \in Managed
       /\ commands[c].pc \in {"record", "wait", "grace", "term"}
            => commands[c].pid \in Pids
       /\ commands[c].pc \in {"record", "wait", "grace"} =>
            LET g == groups[commands[c].pid] IN g.service = commands[c].at /\ g.by = c
       /\ commands[c].pc \in {"stop", "term"} => commands[c].queue # <<>>
  /\ lost \subseteq Pids /\ contended \subseteq Managed
  /\ interrupts \in 0 .. MaxKills

NoCommand == [kind |-> "up", pc |-> "idle", at |-> 1, pid |-> 0,
              started |-> <<>>, queue |-> <<>>]
LauncherInit ==
  /\ records = [s \in Managed |-> 0] /\ groups = <<>>
  /\ commands = [c \in Commands |-> NoCommand]
  /\ lost = {} /\ contended = {} /\ interrupts = 0

-----------------------------------------------------------------------------
(* What a command sees.                                                    *)

\* isProcessRunning, of a recorded pid.
IsProcessRunning(p) == p # 0 /\ groups[p].leader

\* isPortOpen and isHttpOk: some server of the service answers, whoever started it.
Answers(s) ==
  s \notin Portless /\ \E p \in Pids : groups[p].service = s /\ groups[p].server = "up"

\* getManagedServiceStatus.
ServiceStatus(s) ==
  IF records[s] = 0 THEN IF Answers(s) THEN "unmanaged" ELSE "stopped"
  ELSE IF IsProcessRunning(records[s]) THEN "running"
  ELSE IF Answers(s) THEN "stale_unmanaged" ELSE "stale"

\* The service a command is busy with: since it read its record, or spawned it.
BusyWith(cmd) ==
  IF cmd.pc \in {"port", "spawn", "record", "wait", "grace"} THEN {cmd.at}
  ELSE IF cmd.pc = "term" THEN {Head(cmd.queue)} ELSE {}

Goes(c, cmd) ==
  /\ commands' = [commands EXCEPT ![c] = cmd]
  /\ contended' = contended \cup UNION {BusyWith(cmd) \cap BusyWith(commands[d]) :
                                          d \in Commands \ {c}}

At(c, pc) == commands[c].pc = pc
Records(s, p) == records' = [records EXCEPT ![s] = p]

-----------------------------------------------------------------------------
(* Stopping.                                                               *)

\* What is left to stop, or the end: an up only stops things when it has failed.
StopNext(cmd, queue) ==
  [cmd EXCEPT !.queue = queue, !.pid = 0,
              !.pc = IF queue # <<>> THEN "stop"
                     ELSE IF cmd.kind = "up" THEN "failed" ELSE "done"]

\* stopManagedService: without a leader that runs there is nothing to stop, whatever
\* is left of its group.  Otherwise the group is sent SIGTERM, on which processes
\* end as they do by themselves.
StopLook(c) ==
  /\ At(c, "stop")
  /\ LET cmd == commands[c]
         s == Head(cmd.queue)
     IN IF IsProcessRunning(records[s])
        THEN Goes(c, [cmd EXCEPT !.pc = "term", !.pid = records[s]])
             /\ UNCHANGED records
        ELSE Goes(c, StopNext(cmd, Tail(cmd.queue))) /\ Records(s, 0)
  /\ UNCHANGED <<groups, lost, interrupts>>

\* The leader ended in time.
StopEnds(c) ==
  /\ At(c, "term") /\ ~IsProcessRunning(commands[c].pid)
  /\ Goes(c, StopNext(commands[c], Tail(commands[c].queue)))
  /\ Records(Head(commands[c].queue), 0)
  /\ UNCHANGED <<groups, lost, interrupts>>

\* It did not: SIGKILL, to the group.
StopKills(c) ==
  /\ At(c, "term") /\ IsProcessRunning(commands[c].pid)
  /\ groups' = [groups EXCEPT ![commands[c].pid].leader = FALSE,
                              ![commands[c].pid].server = "down"]
  /\ Goes(c, StopNext(commands[c], Tail(commands[c].queue)))
  /\ Records(Head(commands[c].queue), 0)
  /\ UNCHANGED <<lost, interrupts>>

-----------------------------------------------------------------------------
(* Starting.                                                               *)

\* The services in order, then the end.
StartNext(cmd, started) ==
  [cmd EXCEPT !.started = started, !.at = cmd.at + 1, !.pid = 0,
              !.pc = IF cmd.at = MaxServices THEN "done" ELSE "look"]

\* main of dev-up: whatever fails, all that it started is stopped again, and the
\* service in hand before that, if it was spawned.
UpFails(cmd, inHand) == StopNext(cmd, inHand \o Reverse(cmd.started))

\* The tools, the environment, the database, the infrastructure and the bucket come
\* first; without them nothing is started.
BeginUp(c) ==
  /\ At(c, "idle")
  /\ Goes(c, [commands[c] EXCEPT !.pc = "look"])
  /\ UNCHANGED <<records, groups, lost, interrupts>>

BeginDown(c) ==
  /\ At(c, "idle")
  /\ Goes(c, StopNext([commands[c] EXCEPT !.kind = "down"],
                      [k \in Managed |-> MaxServices + 1 - k]))
  /\ UNCHANGED <<records, groups, lost, interrupts>>

\* startManagedService: a service that runs is left alone.
Look(c) ==
  /\ At(c, "look")
  /\ LET cmd == commands[c]
     IN IF IsProcessRunning(records[cmd.at])
        THEN Goes(c, StartNext(cmd, cmd.started)) /\ UNCHANGED records
        ELSE Goes(c, [cmd EXCEPT !.pc = "port"]) /\ Records(cmd.at, 0)
  /\ UNCHANGED <<groups, lost, interrupts>>

CheckPort(c) ==
  /\ At(c, "port")
  /\ Goes(c, IF Answers(commands[c].at) THEN UpFails(commands[c], <<>>)
             ELSE [commands[c] EXCEPT !.pc = "spawn"])
  /\ UNCHANGED <<records, groups, lost, interrupts>>

Spawn(c) ==
  /\ At(c, "spawn") /\ Len(groups) < MaxGroups
  /\ groups' = Append(groups, [service |-> commands[c].at, by |-> c, leader |-> TRUE,
                               server |-> "starting"])
  /\ Goes(c, [commands[c] EXCEPT !.pc = "record", !.pid = Len(groups) + 1])
  /\ UNCHANGED <<records, lost, interrupts>>

WriteRecord(c) ==
  /\ At(c, "record")
  /\ Records(commands[c].at, commands[c].pid)
  /\ Goes(c, [commands[c] EXCEPT !.pc = "wait"])
  /\ UNCHANGED <<groups, lost, interrupts>>

\* What is waited for: an answer, or that the process lives after a while.
Ready(cmd) == IF cmd.at \in Portless THEN IsProcessRunning(cmd.pid) ELSE Answers(cmd.at)

\* Mutant: a service that did not come up is left as it is.
WaitLeaves(c) ==
  /\ At(c, "wait")
  /\ Goes(c, IF Ready(commands[c]) THEN [commands[c] EXCEPT !.pc = "grace"]
             ELSE UpFails(commands[c], <<>>))
  /\ UNCHANGED <<records, groups, lost, interrupts>>

Wait(c) ==
  /\ At(c, "wait")
  /\ Goes(c, IF Ready(commands[c]) THEN [commands[c] EXCEPT !.pc = "grace"]
             ELSE UpFails(commands[c], <<commands[c].at>>))
  /\ UNCHANGED <<records, groups, lost, interrupts>>

\* A grace window, for what ends as soon as it is ready.
Grace(c) ==
  /\ At(c, "grace")
  /\ LET cmd == commands[c]
     IN Goes(c, IF IsProcessRunning(cmd.pid) THEN StartNext(cmd, Append(cmd.started, cmd.at))
                ELSE UpFails(cmd, <<cmd.at>>))
  /\ UNCHANGED <<records, groups, lost, interrupts>>

-----------------------------------------------------------------------------
(* The machine.                                                            *)

\* Ctrl-C: the groups are detached, and stay.
Interrupt(c) ==
  /\ commands[c].pc \notin {"idle", "done", "failed", "killed"}
  /\ interrupts < MaxKills /\ interrupts' = interrupts + 1
  /\ Goes(c, [commands[c] EXCEPT !.pc = "killed", !.pid = 0])
  /\ lost' = IF At(c, "record") THEN lost \cup {commands[c].pid} ELSE lost
  /\ UNCHANGED <<records, groups>>

\* A second server finds the port taken.
ServerUp(p) ==
  /\ groups[p].server = "starting"
  /\ groups' = [groups EXCEPT ![p].server =
                  IF Answers(groups[p].service) THEN "down" ELSE "up"]
  /\ UNCHANGED <<records, commands, lost, contended, interrupts>>

ProcessEnds(p) ==
  /\ \/ groups[p].leader /\ groups' = [groups EXCEPT ![p].leader = FALSE]
     \/ groups[p].server # "down" /\ groups' = [groups EXCEPT ![p].server = "down"]
  /\ UNCHANGED <<records, commands, lost, contended, interrupts>>

LauncherNext ==
  \/ \E c \in Commands :
       \/ BeginUp(c) \/ Look(c) \/ CheckPort(c) \/ Spawn(c) \/ WriteRecord(c)
       \/ Wait(c) \/ Grace(c)
       \/ BeginDown(c) \/ StopLook(c) \/ StopEnds(c) \/ StopKills(c)
       \/ Interrupt(c)
  \/ \E p \in Pids : ServerUp(p) \/ ProcessEnds(p)

LauncherSpec == LauncherInit /\ [][LauncherNext]_launcherVars

-----------------------------------------------------------------------------
(* Properties.                                                             *)

\* No process is forgotten, in whatever order commands run, fail, overlap and are
\* interrupted.  A service of which a process that a command spawned still leads its
\* group is reported as running, with that process, as soon as it is recorded; and
\* an up that has failed leaves none of those it spawned.  Left out are a process
\* whose command was interrupted between the spawn and the record, and services
\* that two commands were busy with at the same time.
ServicesAccounted ==
  \A p \in Pids :
    LET s == groups[p].service
        cmd == commands[groups[p].by]
    IN groups[p].leader /\ p \notin lost /\ s \notin contended =>
         /\ \/ ServiceStatus(s) = "running" /\ records[s] = p
            \/ cmd.pc = "record" /\ cmd.pid = p
         /\ cmd.pc # "failed"
=============================================================================
