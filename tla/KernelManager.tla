--------------------------- MODULE KernelManager ---------------------------
(***************************************************************************)
(* The agent's manager of the sing-box kernel.  A supervisor goroutine     *)
(* starts, stops and restarts the one kernel process; configurations and   *)
(* upgrades come from goroutines of their own and only leave their intent  *)
(* in fields behind a mutex; a waiter goroutine per process reaps it.      *)
(*                                                                         *)
(* An action is one critical section, or one effect on the disk or on a    *)
(* process, of one goroutine.  A configuration's version number is left    *)
(* out: it travels with the configuration.                                 *)
(*                                                                         *)
(* KickLost, StopUnplanned, SignalNone, StoppedAtOnce, QuitAtOnce,         *)
(* RollbackNothing and RollbackHalf are faulty variants of the definition  *)
(* that follows them, used to show that a property notices such a fault;   *)
(* the specification does not use them.                                    *)
(***************************************************************************)
EXTENDS Naturals, Sequences

CONSTANTS
    Configs,
    Valid,          \* configurations sing-box accepts
    NoConf,         \* no configuration
    Files,          \* the files of an upgrade package, the main file first
    Pids,           \* process identities; one is free again once forgotten
    NoPid,
    MaxApplies,     \* bound: configurations the master sends
    MaxFaults,      \* bound: crashes, process starts and file replacements that fail
    MaxUpgrades     \* bound: kernel upgrades

ASSUME KernelAssumption ==
    /\ Valid \subseteq Configs
    /\ NoConf \notin Configs
    /\ Len(Files) \in Nat \ {0}
    /\ DOMAIN Files = 1 .. Len(Files)
    /\ \A i, j \in DOMAIN Files : Files[i] = Files[j] => i = j
    /\ NoPid \notin Pids
    /\ \E p, q \in Pids : p # q    \* one may still be waited for
    /\ MaxApplies \in Nat
    /\ MaxFaults \in Nat
    /\ MaxUpgrades \in Nat

VARIABLES
    \* the fields of the manager
    desired,      \* desiredConf
    wantRun,
    applied,      \* appliedConf
    child,        \* child and its childExit channel, which is closed when reaped
    planned,      \* stoppingChild
    upgrading,
    stopping,
    lastError,
    cooling,      \* is nextStartAt in the future?
    kick,         \* the wake-up channel of the supervisor, of capacity one
    \* the goroutines
    apply,        \* ApplyConfig
    sup,          \* supervisor
    upgrade,      \* UpgradeKernelFiles
    cancelled,    \* the agent's root context
    \* the machine
    disk,         \* the configuration file
    files,        \* the version of every file of the kernel's package
    starts,       \* can a version be started at all?
    proc,         \* kernel processes
    bounds        \* how often what is bounded has happened

fields  == <<desired, wantRun, applied, child, planned, upgrading, stopping,
             lastError, cooling, kick>>
machine == <<disk, files, starts, proc>>
vars    == <<fields, apply, sup, upgrade, cancelled, machine, bounds>>

-----------------------------------------------------------------------------
ConfigsOrNone == Configs \cup {NoConf}
PidsOrNone == Pids \cup {NoPid}
FileNames == {Files[i] : i \in DOMAIN Files}

Applies == [step : {"idle", "written", "rejected"}, conf : ConfigsOrNone, good : ConfigsOrNone]
Sups == [at : {"reconcile", "compare", "stop", "stopping", "backoff", "spawn", "record",
               "loop", "wait", "quit", "done"},
         conf : ConfigsOrNone, pid : PidsOrNone, then : {"loop", "backoff", "done"},
         timer : BOOLEAN, watched : PidsOrNone]
Upgrading == [at : {"idle", "stop", "stopping", "replace", "moved", "switch", "await",
                    "undo"},
              next : Nat, pid : PidsOrNone, late : BOOLEAN,
              result : {"none", "succeeded", "failed"}]
Versions == {"old", "new"}
Procs == [state : {"gone", "loading", "up", "dead"}, conf : ConfigsOrNone,
          signalled : BOOLEAN]

TypeOK ==
    /\ desired \in ConfigsOrNone /\ applied \in ConfigsOrNone
    /\ wantRun \in BOOLEAN /\ upgrading \in BOOLEAN /\ stopping \in BOOLEAN
    /\ child \in PidsOrNone /\ planned \in PidsOrNone
    /\ lastError \in {"none", "check", "start", "exit"}
    /\ cooling \in BOOLEAN /\ kick \in BOOLEAN
    /\ apply \in Applies
    /\ sup \in Sups
    /\ upgrade \in Upgrading
    /\ cancelled \in BOOLEAN
    /\ disk \in ConfigsOrNone
    /\ files \in [FileNames -> Versions \cup {"missing"}]
    /\ starts \in [Versions -> BOOLEAN]
    /\ proc \in [Pids -> Procs]
    /\ bounds \in [applies : 0 .. MaxApplies, faults : 0 .. MaxFaults,
                   upgrades : 0 .. MaxUpgrades]

Gone == [state |-> "gone", conf |-> NoConf, signalled |-> FALSE]

Init ==
    /\ desired = NoConf /\ applied = NoConf
    /\ wantRun = FALSE /\ upgrading = FALSE /\ stopping = FALSE
    /\ child = NoPid /\ planned = NoPid
    /\ lastError = "none"
    /\ cooling = FALSE /\ kick = FALSE
    /\ apply = [step |-> "idle", conf |-> NoConf, good |-> NoConf]
    /\ sup = [at |-> "reconcile", conf |-> NoConf, pid |-> NoPid, then |-> "loop",
              timer |-> FALSE, watched |-> NoPid]
    /\ upgrade = [at |-> "idle", next |-> 1, pid |-> NoPid, late |-> FALSE,
                  result |-> "none"]
    /\ cancelled = FALSE
    /\ disk = NoConf
    /\ files = [f \in FileNames |-> "old"]
    /\ starts = [v \in Versions |-> TRUE]
    /\ proc = [p \in Pids |-> Gone]
    /\ bounds = [applies |-> 0, faults |-> 0, upgrades |-> 0]

-----------------------------------------------------------------------------
Main == files[Files[1]]
Startable == Main \in Versions /\ starts[Main]
Fault == bounds.faults < MaxFaults /\ bounds' = [bounds EXCEPT !.faults = @ + 1]

KickLost == kick
Kicked == TRUE
Kick == kick' = Kicked

-----------------------------------------------------------------------------
\* ApplyConfig, one call at a time.

\* The configuration goes to the disk before it is checked.
WriteConfig(conf) ==
    /\ apply.step = "idle" /\ ~cancelled
    /\ bounds.applies < MaxApplies
    /\ bounds' = [bounds EXCEPT !.applies = @ + 1]
    /\ disk' = conf
    /\ apply' = [apply EXCEPT !.step = "written", !.conf = conf]
    /\ UNCHANGED <<fields, sup, upgrade, cancelled, files, starts, proc>>

\* The check passes, or there is no binary to run it with.
Accept ==
    /\ apply.step = "written"
    /\ apply.conf \in Valid \/ Main = "missing"
    /\ desired' = apply.conf
    /\ wantRun' = TRUE
    /\ lastError' = "none"
    /\ cooling' = FALSE
    /\ Kick
    /\ apply' = [apply EXCEPT !.step = "idle"]
    /\ UNCHANGED <<applied, child, planned, upgrading, stopping, sup, upgrade,
                   cancelled, machine, bounds>>

\* The check fails; lastGood is what the running kernel was started with.
Reject ==
    /\ apply.step = "written"
    /\ apply.conf \notin Valid /\ Main # "missing"
    /\ lastError' = "check"
    /\ apply' = [apply EXCEPT !.step = "rejected", !.good = applied]
    /\ UNCHANGED <<desired, wantRun, applied, child, planned, upgrading, stopping,
                   cooling, kick, sup, upgrade, cancelled, machine, bounds>>

Restore ==
    /\ apply.step = "rejected"
    /\ disk' = IF apply.good = NoConf THEN disk ELSE apply.good
    /\ apply' = [apply EXCEPT !.step = "idle"]
    /\ UNCHANGED <<fields, sup, upgrade, cancelled, files, starts, proc, bounds>>

-----------------------------------------------------------------------------
\* The kernel process and its waiter.

Free(p) ==
    /\ proc[p].state = "gone"
    /\ p \notin {child, planned, sup.pid, sup.watched, upgrade.pid}

\* The process reads its configuration; it gives up one it does not accept.
Load(p) ==
    /\ proc[p].state = "loading"
    /\ proc' = [proc EXCEPT ![p].conf = disk,
                            ![p].state = IF disk \in Valid THEN "up" ELSE "dead"]
    /\ UNCHANGED <<fields, apply, sup, upgrade, cancelled, disk, files, starts, bounds>>

\* It ends on a signal of gracefulStopCurrent, at the latest when killed.
Terminate(p) ==
    /\ proc[p].state \in {"loading", "up"} /\ proc[p].signalled
    /\ proc' = [proc EXCEPT ![p].state = "dead"]
    /\ UNCHANGED <<fields, apply, sup, upgrade, cancelled, disk, files, starts, bounds>>

Crash(p) ==
    /\ proc[p].state \in {"loading", "up"}
    /\ Fault
    /\ proc' = [proc EXCEPT ![p].state = "dead"]
    /\ UNCHANGED <<fields, apply, sup, upgrade, cancelled, disk, files, starts>>

\* awaitChild: the goroutine exists once spawn has recorded the child.  An end
\* nobody planned is an error, and an early one cools the supervisor down.
Reap(p) ==
    /\ proc[p].state = "dead"
    /\ ~(sup.at = "record" /\ sup.pid = p)
    /\ proc' = [proc EXCEPT ![p] = Gone]
    /\ \/ /\ planned = p
          /\ planned' = NoPid
          /\ UNCHANGED <<lastError, cooling>>
       \/ /\ planned # p
          /\ lastError' = "exit"
          /\ cooling' \in BOOLEAN
          /\ UNCHANGED planned
    /\ child' = IF child = p THEN NoPid ELSE child
    /\ UNCHANGED <<desired, wantRun, applied, upgrading, stopping, kick, apply, sup,
                   upgrade, cancelled, disk, files, starts, bounds>>

\* The time of nextStartAt comes.
CoolDown ==
    /\ cooling
    /\ cooling' = FALSE
    /\ UNCHANGED <<desired, wantRun, applied, child, planned, upgrading, stopping,
                   lastError, kick, apply, sup, upgrade, cancelled, machine, bounds>>

\* gracefulStopCurrent marks the child as stopping and signals it, then waits
\* until it is reaped.
StopUnplanned == planned
Planned == IF child = NoPid THEN planned ELSE child

SignalNone == proc
Signal ==
    [p \in Pids |-> IF p = child THEN [proc[p] EXCEPT !.signalled = TRUE] ELSE proc[p]]

StopChild == planned' = Planned /\ proc' = Signal

StoppedAtOnce(p) == TRUE
Stopped(p) == proc[p].state = "gone"

-----------------------------------------------------------------------------
\* The supervisor.

\* reconcile begins with a copy of the intent.
Snapshot ==
    /\ sup.at = "reconcile"
    /\ \/ /\ ~wantRun
          /\ sup' = [sup EXCEPT !.at = "stop", !.then = "loop", !.timer = FALSE]
       \/ /\ wantRun /\ upgrading
          /\ sup' = [sup EXCEPT !.at = "loop", !.timer = FALSE]
       \/ /\ wantRun /\ ~upgrading
          /\ sup' = [sup EXCEPT !.at = "compare", !.conf = desired, !.timer = FALSE]
    /\ UNCHANGED <<fields, apply, upgrade, cancelled, machine, bounds>>

Compare ==
    /\ sup.at = "compare"
    /\ \/ /\ child # NoPid /\ applied = sup.conf
          /\ sup' = [sup EXCEPT !.at = "loop"]
       \/ /\ child # NoPid /\ applied # sup.conf
          /\ sup' = [sup EXCEPT !.at = "stop", !.then = "backoff"]
       \/ /\ child = NoPid
          /\ sup' = [sup EXCEPT !.at = "backoff"]
    /\ UNCHANGED <<fields, apply, upgrade, cancelled, machine, bounds>>

SupStops ==
    /\ sup.at = "stop"
    /\ StopChild
    /\ sup' = [sup EXCEPT !.pid = child,
                          !.at = IF child = NoPid THEN sup.then ELSE "stopping"]
    /\ UNCHANGED <<desired, wantRun, applied, child, upgrading, stopping, lastError,
                   cooling, kick, apply, upgrade, cancelled, disk, files, starts, bounds>>

SupStopped ==
    /\ sup.at = "stopping"
    /\ Stopped(sup.pid)
    /\ sup' = [sup EXCEPT !.at = sup.then, !.pid = NoPid]
    /\ UNCHANGED <<fields, apply, upgrade, cancelled, machine, bounds>>

Backoff ==
    /\ sup.at = "backoff"
    /\ sup' = IF cooling THEN [sup EXCEPT !.at = "loop", !.timer = TRUE]
                         ELSE [sup EXCEPT !.at = "spawn"]
    /\ UNCHANGED <<fields, apply, upgrade, cancelled, machine, bounds>>

\* spawn: the process starts now, whatever it will find on the disk.
Spawn(p) ==
    /\ sup.at = "spawn"
    /\ Startable /\ Free(p)
    /\ proc' = [proc EXCEPT ![p] = [Gone EXCEPT !.state = "loading"]]
    /\ sup' = [sup EXCEPT !.at = "record", !.pid = p]
    /\ UNCHANGED <<fields, apply, upgrade, cancelled, disk, files, starts, bounds>>

SpawnFails ==
    /\ sup.at = "spawn"
    /\ \/ ~Startable /\ UNCHANGED bounds
       \/ Startable /\ Fault
    /\ cooling' = TRUE
    /\ lastError' = "start"
    /\ sup' = [sup EXCEPT !.at = "loop", !.timer = TRUE]
    /\ UNCHANGED <<desired, wantRun, applied, child, planned, upgrading, stopping, kick,
                   apply, upgrade, cancelled, machine>>

Record ==
    /\ sup.at = "record"
    /\ child' = sup.pid
    /\ planned' = NoPid
    /\ applied' = sup.conf
    /\ lastError' = "none"
    /\ sup' = [sup EXCEPT !.at = "loop", !.pid = NoPid]
    /\ UNCHANGED <<desired, wantRun, upgrading, stopping, cooling, kick, apply, upgrade,
                   cancelled, machine, bounds>>

\* Between two rounds the supervisor leaves, or looks which process to watch.
Loop ==
    /\ sup.at = "loop"
    /\ sup' = IF stopping /\ child = NoPid
                THEN [sup EXCEPT !.at = "quit"]
                ELSE [sup EXCEPT !.at = "wait", !.watched = child]
    /\ UNCHANGED <<fields, apply, upgrade, cancelled, machine, bounds>>

Wake ==
    /\ sup.at = "wait"
    /\ \/ kick /\ kick' = FALSE
       \/ sup.watched # NoPid /\ proc[sup.watched].state = "gone" /\ UNCHANGED kick
       \/ sup.timer /\ ~cooling /\ UNCHANGED kick
    /\ sup' = [sup EXCEPT !.at = "reconcile", !.watched = NoPid]
    /\ UNCHANGED <<desired, wantRun, applied, child, planned, upgrading, stopping,
                   lastError, cooling, apply, upgrade, cancelled, machine, bounds>>

Leave ==
    /\ sup.at = "wait" /\ cancelled
    /\ sup' = [sup EXCEPT !.at = "quit", !.watched = NoPid]
    /\ UNCHANGED <<fields, apply, upgrade, cancelled, machine, bounds>>

\* The deferred gracefulStopCurrent.
QuitAtOnce == [sup EXCEPT !.at = "done"]
Quitting == [sup EXCEPT !.at = "stop", !.then = "done"]
Quit ==
    /\ sup.at = "quit"
    /\ sup' = Quitting
    /\ UNCHANGED <<fields, apply, upgrade, cancelled, machine, bounds>>

-----------------------------------------------------------------------------
\* UpgradeKernelFiles, one call at a time; the files are downloaded already.

\* The new version accepts the configuration on the disk; from here on old is
\* what was installed before.
BeginUpgrade ==
    /\ upgrade.at = "idle" /\ ~cancelled /\ ~stopping
    /\ bounds.upgrades < MaxUpgrades
    /\ bounds' = [bounds EXCEPT !.upgrades = @ + 1]
    /\ disk \in Valid
    /\ upgrading' = TRUE
    /\ files' = [f \in FileNames |-> "old"]
    /\ \E new \in BOOLEAN :
           starts' = [v \in Versions |-> IF v = "old" THEN Startable ELSE new]
    /\ upgrade' = [upgrade EXCEPT !.at = "stop", !.next = 1, !.late = FALSE, !.result = "none"]
    /\ UNCHANGED <<desired, wantRun, applied, child, planned, stopping, lastError, cooling,
                   kick, apply, sup, cancelled, disk, proc>>

\* The kernel is stopped before the files are replaced, and again when the new
\* version has not started.
UpgradeGoesOn == IF upgrade.late THEN "undo" ELSE "replace"

UpgradeStops ==
    /\ upgrade.at = "stop"
    /\ StopChild
    /\ upgrade' = [upgrade EXCEPT !.pid = child,
                       !.at = IF child = NoPid THEN UpgradeGoesOn ELSE "stopping"]
    /\ UNCHANGED <<desired, wantRun, applied, child, upgrading, stopping, lastError,
                   cooling, kick, apply, sup, cancelled, disk, files, starts, bounds>>

UpgradeStopped ==
    /\ upgrade.at = "stopping"
    /\ Stopped(upgrade.pid)
    /\ upgrade' = [upgrade EXCEPT !.at = UpgradeGoesOn, !.pid = NoPid]
    /\ UNCHANGED <<fields, apply, sup, cancelled, machine, bounds>>

\* AtomicReplaceWithBackup: the old file moves away, then the new one takes its
\* place, or the old one comes back and the files already replaced are undone.
MoveAway ==
    /\ upgrade.at = "replace" /\ upgrade.next <= Len(Files)
    /\ files' = [files EXCEPT ![Files[upgrade.next]] = "missing"]
    /\ upgrade' = [upgrade EXCEPT !.at = "moved"]
    /\ UNCHANGED <<fields, apply, sup, cancelled, disk, starts, proc, bounds>>

Place ==
    /\ upgrade.at = "moved"
    /\ files' = [files EXCEPT ![Files[upgrade.next]] = "new"]
    /\ upgrade' = [upgrade EXCEPT !.at = "replace", !.next = @ + 1]
    /\ UNCHANGED <<fields, apply, sup, cancelled, disk, starts, proc, bounds>>

PlaceFails ==
    /\ upgrade.at = "moved"
    /\ Fault
    /\ files' = [files EXCEPT ![Files[upgrade.next]] = "old"]
    /\ upgrade' = [upgrade EXCEPT !.at = "undo"]
    /\ UNCHANGED <<fields, apply, sup, cancelled, disk, starts, proc>>

\* All files are in place: the supervisor shall start the new version.
Switch ==
    /\ upgrade.at = "replace" /\ upgrade.next > Len(Files)
    /\ applied' = NoConf
    /\ upgrading' = FALSE
    /\ Kick
    /\ upgrade' = IF wantRun THEN [upgrade EXCEPT !.at = "await"]
                             ELSE [upgrade EXCEPT !.at = "idle", !.result = "succeeded"]
    /\ UNCHANGED <<desired, wantRun, child, planned, stopping, lastError, cooling, apply,
                   sup, cancelled, machine, bounds>>

\* waitForRunning looks for any child.
Confirm ==
    /\ upgrade.at = "await"
    /\ child # NoPid
    /\ Kick
    /\ upgrade' = [upgrade EXCEPT !.at = "idle", !.result = "succeeded"]
    /\ UNCHANGED <<desired, wantRun, applied, child, planned, upgrading, stopping,
                   lastError, cooling, apply, sup, cancelled, machine, bounds>>

GiveUp ==
    /\ upgrade.at = "await"
    /\ child = NoPid
    /\ upgrading' = TRUE
    /\ upgrade' = [upgrade EXCEPT !.at = "stop", !.late = TRUE]
    /\ UNCHANGED <<desired, wantRun, applied, child, planned, stopping, lastError, cooling,
                   kick, apply, sup, cancelled, machine, bounds>>

\* rollbackReplacements restores the backups, the last file first.
RollbackNothing(f) == files
RollbackHalf(f) == [files EXCEPT ![f] = "failed"]
Rollback(f) == [files EXCEPT ![f] = "old"]

Undo ==
    /\ upgrade.at = "undo" /\ upgrade.next > 1
    /\ files' = Rollback(Files[upgrade.next - 1])
    /\ upgrade' = [upgrade EXCEPT !.next = @ - 1]
    /\ UNCHANGED <<fields, apply, sup, cancelled, disk, starts, proc, bounds>>

Undone ==
    /\ upgrade.at = "undo" /\ upgrade.next = 1
    /\ applied' = IF upgrade.late THEN NoConf ELSE applied
    /\ upgrading' = FALSE
    /\ Kick
    /\ upgrade' = [upgrade EXCEPT !.at = "idle", !.result = "failed"]
    /\ UNCHANGED <<desired, wantRun, child, planned, stopping, lastError, cooling, apply,
                   sup, cancelled, machine, bounds>>

-----------------------------------------------------------------------------
\* The agent is stopped: its context is cancelled, then Shutdown is called.
Cancel ==
    /\ ~cancelled
    /\ cancelled' = TRUE
    /\ UNCHANGED <<fields, apply, sup, upgrade, machine, bounds>>

Shutdown ==
    /\ cancelled /\ ~stopping
    /\ apply.step = "idle"
    /\ wantRun' = FALSE
    /\ stopping' = TRUE
    /\ Kick
    /\ UNCHANGED <<desired, applied, child, planned, upgrading, lastError, cooling, apply,
                   sup, upgrade, cancelled, machine, bounds>>

Supervise ==
    \/ Snapshot \/ Compare \/ SupStops \/ SupStopped \/ Backoff
    \/ (\E p \in Pids : Spawn(p)) \/ SpawnFails \/ Record
    \/ Loop \/ Wake \/ Leave \/ Quit

Upgrade ==
    \/ UpgradeStops \/ UpgradeStopped \/ MoveAway \/ Place \/ PlaceFails
    \/ Switch \/ Confirm \/ GiveUp \/ Undo \/ Undone

Next ==
    \/ \E conf \in Configs : WriteConfig(conf)
    \/ Accept \/ Reject \/ Restore
    \/ \E p \in Pids : Load(p) \/ Terminate(p) \/ Crash(p) \/ Reap(p)
    \/ CoolDown
    \/ Supervise
    \/ BeginUpgrade
    \/ Upgrade
    \/ Cancel \/ Shutdown

Spec == Init /\ [][Next]_vars

\* Goroutines and the kernel run, time passes.
Fairness ==
    /\ WF_vars(Accept \/ Reject \/ Restore)
    /\ WF_vars(Supervise)
    /\ WF_vars(Upgrade)
    /\ WF_vars(CoolDown)
    /\ WF_vars(Shutdown)
    /\ \A p \in Pids : WF_vars(Load(p) \/ Terminate(p)) /\ WF_vars(Reap(p))

FairSpec == Spec /\ Fairness

-----------------------------------------------------------------------------
Alive(p) == proc[p].state \in {"loading", "up"}

\* Two kernels never run at once, whoever stops one and starts the next
\* (reconcile, gracefulStopCurrent).
OneKernel == \A p, q \in Pids : Alive(p) /\ Alive(q) => p = q

\* A kernel stopped on purpose is no failure: reaping it records no error and
\* delays no start, also when an upgrade and the supervisor stop it at once
\* (stoppingChild, awaitChild; ARCHITECTURE.md on planned restarts).
PlannedStopsAreNoFailures ==
    [][\A p \in Pids :
        proc[p].state = "dead" /\ proc[p].signalled /\ proc'[p].state = "gone"
            => UNCHANGED <<lastError, cooling>>]_vars

\* The package is replaced as a whole: after an upgrade every file has the
\* version its result says, through failed replacements and versions that do not
\* start (UpgradeKernelFiles, rollbackReplacements).
PackageIsWhole ==
    upgrade.at = "idle" /\ upgrade.result # "none" =>
        \A f \in FileNames :
            files[f] = IF upgrade.result = "succeeded" THEN "new" ELSE "old"

\* Once the supervisor has left, no kernel stays behind (supervisor's deferred
\* gracefulStopCurrent).
NoKernelLeftBehind == sup.at = "done" => \A p \in Pids : ~Alive(p)

\* A configuration the manager has accepted is what it starts the kernel with in
\* the end, unless the next one or a shutdown comes first or an upgrade has left
\* a version that cannot be started: through crashes, failed starts and upgrades
\* no wake-up is lost on it (ApplyConfig, kickSupervisor, reconcile).
AcceptedConfigIsStarted ==
    \A conf \in Valid :
        desired = conf /\ applied # conf
            ~> applied = conf \/ desired # conf \/ cancelled \/ ~Startable

\* Shutdown ends the supervisor (Shutdown, supervisor).
ShutdownEnds == stopping ~> sup.at = "done"
=============================================================================
