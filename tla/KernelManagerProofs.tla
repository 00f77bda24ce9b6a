------------------------- MODULE KernelManagerProofs -------------------------
(***************************************************************************)
(* Proofs about KernelManager, for any configurations, packages and        *)
(* processes and any number of faults and upgrades.                        *)
(***************************************************************************)
EXTENDS KernelManager, TLAPS

LEMMA InitTypeOK == Init => TypeOK
<1> SUFFICES ASSUME Init PROVE TypeOK
  OBVIOUS
<1>1. apply \in Applies /\ sup \in Sups /\ upgrade \in Upgrading
  BY DEF Init, Applies, Sups, Upgrading, ConfigsOrNone, PidsOrNone
<1>2. proc \in [Pids -> Procs]
  BY DEF Init, Gone, Procs, ConfigsOrNone
<1>3. files \in [FileNames -> Versions \cup {"missing"}] /\ starts \in [Versions -> BOOLEAN]
  BY DEF Init, Versions
<1>4. bounds \in [applies : 0 .. MaxApplies, faults : 0 .. MaxFaults,
                  upgrades : 0 .. MaxUpgrades]
  BY KernelAssumption DEF Init, KernelAssumption
<1> QED
  BY <1>1, <1>2, <1>3, <1>4 DEF Init, TypeOK, ConfigsOrNone, PidsOrNone

LEMMA NextTypeOK == TypeOK /\ [Next]_vars => TypeOK'
<1> SUFFICES ASSUME TypeOK, [Next]_vars PROVE TypeOK'
  OBVIOUS
<1>1. CASE Accept
  <2>1. apply' \in Applies
    BY <1>1 DEF Accept, Applies, ConfigsOrNone, TypeOK
  <2>2. apply.conf \in ConfigsOrNone
    BY DEF Applies, TypeOK
  <2> QED
    BY <1>1, <2>1, <2>2 DEF Accept, Kick, Kicked, TypeOK, machine
<1>2. CASE Reject
  <2>1. apply' \in Applies
    BY <1>2 DEF Reject, Applies, ConfigsOrNone, TypeOK
  <2> QED
    BY <1>2, <2>1 DEF Reject, TypeOK, fields, machine, ConfigsOrNone, PidsOrNone
<1>3. CASE Restore
  <2>1. apply' \in Applies
    BY <1>3 DEF Restore, Applies, ConfigsOrNone, TypeOK
  <2>2. apply.good \in ConfigsOrNone
    BY DEF Applies, TypeOK
  <2> QED
    BY <1>3, <2>1, <2>2 DEF Restore, TypeOK, fields
<1>4. CASE \E p \in Pids : Load(p)
  <2>0. PICK p \in Pids : Load(p)
    BY <1>4
  <2>1. proc' \in [Pids -> Procs]
    BY <2>0 DEF Load, Procs, ConfigsOrNone, TypeOK
  <2> QED
    BY <2>0, <2>1 DEF Load, TypeOK, fields, machine, ConfigsOrNone, PidsOrNone
<1>5. CASE \E p \in Pids : Terminate(p)
  <2>0. PICK p \in Pids : Terminate(p)
    BY <1>5
  <2>1. proc' \in [Pids -> Procs]
    BY <2>0 DEF Terminate, Procs, ConfigsOrNone, TypeOK
  <2> QED
    BY <2>0, <2>1 DEF Terminate, TypeOK, fields, machine, ConfigsOrNone, PidsOrNone
<1>6. CASE \E p \in Pids : Crash(p)
  <2>0. PICK p \in Pids : Crash(p)
    BY <1>6
  <2>1. proc' \in [Pids -> Procs]
    BY <2>0 DEF Crash, Fault, Procs, ConfigsOrNone, TypeOK
  <2>2. bounds' \in [applies : 0 .. MaxApplies, faults : 0 .. MaxFaults,
  upgrades : 0 .. MaxUpgrades]
    BY <2>0, KernelAssumption DEF Crash, Fault, KernelAssumption, TypeOK
  <2> QED
    BY <2>0, <2>1, <2>2 DEF Crash, Fault, TypeOK, fields, machine, ConfigsOrNone,
       PidsOrNone
<1>7. CASE \E p \in Pids : Reap(p)
  <2>0. PICK p \in Pids : Reap(p)
    BY <1>7
  <2>1. proc' \in [Pids -> Procs]
    BY <2>0 DEF Reap, Gone, Procs, ConfigsOrNone, TypeOK
  <2> QED
    BY <2>0, <2>1 DEF Reap, Gone, TypeOK, fields, machine, ConfigsOrNone, PidsOrNone
<1>8. CASE CoolDown
  BY <1>8 DEF CoolDown, TypeOK, fields, machine
<1>9. CASE Snapshot
  <2>1. \/ sup' = [sup EXCEPT !.at = "stop", !.then = "loop", !.timer = FALSE]
        \/ sup' = [sup EXCEPT !.at = "loop", !.timer = FALSE]
        \/ sup' = [sup EXCEPT !.at = "compare", !.conf = desired, !.timer = FALSE]
    BY <1>9, Zenon DEF Snapshot
  <2>2. sup' \in Sups
    BY ZenonT(40), <2>1 DEF Sups, TypeOK
  <2> QED
    BY <1>9, <2>2 DEF Snapshot, TypeOK, fields, machine
<1>10. CASE Compare
  <2>1. sup' \in Sups
    BY ZenonT(40), <1>10 DEF Compare, Sups, ConfigsOrNone, PidsOrNone, TypeOK
  <2> QED
    BY <1>10, <2>1 DEF Compare, TypeOK, fields, machine, ConfigsOrNone, PidsOrNone
<1>11. CASE SupStops
  <2>1. sup' \in Sups
    BY <1>11 DEF SupStops, StopChild, Planned, Signal, Sups, ConfigsOrNone, PidsOrNone,
       TypeOK
  <2>2. proc' \in [Pids -> Procs]
    BY ZenonT(40), <1>11 DEF SupStops, StopChild, Planned, Signal, Procs, ConfigsOrNone, TypeOK
  <2> QED
    BY <1>11, <2>1, <2>2 DEF SupStops, StopChild, Planned, Signal, TypeOK, fields,
       machine, ConfigsOrNone, PidsOrNone
<1>12. CASE SupStopped
  <2>1. sup' \in Sups
    BY <1>12 DEF SupStopped, Sups, ConfigsOrNone, PidsOrNone, TypeOK
  <2> QED
    BY <1>12, <2>1 DEF SupStopped, TypeOK, fields, machine, ConfigsOrNone, PidsOrNone
<1>13. CASE Backoff
  <2>1. sup' \in Sups
    BY <1>13 DEF Backoff, Sups, ConfigsOrNone, PidsOrNone, TypeOK
  <2> QED
    BY <1>13, <2>1 DEF Backoff, TypeOK, fields, machine, ConfigsOrNone, PidsOrNone
<1>14. CASE \E p \in Pids : Spawn(p)
  <2>0. PICK p \in Pids : Spawn(p)
    BY <1>14
  <2>1. sup' \in Sups
    BY <2>0 DEF Spawn, Gone, Sups, ConfigsOrNone, PidsOrNone, TypeOK
  <2>2. proc' \in [Pids -> Procs]
    BY <2>0 DEF Spawn, Gone, Procs, ConfigsOrNone, TypeOK
  <2> QED
    BY <2>0, <2>1, <2>2 DEF Spawn, Gone, TypeOK, fields, machine, ConfigsOrNone,
       PidsOrNone
<1>15. CASE SpawnFails
  <2>1. sup' \in Sups
    BY <1>15 DEF SpawnFails, Fault, Sups, ConfigsOrNone, PidsOrNone, TypeOK
  <2>2. bounds' \in [applies : 0 .. MaxApplies, faults : 0 .. MaxFaults,
  upgrades : 0 .. MaxUpgrades]
    BY <1>15, KernelAssumption DEF SpawnFails, Fault, KernelAssumption, TypeOK
  <2> QED
    BY <1>15, <2>1, <2>2 DEF SpawnFails, Fault, TypeOK, fields, machine, ConfigsOrNone,
       PidsOrNone
<1>16. CASE Record
  <2>1. sup' \in Sups
    BY <1>16 DEF Record, Sups, PidsOrNone, TypeOK
  <2>2. sup.pid \in PidsOrNone /\ sup.conf \in ConfigsOrNone
    BY DEF Sups, TypeOK
  <2> QED
    BY <1>16, <2>1, <2>2 DEF Record, TypeOK, machine, PidsOrNone
<1>17. CASE Loop
  <2>1. sup' \in Sups
    BY <1>17 DEF Loop, Sups, ConfigsOrNone, PidsOrNone, TypeOK
  <2> QED
    BY <1>17, <2>1 DEF Loop, TypeOK, fields, machine, ConfigsOrNone, PidsOrNone
<1>18. CASE Wake
  <2>1. sup' \in Sups
    BY <1>18 DEF Wake, Sups, PidsOrNone, TypeOK
  <2>2. kick' = FALSE \/ kick' = kick
    BY <1>18, Zenon DEF Wake
  <2> QED
    BY <1>18, <2>1, <2>2 DEF Wake, TypeOK, machine
<1>19. CASE Leave
  <2>1. sup' \in Sups
    BY <1>19 DEF Leave, Sups, ConfigsOrNone, PidsOrNone, TypeOK
  <2> QED
    BY <1>19, <2>1 DEF Leave, TypeOK, fields, machine, ConfigsOrNone, PidsOrNone
<1>20. CASE Quit
  <2>1. sup' \in Sups
    BY <1>20 DEF Quit, Quitting, Sups, ConfigsOrNone, PidsOrNone, TypeOK
  <2> QED
    BY <1>20, <2>1 DEF Quit, Quitting, TypeOK, fields, machine, ConfigsOrNone,
       PidsOrNone
<1>21. CASE BeginUpgrade
  <2>1. upgrade' \in Upgrading
    BY <1>21 DEF BeginUpgrade, Upgrading, TypeOK
  <2>2. bounds' \in [applies : 0 .. MaxApplies, faults : 0 .. MaxFaults,
  upgrades : 0 .. MaxUpgrades]
    BY <1>21, KernelAssumption DEF KernelAssumption, BeginUpgrade, TypeOK
  <2>3. files' \in [FileNames -> Versions \cup {"missing"}]
    BY <1>21 DEF BeginUpgrade, Versions
  <2>4. PICK new \in BOOLEAN :
            starts' = [v \in Versions |-> IF v = "old" THEN Startable ELSE new]
    BY <1>21, Zenon DEF BeginUpgrade
  <2>5. Startable \in BOOLEAN
    BY DEF Startable
  <2>6. starts' \in [Versions -> BOOLEAN]
    BY <2>4, <2>5
  <2> QED
    BY <1>21, <2>1, <2>2, <2>3, <2>6 DEF BeginUpgrade, TypeOK
<1>22. CASE UpgradeStops
  <2>1. upgrade' \in Upgrading
    BY <1>22 DEF UpgradeStops, StopChild, Planned, Signal, UpgradeGoesOn, Upgrading,
       PidsOrNone, TypeOK
  <2>2. proc' \in [Pids -> Procs]
    BY ZenonT(40), <1>22 DEF UpgradeStops, StopChild, Planned, Signal, UpgradeGoesOn, Procs,
       ConfigsOrNone, TypeOK
  <2> QED
    BY <1>22, <2>1, <2>2 DEF UpgradeStops, StopChild, Planned, Signal, UpgradeGoesOn,
       TypeOK, fields, machine, ConfigsOrNone, PidsOrNone
<1>23. CASE UpgradeStopped
  <2>1. upgrade' \in Upgrading
    BY <1>23 DEF UpgradeStopped, UpgradeGoesOn, Upgrading, PidsOrNone, TypeOK
  <2> QED
    BY <1>23, <2>1 DEF UpgradeStopped, UpgradeGoesOn, TypeOK, fields, machine,
       ConfigsOrNone, PidsOrNone
<1>24. CASE MoveAway
  <2>1. upgrade' \in Upgrading
    BY <1>24 DEF MoveAway, Upgrading, PidsOrNone, TypeOK
  <2>2. files' \in [FileNames -> Versions \cup {"missing"}]
    BY <1>24, KernelAssumption DEF MoveAway, FileNames, TypeOK
  <2> QED
    BY <1>24, <2>1, <2>2 DEF MoveAway, TypeOK, fields, machine, ConfigsOrNone,
       PidsOrNone
<1>25. CASE Place
  <2>1. PICK n \in Nat : n = upgrade.next + 1
    BY DEF TypeOK, Upgrading
  <2>2. upgrade' = [upgrade EXCEPT !.at = "replace", !.next = n]
    BY <1>25, <2>1 DEF Place
  <2>3. upgrade' \in Upgrading
    BY <2>2 DEF Upgrading, TypeOK
  <2>4. files' \in [FileNames -> Versions \cup {"missing"}]
    BY <1>25 DEF Place, Versions, FileNames, TypeOK
  <2> QED
    BY <1>25, <2>3, <2>4 DEF Place, TypeOK, fields
<1>26. CASE PlaceFails
  <2>1. upgrade' \in Upgrading
    BY <1>26 DEF PlaceFails, Fault, Versions, Upgrading, PidsOrNone, TypeOK
  <2>2. files' \in [FileNames -> Versions \cup {"missing"}]
    BY <1>26, KernelAssumption DEF PlaceFails, Fault, Versions, FileNames, TypeOK
  <2>3. bounds' \in [applies : 0 .. MaxApplies, faults : 0 .. MaxFaults,
  upgrades : 0 .. MaxUpgrades]
    BY <1>26, KernelAssumption DEF PlaceFails, Fault, Versions, KernelAssumption, TypeOK
  <2> QED
    BY <1>26, <2>1, <2>2, <2>3 DEF PlaceFails, Fault, Versions, TypeOK, fields,
       machine, ConfigsOrNone, PidsOrNone
<1>27. CASE Switch
  <2>1. upgrade' \in Upgrading
    BY <1>27 DEF Switch, Kick, Kicked, Upgrading, PidsOrNone, TypeOK
  <2> QED
    BY ZenonT(40), <1>27, <2>1 DEF Switch, Kick, Kicked, TypeOK, fields, machine, ConfigsOrNone,
       PidsOrNone
<1>28. CASE Confirm
  <2>1. upgrade' \in Upgrading
    BY <1>28 DEF Confirm, Kick, Kicked, Upgrading, PidsOrNone, TypeOK
  <2> QED
    BY <1>28, <2>1 DEF Confirm, Kick, Kicked, TypeOK, fields, machine, ConfigsOrNone,
       PidsOrNone
<1>29. CASE GiveUp
  <2>1. upgrade' \in Upgrading
    BY <1>29 DEF GiveUp, Upgrading, PidsOrNone, TypeOK
  <2> QED
    BY <1>29, <2>1 DEF GiveUp, TypeOK, fields, machine, ConfigsOrNone, PidsOrNone
<1>30. CASE Undo
  <2>1. upgrade' \in Upgrading
    BY <1>30 DEF Undo, Rollback, Versions, Upgrading, PidsOrNone, TypeOK
  <2>2. files' \in [FileNames -> Versions \cup {"missing"}]
    BY <1>30, KernelAssumption DEF Undo, Rollback, Versions, FileNames, TypeOK
  <2> QED
    BY <1>30, <2>1, <2>2 DEF Undo, Rollback, Versions, TypeOK, fields, machine,
       ConfigsOrNone, PidsOrNone
<1>31. CASE Undone
  <2>1. upgrade' \in Upgrading
    BY <1>31 DEF Undone, Kick, Kicked, Upgrading, PidsOrNone, TypeOK
  <2> QED
    BY <1>31, <2>1 DEF Undone, Kick, Kicked, TypeOK, fields, machine, ConfigsOrNone,
       PidsOrNone
<1>32. CASE Cancel
  BY <1>32 DEF Cancel, TypeOK, fields, machine
<1>33. CASE Shutdown
  BY <1>33 DEF Shutdown, Kick, Kicked, TypeOK, fields, machine
<1>34. CASE \E conf \in Configs : WriteConfig(conf)
  <2>0. PICK conf \in Configs : WriteConfig(conf)
    BY <1>34
  <2>1. apply' \in Applies
    BY <2>0 DEF WriteConfig, Applies, ConfigsOrNone, TypeOK
  <2>2. bounds' \in [applies : 0 .. MaxApplies, faults : 0 .. MaxFaults,
  upgrades : 0 .. MaxUpgrades]
    BY <2>0, KernelAssumption DEF WriteConfig, KernelAssumption, TypeOK
  <2> QED
    BY <2>0, <2>1, <2>2 DEF WriteConfig, TypeOK, fields, machine, ConfigsOrNone,
       PidsOrNone
<1>35. CASE UNCHANGED vars
  BY <1>35 DEF vars, fields, machine, TypeOK
<1> QED
  BY <1>1, <1>2, <1>3, <1>4, <1>5, <1>6, <1>7, <1>8, <1>9, <1>10, <1>11, <1>12, <1>13,
     <1>14, <1>15, <1>16, <1>17, <1>18, <1>19, <1>20, <1>21, <1>22, <1>23, <1>24,
     <1>25, <1>26, <1>27, <1>28, <1>29, <1>30, <1>31, <1>32, <1>33, <1>34,
     <1>35 DEF Next, Supervise, Upgrade

\* Type correctness.
THEOREM TypeCorrect == Spec => []TypeOK
  BY InitTypeOK, NextTypeOK, PTL DEF Spec

-----------------------------------------------------------------------------
\* Who owns a process

\* Every process has one owner.  It is the recorded child, or the one the
\* supervisor has started and not recorded yet, and the supervisor starts one
\* only when there is none (reconcile, spawn, awaitChild).
OneOwner ==
    /\ \A p \in Pids : proc[p].state # "gone" =>
           p = child \/ (sup.at = "record" /\ p = sup.pid)
    /\ child \in Pids => proc[child].state # "gone"
    /\ sup.at \in {"backoff", "spawn", "record", "done"} => child = NoPid
    /\ sup.at = "stopping" => child \in {NoPid, sup.pid}
    /\ sup.at = "record" => sup.pid \in Pids /\ proc[sup.pid].state # "gone"

LEMMA InitOneOwner == Init => OneOwner
  BY KernelAssumption DEF Init, OneOwner, Gone, KernelAssumption

LEMMA NextOneOwner == TypeOK /\ OneOwner /\ [Next]_vars => OneOwner'
<1> SUFFICES ASSUME TypeOK, OneOwner, [Next]_vars PROVE OneOwner'
  OBVIOUS
<1> USE KernelAssumption DEF KernelAssumption
<1>s. sup \in Sups /\ child \in PidsOrNone
  BY DEF TypeOK
<1>p. proc \in [Pids -> Procs]
  BY DEF TypeOK
\* the goroutines that leave the processes and their owners alone
<1>1. ASSUME UNCHANGED <<child, sup, proc>> PROVE OneOwner'
  BY <1>1 DEF OneOwner
<1>2. CASE (\E conf \in Configs : WriteConfig(conf)) \/ Accept \/ Reject \/ Restore
  BY <1>1, <1>2 DEF WriteConfig, Accept, Reject, Restore, fields, machine
<1>3. CASE CoolDown \/ Cancel \/ Shutdown \/ BeginUpgrade \/ UNCHANGED vars
  BY <1>1, <1>3 DEF CoolDown, Cancel, Shutdown, BeginUpgrade, vars, fields, machine
<1>4. CASE \/ UpgradeStopped \/ MoveAway \/ Place \/ PlaceFails
           \/ Switch \/ Confirm \/ GiveUp \/ Undo \/ Undone
  BY <1>1, <1>4 DEF UpgradeStopped, MoveAway, Place, PlaceFails, Switch, Confirm, GiveUp,
     Undo, Undone, fields, machine
\* the processes
<1>5. CASE \E p \in Pids : Load(p) \/ Terminate(p) \/ Crash(p)
  BY <1>5, <1>p DEF Load, Terminate, Crash, OneOwner, fields, Procs
<1>6. CASE \E p \in Pids : Reap(p)
  BY <1>6, <1>p DEF Reap, Gone, OneOwner, Procs
<1>7. CASE UpgradeStops
  BY <1>7, <1>p DEF UpgradeStops, StopChild, Signal, OneOwner, Procs
\* the supervisor
<1>8. CASE Snapshot
  BY ZenonT(40), <1>8, <1>s DEF Snapshot, OneOwner, fields, machine, Sups, PidsOrNone
<1>9. CASE Compare
  BY <1>9, <1>s DEF Compare, OneOwner, fields, machine, Sups, PidsOrNone
<1>10. CASE SupStops
  BY <1>10, <1>s, <1>p DEF SupStops, StopChild, Signal, OneOwner, Sups, PidsOrNone, Procs
<1>11. CASE SupStopped
  BY <1>11, <1>s DEF SupStopped, Stopped, OneOwner, fields, machine, Sups, PidsOrNone
<1>12. CASE Backoff
  BY <1>12, <1>s DEF Backoff, OneOwner, fields, machine, Sups, PidsOrNone
<1>13. CASE \E p \in Pids : Spawn(p)
  BY <1>13, <1>s, <1>p DEF Spawn, Gone, Free, OneOwner, fields, Sups, PidsOrNone, Procs
<1>14. CASE SpawnFails
  BY <1>14, <1>s DEF SpawnFails, OneOwner, machine, Sups, PidsOrNone
<1>15. CASE Record
  BY <1>15, <1>s DEF Record, OneOwner, machine, Sups, PidsOrNone
<1>16. CASE Loop
  BY <1>16, <1>s DEF Loop, OneOwner, fields, machine, Sups, PidsOrNone
<1>17. CASE Wake
  BY <1>17, <1>s DEF Wake, OneOwner, machine, Sups, PidsOrNone
<1>18. CASE Leave
  BY <1>18, <1>s DEF Leave, OneOwner, fields, machine, Sups, PidsOrNone
<1>19. CASE Quit
  BY <1>19, <1>s DEF Quit, Quitting, OneOwner, fields, machine, Sups, PidsOrNone
<1> QED
  BY <1>2, <1>3, <1>4, <1>5, <1>6, <1>7, <1>8, <1>9, <1>10, <1>11, <1>12, <1>13, <1>14,
     <1>15, <1>16, <1>17, <1>18, <1>19 DEF Next, Supervise, Upgrade

\* Every process has one owner (OneOwner), the reason for what follows.
THEOREM AlwaysOneOwner == Spec => []OneOwner
  BY InitOneOwner, NextOneOwner, TypeCorrect, PTL DEF Spec

\* Two kernels never run at once (OneKernel): the owner is one.
THEOREM NeverTwoKernels == Spec => []OneKernel
<1>1. OneOwner => OneKernel
  BY KernelAssumption DEF OneOwner, OneKernel, Alive, KernelAssumption
<1> QED
  BY <1>1, AlwaysOneOwner, PTL

\* No kernel stays behind when the supervisor has left (NoKernelLeftBehind): it
\* leaves only without a child, and a child is the only process there can be.
THEOREM NothingLeftBehind == Spec => []NoKernelLeftBehind
<1>1. OneOwner => NoKernelLeftBehind
  BY KernelAssumption DEF OneOwner, NoKernelLeftBehind, Alive, KernelAssumption
<1> QED
  BY <1>1, AlwaysOneOwner, PTL

-----------------------------------------------------------------------------
\* Planned stops

\* A process that was signalled is the one whose end is planned, as long as it is
\* not reaped; the supervisor forgets what was planned only when it records a
\* process nobody has signalled yet (spawn, gracefulStopCurrent).
SignalledIsPlanned ==
    /\ \A p \in Pids : proc[p].state # "gone" /\ proc[p].signalled => planned = p
    /\ sup.at = "record" => ~proc[sup.pid].signalled

LEMMA InitSignalledIsPlanned == Init => SignalledIsPlanned
  BY DEF Init, SignalledIsPlanned, Gone

LEMMA NextSignalledIsPlanned ==
  TypeOK /\ OneOwner /\ SignalledIsPlanned /\ [Next]_vars => SignalledIsPlanned'
<1> SUFFICES ASSUME TypeOK, OneOwner, SignalledIsPlanned, [Next]_vars
             PROVE  SignalledIsPlanned'
  OBVIOUS
<1> USE KernelAssumption DEF KernelAssumption
<1>s. sup \in Sups /\ child \in PidsOrNone
  BY DEF TypeOK
<1>p. proc \in [Pids -> Procs]
  BY DEF TypeOK
<1>1. ASSUME UNCHANGED <<planned, proc>>, sup'.at # "record" \/ UNCHANGED sup
      PROVE  SignalledIsPlanned'
  BY <1>1 DEF SignalledIsPlanned
<1>2. CASE (\E conf \in Configs : WriteConfig(conf)) \/ Accept \/ Reject \/ Restore
  BY <1>1, <1>2 DEF WriteConfig, Accept, Reject, Restore, fields, machine
<1>3. CASE CoolDown \/ Cancel \/ Shutdown \/ BeginUpgrade \/ UNCHANGED vars
  BY <1>1, <1>3 DEF CoolDown, Cancel, Shutdown, BeginUpgrade, vars, fields, machine
<1>4. CASE \/ UpgradeStopped \/ MoveAway \/ Place \/ PlaceFails
           \/ Switch \/ Confirm \/ GiveUp \/ Undo \/ Undone
  BY <1>1, <1>4 DEF UpgradeStopped, MoveAway, Place, PlaceFails, Switch, Confirm, GiveUp,
     Undo, Undone, fields, machine
<1>5. CASE \/ Snapshot \/ Compare \/ SupStopped \/ Backoff \/ SpawnFails
           \/ Loop \/ Wake \/ Leave \/ Quit
  <2>1. UNCHANGED <<planned, proc>>
    BY <1>5 DEF Snapshot, Compare, SupStopped, Backoff, SpawnFails, Loop, Wake, Leave,
       Quit, fields, machine
  <2>2. sup'.at # "record"
    BY <1>5, <1>s DEF Snapshot, Compare, SupStopped, Backoff, SpawnFails, Loop, Wake,
       Leave, Quit, Quitting, Sups
  <2> QED
    BY <1>1, <2>1, <2>2
<1>6. CASE \E p \in Pids : Load(p) \/ Terminate(p) \/ Crash(p)
  BY <1>6, <1>p DEF Load, Terminate, Crash, OneOwner, SignalledIsPlanned, fields, Procs
<1>7. CASE \E p \in Pids : Reap(p)
  BY <1>7, <1>p DEF Reap, Gone, OneOwner, SignalledIsPlanned, Procs
<1>8. CASE UpgradeStops
  BY <1>8, <1>p, <1>s DEF UpgradeStops, StopChild, Signal, Planned, OneOwner,
     SignalledIsPlanned, Procs, PidsOrNone
<1>9. CASE SupStops
  <2>1. sup'.at # "record"
    BY <1>9, <1>s DEF SupStops, Sups
  <2> QED
    BY <1>9, <2>1, <1>p, <1>s DEF SupStops, StopChild, Signal, Planned, OneOwner,
       SignalledIsPlanned, Procs, PidsOrNone
<1>10. CASE \E p \in Pids : Spawn(p)
  BY <1>10, <1>s, <1>p DEF Spawn, Gone, OneOwner, SignalledIsPlanned, fields, Sups, Procs
<1>11. CASE Record
  BY <1>11, <1>s DEF Record, OneOwner, SignalledIsPlanned, machine, Sups
<1> QED
  BY <1>2, <1>3, <1>4, <1>5, <1>6, <1>7, <1>8, <1>9, <1>10, <1>11
     DEF Next, Supervise, Upgrade

LEMMA PlannedStopStep ==
  TypeOK /\ OneOwner /\ SignalledIsPlanned /\ [Next]_vars =>
    [\A p \in Pids :
        proc[p].state = "dead" /\ proc[p].signalled /\ proc'[p].state = "gone"
            => UNCHANGED <<lastError, cooling>>]_vars
<1> SUFFICES ASSUME TypeOK, SignalledIsPlanned, [Next]_vars, NEW p \in Pids,
                    proc[p].state = "dead", proc[p].signalled, proc'[p].state = "gone"
             PROVE  UNCHANGED <<lastError, cooling>>
  OBVIOUS
<1>p. proc \in [Pids -> Procs]
  BY DEF TypeOK
<1>0. planned = p
  BY DEF SignalledIsPlanned
<1>1. ASSUME proc' = proc PROVE FALSE
  BY <1>1
<1>2. CASE (\E conf \in Configs : WriteConfig(conf)) \/ Accept \/ Reject \/ Restore
  BY <1>1, <1>2 DEF WriteConfig, Accept, Reject, Restore, machine
<1>3. CASE CoolDown \/ Cancel \/ Shutdown \/ BeginUpgrade \/ UNCHANGED vars
  BY <1>1, <1>3 DEF CoolDown, Cancel, Shutdown, BeginUpgrade, vars, machine
<1>4. CASE \/ UpgradeStopped \/ MoveAway \/ Place \/ PlaceFails
           \/ Switch \/ Confirm \/ GiveUp \/ Undo \/ Undone
  BY <1>1, <1>4 DEF UpgradeStopped, MoveAway, Place, PlaceFails, Switch, Confirm, GiveUp,
     Undo, Undone, machine
<1>5. CASE \/ Snapshot \/ Compare \/ SupStopped \/ Backoff \/ SpawnFails \/ Record
           \/ Loop \/ Wake \/ Leave \/ Quit
  BY <1>1, <1>5 DEF Snapshot, Compare, SupStopped, Backoff, SpawnFails, Record, Loop, Wake,
     Leave, Quit, machine
<1>6. CASE \E q \in Pids : Load(q) \/ Terminate(q) \/ Crash(q) \/ Spawn(q)
  BY <1>6, <1>p DEF Load, Terminate, Crash, Spawn, fields, Procs
<1>7. CASE SupStops \/ UpgradeStops
  BY <1>7, <1>p DEF SupStops, UpgradeStops, StopChild, Signal, Procs
<1>8. CASE \E q \in Pids : Reap(q)
  <2>1. PICK q \in Pids : Reap(q)
    BY <1>8
  <2>2. CASE q = p
    BY <2>1, <2>2, <1>0 DEF Reap
  <2>3. CASE q # p
    BY <2>1, <2>3, <1>p DEF Reap
  <2> QED
    BY <2>2, <2>3
<1> QED
  BY <1>2, <1>3, <1>4, <1>5, <1>6, <1>7, <1>8 DEF Next, Supervise, Upgrade

\* A stop on purpose is never taken for a failure (PlannedStopsAreNoFailures).
THEOREM PlannedStopsCount == Spec => PlannedStopsAreNoFailures
<1>1. Spec => []SignalledIsPlanned
  BY InitSignalledIsPlanned, NextSignalledIsPlanned, TypeCorrect, AlwaysOneOwner, PTL
     DEF Spec
<1> QED
  BY <1>1, TypeCorrect, AlwaysOneOwner, PlannedStopStep, PTL
     DEF Spec, PlannedStopsAreNoFailures

-----------------------------------------------------------------------------
\* Whole packages

\* What an upgrade has replaced so far: the files before next are new, the one
\* being moved is missing, the others are old; it waits for the new version with
\* all of them in place, and stops a kernel with either none or all.
Progress ==
    /\ upgrade.next \in 1 .. Len(Files) + 1
    /\ upgrade.at = "moved" => upgrade.next <= Len(Files)
    /\ upgrade.at = "await" => upgrade.next = Len(Files) + 1
    /\ upgrade.at \in {"stop", "stopping"} =>
           upgrade.next = IF upgrade.late THEN Len(Files) + 1 ELSE 1
    /\ upgrade.at # "idle" =>
           \A i \in 1 .. Len(Files) :
               files[Files[i]] = IF i < upgrade.next THEN "new"
                                 ELSE IF upgrade.at = "moved" /\ i = upgrade.next
                                        THEN "missing" ELSE "old"
    /\ PackageIsWhole

LEMMA InitProgress == Init => Progress
  BY KernelAssumption DEF Init, Progress, PackageIsWhole, KernelAssumption

LEMMA NextProgress == TypeOK /\ Progress /\ [Next]_vars => Progress'
<1> SUFFICES ASSUME TypeOK, Progress, [Next]_vars PROVE Progress'
  OBVIOUS
<1> USE DEF FileNames
<1>k. /\ Len(Files) \in Nat \ {0} /\ DOMAIN Files = 1 .. Len(Files)
      /\ \A i, j \in DOMAIN Files : Files[i] = Files[j] => i = j
  BY KernelAssumption DEF KernelAssumption
<1>u. upgrade \in Upgrading /\ files \in [FileNames -> Versions \cup {"missing"}]
  BY DEF TypeOK
<1>1. ASSUME UNCHANGED <<upgrade, files>> PROVE Progress'
  BY <1>1 DEF Progress, PackageIsWhole
<1>2. CASE (\E conf \in Configs : WriteConfig(conf)) \/ Accept \/ Reject \/ Restore
  BY <1>1, <1>2 DEF WriteConfig, Accept, Reject, Restore, machine
<1>3. CASE CoolDown \/ Cancel \/ Shutdown \/ UNCHANGED vars
  BY <1>1, <1>3 DEF CoolDown, Cancel, Shutdown, vars, machine
<1>4. CASE \E p \in Pids : Load(p) \/ Terminate(p) \/ Crash(p) \/ Reap(p)
  BY <1>1, <1>4 DEF Load, Terminate, Crash, Reap
<1>5. CASE Supervise
  BY <1>1, <1>5 DEF Supervise, Snapshot, Compare, SupStops, SupStopped, Backoff, Spawn,
     SpawnFails, Record, Loop, Wake, Leave, Quit, machine
<1>6. CASE BeginUpgrade
  BY <1>6, <1>k, <1>u DEF BeginUpgrade, Progress, PackageIsWhole, Upgrading
<1>7. CASE UpgradeStops \/ UpgradeStopped
  <2>1. files' = files /\ upgrade'.next = upgrade.next /\ upgrade'.late = upgrade.late
    BY <1>7, <1>u DEF UpgradeStops, UpgradeStopped, machine, Upgrading
  <2>2. upgrade.at \in {"stop", "stopping"} /\ upgrade'.at \in {"stopping", "replace", "undo"}
    BY <1>7, <1>u DEF UpgradeStops, UpgradeStopped, UpgradeGoesOn, Upgrading
  <2> QED
    BY <2>1, <2>2, <1>k, <1>u DEF Progress, PackageIsWhole, Upgrading
<1>8. CASE MoveAway
  BY <1>8, <1>k, <1>u DEF MoveAway, Progress, PackageIsWhole, Upgrading
<1>9. CASE Place
  BY <1>9, <1>k, <1>u DEF Place, Progress, PackageIsWhole, Upgrading
<1>10. CASE PlaceFails
  BY <1>10, <1>k, <1>u DEF PlaceFails, Progress, PackageIsWhole, Upgrading
<1>11. CASE Switch
  BY <1>11, <1>k, <1>u DEF Switch, Progress, PackageIsWhole, Upgrading, machine
<1>12. CASE Confirm
  BY <1>12, <1>k, <1>u DEF Confirm, Progress, PackageIsWhole, Upgrading, machine
<1>13. CASE GiveUp
  BY <1>13, <1>k, <1>u DEF GiveUp, Progress, PackageIsWhole, Upgrading, machine
<1>14. CASE Undo
  BY <1>14, <1>k, <1>u DEF Undo, Rollback, Progress, PackageIsWhole, Upgrading
<1>15. CASE Undone
  BY <1>15, <1>k, <1>u DEF Undone, Progress, PackageIsWhole, Upgrading, machine
<1> QED
  BY <1>2, <1>3, <1>4, <1>5, <1>6, <1>7, <1>8, <1>9, <1>10, <1>11, <1>12, <1>13, <1>14,
     <1>15 DEF Next, Upgrade

\* After an upgrade every file has the version its result says (PackageIsWhole).
THEOREM PackageStaysWhole == Spec => []PackageIsWhole
<1>1. Spec => []Progress
  BY InitProgress, NextProgress, TypeCorrect, PTL DEF Spec
<1>2. Progress => PackageIsWhole
  BY DEF Progress
<1> QED
  BY <1>1, <1>2, PTL
=============================================================================
