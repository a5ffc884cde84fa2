------------------------------ MODULE Session ------------------------------
(***************************************************************************)
(* The processes of one native session: start and close of the bridge      *)
(* (native.py), the supervisor that runs Claude inside a terminal, and the *)
(* sweep of a successor service (supervisor.py).  Three programs and the   *)
(* operating system share a run directory and a PID; each of them may die  *)
(* between two steps, and a PID may be given to somebody else.             *)
(*                                                                         *)
(* `dir` is the run directory as far as launch.json goes, `receipt` is     *)
(* native-pid.json.  A process may exit at any time, asked or not, so      *)
(* SIGTERM is a step without an effect of its own.  POSIX only.            *)
(***************************************************************************)
CONSTANTS
    ReadsFail,   \* process_start may fail to read a process that runs, also
                 \* after it could read it at the launch
    None

ASSUME SessionAssumption ==
    /\ ReadsFail \in BOOLEAN
    /\ None \notin {"identified", "unidentified", "claude", "other", "dead", "uncertain"}

VARIABLES
    service,     \* the bridge service: up, leaving, gone
    starting,    \* start(): preparing, launching, waiting, ready, failed
    closed,
    closing,     \* close(): no, evidence, identity, terminal, term, kill, verdict, done
    seen,        \* the receipt close() read
    identity,    \* close() verified that the PID is Claude's
    recycled,    \* close() found the PID in use by another process
    outcome,     \* NativeCleanupOutcome.process_dead: dead, uncertain
    dir,         \* absent, empty, launch, removed, archived
    receipt,     \* native-pid.json: with a start time (identified) or without
    terminal,    \* the terminal server runs
    supervisor,  \* none, started, spawned, watching, stopping, killed or refused (its
                 \* SIGKILL was), exited, denied (it exited, refused), died
    hangup,      \* the supervisor was told to stop
    claude,      \* none, running, zombie (not reaped), gone
    children,    \* other members of its process group run
    reused,      \* its PID belongs to another process
    sweep        \* of a successor: no; blind (it found no Claude to name), verified,
                 \* termed, hindered (it left early), finished

bridge    == <<service, starting, closed>>
teardown  == <<closing, seen, identity, recycled, outcome>>
disk      == <<dir, receipt>>
processes == <<claude, children, reused>>
pane      == <<terminal, supervisor, hangup>>
vars      == <<bridge, teardown, disk, processes, pane, sweep>>

Init ==
    /\ service = "up" /\ starting = "preparing" /\ closed = FALSE
    /\ closing = "no" /\ seen = None /\ identity = FALSE /\ recycled = FALSE
    /\ outcome = None
    /\ dir = "absent" /\ receipt = None
    /\ terminal = FALSE /\ supervisor = "none" /\ hangup = FALSE
    /\ claude = "none" /\ children = FALSE /\ reused = FALSE
    /\ sweep = "no"
----------------------------------------------------------------------------
(* The operating system *)

Supervised == supervisor \in {"spawned", "watching", "stopping", "killed", "refused"}

\* Nobody reaps a child for its parent; init does for an orphan.
Dead == IF Supervised THEN "zombie" ELSE "gone"

Orphaned == IF claude = "zombie" THEN "gone" ELSE claude

ClaudeExits ==
    /\ claude = "running"
    /\ claude' = Dead
    /\ UNCHANGED <<bridge, teardown, disk, children, reused, pane, sweep>>

\* The channel server and other helpers of Claude.
ChildStarts ==
    /\ claude = "running"
    /\ children' = TRUE
    /\ UNCHANGED <<bridge, teardown, disk, claude, reused, pane, sweep>>

ChildrenExit ==
    /\ children' = FALSE
    /\ UNCHANGED <<bridge, teardown, disk, claude, reused, pane, sweep>>

PidIsReused ==
    /\ claude = "gone"
    /\ reused' = TRUE
    /\ UNCHANGED <<bridge, teardown, disk, claude, children, pane, sweep>>

SupervisorDies ==
    /\ supervisor = "started" \/ Supervised
    /\ supervisor' = "died"
    /\ claude' = Orphaned
    /\ UNCHANGED <<bridge, teardown, disk, children, reused, terminal, hangup, sweep>>

ServiceLeaves ==
    /\ service = "up"
    /\ service' = "leaving"
    /\ UNCHANGED <<starting, closed, teardown, disk, processes, pane, sweep>>

\* An exit or a crash; its threads stop where they are.
ServiceGone ==
    /\ service # "gone"
    /\ service' = "gone"
    /\ UNCHANGED <<starting, closed, teardown, disk, processes, pane, sweep>>

\* What process_start says of the PID: Claude, another process or nothing.
Reading ==
    IF claude \in {"running", "zombie"} THEN "claude"
                                        ELSE IF reused THEN "other" ELSE None

Readings == {Reading} \cup (IF ReadsFail THEN {None} ELSE {})

PidAbsent == Reading = None

GroupKilled ==
    /\ claude' = IF claude = "running" THEN Dead ELSE claude
    /\ children' = FALSE

\* SIGKILL to the group, after its leader's identity was read once more.
KilledIfRead ==
    \/ Reading = "claude" /\ GroupKilled
    \/ Readings # {"claude"} /\ UNCHANGED <<claude, children>>

\* kill-server: the pane's process is hung up. Until it has installed its
\* handlers that ends it.
TerminalKilled ==
    /\ terminal' = FALSE
    /\ IF terminal /\ supervisor \in {"started", "spawned"}
       THEN /\ supervisor' = "died"
            /\ claude' = Orphaned
            /\ UNCHANGED hangup
       ELSE /\ hangup' = (hangup \/ terminal)
            /\ UNCHANGED <<supervisor, claude>>
----------------------------------------------------------------------------
(* NativeSession.start *)

Starts(phase) == service # "gone" /\ starting = phase

MakeRun ==
    /\ Starts("preparing") /\ dir = "absent"
    /\ dir' = "empty"
    /\ UNCHANGED <<bridge, teardown, receipt, processes, pane, sweep>>

\* launch.json, written before anything is launched; the directory may be gone.
WriteLaunch ==
    /\ Starts("preparing") /\ dir # "absent"
    /\ IF dir = "empty" THEN dir' = "launch" /\ starting' = "launching"
                        ELSE starting' = "failed" /\ UNCHANGED dir
    /\ UNCHANGED <<service, closed, teardown, receipt, processes, pane, sweep>>

\* Failures before the terminal is started leave the close to the client.
StartFails ==
    /\ Starts("preparing") \/ Starts("launching")
    /\ starting' = "failed"
    /\ UNCHANGED <<service, closed, teardown, disk, processes, pane, sweep>>

\* Mutant: the flag is not read again under the lock.
RefusedNever == FALSE

\* Under the session's lock: a session that is closed is not launched.
Refused == closed

Launch ==
    /\ Starts("launching")
    /\ IF Refused
       THEN starting' = "failed" /\ UNCHANGED <<terminal, supervisor>>
       ELSE starting' = "waiting" /\ terminal' = TRUE /\ supervisor' = "started"
    /\ UNCHANGED <<service, closed, teardown, disk, processes, hangup, sweep>>

Ready ==
    /\ Starts("waiting") /\ ~closed /\ terminal /\ children
    /\ starting' = "ready"
    /\ UNCHANGED <<service, closed, teardown, disk, processes, pane, sweep>>

\* The terminal failed; cancelled, timed out or lost: start closes the session, as
\* `Close` does.
WaitFails ==
    /\ Starts("launching") \/ Starts("waiting")
    /\ starting' = "failed"
    /\ closed' = TRUE
    /\ closing' = IF closed THEN closing ELSE "evidence"
    /\ UNCHANGED <<service, seen, identity, recycled, outcome, disk, processes,
                   pane, sweep>>
----------------------------------------------------------------------------
(* NativeSession.close: the client, the janitor or a failed exchange calls it. *)
(* The first call does the work, the others return what there is.             *)

Closes(phase) == service # "gone" /\ closing = phase

Close ==
    /\ Closes("no") /\ ~closed
    /\ closed' = TRUE
    /\ closing' = "evidence"
    /\ UNCHANGED <<service, starting, seen, identity, recycled, outcome, disk,
                   processes, pane, sweep>>

\* A receipt that is half written is none.
ReadReceipt ==
    /\ Closes("evidence")
    /\ seen' \in {None} \cup (IF dir = "launch" THEN {receipt} ELSE {})
    /\ closing' = "identity"
    /\ UNCHANGED <<bridge, identity, recycled, outcome, disk, processes, pane, sweep>>

VerifyIdentity ==
    /\ Closes("identity")
    /\ \E s \in Readings :
         /\ identity' = (seen = "identified" /\ s = "claude")
         /\ recycled' = (seen = "identified" /\ s = "other")
    /\ closing' = "terminal"
    /\ UNCHANGED <<bridge, seen, outcome, disk, processes, pane, sweep>>

\* A failure of the controller is recorded and does not stop the teardown.
KillTerminal ==
    /\ Closes("terminal")
    /\ \/ TerminalKilled
       \/ UNCHANGED <<pane, claude>>
    /\ closing' = IF identity THEN "term" ELSE "verdict"
    /\ UNCHANGED <<bridge, seen, identity, recycled, outcome, disk, children,
                   reused, sweep>>

Term ==
    /\ Closes("term")
    /\ \E s \in Readings : closing' = IF s = "claude" THEN "kill" ELSE "verdict"
    /\ UNCHANGED <<bridge, seen, identity, recycled, outcome, disk, processes,
                   pane, sweep>>

\* The signal may be refused.
Kill ==
    /\ Closes("kill")
    /\ KilledIfRead \/ UNCHANGED <<claude, children>>
    /\ closing' = "verdict"
    /\ UNCHANGED <<bridge, seen, identity, recycled, outcome, disk, reused, pane,
                   sweep>>

\* process_dead, given what process_start says now.
ProvedDead(s) ==
    CASE seen = None -> dir # "launch"
      [] seen # None /\ identity -> s # "claude"
      [] seen # None /\ ~identity -> recycled \/ PidAbsent

\* Mutant: the run directory is removed with every session.
RemovableAlways(dead) == dir \in {"empty", "launch"}

Removable(dead) == dead /\ dir \in {"empty", "launch"}

\* Diagnostics may be retained.
Verdict ==
    /\ Closes("verdict")
    /\ \E s \in Readings :
         /\ outcome' = IF ProvedDead(s) THEN "dead" ELSE "uncertain"
         /\ dir' \in {dir} \cup (IF Removable(ProvedDead(s)) THEN {"removed"} ELSE {})
    /\ closing' = "done"
    /\ UNCHANGED <<bridge, seen, identity, recycled, receipt, processes, pane, sweep>>
----------------------------------------------------------------------------
(* supervise *)

\* Reads launch.json and starts Claude as the leader of a group of its own.
Spawn ==
    /\ supervisor = "started"
    /\ IF dir = "launch" THEN supervisor' = "spawned" /\ claude' = "running"
                         ELSE supervisor' = "exited" /\ UNCHANGED claude
    /\ UNCHANGED <<bridge, teardown, disk, children, reused, terminal, hangup, sweep>>

\* With the start time of the child, if the system tells it. A run directory that
\* was moved away ends the supervisor here, not Claude.
WriteReceipt ==
    /\ supervisor = "spawned"
    /\ IF dir = "launch"
       THEN /\ supervisor' = "watching"
            /\ receipt' \in {"identified", "unidentified"}
            /\ UNCHANGED claude
       ELSE /\ supervisor' = "died"
            /\ claude' = Orphaned
            /\ UNCHANGED receipt
    /\ UNCHANGED <<bridge, teardown, dir, children, reused, terminal, hangup, sweep>>

\* The owner is gone, the lease ran out or cannot be read, or a signal came.
Watched ==
    /\ supervisor = "watching" /\ claude = "running"
    /\ supervisor' = "stopping"
    /\ UNCHANGED <<bridge, teardown, disk, processes, terminal, hangup, sweep>>

\* Mutant: the supervisor leaves Claude to itself when it cannot ask it to stop.
KillsNothing == UNCHANGED <<claude, children>>

\* SIGKILL to a child whose start time is known.
Kills ==
    IF receipt = "identified" THEN KilledIfRead ELSE UNCHANGED <<claude, children>>

\* Claude did not exit within its grace; the system may refuse the signal.
Overdue ==
    /\ supervisor = "stopping" /\ claude = "running"
    /\ \/ Kills /\ supervisor' = "killed"
       \/ UNCHANGED <<claude, children>> /\ supervisor' = "refused"
    /\ UNCHANGED <<bridge, teardown, disk, reused, terminal, hangup, sweep>>

\* poll or wait reaps the leader. The last SIGKILL to the group is guarded by the
\* start time of the leader, which no longer exists: it is never sent.
Reap ==
    /\ supervisor \in {"watching", "stopping", "killed", "refused"} /\ claude = "zombie"
    /\ claude' = "gone"
    /\ supervisor' = "exited"
    /\ UNCHANGED <<bridge, teardown, disk, children, reused, terminal, hangup, sweep>>

\* The second wait times out.
GivesUp ==
    /\ supervisor \in {"killed", "refused"} /\ claude = "running"
    /\ supervisor' = IF supervisor = "refused" THEN "denied" ELSE "exited"
    /\ UNCHANGED <<bridge, teardown, disk, processes, terminal, hangup, sweep>>

\* Why the watch must end.
MustStop == hangup \/ service = "gone" \/ dir # "launch"
----------------------------------------------------------------------------
(* sweep_orphaned_runs, by the service started after this one left its port *)

\* The receipt names a process that is still the one that was launched. The sweep
\* also asks ps for its group and its arguments, before each signal and while it waits:
\* an answer that fails, times out or differs ends the sweep of this run, as a refused
\* signal does, and the run is archived all the same.
Verifies(s) == receipt = "identified" /\ s = "claude"

\* kill-server may fail.
SweepReads ==
    /\ service # "up" /\ sweep = "no"
    /\ dir \in {"empty", "launch"}
    /\ \E s \in Readings :
         \/ ~Verifies(s) /\ sweep' = "blind" /\ UNCHANGED <<pane, claude>>
         \/ Verifies(s) /\ sweep' = "hindered" /\ UNCHANGED <<pane, claude>>
         \/ Verifies(s) /\ sweep' = "verified" /\ (TerminalKilled \/ UNCHANGED <<pane, claude>>)
    /\ UNCHANGED <<bridge, teardown, disk, children, reused>>

\* SIGTERM and up to two seconds.
SweepTerm ==
    /\ sweep = "verified"
    /\ \E s \in Readings :
         sweep' \in IF s = "claude" THEN {"termed", "hindered"} ELSE {"finished"}
    /\ UNCHANGED <<bridge, teardown, disk, processes, pane>>

\* SIGKILL, unless the process ended meanwhile.
SweepKill ==
    /\ sweep = "termed"
    /\ \/ KilledIfRead /\ sweep' = "finished"
       \/ Reading = "claude" /\ UNCHANGED <<claude, children>> /\ sweep' = "hindered"
    /\ UNCHANGED <<bridge, teardown, disk, reused, pane>>

\* The rename; close may have removed the directory meanwhile.
Archive ==
    /\ sweep \in {"blind", "hindered", "finished"} /\ dir \in {"empty", "launch"}
    /\ dir' = "archived"
    /\ UNCHANGED <<bridge, teardown, receipt, processes, pane, sweep>>
----------------------------------------------------------------------------
Supervise == Spawn \/ WriteReceipt \/ Overdue \/ Reap \/ GivesUp

Sweep == SweepTerm \/ SweepKill \/ Archive

System ==
    \/ ClaudeExits \/ ChildStarts \/ ChildrenExit \/ PidIsReused
    \/ SupervisorDies \/ ServiceLeaves \/ ServiceGone

Start == MakeRun \/ WriteLaunch \/ StartFails \/ Launch \/ Ready \/ WaitFails

Teardown ==
    \/ Close \/ ReadReceipt \/ VerifyIdentity \/ KillTerminal \/ Term \/ Kill \/ Verdict

Next == System \/ Start \/ Teardown \/ Supervise \/ Watched \/ SweepReads \/ Sweep

Spec == Init /\ [][Next]_vars

\* The supervisor polls and its waits are bounded, so is the sweep's.
FairSpec ==
    /\ Spec
    /\ WF_vars(Supervise)
    /\ WF_vars(Watched /\ MustStop)
    /\ WF_vars(Sweep)
----------------------------------------------------------------------------
\* A teardown that says the process is dead is right, and stays right: nothing
\* is launched later (native.py:79, what the owner service frees capacity on).
DeathIsObserved ==
    service = "up" /\ outcome = "dead" => claude # "running"

\* While Claude may run without a supervisor, the receipt that names it stays
\* where the next service's sweep looks for it (native.py:1072, supervisor.py:141),
\* unless a sweep passed that could not name it yet or left early (supervisor.py:152).
ReceiptKept ==
    claude = "running" /\ supervisor \in {"exited", "denied", "died"}
        /\ receipt = "identified" /\ sweep \notin {"blind", "hindered"}
    => dir = "launch"

\* After its service is gone, an identified Claude is killed: by its supervisor, or by
\* a sweep that saw its receipt (supervisor.py:281, supervisor.py:149).  It outlives both
\* only where a supervisor that died, or was refused its signal, leaves it to a sweep
\* that did not come, came before the receipt, or was hindered itself.
AbandonedIsKilled ==
    service = "gone" /\ receipt = "identified"
    ~> \/ claude # "running"
       \/ supervisor \in {"denied", "died"} /\ sweep \in {"no", "blind", "hindered"}
============================================================================
