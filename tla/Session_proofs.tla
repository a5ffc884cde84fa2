--------------------------- MODULE Session_proofs ---------------------------
(***************************************************************************)
(* The verdict of a teardown and the receipt of an abandoned Claude, for   *)
(* every order of the steps of bridge, supervisor, sweep and system.       *)
(*                                                                         *)
(* Both rest on one fact per program: the supervisor is launched once and  *)
(* starts Claude once (Order), close() concludes once and from what it saw *)
(* after that (Concluded), the sweep finishes with what it has killed      *)
(* (Swept): a sweep that ps or a refused signal stopped before that is     *)
(* hindered, it archives the run of a Claude that may still run, and       *)
(* nothing is claimed of it (supervisor.py:89-98, supervisor.py:152).      *)
(* Both assume that process_start reads every process that exists: close   *)
(* takes an unreadable process for a dead one (native.py:1045).            *)
(***************************************************************************)
EXTENDS Session, TLAPS

\* The shapes of what the argument reads: it needs nothing of the terminal, the hangup,
\* the helpers and the new owner of a PID.
Shapes ==
    /\ service \in {"up", "leaving", "gone"}
    /\ starting \in {"preparing", "launching", "waiting", "ready", "failed"}
    /\ closed \in BOOLEAN
    /\ closing \in {"no", "evidence", "identity", "terminal", "term", "kill", "verdict", "done"}
    /\ seen \in {None, "identified", "unidentified"}
    /\ identity \in BOOLEAN
    /\ recycled \in BOOLEAN
    /\ outcome \in {None, "dead", "uncertain"}
    /\ dir \in {"absent", "empty", "launch", "removed", "archived"}
    /\ receipt \in {None, "identified", "unidentified"}
    /\ supervisor \in {"none", "started", "spawned", "watching", "stopping", "killed",
                       "refused", "exited", "denied", "died"}
    /\ claude \in {"none", "running", "zombie", "gone"}
    /\ sweep \in {"no", "blind", "verified", "termed", "hindered", "finished"}

\* The supervisor is launched by a start that is past its preparations, it starts
\* Claude before it writes the receipt, and neither happens again.
Order ==
    /\ starting \in {"preparing", "launching"} => supervisor = "none"
    /\ supervisor \in {"none", "started"} => claude = "none" /\ receipt = None
    /\ seen # None => receipt # None

\* While the service is up and has given no verdict, what it launched, or is about to
\* launch, has its launch.json; no sweep runs under it.
Launched ==
    service = "up" =>
        /\ sweep = "no"
        /\ outcome = None /\ (supervisor # "none" \/ starting = "launching") => dir = "launch"

\* close() goes through its steps once; a PID it found recycled is no longer Claude's;
\* once it found everything dead, no supervisor is left that has yet to start Claude.
Concluded ==
    /\ closing # "no" => closed
    /\ outcome # None => closing = "done"
    /\ recycled => /\ closing \in {"terminal", "term", "kill", "verdict", "done"}
                   /\ receipt # None
                   /\ claude # "running"
    /\ service = "up" /\ outcome = "dead" => claude # "running" /\ supervisor # "started"

\* A sweep that could name Claude finishes with Claude's end, unless it was hindered; as
\* long as no sweep was blind or hindered, a running Claude with a receipt keeps its run
\* directory.
Swept ==
    /\ sweep \in {"verified", "termed", "finished"} => receipt # None
    /\ sweep = "finished" => claude # "running"
    /\ claude = "running" /\ receipt # None /\ sweep \notin {"blind", "hindered"}
         => dir = "launch"

IInv == Shapes /\ Order /\ Launched /\ Concluded /\ Swept
----------------------------------------------------------------------------
\* A session that was just created satisfies the invariant.
LEMMA InitIInv == Init => IInv
  BY SessionAssumption DEF Init, IInv, Shapes, Order, Launched, Concluded, Swept

\* What may happen to Claude, its group and its supervisor besides their start: they end.
Ends ==
    /\ \/ claude' = claude
       \/ claude \in {"running", "zombie"} /\ claude' \in {"zombie", "gone"}
    /\ \/ supervisor' = supervisor
       \/ /\ supervisor # "none"
          /\ supervisor' \in {"watching", "stopping", "killed", "refused", "exited",
                             "denied", "died"}

\* How far close() and the sweep may get meanwhile: close() comes to its verdict, the
\* sweep leaves early, or finishes with a Claude that it named when that one is dead.
Proceeds ==
    /\ \/ closing' = closing
       \/ closing \in {"terminal", "term", "kill"} /\ closing' \in {"term", "kill", "verdict"}
    /\ \/ sweep' = sweep
       \/ /\ service # "up" /\ sweep \notin {"blind", "hindered"}
          /\ \/ sweep' \in {"blind", "hindered"}
             \/ sweep' \in {"verified", "termed"} /\ receipt # None
             \/ sweep' = "finished" /\ receipt # None /\ claude' # "running"

\* Such steps keep the invariant.
LEMMA EndsKeep ==
  ASSUME IInv, Ends, Proceeds,
         UNCHANGED <<bridge, seen, identity, recycled, outcome, disk>>
  PROVE  IInv'
<1>1. Shapes'
  BY DEF IInv, Shapes, Ends, Proceeds, bridge, disk
<1>2. Order'
  BY DEF IInv, Shapes, Order, Ends, bridge, disk
<1>3. Launched'
  BY DEF IInv, Shapes, Launched, Ends, Proceeds, bridge, disk
<1>4. Concluded'
  BY DEF IInv, Shapes, Concluded, Ends, Proceeds, bridge, disk
<1>5. Swept'
  BY DEF IInv, Shapes, Swept, Ends, Proceeds, bridge, disk
<1>. QED BY <1>1, <1>2, <1>3, <1>4, <1>5 DEF IInv

\* A reading that cannot fail is what the system says of the PID.
LEMMA ReadsTell == ASSUME ReadsFail = FALSE PROVE Readings = {Reading}
  BY DEF Readings

\* A SIGKILL that is sent after such a reading leaves no Claude running.
LEMMA KillTells ==
  ASSUME IInv, KilledIfRead
  PROVE  /\ \/ claude' = claude
            \/ claude = "running" /\ claude' \in {"zombie", "gone"}
         /\ ReadsFail = FALSE => claude' # "running"
<1>1. claude \in {"none", "running", "zombie", "gone"}
  BY DEF IInv, Shapes
<1>2. Dead \in {"zombie", "gone"}
  BY DEF Dead
<1>3. CASE GroupKilled
  BY <1>1, <1>2, <1>3 DEF GroupKilled
<1>4. CASE Readings # {"claude"} /\ UNCHANGED <<claude, children>>
  BY <1>1, <1>4, ReadsTell DEF Reading
<1>. QED BY <1>3, <1>4 DEF KilledIfRead

\* The end of the terminal may end the supervisor, and reaps through it.
LEMMA TerminalEnds ==
  ASSUME IInv, TerminalKilled
  PROVE  Ends
  BY DEF TerminalKilled, Orphaned, Ends, IInv, Shapes
----------------------------------------------------------------------------
\* What the system, a crash or a shutdown does keeps the invariant.
LEMMA SystemKeeps == ASSUME IInv, System PROVE IInv'
<1>1. CASE ClaudeExits
  <2>1. Ends BY <1>1 DEF ClaudeExits, Dead, Ends, IInv, Shapes, pane
  <2>. QED BY <1>1, <2>1, EndsKeep DEF ClaudeExits, Proceeds, teardown
<1>2. CASE ChildStarts \/ ChildrenExit \/ PidIsReused
  <2>1. Ends BY <1>2 DEF ChildStarts, ChildrenExit, PidIsReused, Ends, IInv, Shapes, pane
  <2>. QED BY <1>2, <2>1, EndsKeep
       DEF ChildStarts, ChildrenExit, PidIsReused, Proceeds, teardown
<1>3. CASE SupervisorDies
  <2>1. Ends BY <1>3 DEF SupervisorDies, Supervised, Orphaned, Ends, IInv, Shapes
  <2>. QED BY <1>3, <2>1, EndsKeep DEF SupervisorDies, Proceeds, teardown
<1>4. CASE ServiceLeaves \/ ServiceGone
  BY <1>4 DEF ServiceLeaves, ServiceGone, IInv, Shapes, Order, Launched, Concluded, Swept,
              teardown, disk, processes, pane
<1>. QED BY <1>1, <1>2, <1>3, <1>4 DEF System

\* What start() does keeps it: a closed session is not launched.
LEMMA StartKeeps == ASSUME IInv, Start PROVE IInv'
<1>1. CASE MakeRun
  BY <1>1 DEF MakeRun, Starts, IInv, Shapes, Order, Launched, Concluded, Swept,
              bridge, teardown, processes, pane
<1>2. CASE WriteLaunch
  BY <1>2 DEF WriteLaunch, Starts, IInv, Shapes, Order, Launched, Concluded, Swept,
              teardown, processes, pane
<1>3. CASE StartFails
  BY <1>3 DEF StartFails, Starts, IInv, Shapes, Order, Launched, Concluded, Swept,
              teardown, disk, processes, pane
<1>4. CASE Launch
  <2>1. CASE Refused
    BY <1>4, <2>1 DEF Launch, Starts, IInv, Shapes, Order, Launched, Concluded, Swept,
                      teardown, disk, processes
  <2>2. CASE ~Refused
    <3>1. outcome = None /\ supervisor = "none" /\ claude = "none"
      BY <1>4, <2>2 DEF Launch, Starts, Refused, IInv, Order, Concluded
    <3>. QED BY <1>4, <2>2, <3>1, SessionAssumption
         DEF Launch, Starts, IInv, Shapes, Order, Launched, Concluded, Swept,
             teardown, disk, processes
  <2>. QED BY <2>1, <2>2
<1>5. CASE Ready
  BY <1>5 DEF Ready, Starts, IInv, Shapes, Order, Launched, Concluded, Swept,
              teardown, disk, processes, pane
<1>6. CASE WaitFails
  BY <1>6 DEF WaitFails, Starts, IInv, Shapes, Order, Launched, Concluded, Swept,
              disk, processes, pane
<1>. QED BY <1>1, <1>2, <1>3, <1>4, <1>5, <1>6 DEF Start

\* A PID that is free or another's, and a run that was never launched, stand for a
\* Claude that does not run; under its service it will not run either
\* (native.py:1040-1049).
LEMMA ProofHolds ==
  ASSUME ReadsFail = FALSE, IInv, closing = "verdict", ProvedDead(Reading)
  PROVE  /\ claude = "running" => service # "up" /\ dir # "launch"
         /\ service = "up" => supervisor # "started"
<1>. outcome = None
  BY DEF IInv, Concluded
<1>1. CASE seen = None
  <2>1. dir # "launch"
    BY <1>1 DEF ProvedDead
  <2>2. service = "up" => supervisor = "none"
    BY <2>1 DEF IInv, Launched
  <2>. QED BY <2>1, <2>2 DEF IInv, Order
<1>2. CASE seen # None /\ identity
  BY <1>2 DEF ProvedDead, Reading, IInv, Order
<1>3. CASE seen # None /\ ~identity
  BY <1>3, SessionAssumption DEF ProvedDead, PidAbsent, Reading, IInv, Order, Concluded
<1>. QED BY <1>1, <1>2, <1>3 DEF IInv, Shapes

\* What close() does keeps it.
LEMMA TeardownKeeps == ASSUME ReadsFail = FALSE, IInv, Teardown PROVE IInv'
<1>1. CASE Close
  BY <1>1 DEF Close, Closes, IInv, Shapes, Order, Launched, Concluded, Swept,
              disk, processes, pane
<1>2. CASE ReadReceipt
  BY <1>2 DEF ReadReceipt, Closes, IInv, Shapes, Order, Launched, Concluded, Swept,
              bridge, disk, processes, pane
<1>3. CASE VerifyIdentity
  <2>1. /\ identity' \in BOOLEAN /\ recycled' \in BOOLEAN
        /\ recycled' => receipt # None /\ claude # "running"
    BY <1>3, ReadsTell, SessionAssumption
       DEF VerifyIdentity, Reading, IInv, Order
  <2>. QED BY <1>3, <2>1
       DEF VerifyIdentity, Closes, IInv, Shapes, Order, Launched, Concluded, Swept,
           bridge, disk, processes, pane
<1>4. CASE KillTerminal
  <2>1. Ends
    BY <1>4, TerminalEnds DEF KillTerminal, Ends, IInv, Shapes, pane
  <2>. QED BY <1>4, <2>1, EndsKeep DEF KillTerminal, Closes, Proceeds
<1>5. CASE Term
  <2>1. Ends
    BY <1>5 DEF Term, Ends, IInv, Shapes, processes, pane
  <2>. QED BY <1>5, <2>1, EndsKeep DEF Term, Closes, Proceeds
<1>6. CASE Kill
  <2>1. Ends
    BY <1>6, KillTells DEF Kill, Ends, IInv, Shapes, pane
  <2>. QED BY <1>6, <2>1, EndsKeep DEF Kill, Closes, Proceeds
<1>7. CASE Verdict
  <2>1. closing = "verdict" /\ closing' = "done"
    BY <1>7 DEF Verdict, Closes
  <2>2. \/ /\ ProvedDead(Reading) /\ outcome' = "dead"
           /\ dir' = dir \/ dir' = "removed"
        \/ outcome' = "uncertain" /\ dir' = dir
    BY <1>7, ReadsTell DEF Verdict, Removable
  <2>3. CASE ProvedDead(Reading) /\ outcome' = "dead" /\ (dir' = dir \/ dir' = "removed")
    <3>1. /\ claude = "running" => service # "up" /\ dir # "launch"
          /\ service = "up" => supervisor # "started"
      BY <2>1, <2>3, ProofHolds
    <3>. QED BY <1>7, <2>1, <2>3, <3>1, SessionAssumption
         DEF Verdict, IInv, Shapes, Order, Launched, Concluded, Swept,
             bridge, processes, pane
  <2>4. CASE outcome' = "uncertain" /\ dir' = dir
    BY <1>7, <2>1, <2>4, SessionAssumption
       DEF Verdict, IInv, Shapes, Order, Launched, Concluded, Swept,
           bridge, processes, pane
  <2>. QED BY <2>2, <2>3, <2>4
<1>. QED BY <1>1, <1>2, <1>3, <1>4, <1>5, <1>6, <1>7 DEF Teardown

\* What the supervisor does keeps it: it starts Claude before any receipt, and writes
\* the receipt where a sweep will look.
LEMMA SuperviseKeeps == ASSUME IInv, Supervise \/ Watched PROVE IInv'
<1>1. CASE Spawn
  BY <1>1 DEF Spawn, IInv, Shapes, Order, Launched, Concluded, Swept,
              bridge, teardown, disk
<1>2. CASE WriteReceipt /\ dir = "launch"
  BY <1>2, SessionAssumption
     DEF WriteReceipt, IInv, Shapes, Order, Launched, Concluded, Swept, bridge, teardown
<1>3. CASE WriteReceipt /\ dir # "launch"
  <2>1. Ends
    BY <1>3 DEF WriteReceipt, Orphaned, Ends, IInv, Shapes
  <2>. QED BY <1>3, <2>1, EndsKeep DEF WriteReceipt, Proceeds, teardown, disk
<1>4. CASE Overdue
  <2>1. Ends
    BY <1>4, KillTells DEF Overdue, Kills, Ends, IInv, Shapes
  <2>. QED BY <1>4, <2>1, EndsKeep DEF Overdue, Proceeds, teardown
<1>5. CASE Reap \/ GivesUp \/ Watched
  <2>1. Ends
    BY <1>5 DEF Reap, GivesUp, Watched, Ends, IInv, Shapes, processes
  <2>. QED BY <1>5, <2>1, EndsKeep DEF Reap, GivesUp, Watched, Proceeds, teardown
<1>. QED BY <1>1, <1>2, <1>3, <1>4, <1>5 DEF Supervise

\* What a sweep does keeps it: having named Claude, it finishes when that one is dead.
LEMMA SweepKeeps == ASSUME ReadsFail = FALSE, IInv, SweepReads \/ Sweep PROVE IInv'
<1>1. CASE SweepReads
  <2>1. Ends
    <3>1. TerminalKilled \/ UNCHANGED <<pane, claude>>
      BY <1>1 DEF SweepReads
    <3>. QED BY <3>1, TerminalEnds DEF Ends, pane
  <2>2. Proceeds
    BY <1>1, SessionAssumption DEF SweepReads, Verifies, Proceeds, teardown
  <2>. QED BY <1>1, <2>1, <2>2, EndsKeep DEF SweepReads, teardown
<1>2. CASE SweepTerm
  <2>1. Ends
    BY <1>2 DEF SweepTerm, Ends, IInv, Shapes, processes, pane
  <2>2. Proceeds
    BY <1>2, ReadsTell
       DEF SweepTerm, Reading, Proceeds, IInv, Launched, Swept, teardown, processes
  <2>. QED BY <1>2, <2>1, <2>2, EndsKeep DEF SweepTerm, teardown
<1>3. CASE SweepKill
  <2>1. Ends
    BY <1>3, KillTells DEF SweepKill, Ends, IInv, Shapes, pane
  <2>2. Proceeds
    BY <1>3, KillTells DEF SweepKill, Proceeds, IInv, Launched, Swept, teardown
  <2>. QED BY <1>3, <2>1, <2>2, EndsKeep DEF SweepKill, teardown
<1>4. CASE Archive
  BY <1>4 DEF Archive, IInv, Shapes, Order, Launched, Concluded, Swept,
              bridge, teardown, processes, pane
<1>. QED BY <1>1, <1>2, <1>3, <1>4 DEF Sweep
----------------------------------------------------------------------------
\* The invariant holds in every reachable state.
THEOREM SessionInvariant == ASSUME ReadsFail = FALSE PROVE Spec => []IInv
<1>1. IInv /\ [Next]_vars => IInv'
  <2>. SUFFICES ASSUME IInv, [Next]_vars PROVE IInv'
    OBVIOUS
  <2>1. CASE Next
    BY <2>1, SystemKeeps, StartKeeps, TeardownKeeps, SuperviseKeeps, SweepKeeps
    DEF Next
  <2>2. CASE UNCHANGED vars
    BY <2>2 DEF IInv, Shapes, Order, Launched, Concluded, Swept,
                vars, bridge, teardown, disk, processes, pane
  <2>. QED BY <2>1, <2>2
<1>. QED BY InitIInv, <1>1, PTL DEF Spec

\* What a teardown proved dead while its service is up is dead and stays so: a later
\* start of the same session launches nothing (native.py:79, native.py:1046).
THEOREM DeathAlwaysObserved == ASSUME ReadsFail = FALSE PROVE Spec => []DeathIsObserved
<1>1. IInv => DeathIsObserved
  BY DEF IInv, Concluded, DeathIsObserved
<1>. QED BY <1>1, SessionInvariant, PTL

\* A Claude that runs without a supervisor keeps the receipt by which the next sweep
\* finds it, unless a sweep passed before the receipt or left early (native.py:1072,
\* supervisor.py:141, supervisor.py:152).
THEOREM ReceiptAlwaysKept == ASSUME ReadsFail = FALSE PROVE Spec => []ReceiptKept
<1>1. IInv => ReceiptKept
  BY SessionAssumption DEF IInv, Swept, ReceiptKept
<1>. QED BY <1>1, SessionInvariant, PTL
=============================================================================
