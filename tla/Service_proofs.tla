--------------------------- MODULE Service_proofs ---------------------------
(***************************************************************************)
(* For any number of calls and service processes: a service that can be    *)
(* used can be stopped, and a launch that fails spares the service that    *)
(* others were told to use.                                                *)
(***************************************************************************)
EXTENDS Service, TLAPS

Stages == {"idle", "ensure", "stop", "probe", "drain", "prepare", "launch", "await", "read",
           "confirm", "failed", "undo", "term", "kill", "lookup", "ask", "wait", "force", "forced",
           "unlink", "unlinked"}

Phases == {"unborn", "booting", "bound", "serving", "draining", "closing", "stopping", "gone"}

TypeOK ==
    /\ lock \in Callers \cup {None}
    /\ pc \in [Callers -> Stages]
    /\ target \in [Callers -> Services \cup {None}]
    /\ phase \in [Services -> Phases]
    /\ token \in {"absent", "empty", "ok"}
    /\ ready \in Services \cup {None}
    /\ manager \in Services \cup {None, "partial"}
    /\ given \subseteq Services /\ abandoned \subseteq Services

Resting(c) == pc[c] \in {"idle", "ensure", "stop"}

Stopping(c) == pc[c] \in {"ask", "wait", "force", "forced", "unlink"}

\* A call beyond the lock holds it.
LockExcludes == \A c \in Callers : Resting(c) \/ lock = c

Served(s) == phase[s] \in {"serving", "draining", "closing", "stopping", "gone"}

\* Launches and stops know their service, and a stop has read who it is.
TargetsKnown ==
    \A c \in Callers :
      /\ Launching(c) => target[c] \in Services
      /\ Stopping(c) => target[c] \in Services /\ manager = target[c]
      /\ pc[c] \in {"unlink", "unlinked"} =>
           \A s \in Services : manager = s => Ended(s)
      /\ pc[c] = "confirm" => Served(target[c])

\* Whoever is named was given, and whoever is given has served: once it closed
\* it never serves again.
GivenServed ==
    /\ given \subseteq {s \in Services : Served(s)}
    /\ manager \in Services => manager \in given

\* No service is launched, or undone, beside one that a caller uses.
LaunchedAlone ==
    \A c \in Callers :
      /\ Launching(c) => target[c] \notin given
      /\ pc[c] = "launch" \/ Launching(c) => \A s \in given : ~Listening(s)

\* NoStrayService, also of services that do not listen yet.
Pending(s) == Listening(s) \/ phase[s] \in {"booting", "bound"}

PendingIsKnown ==
    \A s \in Services : Pending(s) =>
        \/ manager = s
        \/ \E c \in Callers : lock = c /\ Launching(c) /\ target[c] = s
        \/ s \in abandoned

IInv == TypeOK /\ LockExcludes /\ TargetsKnown /\ GivenServed /\ LaunchedAlone /\ PendingIsKnown

USE ServiceAssumption DEF Stages, Phases

\* The strengthening holds at the start, and every step of a service and of a
\* call keeps it.
LEMMA InitInv ==
  Init => IInv
BY DEF Init, IInv, TypeOK, LockExcludes, TargetsKnown, GivenServed, LaunchedAlone,
       PendingIsKnown, Resting, Stopping, Served, Pending, Launching, Listening, Bound, Ended

LEMMA ProcessInv ==
  ASSUME IInv, NEW s \in Services, Process(s)
  PROVE  IInv'
<1>. USE DEF IInv, TypeOK, LockExcludes, TargetsKnown, GivenServed, LaunchedAlone, PendingIsKnown,
            Resting, Stopping, Served, Pending, Launching, Listening, Bound, Ended
<1>1. CASE BootFails(s)
  BY <1>1 DEF BootFails, Becomes, calls, files
<1>2. CASE Bind(s)
  BY <1>2 DEF Bind, Becomes, calls
<1>3. CASE Startup(s)
  BY <1>3 DEF Startup, Becomes, calls
<1>4. CASE Retire(s)
  BY <1>4 DEF Retire, Becomes, calls, files
<1>5. CASE ShutsDown(s)
  BY <1>5 DEF ShutsDown, Becomes, calls, files
<1>6. CASE RemovesReceipt(s)
  BY <1>6 DEF RemovesReceipt, Becomes, calls
<1>7. CASE Exits(s)
  BY <1>7 DEF Exits, Becomes, calls
<1>8. CASE StartupFails(s)
  BY <1>8 DEF StartupFails, Becomes, calls, files
<1>9. CASE Dies(s)
  BY <1>9 DEF Dies, Alive, calls, files
<1>. QED
  BY <1>1, <1>2, <1>3, <1>4, <1>5, <1>6, <1>7, <1>8, <1>9 DEF Process

\* A call before and at the lock.
LockStep(c) == Begins(c) \/ LockTimesOut(c) \/ Acquire(c) \/ CallerDies(c)

LEMMA LockInv ==
  ASSUME IInv, NEW c \in Callers, LockStep(c)
  PROVE  IInv'
<1>. USE DEF IInv, TypeOK, LockExcludes, TargetsKnown, GivenServed, LaunchedAlone, PendingIsKnown,
            Resting, Stopping, Served, Pending, Launching, Listening, Bound, Ended
<1>1. CASE Begins(c)
  BY <1>1 DEF Begins, Goes, files
<1>2. CASE LockTimesOut(c)
  BY <1>2 DEF LockTimesOut, Waits, files
<1>3. CASE Acquire(c)
  BY <1>3 DEF Acquire, Waits, files
<1>4. CASE CallerDies(c)
  BY <1>4 DEF CallerDies, Return, files
<1>. QED
  BY <1>1, <1>2, <1>3, <1>4 DEF LockStep

LEMMA EnsureInv ==
  ASSUME IInv, NEW c \in Callers, Ensure(c)
  PROVE  IInv'
<1>. USE DEF IInv, TypeOK, LockExcludes, TargetsKnown, GivenServed, LaunchedAlone, PendingIsKnown,
            Resting, Stopping, Served, Pending, Launching, Listening, Bound, Ended
<1>1. ASSUME NEW s \in Services, FindsHealthy(c, s) PROVE IInv'
  BY <1>1 DEF FindsHealthy, Return, files
<1>2. ASSUME NEW s \in Services, Launches(c, s) PROVE IInv'
  BY <1>2 DEF Launches, Goes, Becomes
<1>3. CASE FindsDraining(c)
  BY <1>3 DEF FindsDraining, Goes, files
<1>4. CASE FindsNothing(c)
  BY <1>4 DEF FindsNothing, Goes, files
<1>5. CASE DrainEnds(c)
  BY <1>5 DEF DrainEnds, Goes, files
<1>6. CASE Refused(c)
  BY <1>6 DEF Refused, Return, files
<1>7. CASE Truncates(c)
  BY <1>7 DEF Truncates, Goes, MayLaunch
<1>8. CASE PopenFails(c)
  BY <1>8 DEF PopenFails, Return
<1>9. CASE SeesReceipt(c)
  BY <1>9 DEF SeesReceipt, Goes, files
<1>10. CASE ReadsReceipt(c)
  BY <1>10 DEF ReadsReceipt, Goes
<1>11. CASE Confirms(c)
  BY <1>11 DEF Confirms, Return
<1>12. CASE Fails(c)
  BY <1>12 DEF Fails, files
<1>13. CASE Undoes(c)
  BY <1>13 DEF Undoes, Goes, files
<1>14. CASE UndoesReceipt(c)
  BY <1>14 DEF UndoesReceipt, Goes, Return, Terminated, files
<1>15. CASE Tells(c)
  BY <1>15 DEF Tells, Goes, Terminated, files
<1>16. CASE Kills(c)
  BY <1>16 DEF Kills, Return, Killed, files
<1>. QED
  BY <1>1, <1>2, <1>3, <1>4, <1>5, <1>6, <1>7, <1>8, <1>9, <1>10, <1>11, <1>12, <1>13, <1>14, <1>15, <1>16 DEF Ensure

LEMMA StopInv ==
  ASSUME IInv, NEW c \in Callers, Stop(c)
  PROVE  IInv'
<1>. USE DEF IInv, TypeOK, LockExcludes, TargetsKnown, GivenServed, LaunchedAlone, PendingIsKnown,
            Resting, Stopping, Served, Pending, Launching, Listening, Bound, Ended
<1>1. CASE NothingToStop(c)
  BY <1>1 DEF NothingToStop, Return, files
<1>2. CASE Looks(c)
  BY <1>2 DEF Looks, Goes, files
<1>3. CASE AlreadyEnded(c)
  BY <1>3 DEF AlreadyEnded, Goes, Return, files
<1>4. ASSUME NEW s \in Services, Asks(c, s) PROVE IInv'
  BY <1>4 DEF Asks, Goes, files
<1>5. CASE Unasked(c)
  BY <1>5 DEF Unasked, Goes, files
<1>6. CASE WaitTimesOut(c)
  BY <1>6 DEF WaitTimesOut, Goes, files
<1>7. CASE Terminates(c)
  BY <1>7 DEF Terminates, Goes, Terminated, files
<1>8. CASE StopKills(c)
  BY <1>8 DEF StopKills, Goes, Killed, files
<1>9. CASE SeesEnd(c)
  BY <1>9 DEF SeesEnd, files
<1>10. CASE UnlinksManager(c)
  BY <1>10 DEF UnlinksManager, Goes
<1>11. CASE UnlinksReceipt(c)
  BY <1>11 DEF UnlinksReceipt, Return
<1>. QED
  BY <1>1, <1>2, <1>3, <1>4, <1>5, <1>6, <1>7, <1>8, <1>9, <1>10, <1>11 DEF Stop

LEMMA NextInv ==
  IInv /\ [Next]_vars => IInv'
<1>. SUFFICES ASSUME IInv, [Next]_vars
              PROVE  IInv'
  OBVIOUS
<1>1. ASSUME NEW s \in Services, Process(s)
      PROVE  IInv'
  BY <1>1, ProcessInv
<1>2. ASSUME NEW c \in Callers, LockStep(c) \/ Ensure(c) \/ Stop(c)
      PROVE  IInv'
  BY <1>2, LockInv, EnsureInv, StopInv
<1>3. CASE UNCHANGED vars
  BY <1>3 DEF vars, calls, files, IInv, TypeOK, LockExcludes, TargetsKnown, GivenServed,
              LaunchedAlone, PendingIsKnown, Resting, Stopping, Served, Pending, Launching,
              Listening, Bound, Ended
<1>. QED
  BY <1>1, <1>2, <1>3 DEF Next, LockStep

\* The inductive invariant of the calls, the files and the services.
THEOREM ServiceInvariant ==
  Spec => []IInv
BY InitInv, NextInv, PTL DEF Spec

\* A service that can be used can be stopped, however many calls race and die.
THEOREM NoStrayAlways ==
  Spec => []NoStrayService
<1>1. IInv => NoStrayService
  BY DEF IInv, PendingIsKnown, Pending, NoStrayService
<1>. QED
  BY <1>1, ServiceInvariant, PTL

\* Undoing a launch meets only services that nobody was given, or that closed.
LEMMA UndoStep ==
  ASSUME IInv, [Next]_vars, NEW c \in Callers,
         pc[c] \in {"undo", "term", "kill"}, pc'[c] # pc[c],
         NEW s \in given
  PROVE  phase'[s] = phase[s]
<1>. USE DEF IInv, TypeOK, GivenServed, LaunchedAlone, Launching, Served, Listening
<1>1. CASE UNCHANGED vars
  BY <1>1 DEF vars, calls
<1>2. ASSUME NEW t \in Services, Process(t)
      PROVE  FALSE
  BY <1>2 DEF Process, BootFails, Bind, Startup, StartupFails, Retire, ShutsDown, RemovesReceipt,
              Exits, Dies,
              calls
<1>3. ASSUME NEW d \in Callers, LockStep(d) \/ Ensure(d) \/ Stop(d)
      PROVE  phase'[s] = phase[s]
  <2>1. ASSUME d # c
        PROVE  pc'[c] = pc[c]
    BY <1>3, <2>1 DEF LockStep, Ensure, Stop, Begins, LockTimesOut, Acquire, CallerDies,
         FindsHealthy, Launches, FindsDraining, FindsNothing, DrainEnds, Refused, Truncates,
         PopenFails, SeesReceipt, ReadsReceipt, Confirms, Fails, Undoes, UndoesReceipt, Tells, Kills,
         NothingToStop, Looks, AlreadyEnded, Asks, Unasked, WaitTimesOut, Terminates, StopKills,
         SeesEnd, UnlinksManager, UnlinksReceipt, Goes, Return
  <2>2. CASE UndoesReceipt(c)
    BY <2>2 DEF UndoesReceipt, Terminated
  <2>3. CASE Kills(c)
    BY <2>3 DEF Kills, Killed
  <2>4. CASE CallerDies(c)
    BY <2>4 DEF CallerDies
  <2>5. CASE Tells(c)
    BY <2>5 DEF Tells, Terminated
  <2>6. LockStep(c) \/ Ensure(c) \/ Stop(c) =>
          UndoesReceipt(c) \/ Tells(c) \/ Kills(c) \/ CallerDies(c)
    BY DEF LockStep, Ensure, Stop, Begins, LockTimesOut, Acquire, Waits,
         FindsHealthy, Launches, FindsDraining, FindsNothing, DrainEnds, Refused, Truncates,
         PopenFails, SeesReceipt, ReadsReceipt, Confirms, Fails, Undoes,
         NothingToStop, Looks, AlreadyEnded, Asks, Unasked, WaitTimesOut, Terminates, StopKills,
         SeesEnd, UnlinksManager, UnlinksReceipt, Goes
  <2>. QED
    BY <1>3, <2>1, <2>2, <2>3, <2>4, <2>5, <2>6
<1>. QED
  BY <1>1, <1>2, <1>3 DEF Next, LockStep

\* A launch that fails ends no service that a caller was told to use.
THEOREM UndoAlwaysSpares ==
  Spec => UndoSparesGiven
<1>1. IInv /\ [Next]_vars =>
        [\A c \in Callers : pc[c] \in {"undo", "term", "kill"} /\ pc'[c] # pc[c] =>
           \A s \in given : phase'[s] = phase[s]]_vars
  BY UndoStep
<1>. QED
  BY <1>1, ServiceInvariant, PTL DEF Spec, UndoSparesGiven
=============================================================================
