------------------------------ MODULE Service ------------------------------
(***************************************************************************)
(* Start and stop of the shared API service of one Hermes home             *)
(* (api_service.py) against the service process itself (api_server.py).    *)
(* Hermes processes and the command line start, reuse and stop the service *)
(* under a file lock; they agree on it only through its port and three     *)
(* files: the credential, the service's receipt server.json and the        *)
(* manager's receipt manager.json.  A caller may be killed between any two *)
(* steps (the system then frees its lock), and so may a service; a service *)
(* that closes its owners has given up its port and still runs.            *)
(*                                                                         *)
(* The port is the configured one.  All services of a home are launched    *)
(* with one command line, so it does not tell them apart.                  *)
(***************************************************************************)
CONSTANTS
    Callers,   \* calls of ensure_server and stop_server
    Services,  \* bound: service processes launched
    None

ASSUME ServiceAssumption ==
    None \notin Callers \cup Services /\ "partial" \notin Services

VARIABLES
    lock,      \* server.lock: the caller that holds it
    pc,        \* where each call is
    target,    \* of each call: the service it launched or stops
    phase,     \* unborn, booting, bound, serving, draining, closing, stopping, gone
    token,     \* the credential file: absent, empty, ok
    ready,     \* server.json: the service it names
    manager,   \* manager.json: the service it names, or partial
    given,     \* ghost: services that a caller was told to use
    abandoned  \* ghost: services whose launch nobody concluded

calls == <<lock, pc, target>>
files == <<token, ready, manager>>
vars  == <<calls, phase, files, given, abandoned>>

Init ==
    /\ lock = None
    /\ pc = [c \in Callers |-> "idle"]
    /\ target = [c \in Callers |-> None]
    /\ phase = [s \in Services |-> "unborn"]
    /\ token = "absent" /\ ready = None /\ manager = None
    /\ given = {} /\ abandoned = {}

Listening(s) == phase[s] \in {"serving", "draining"}
Bound(s)     == Listening(s) \/ phase[s] = "bound"
Ended(s)     == phase[s] = "gone"
Alive(s)     == phase[s] \notin {"unborn", "gone"}

Goes(c, here, there) ==
    /\ pc[c] = here
    /\ pc' = [pc EXCEPT ![c] = there]

Return(c) ==
    /\ lock' = None
    /\ pc' = [pc EXCEPT ![c] = "idle"]
    /\ target' = [target EXCEPT ![c] = None]
----------------------------------------------------------------------------
(* The service process *)

Becomes(s, from, to) ==
    /\ phase[s] = from
    /\ phase' = [phase EXCEPT ![s] = to]

\* The port is taken, or lingers, or the credential cannot be used.
BootFails(s) ==
    /\ Becomes(s, "booting", "gone")
    /\ UNCHANGED <<calls, files, given, abandoned>>

Bind(s) ==
    /\ token = "ok"
    /\ \A other \in Services : ~Bound(other)
    /\ Becomes(s, "booting", "bound")
    /\ ready' = None
    /\ UNCHANGED <<calls, token, manager, given, abandoned>>

\* It listens, and replaces its receipt at once.
Startup(s) ==
    /\ Becomes(s, "bound", "serving")
    /\ ready' = s
    /\ UNCHANGED <<calls, token, manager, given, abandoned>>

StartupFails(s) ==
    /\ Becomes(s, "bound", "stopping")
    /\ UNCHANGED <<calls, files, given, abandoned>>

\* Unused: retire("idle").
Retire(s) ==
    /\ Becomes(s, "serving", "draining")
    /\ UNCHANGED <<calls, files, given, abandoned>>

\* The server is told to exit: the port is closed first, then the owners.
ShutsDown(s) ==
    /\ Becomes(s, "draining", "closing")
    /\ UNCHANGED <<calls, files, given, abandoned>>

\* It does not look whose receipt it removes.
RemovesReceipt(s) ==
    /\ Becomes(s, "closing", "stopping")
    /\ ready' = None
    /\ UNCHANGED <<calls, token, manager, given, abandoned>>

Exits(s) ==
    /\ Becomes(s, "stopping", "gone")
    /\ ready' = None
    /\ UNCHANGED <<calls, token, manager, given, abandoned>>

Dies(s) ==
    /\ Alive(s)
    /\ phase' = [phase EXCEPT ![s] = "gone"]
    /\ UNCHANGED <<calls, files, given, abandoned>>

\* SIGTERM: the server shuts down in order once it has its handlers.
Terminated(s) ==
    [phase EXCEPT ![s] = CASE Listening(s) -> "closing"
                           [] phase[s] = "bound" -> "stopping"
                           [] phase[s] = "booting" -> "gone"
                           [] OTHER -> phase[s]]

Killed(s) == [phase EXCEPT ![s] = "gone"]
----------------------------------------------------------------------------
(* A call takes the lock, and may be killed while it holds it *)

Begins(c) ==
    /\ \E op \in {"ensure", "stop"} : Goes(c, "idle", op)
    /\ UNCHANGED <<lock, target, phase, files, given, abandoned>>

Waits(c) == pc[c] \in {"ensure", "stop"}

LockTimesOut(c) ==
    /\ Waits(c)
    /\ pc' = [pc EXCEPT ![c] = "idle"]
    /\ UNCHANGED <<lock, target, phase, files, given, abandoned>>

\* Mutant: the lock does not exclude.
AcquireAnyway(c) ==
    /\ Waits(c)
    /\ lock' = c
    /\ pc' = [pc EXCEPT ![c] = IF pc[c] = "ensure" THEN "probe" ELSE "lookup"]
    /\ UNCHANGED <<target, phase, files, given, abandoned>>

Acquire(c) ==
    /\ Waits(c) /\ lock = None
    /\ lock' = c
    /\ pc' = [pc EXCEPT ![c] = IF pc[c] = "ensure" THEN "probe" ELSE "lookup"]
    /\ UNCHANGED <<target, phase, files, given, abandoned>>

\* From Popen until the manager's receipt is written, or the launch is undone.
Launching(c) == pc[c] \in {"await", "read", "confirm", "failed", "undo", "term", "kill"}

CallerDies(c) ==
    /\ lock = c
    /\ Return(c)
    /\ abandoned' = IF Launching(c) THEN abandoned \cup {target[c]} ELSE abandoned
    /\ UNCHANGED <<phase, files, given>>
----------------------------------------------------------------------------
(* ensure_server *)

\* A healthy service is used as it is, whoever launched it.
FindsHealthy(c, s) ==
    /\ pc[c] = "probe" /\ phase[s] = "serving"
    /\ given' = given \cup {s}
    /\ Return(c)
    /\ UNCHANGED <<phase, files, abandoned>>

FindsDraining(c) ==
    /\ \E s \in Services : phase[s] = "draining"
    /\ Goes(c, "probe", "drain")
    /\ UNCHANGED <<lock, target, phase, files, given, abandoned>>

\* Nobody answers, or not within the time of a probe.
FindsNothing(c) ==
    /\ Goes(c, "probe", "prepare")
    /\ UNCHANGED <<lock, target, phase, files, given, abandoned>>

\* _wait_for_release: anything but "draining" ends the wait.
DrainEnds(c) ==
    /\ Goes(c, "drain", "prepare")
    /\ UNCHANGED <<lock, target, phase, files, given, abandoned>>

MayLaunch == token # "empty" /\ \A s \in Services : ~Listening(s)

\* The drain lasts, the port is taken, the credential differs, the runtime is
\* not ready, or the credential cannot be written.
Refused(c) ==
    /\ pc[c] \in {"drain", "prepare", "launch"}
    /\ Return(c)
    /\ UNCHANGED <<phase, files, given, abandoned>>

\* _write_private truncates the credential before it writes it again.
Truncates(c) ==
    /\ MayLaunch
    /\ Goes(c, "prepare", "launch")
    /\ token' = "empty"
    /\ UNCHANGED <<lock, target, phase, ready, manager, given, abandoned>>

Launches(c, s) ==
    /\ Goes(c, "launch", "await")
    /\ Becomes(s, "unborn", "booting")
    /\ target' = [target EXCEPT ![c] = s]
    /\ token' = "ok"
    /\ ready' = None
    /\ UNCHANGED <<lock, manager, given, abandoned>>

\* The process cannot be created.
PopenFails(c) ==
    /\ pc[c] = "launch"
    /\ token' = "ok"
    /\ ready' = None
    /\ Return(c)
    /\ UNCHANGED <<phase, manager, given, abandoned>>

SeesReceipt(c) ==
    /\ ready # None
    /\ Goes(c, "await", "read")
    /\ UNCHANGED <<lock, target, phase, files, given, abandoned>>

\* The receipt vanished since, its service is gone or silent, or it answers:
\* then manager.json is opened for it.
ReadsReceipt(c) ==
    /\ IF ready = None THEN Goes(c, "read", "failed") /\ UNCHANGED <<target, manager, abandoned>>
       ELSE \/ Goes(c, "read", "await") /\ UNCHANGED <<target, manager, abandoned>>
            \/ /\ phase[ready] = "serving"
               /\ Goes(c, "read", "confirm")
               /\ target' = [target EXCEPT ![c] = ready]
               /\ manager' = "partial"
               /\ abandoned' = abandoned \cup ({target[c]} \ {ready})
    /\ UNCHANGED <<lock, phase, token, ready, given>>

Confirms(c) ==
    /\ pc[c] = "confirm"
    /\ manager' = target[c]
    /\ given' = given \cup {target[c]}
    /\ Return(c)
    /\ UNCHANGED <<phase, token, ready, abandoned>>

\* The process ended, STARTUP_TIMEOUT_SECONDS passed or a receipt could not be
\* written.
Fails(c) ==
    /\ pc[c] \in {"await", "confirm"}
    /\ pc' = [pc EXCEPT ![c] = "failed"]
    /\ UNCHANGED <<lock, target, phase, files, given, abandoned>>

\* except: the receipt is looked up first.
Undoes(c) ==
    /\ Goes(c, "failed", IF ready = None THEN "term" ELSE "undo")
    /\ UNCHANGED <<lock, target, phase, files, given, abandoned>>

\* The service the receipt names is told to end, if it has our command line.
\* A receipt that vanished since is an error nobody catches.
UndoesReceipt(c) ==
    /\ pc[c] = "undo"
    /\ IF ready = None
       THEN /\ Return(c)
            /\ abandoned' = abandoned \cup {target[c]}
            /\ UNCHANGED phase
       ELSE /\ Goes(c, "undo", "term")
            /\ phase' = Terminated(ready)
            /\ UNCHANGED <<lock, target, abandoned>>
    /\ UNCHANGED <<files, given>>

\* The process it launched is told to end as well, and killed if it does not.
Tells(c) ==
    /\ Goes(c, "term", "kill")
    /\ phase' = Terminated(target[c])
    /\ UNCHANGED <<lock, target, files, given, abandoned>>

Kills(c) ==
    /\ pc[c] = "kill"
    /\ phase' = Killed(target[c])
    /\ Return(c)
    /\ UNCHANGED <<files, given, abandoned>>
----------------------------------------------------------------------------
(* stop_server *)

\* No receipt, or one that cannot be parsed.
NothingToStop(c) ==
    /\ pc[c] = "lookup" /\ manager \in {None, "partial"}
    /\ Return(c)
    /\ UNCHANGED <<phase, files, given, abandoned>>

Looks(c) ==
    /\ manager \in Services
    /\ Goes(c, "lookup", "ask")
    /\ target' = [target EXCEPT ![c] = manager]
    /\ UNCHANGED <<lock, phase, files, given, abandoned>>

\* The process has ended; its PID may be another process's already.
AlreadyEnded(c) ==
    /\ pc[c] = "ask" /\ Ended(target[c])
    /\ \/ Goes(c, "ask", "unlink") /\ UNCHANGED <<lock, target>>
       \/ Return(c)
    /\ UNCHANGED <<phase, files, given, abandoned>>

\* _request_shutdown, answered by whatever service listens.
Asks(c, s) ==
    /\ Goes(c, "ask", "wait")
    /\ ~Ended(target[c]) /\ ready # None /\ token = "ok"
    /\ Listening(s)
    /\ phase' = [phase EXCEPT ![s] = "draining"]
    /\ UNCHANGED <<lock, target, files, given, abandoned>>

\* No port to ask, or no answer; the request may have arrived.
Unasked(c) ==
    /\ Goes(c, "ask", "force")
    /\ ~Ended(target[c])
    /\ UNCHANGED <<lock, target, phase, files, given, abandoned>>

WaitTimesOut(c) ==
    /\ Goes(c, "wait", "force")
    /\ UNCHANGED <<lock, target, phase, files, given, abandoned>>

Terminates(c) ==
    /\ Goes(c, "force", "forced")
    /\ ~Ended(target[c])
    /\ phase' = Terminated(target[c])
    /\ UNCHANGED <<lock, target, files, given, abandoned>>

StopKills(c) ==
    /\ Goes(c, "forced", "unlink")
    /\ phase' = Killed(target[c])
    /\ UNCHANGED <<lock, target, files, given, abandoned>>

\* Mutant: an accepted shutdown counts as an end.
SeesAccepted(c) ==
    /\ pc[c] \in {"wait", "force"}
    /\ pc' = [pc EXCEPT ![c] = "unlink"]
    /\ UNCHANGED <<lock, target, phase, files, given, abandoned>>

SeesEnd(c) ==
    /\ pc[c] \in {"wait", "force"} /\ Ended(target[c])
    /\ pc' = [pc EXCEPT ![c] = "unlink"]
    /\ UNCHANGED <<lock, target, phase, files, given, abandoned>>

UnlinksManager(c) ==
    /\ Goes(c, "unlink", "unlinked")
    /\ manager' = None
    /\ UNCHANGED <<lock, target, phase, token, ready, given, abandoned>>

UnlinksReceipt(c) ==
    /\ pc[c] = "unlinked"
    /\ ready' = None
    /\ Return(c)
    /\ UNCHANGED <<phase, token, manager, given, abandoned>>
----------------------------------------------------------------------------
Process(s) ==
    \/ BootFails(s) \/ Bind(s) \/ Startup(s) \/ StartupFails(s)
    \/ Retire(s) \/ ShutsDown(s) \/ RemovesReceipt(s) \/ Exits(s) \/ Dies(s)

Ensure(c) ==
    \/ \E s \in Services : FindsHealthy(c, s) \/ Launches(c, s)
    \/ FindsDraining(c) \/ FindsNothing(c) \/ DrainEnds(c) \/ Refused(c)
    \/ Truncates(c) \/ PopenFails(c) \/ SeesReceipt(c) \/ ReadsReceipt(c) \/ Confirms(c)
    \/ Fails(c) \/ Undoes(c) \/ UndoesReceipt(c) \/ Tells(c) \/ Kills(c)

Stop(c) ==
    \/ NothingToStop(c) \/ Looks(c) \/ AlreadyEnded(c)
    \/ \E s \in Services : Asks(c, s)
    \/ Unasked(c) \/ WaitTimesOut(c) \/ Terminates(c) \/ StopKills(c)
    \/ SeesEnd(c) \/ UnlinksManager(c) \/ UnlinksReceipt(c)

Next ==
    \/ \E s \in Services : Process(s)
    \/ \E c \in Callers : Begins(c) \/ LockTimesOut(c) \/ Acquire(c) \/ CallerDies(c)
                          \/ Ensure(c) \/ Stop(c)

Spec == Init /\ [][Next]_vars
----------------------------------------------------------------------------
(* Properties *)

\* A service that can be used can be stopped: manager.json names it, unless its
\* launch is under way or was never concluded.  In particular no stop removes
\* the receipt of a replacement (api_service.py:292), and no failed launch
\* leaves a service behind.
NoStrayService ==
    \A s \in Services : Listening(s) =>
        \/ manager = s
        \/ \E c \in Callers : lock = c /\ Launching(c) /\ target[c] = s
        \/ s \in abandoned

\* A launch that fails ends no service that a caller was told to use.
UndoSparesGiven ==
    [][\A c \in Callers : pc[c] \in {"undo", "term", "kill"} /\ pc'[c] # pc[c] =>
         \A s \in given : phase'[s] = phase[s]]_vars
=============================================================================
