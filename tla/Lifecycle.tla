----------------------------- MODULE Lifecycle -----------------------------
(***************************************************************************)
(* When the shared API service may stop (service_lifecycle.py and its      *)
(* callers in api.py).  Hermes processes announce themselves, by PID and   *)
(* creation time, and their open bridge clients with every request; the    *)
(* service counts them, hands the clients of processes that exited to the  *)
(* owners, retires once it rests with no client open, and drains when it   *)
(* is asked to stop.                                                       *)
(*                                                                         *)
(* Requests travel on separate connections: they are delayed, reordered    *)
(* and lost, and may arrive after their process exited.  PIDs are reused.  *)
(***************************************************************************)
EXTENDS Naturals, FiniteSets

CONSTANTS
    Processes,   \* Hermes processes: a PID with its creation time
    Pids, PidOf,
    Clients,     \* bridge clients
    ProcessOf,
    MaxClients,  \* MAX_CLIENTS: PIDs the service remembers
    MaxOpen,     \* MAX_OPEN_PER_CLIENT
    MaxRequests, \* bound: requests on their way or being served
    None

Of(p) == {c \in Clients : ProcessOf[c] = p}

\* The limits exceed what the processes use at once; None is no process.
ASSUME LifecycleAssumption ==
    /\ IsFiniteSet(Processes) /\ IsFiniteSet(Clients)
    /\ PidOf \in [Processes -> Pids] /\ ProcessOf \in [Clients -> Processes]
    /\ None \notin Processes \cup Clients
    /\ MaxClients \in Nat /\ MaxOpen \in Nat /\ MaxRequests \in Nat
    /\ \A p \in Processes : Cardinality(Of(p)) <= MaxOpen

VARIABLES
    phase,     \* of each process: unborn, running, exited
    wrapper,   \* of each client in its process: new, probing, failed, open, closed
    wire,      \* requests sent and not arrived
    activity,  \* ServiceActivity: clients, open and orphaned
    flights,   \* requests being served
    rested,    \* idle_seconds have passed since the last request came or went
    busy,      \* some owner is busy
    draining,
    drain,     \* the drain task: none, polling, over
    exits,     \* calls of idle_exit
    up,
    noted,     \* ghost: clients the service took note of and did not release
    handed     \* ghost: clients handed to Owners.release_leases

hermes  == <<phase, wrapper, wire>>
service == <<flights, rested, busy, draining, drain, exits, up>>
vars    == <<hermes, activity, service, noted, handed>>

Message(c, kind) == [client |-> c, kind |-> kind]

Init ==
    /\ phase = [p \in Processes |-> "unborn"]
    /\ wrapper = [c \in Clients |-> "new"]
    /\ wire = {}
    /\ activity = [clients |-> [i \in Pids |-> None], open |-> [i \in Pids |-> {}],
                   orphaned |-> {}]
    /\ flights = {} /\ rested = FALSE /\ busy = FALSE
    /\ draining = FALSE /\ drain = "none" /\ exits = 0 /\ up = TRUE
    /\ noted = {} /\ handed = {}
----------------------------------------------------------------------------
(* Hermes processes and their clients; the model ends when the service does *)

Running(p) == phase[p] = "running"

\* Bounds: no more processes at once than the service remembers, and a PID is
\* reused only once nothing of its previous process is on the way.
Start(p) ==
    /\ up /\ phase[p] = "unborn"
    /\ Cardinality({q \in Processes : Running(q)}) < MaxClients
    /\ \A q \in Processes : PidOf[q] = PidOf[p] =>
         /\ ~Running(q)
         /\ \A m \in wire : m.client \notin Of(q)
    /\ phase' = [phase EXCEPT ![p] = "running"]
    /\ UNCHANGED <<wrapper, wire, activity, service, noted, handed>>

\* Its clients are not closed by an exit.
Exit(p) ==
    /\ up /\ Running(p)
    /\ phase' = [phase EXCEPT ![p] = "exited"]
    /\ UNCHANGED <<wrapper, wire, activity, service, noted, handed>>

Send(c, from, to, kind) ==
    /\ up /\ Running(ProcessOf[c])
    /\ wrapper[c] = from
    /\ Cardinality(wire) + Cardinality(flights) < MaxRequests
    /\ wrapper' = [wrapper EXCEPT ![c] = to]
    /\ wire' = wire \cup {Message(c, kind)}
    /\ UNCHANGED <<phase, activity, service, noted, handed>>

\* ensure_server probes a running service with the client it is about to open.
Create(c) == Send(c, "new", "probing", "probe")

Complete(c) == Send(c, "open", "open", "complete")

Close(c) == Send(c, "open", "closed", "close")

\* No answer within the probe's timeout, or an answer that the service drains.
CreateFails(c) ==
    /\ up /\ Running(ProcessOf[c])
    /\ wrapper[c] = "probing"
    /\ wrapper' = [wrapper EXCEPT ![c] = "failed"]
    /\ UNCHANGED <<phase, wire, activity, service, noted, handed>>

\* A refused connection, or one its process took down.
Lose(m) ==
    /\ up
    /\ wire' = wire \ {m}
    /\ UNCHANGED <<phase, wrapper, activity, service, noted, handed>>
----------------------------------------------------------------------------
(* ServiceActivity *)

\* Mutant: the open clients of a process that exited stay counted.
PrunedKeepsOpen(a) ==
    LET dead == {i \in Pids : a.clients[i] # None /\ ~Running(a.clients[i])}
    IN  [a EXCEPT !.clients = [i \in Pids |-> IF i \in dead THEN None ELSE a.clients[i]],
                  !.orphaned = @ \cup UNION {a.open[i] : i \in dead}]

\* Mutant: the clients of a process that exited are dropped.
PrunedForgets(a) ==
    LET dead == {i \in Pids : a.clients[i] # None /\ ~Running(a.clients[i])}
    IN  [a EXCEPT !.clients = [i \in Pids |-> IF i \in dead THEN None ELSE a.clients[i]],
                  !.open = [i \in Pids |-> IF i \in dead THEN {} ELSE a.open[i]]]

\* prune
Pruned(a) ==
    LET dead == {i \in Pids : a.clients[i] # None /\ ~Running(a.clients[i])}
    IN  [clients  |-> [i \in Pids |-> IF i \in dead THEN None ELSE a.clients[i]],
         open     |-> [i \in Pids |-> IF i \in dead THEN {} ELSE a.open[i]],
         orphaned |-> a.orphaned \cup UNION {a.open[i] : i \in dead}]

Full(a) == Cardinality({i \in Pids : a.clients[i] # None}) >= MaxClients

\* Mutant: the clients of a reused PID are dropped.
NotedForgets(a, c) ==
    LET p == ProcessOf[c]
        kept == IF a.clients[PidOf[p]] = p THEN a.open[PidOf[p]] ELSE {}
    IN  [a EXCEPT !.clients[PidOf[p]] = p, !.open[PidOf[p]] = kept \cup {c}]

\* Mutant: every request announces a new process.
NotedAfresh(a, c) ==
    LET p == ProcessOf[c]
    IN  [a EXCEPT !.clients[PidOf[p]] = p, !.open[PidOf[p]] = {c},
                  !.orphaned = @ \cup a.open[PidOf[p]]]

\* note_client, once there is room.
Noted(a, c) ==
    LET p == ProcessOf[c]
        i == PidOf[p]
        kept == IF a.clients[i] = p THEN a.open[i] ELSE {}
    IN  [clients  |-> [a.clients EXCEPT ![i] = p],
         open     |-> [a.open EXCEPT ![i] =
                         IF Cardinality(kept) < MaxOpen THEN kept \cup {c} ELSE kept],
         orphaned |-> a.orphaned \cup (a.open[i] \ kept)]

\* note_client
NoteClient(a, c) ==
    LET unknown == a.clients[PidOf[ProcessOf[c]]] = None
        b == IF unknown /\ Full(a) THEN Pruned(a) ELSE a
    IN  IF unknown /\ Full(b) THEN b ELSE Noted(b, c)

\* release_client
ReleasedClient(a, c) ==
    IF a.clients[PidOf[ProcessOf[c]]] = ProcessOf[c]
    THEN [a EXCEPT !.open[PidOf[ProcessOf[c]]] = @ \ {c}]
    ELSE a

Counted(a) == UNION {a.open[i] : i \in Pids}
----------------------------------------------------------------------------
(* Requests: _ActivityMiddleware, authenticate, health and close_owner *)

\* A draining service answers nothing but its health.
Refused(m) == draining /\ m.kind # "probe"

Arrive(m) ==
    /\ up
    /\ wire' = wire \ {m}
    /\ IF Refused(m)
       THEN UNCHANGED <<activity, flights, rested, busy, noted>>
       ELSE LET a == NoteClient(activity, m.client)
                b == IF m.kind = "close" THEN ReleasedClient(a, m.client) ELSE a
            IN  /\ activity' = b
                /\ noted' = IF m.kind = "close" THEN noted \ {m.client}
                            ELSE noted \cup ({m.client} \cap Counted(a))
                /\ flights' = flights \cup
                     {IF draining THEN Message(m.client, "refused") ELSE m}
                /\ rested' = FALSE
                /\ busy' = (busy \/ m.kind = "complete")
    /\ UNCHANGED <<phase, wrapper, draining, drain, exits, up, handed>>

\* The response is sent; a healthy answer in time makes the client.
FlightEnds(m) ==
    /\ up
    /\ flights' = flights \ {m}
    /\ rested' = FALSE
    /\ wrapper' =
         IF /\ m.kind = "probe" /\ wrapper[m.client] = "probing"
            /\ Running(ProcessOf[m.client])
         THEN [wrapper EXCEPT ![m.client] = "open"] ELSE wrapper
    /\ UNCHANGED <<phase, wire, activity, busy, draining, drain, exits, up, noted, handed>>

\* The owners finished or released what they were busy with.
OwnersSettle ==
    /\ up /\ busy
    /\ busy' = FALSE
    /\ UNCHANGED <<hermes, activity, flights, rested, draining, drain, exits, up, noted, handed>>
----------------------------------------------------------------------------
(* The tasks of the service *)

\* idle_seconds pass without a request coming or going.
Rest ==
    /\ up /\ ~rested /\ flights = {}
    /\ rested' = TRUE
    /\ UNCHANGED <<hermes, activity, flights, busy, draining, drain, exits, up, noted, handed>>

\* reaper: take_orphaned and release_leases
Reap ==
    /\ up
    /\ LET a == Pruned(activity)
       IN  /\ activity' = [a EXCEPT !.orphaned = {}]
           /\ handed' = handed \cup a.orphaned
           /\ busy' \in IF a.orphaned = {} THEN {busy} ELSE {busy, TRUE}
    /\ UNCHANGED <<hermes, flights, rested, draining, drain, exits, up, noted>>

\* Mutant: owners may still be busy when nothing is in flight.
MayRestBusy == up /\ ~draining /\ flights = {} /\ rested

\* should_retire before its prune
MayRest == up /\ ~draining /\ flights = {} /\ ~busy /\ rested

\* idle_monitor: should_retire and retire("idle")
IdleCheck ==
    /\ MayRest
    /\ activity' = Pruned(activity)
    /\ IF Counted(activity') = {} THEN draining' = TRUE /\ exits' = exits + 1
                                  ELSE UNCHANGED <<draining, exits>>
    /\ UNCHANGED <<hermes, flights, rested, busy, drain, up, noted, handed>>

\* shutdown_service
ShutdownRequested ==
    /\ up
    /\ Cardinality(wire) + Cardinality(flights) < MaxRequests
    /\ flights' = flights \cup {Message(None, "shutdown")}
    /\ rested' = FALSE
    /\ draining' = TRUE
    /\ drain' = IF draining THEN drain ELSE "polling"
    /\ UNCHANGED <<hermes, activity, busy, exits, up, noted, handed>>

\* Mutant: the drain forgets that it ended.
RetiredAgain == exits' = exits + 1 /\ UNCHANGED drain

Retired == exits' = exits + 1 /\ drain' = "over"

\* drain: nothing is in flight, or DRAIN_TIMEOUT_SECONDS have passed.
DrainEnds(expired) ==
    /\ up /\ drain = "polling"
    /\ expired \/ (flights = {} /\ ~busy)
    /\ Retired
    /\ UNCHANGED <<hermes, activity, flights, rested, busy, draining, up, noted, handed>>

\* The hosting server stops the application.
Down ==
    /\ up /\ exits > 0
    /\ up' = FALSE
    /\ UNCHANGED <<hermes, activity, flights, rested, busy, draining, drain, exits, noted, handed>>

Next ==
    \/ \E p \in Processes : Start(p) \/ Exit(p)
    \/ \E c \in Clients : Create(c) \/ Complete(c) \/ Close(c) \/ CreateFails(c)
    \/ \E m \in wire : Lose(m) \/ Arrive(m)
    \/ \E m \in flights : FlightEnds(m)
    \/ OwnersSettle
    \/ Rest
    \/ Reap
    \/ IdleCheck
    \/ ShutdownRequested
    \/ \E expired \in BOOLEAN : DrainEnds(expired)
    \/ Down

\* The event loop runs its tasks and handlers, requests are delivered or lost,
\* and the server stops when it is told to.  Nothing makes a process exit.
Fairness ==
    /\ WF_vars(\E m \in wire : Lose(m) \/ Arrive(m))
    /\ WF_vars(\E m \in flights : FlightEnds(m))
    /\ WF_vars(OwnersSettle) /\ WF_vars(Rest) /\ WF_vars(Reap)
    /\ WF_vars(IdleCheck) /\ WF_vars(\E expired \in BOOLEAN : DrainEnds(expired))
    /\ WF_vars(Down)

Spec == Init /\ [][Next]_vars

FairSpec == Spec /\ Fairness
----------------------------------------------------------------------------
(* Properties *)

Messages == [client : Clients, kind : {"probe", "complete", "close"}]

\* The service asks to be stopped at most once (api.py:1062), its counters keep
\* their shape, and it counts clients only for PIDs it knows.
TypeOK ==
    /\ phase \in [Processes -> {"unborn", "running", "exited"}]
    /\ wrapper \in [Clients -> {"new", "probing", "failed", "open", "closed"}]
    /\ wire \subseteq Messages
    /\ activity \in [clients : [Pids -> Processes \cup {None}],
                     open : [Pids -> SUBSET Clients], orphaned : SUBSET Clients]
    /\ \A i \in Pids : activity.clients[i] = None => activity.open[i] = {}
    /\ flights \subseteq Messages \cup [client : Clients, kind : {"refused"}]
                          \cup {Message(None, "shutdown")}
    /\ rested \in BOOLEAN /\ busy \in BOOLEAN /\ draining \in BOOLEAN
    /\ drain \in {"none", "polling", "over"} /\ exits \in 0 .. 1 /\ up \in BOOLEAN
    /\ noted \subseteq Clients /\ handed \subseteq Clients

Exited(c) == phase[ProcessOf[c]] = "exited"

\* Only clients of processes that are gone are taken away as orphans, whatever
\* PIDs are reused: their owners would be released under a live Hermes.
OrphansAreDead == \A c \in activity.orphaned \cup handed : Exited(c)

\* A client the service took note of is never forgotten: until it is closed it
\* is counted, waits as an orphan or was handed to the owners, so that its
\* native session is released.
NotedIsConserved == noted \subseteq Counted(activity) \cup activity.orphaned \cup handed

\* The service retires on its own only when it is unused: no request is served,
\* no owner is busy and every open client belongs to a process that exited
\* (service_lifecycle.py:4).
RetiresOnlyUnused ==
    [][~draining /\ draining' /\ drain' = "none" =>
         /\ flights = {} /\ ~busy
         /\ \A c \in Clients : wrapper[c] = "open" => Exited(c)]_vars

AllExited == \A p \in Processes : phase[p] = "exited"

\* Again and again every noted client of a process that exited has reached the
\* owners, until the service stops and releases everything.
OrphansHandedOver == []<>(~up \/ \A c \in noted : Exited(c) => c \in handed)

\* Once every process exited the service stops, although requests of theirs may
\* still arrive and note their clients again.
UnusedServiceStops == AllExited ~> ~up
=============================================================================
