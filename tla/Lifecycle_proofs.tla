-------------------------- MODULE Lifecycle_proofs --------------------------
(***************************************************************************)
(* For every set of processes, PIDs and clients and every limit: only dead *)
(* processes' clients are orphaned, no noted client is forgotten, and the  *)
(* service never retires under an open client.                             *)
(***************************************************************************)
EXTENDS Lifecycle, FiniteSetTheorems, TLAPS

Phases == [Processes -> {"unborn", "running", "exited"}]

Activities == [clients : [Pids -> Processes \cup {None}],
               open : [Pids -> SUBSET Clients], orphaned : SUBSET Clients]

\* The tables of ServiceActivity agree with the processes.
Sound(a) ==
    /\ a \in Activities
    /\ \A i \in Pids : a.clients[i] = None => a.open[i] = {}
    /\ \A i \in Pids : a.clients[i] # None =>
         PidOf[a.clients[i]] = i /\ phase[a.clients[i]] # "unborn"
    /\ \A i \in Pids : \A c \in a.open[i] : ProcessOf[c] = a.clients[i]
    /\ \A c \in a.orphaned : Exited(c)

Holds(a) == Counted(a) \cup a.orphaned

AllRunning == {q \in Processes : Running(q)}

\* The PID of p belongs to no other running process.
Alone(p) == \A q \in Processes : PidOf[q] = PidOf[p] /\ q # p => ~Running(q)

\* Forgetting dead processes moves their clients to the orphans.
LEMMA PrunedSound ==
  ASSUME phase \in Phases, NEW a, Sound(a)
  PROVE  /\ Sound(Pruned(a))
         /\ Holds(Pruned(a)) = Holds(a)
         /\ \A c \in Counted(a) : Running(ProcessOf[c]) => c \in Counted(Pruned(a))
         /\ \A i \in Pids : Pruned(a).clients[i] # None => Running(Pruned(a).clients[i])
<1>. DEFINE dead == {i \in Pids : a.clients[i] # None /\ ~Running(a.clients[i])}
            b == Pruned(a)
<1>1. /\ b.clients = [i \in Pids |-> IF i \in dead THEN None ELSE a.clients[i]]
      /\ b.open = [i \in Pids |-> IF i \in dead THEN {} ELSE a.open[i]]
      /\ b.orphaned = a.orphaned \cup UNION {a.open[i] : i \in dead}
  BY DEF Pruned
<1>2. b \in Activities
  <2>1. b.clients \in [Pids -> Processes \cup {None}]
    BY <1>1 DEF Sound, Activities
  <2>2. b.open \in [Pids -> SUBSET Clients] /\ b.orphaned \in SUBSET Clients
    BY <1>1 DEF Sound, Activities
  <2>. QED BY <2>1, <2>2 DEF Pruned, Activities
<1>3. \A i \in Pids : /\ b.clients[i] = IF i \in dead THEN None ELSE a.clients[i]
                      /\ b.open[i] = IF i \in dead THEN {} ELSE a.open[i]
  BY <1>1
<1>4. \A c \in b.orphaned : Exited(c)
  <2>. SUFFICES ASSUME NEW i \in dead, NEW c \in a.open[i]
                PROVE  Exited(c)
    BY <1>1 DEF Sound
  <2>1. ProcessOf[c] = a.clients[i] /\ phase[a.clients[i]] # "unborn"
    BY DEF Sound
  <2>2. a.clients[i] \in Processes
    BY DEF Sound, Activities
  <2>. QED BY <2>1, <2>2 DEF Exited, Running, Phases
<1>5. Sound(b)
  BY <1>2, <1>3, <1>4 DEF Sound
<1>6. Holds(b) = Holds(a)
  BY <1>1, <1>3 DEF Holds, Counted
<1>7. ASSUME NEW c \in Counted(a), Running(ProcessOf[c])
      PROVE  c \in Counted(b)
  <2>1. PICK i \in Pids : c \in a.open[i]
    BY DEF Counted
  <2>2. i \notin dead
    BY <2>1, <1>7 DEF Sound
  <2>. QED BY <2>1, <2>2, <1>3 DEF Counted
<1>8. \A i \in Pids : b.clients[i] # None => Running(b.clients[i])
  BY <1>3
<1>. QED BY <1>5, <1>6, <1>7, <1>8

\* There is room in the set of a process for each of its clients.
LEMMA RoomForClient ==
  ASSUME NEW c \in Clients, NEW kept \in SUBSET Of(ProcessOf[c]), c \notin kept
  PROVE  Cardinality(kept) < MaxOpen
<1>. DEFINE all == Of(ProcessOf[c])
<1>1. ProcessOf[c] \in Processes /\ c \in all /\ all \in SUBSET Clients
  BY LifecycleAssumption DEF Of
<1>2. IsFiniteSet(all) /\ Cardinality(all) \in Nat /\ Cardinality(all) <= MaxOpen
  BY <1>1, FS_Subset, FS_CardinalityType, LifecycleAssumption
<1>3. IsFiniteSet(kept) /\ Cardinality(kept) \in Nat /\ Cardinality(kept) <= Cardinality(all)
  BY <1>2, FS_Subset, FS_CardinalityType
<1>4. Cardinality(kept) # Cardinality(all)
  BY <1>1, <1>2, FS_Subset
<1>. QED BY <1>2, <1>3, <1>4, LifecycleAssumption

\* A process announces itself with a client: its PID becomes its own.
LEMMA NotedSound ==
  ASSUME phase \in Phases, NEW a, Sound(a), NEW c \in Clients,
         phase[ProcessOf[c]] # "unborn", Alone(ProcessOf[c])
  PROVE  /\ Sound(Noted(a, c))
         /\ Holds(a) \subseteq Holds(Noted(a, c))
         /\ c \in Counted(Noted(a, c))
<1>. DEFINE p == ProcessOf[c]
            j == PidOf[p]
            kept == IF a.clients[j] = p THEN a.open[j] ELSE {}
            b == Noted(a, c)
<1>1. p \in Processes /\ j \in Pids /\ p # None
  BY LifecycleAssumption
<1>2. kept \in SUBSET Of(p)
  BY <1>1 DEF Sound, Activities, Of
<1>3. (IF Cardinality(kept) < MaxOpen THEN kept \cup {c} ELSE kept) = kept \cup {c}
  BY <1>2, RoomForClient
<1>4. /\ b.clients = [a.clients EXCEPT ![j] = p]
      /\ b.open = [a.open EXCEPT ![j] = kept \cup {c}]
      /\ b.orphaned = a.orphaned \cup (a.open[j] \ kept)
  BY <1>3 DEF Noted
<1>5. b \in Activities
  <2>1. b.clients \in [Pids -> Processes \cup {None}]
    BY <1>1, <1>4 DEF Sound, Activities
  <2>2. b.open \in [Pids -> SUBSET Clients] /\ b.orphaned \in SUBSET Clients
    BY <1>1, <1>4 DEF Sound, Activities
  <2>. QED BY <2>1, <2>2 DEF Noted, Activities
<1>6. \A i \in Pids : /\ b.clients[i] = IF i = j THEN p ELSE a.clients[i]
                      /\ b.open[i] = IF i = j THEN kept \cup {c} ELSE a.open[i]
  BY <1>4 DEF Sound, Activities
<1>7. \A d \in b.orphaned : Exited(d)
  <2>. SUFFICES ASSUME NEW d \in a.open[j] \ kept
                PROVE  Exited(d)
    BY <1>4 DEF Sound
  <2>1. ProcessOf[d] = a.clients[j] /\ a.clients[j] # p /\ a.clients[j] # None
    BY <1>1 DEF Sound
  <2>2. a.clients[j] \in Processes /\ PidOf[a.clients[j]] = j /\ phase[a.clients[j]] # "unborn"
    BY <1>1, <2>1 DEF Sound, Activities
  <2>. QED BY <2>1, <2>2 DEF Alone, Exited, Running, Phases
<1>8. \A i \in Pids : \A d \in b.open[i] : ProcessOf[d] = b.clients[i]
  BY <1>1, <1>2, <1>6 DEF Sound, Of
<1>9. Sound(b)
  BY <1>1, <1>5, <1>6, <1>7, <1>8 DEF Sound
<1>10. Holds(a) \subseteq Holds(b)
  BY <1>4, <1>6 DEF Holds, Counted
<1>11. c \in Counted(b)
  BY <1>1, <1>6 DEF Counted
<1>. QED BY <1>9, <1>10, <1>11

\* After a prune the table has room for a running process it does not know.
LEMMA RoomForProcess ==
  ASSUME phase \in Phases, NEW a, Sound(a), NEW p \in Processes, Running(p),
         a.clients[PidOf[p]] = None, Cardinality(AllRunning) <= MaxClients,
         \A i \in Pids : a.clients[i] # None => Running(a.clients[i])
  PROVE  ~Full(a)
<1>. DEFINE known == {i \in Pids : a.clients[i] # None}
            others == AllRunning \ {p}
            f == [i \in known |-> a.clients[i]]
<1>1. IsFiniteSet(AllRunning) /\ Cardinality(AllRunning) \in Nat
  BY FS_Subset, FS_CardinalityType, LifecycleAssumption DEF AllRunning
<1>2. p \in AllRunning
  BY DEF AllRunning
<1>3. IsFiniteSet(others) /\ Cardinality(others) = Cardinality(AllRunning) - 1
  BY <1>1, <1>2, FS_RemoveElement
<1>4. f \in Injection(known, others)
  <2>1. \A i \in known : a.clients[i] \in others
    BY DEF Sound, Activities, AllRunning
  <2>2. \A i, k \in known : f[i] = f[k] => i = k
    BY DEF Sound
  <2>. QED BY <2>1, <2>2 DEF Injection, IsInjective
<1>5. IsFiniteSet(known) /\ Cardinality(known) <= Cardinality(others)
  BY <1>3, <1>4, FS_Injection
<1>6. Cardinality(known) \in Nat
  BY <1>5, FS_CardinalityType
<1>. QED BY <1>1, <1>3, <1>5, <1>6, LifecycleAssumption DEF Full

\* note_client forgets nobody, and takes note of the client of a running process.
LEMMA NoteClientSound ==
  ASSUME phase \in Phases, NEW a, Sound(a), NEW c \in Clients,
         phase[ProcessOf[c]] # "unborn", Alone(ProcessOf[c]),
         Cardinality(AllRunning) <= MaxClients
  PROVE  /\ Sound(NoteClient(a, c))
         /\ Holds(a) \subseteq Holds(NoteClient(a, c))
         /\ Running(ProcessOf[c]) => c \in Counted(NoteClient(a, c))
<1>. DEFINE unknown == a.clients[PidOf[ProcessOf[c]]] = None
            b == IF unknown /\ Full(a) THEN Pruned(a) ELSE a
<1>1. Sound(b) /\ Holds(b) = Holds(a)
  BY PrunedSound
<1>2. CASE unknown /\ Full(b)
  <2>1. NoteClient(a, c) = b
    BY <1>2 DEF NoteClient
  <2>2. CASE Full(a)
    <3>1. b = Pruned(a) /\ ProcessOf[c] \in Processes /\ PidOf[ProcessOf[c]] \in Pids
      BY <1>2, <2>2, LifecycleAssumption
    <3>2. b.clients[PidOf[ProcessOf[c]]] = None
      BY <1>2, <3>1 DEF Pruned
    <3>3. \A i \in Pids : b.clients[i] # None => Running(b.clients[i])
      BY <3>1, PrunedSound
    <3>4. ~Running(ProcessOf[c])
      BY <1>1, <1>2, <3>1, <3>2, <3>3, RoomForProcess
    <3>. QED BY <1>1, <2>1, <3>4
  <2>3. CASE ~Full(a)
    BY <1>2, <2>3
  <2>. QED BY <2>2, <2>3
<1>3. CASE ~(unknown /\ Full(b))
  <2>1. NoteClient(a, c) = Noted(b, c)
    BY <1>3 DEF NoteClient
  <2>. QED BY <1>1, <2>1, NotedSound
<1>. QED BY <1>2, <1>3

\* release_client forgets only the client it names.
LEMMA ReleasedClientSound ==
  ASSUME NEW a, Sound(a), NEW c \in Clients
  PROVE  /\ Sound(ReleasedClient(a, c))
         /\ Holds(a) \ {c} \subseteq Holds(ReleasedClient(a, c))
<1>. DEFINE j == PidOf[ProcessOf[c]]
            b == ReleasedClient(a, c)
<1>1. j \in Pids
  BY LifecycleAssumption
<1>2. CASE a.clients[j] = ProcessOf[c]
  <2>1. b = [a EXCEPT !.open[j] = @ \ {c}]
    BY <1>2 DEF ReleasedClient
  <2>2. b \in Activities /\ b.clients = a.clients /\ b.orphaned = a.orphaned
    BY <1>1, <2>1 DEF Sound, Activities
  <2>3. \A i \in Pids : b.open[i] = IF i = j THEN a.open[j] \ {c} ELSE a.open[i]
    BY <1>1, <2>1 DEF Sound, Activities
  <2>. QED BY <2>2, <2>3 DEF Sound, Holds, Counted
<1>3. CASE a.clients[j] # ProcessOf[c]
  BY <1>3 DEF ReleasedClient
<1>. QED BY <1>2, <1>3
----------------------------------------------------------------------------
(* The inductive invariant *)

\* No more processes at once than MAX_CLIENTS, no two on one PID, and nothing
\* of the last process of a PID is on its way once the PID is reused.
Crowd ==
    /\ Cardinality(AllRunning) <= MaxClients
    /\ \A p \in Processes : Running(p) => Alone(p)
    /\ \A m \in wire : Alone(ProcessOf[m.client])

\* What is sent comes from a process that was started, after its close a
\* client sends nothing that opens it, and a client that is or may become open
\* has been taken note of.
Sent ==
    /\ \A c \in Clients : wrapper[c] # "new" => phase[ProcessOf[c]] # "unborn"
    /\ \A m \in wire : phase[ProcessOf[m.client]] # "unborn" /\ wrapper[m.client] # "new"
    /\ \A m \in wire : m.kind = "close" => wrapper[m.client] = "closed"
    /\ \A m \in flights :
         m.kind = "probe" =>
            /\ wrapper[m.client] # "new"
            /\ wrapper[m.client] = "probing" /\ Running(ProcessOf[m.client]) => m.client \in noted
    /\ \A c \in Clients : wrapper[c] = "open" /\ Running(ProcessOf[c]) => c \in noted

\* The service starts to drain once, and asks to be stopped once.
Stopping ==
    /\ ~draining => exits = 0 /\ drain = "none"
    /\ drain = "polling" => exits = 0

IInv ==
    /\ TypeOK /\ Stopping
    /\ Sound(activity) /\ OrphansAreDead /\ NotedIsConserved
    /\ Crowd /\ Sent

\* A service that has just started knows nobody.
LEMMA InitIInv == Init => IInv
<1>. SUFFICES ASSUME Init PROVE IInv
  OBVIOUS
<1>1. Sound(activity)
  BY DEF Init, Sound, Activities
<1>2. TypeOK /\ Stopping
  <2>1. /\ phase \in [Processes -> {"unborn", "running", "exited"}]
        /\ wrapper \in [Clients -> {"new", "probing", "failed", "open", "closed"}]
    BY DEF Init
  <2>2. /\ activity \in Activities
        /\ \A i \in Pids : activity.clients[i] = None => activity.open[i] = {}
    BY <1>1 DEF Sound
  <2>3. wire = {} /\ flights = {} /\ noted = {} /\ handed = {}
    BY DEF Init
  <2>4. /\ rested = FALSE /\ busy = FALSE /\ draining = FALSE
        /\ drain = "none" /\ exits = 0 /\ up = TRUE
    BY DEF Init
  <2>5. rested \in BOOLEAN /\ busy \in BOOLEAN /\ draining \in BOOLEAN /\ up \in BOOLEAN
    BY <2>4
  <2>6. drain \in {"none", "polling", "over"} /\ exits \in 0 .. 1 /\ Stopping
    BY <2>4 DEF Stopping
  <2>. QED BY <2>1, <2>2, <2>3, <2>5, <2>6 DEF TypeOK, Activities
<1>3. OrphansAreDead /\ NotedIsConserved /\ Sent
  BY DEF Init, OrphansAreDead, NotedIsConserved, Sent
<1>4. Crowd
  <2>1. AllRunning = {}
    BY DEF Init, AllRunning, Running
  <2>2. Cardinality(AllRunning) <= MaxClients
    BY <2>1, FS_EmptySet, LifecycleAssumption
  <2>. QED BY <2>2 DEF Init, Crowd, Alone, Running
<1>. QED BY <1>1, <1>2, <1>3, <1>4 DEF IInv

\* Steps that leave the processes and the tables alone keep what is said of them.
LEMMA QuietStep ==
  ASSUME IInv, UNCHANGED <<phase, activity, noted, handed>>,
         wire' \subseteq wire
  PROVE  /\ Sound(activity)' /\ OrphansAreDead' /\ NotedIsConserved' /\ Crowd'
         /\ \A m \in wire' : phase'[ProcessOf[m.client]] # "unborn"
<1>1. Sound(activity)'
  BY DEF IInv, Sound, Activities, Exited
<1>2. OrphansAreDead' /\ NotedIsConserved'
  BY DEF IInv, OrphansAreDead, NotedIsConserved, Exited, Counted
<1>3. Crowd'
  BY DEF IInv, Crowd, AllRunning, Running, Alone
<1>. QED BY <1>1, <1>2, <1>3 DEF IInv, Sent

\* A process starts on a PID of which nothing is left.
LEMMA StartIInv ==
  ASSUME IInv, NEW p \in Processes, Start(p)
  PROVE  IInv'
<1>. USE DEF service
<1>1. TypeOK' /\ Stopping'
  BY DEF IInv, TypeOK, Stopping, Start
<1>2. \A q \in Processes : phase'[q] = IF q = p THEN "running" ELSE phase[q]
  BY DEF IInv, TypeOK, Start
<1>3. phase[p] = "unborn" /\ UNCHANGED <<wrapper, wire, activity, flights, noted, handed>>
  BY DEF Start
<1>4. \A c \in Clients : ProcessOf[c] \in Processes
  BY LifecycleAssumption
<1>5. \A c \in Clients : Exited(c) => Exited(c)'
  BY <1>2, <1>3, <1>4 DEF Exited
<1>6. Sound(activity)'
  <2>1. \A i \in Pids : activity.clients[i] # None => activity.clients[i] \in Processes
    BY DEF IInv, Sound, Activities
  <2>. QED BY <1>2, <1>3, <1>5, <2>1 DEF IInv, Sound, Activities
<1>7. OrphansAreDead' /\ NotedIsConserved'
  BY <1>3, <1>5 DEF IInv, TypeOK, OrphansAreDead, NotedIsConserved, Counted
<1>8. Crowd'
  <2>1. AllRunning' = AllRunning \cup {p}
    BY <1>2 DEF AllRunning, Running
  <2>2. IsFiniteSet(AllRunning) /\ Cardinality(AllRunning) \in Nat
    BY FS_Subset, FS_CardinalityType, LifecycleAssumption DEF AllRunning
  <2>3. Cardinality(AllRunning) < MaxClients
    BY DEF Start, AllRunning
  <2>4. Cardinality(AllRunning \cup {p}) <= MaxClients
    <3>1. Cardinality(AllRunning \cup {p}) =
            IF p \in AllRunning THEN Cardinality(AllRunning) ELSE Cardinality(AllRunning) + 1
      BY <2>2, FS_AddElement
    <3>. QED BY <2>2, <2>3, <3>1, LifecycleAssumption
  <2>5. \A q \in Processes : PidOf[q] = PidOf[p] =>
          ~Running(q) /\ \A m \in wire : m.client \notin Of(q)
    BY DEF Start
  <2>6. \A q \in Processes : Running(q)' => Alone(q)'
    BY <1>2, <2>5 DEF IInv, Crowd, Alone, Running
  <2>7. \A m \in wire' : Alone(ProcessOf[m.client])'
    <3>. SUFFICES ASSUME NEW m \in wire PROVE Alone(ProcessOf[m.client])'
      BY <1>3
    <3>1. m.client \in Clients /\ ProcessOf[m.client] \in Processes
      BY LifecycleAssumption DEF IInv, TypeOK, Messages
    <3>2. PidOf[ProcessOf[m.client]] # PidOf[p]
      BY <2>5, <3>1 DEF Of
    <3>. QED BY <1>2, <3>2 DEF IInv, Crowd, Alone, Running
  <2>. QED BY <2>1, <2>4, <2>6, <2>7 DEF Crowd
<1>9. Sent'
  <2>1. \A c \in Clients : wrapper[c] # "new" => ProcessOf[c] # p
    BY <1>3 DEF IInv, Sent
  <2>2. \A m \in flights : m.kind = "probe" => m.client \in Clients
    BY DEF IInv, TypeOK, Messages, Message
  <2>3. \A m \in wire : m.client \in Clients
    BY DEF IInv, TypeOK, Messages
  <2>. QED BY <1>2, <1>3, <1>4, <2>1, <2>2, <2>3 DEF IInv, Sent, Running
<1>. QED BY <1>1, <1>6, <1>7, <1>8, <1>9 DEF IInv

\* A process exits, whatever it left open.
LEMMA ExitIInv ==
  ASSUME IInv, NEW p \in Processes, Exit(p)
  PROVE  IInv'
<1>. USE DEF service
<1>1. TypeOK' /\ Stopping'
  BY DEF IInv, TypeOK, Stopping, Exit
<1>2. \A q \in Processes : phase'[q] = IF q = p THEN "exited" ELSE phase[q]
  BY DEF IInv, TypeOK, Exit
<1>3. UNCHANGED <<wrapper, wire, activity, flights, noted, handed>>
  BY DEF Exit
<1>4. \A c \in Clients : ProcessOf[c] \in Processes
  BY LifecycleAssumption
<1>5. \A c \in Clients : Exited(c) => Exited(c)'
  BY <1>2, <1>4 DEF Exited
<1>6. Sound(activity)'
  <2>1. \A i \in Pids : activity.clients[i] # None => activity.clients[i] \in Processes
    BY DEF IInv, Sound, Activities
  <2>. QED BY <1>2, <1>3, <1>5, <2>1 DEF IInv, Sound, Activities
<1>7. OrphansAreDead' /\ NotedIsConserved'
  BY <1>3, <1>5 DEF IInv, TypeOK, OrphansAreDead, NotedIsConserved, Counted
<1>8. Crowd'
  <2>1. AllRunning' \in SUBSET AllRunning /\ AllRunning \in SUBSET Processes
    BY <1>2 DEF AllRunning, Running
  <2>2. IsFiniteSet(AllRunning) /\ Cardinality(AllRunning) \in Nat
    BY <2>1, FS_Subset, FS_CardinalityType, LifecycleAssumption
  <2>3. IsFiniteSet(AllRunning') /\ Cardinality(AllRunning') <= Cardinality(AllRunning)
    BY <2>1, <2>2, FS_Subset
  <2>4. Cardinality(AllRunning') \in Nat
    BY <2>3, FS_CardinalityType
  <2>5. Cardinality(AllRunning') <= MaxClients
    BY <2>2, <2>3, <2>4, LifecycleAssumption DEF IInv, Crowd
  <2>6. \A q \in Processes : Running(q)' => Running(q)
    BY <1>2 DEF Running
  <2>. QED BY <1>3, <2>5, <2>6 DEF IInv, Crowd, Alone
<1>9. Sent'
  <2>1. \A m \in flights : m.kind = "probe" => m.client \in Clients
    BY DEF IInv, TypeOK, Messages, Message
  <2>2. \A m \in wire : m.client \in Clients
    BY DEF IInv, TypeOK, Messages
  <2>. QED BY <1>2, <1>3, <1>4, <2>1, <2>2 DEF IInv, Sent, Running
<1>. QED BY <1>1, <1>6, <1>7, <1>8, <1>9 DEF IInv

\* A client probes, works or closes: only a probing client is new, only an
\* open one works or closes.
LEMMA SendIInv ==
  ASSUME IInv, NEW c \in Clients, NEW from, NEW to, NEW kind, Send(c, from, to, kind),
         \/ from = "new" /\ to = "probing" /\ kind = "probe"
         \/ from = "open" /\ to = "open" /\ kind = "complete"
         \/ from = "open" /\ to = "closed" /\ kind = "close"
  PROVE  IInv'
<1>. USE DEF service
<1>. DEFINE p == ProcessOf[c]
<1>1. /\ p \in Processes /\ Running(p) /\ wrapper[c] = from
      /\ wrapper' = [wrapper EXCEPT ![c] = to]
      /\ wire' = wire \cup {Message(c, kind)}
      /\ UNCHANGED <<phase, activity, flights, noted, handed>>
  BY LifecycleAssumption DEF Send
<1>2. Message(c, kind) \in Messages /\ Message(c, kind).client = c /\ Message(c, kind).kind = kind
  BY DEF Message, Messages
<1>3. TypeOK' /\ Stopping'
  <2>1. wrapper' \in [Clients -> {"new", "probing", "failed", "open", "closed"}]
    BY <1>1 DEF IInv, TypeOK
  <2>2. wire' \subseteq Messages
    BY <1>1, <1>2 DEF IInv, TypeOK
  <2>. QED BY <2>1, <2>2 DEF IInv, TypeOK, Stopping, Send
<1>4. \A d \in Clients : wrapper'[d] = IF d = c THEN to ELSE wrapper[d]
  BY <1>1 DEF IInv, TypeOK
<1>5. Sound(activity)' /\ OrphansAreDead' /\ NotedIsConserved'
  <2>1. Sound(activity)'
    BY <1>1 DEF IInv, Sound, Activities, Exited
  <2>2. OrphansAreDead' /\ NotedIsConserved'
    BY <1>1 DEF IInv, OrphansAreDead, NotedIsConserved, Exited, Counted
  <2>. QED BY <2>1, <2>2
<1>6. Crowd'
  <2>1. Alone(p)
    BY <1>1 DEF IInv, Crowd
  <2>. QED BY <1>1, <1>2, <2>1 DEF IInv, Crowd, AllRunning, Running, Alone
<1>7. Sent'
  <2>1. \A m \in wire : m.client \in Clients
    BY DEF IInv, TypeOK, Messages
  <2>2. \A m \in flights : m.kind = "probe" => m.client \in Clients
    BY DEF IInv, TypeOK, Messages, Message
  <2>3. phase[p] # "unborn"
    BY <1>1 DEF Running
  <2>4. \A m \in wire' : phase'[ProcessOf[m.client]] # "unborn" /\ wrapper'[m.client] # "new"
    BY <1>1, <1>2, <1>4, <2>1, <2>3 DEF IInv, Sent
  <2>5. \A m \in wire' : m.kind = "close" => wrapper'[m.client] = "closed"
    BY <1>1, <1>2, <1>4, <2>1 DEF IInv, Sent
  <2>6. ASSUME NEW m \in flights', m.kind = "probe"
        PROVE  /\ wrapper'[m.client] # "new"
               /\ wrapper'[m.client] = "probing" /\ Running(ProcessOf[m.client])' =>
                    m.client \in noted'
    BY <1>1, <1>4, <2>2, <2>6 DEF IInv, Sent, Running
  <2>7. \A d \in Clients : wrapper'[d] # "new" => phase'[ProcessOf[d]] # "unborn"
    BY <1>1, <1>4, <2>3 DEF IInv, Sent
  <2>8. \A d \in Clients : wrapper'[d] = "open" /\ Running(ProcessOf[d])' => d \in noted'
    BY <1>1, <1>4 DEF IInv, Sent, Running
  <2>. QED BY <2>4, <2>5, <2>6, <2>7, <2>8 DEF Sent
<1>. QED BY <1>3, <1>5, <1>6, <1>7 DEF IInv

\* A probe fails.
LEMMA CreateFailsIInv ==
  ASSUME IInv, NEW c \in Clients, CreateFails(c)
  PROVE  IInv'
<1>. USE DEF service
<1>1. /\ wrapper[c] = "probing" /\ wrapper' = [wrapper EXCEPT ![c] = "failed"]
      /\ UNCHANGED <<phase, activity, wire, flights, noted, handed>>
  BY DEF CreateFails
<1>2. TypeOK' /\ Stopping'
  BY DEF IInv, TypeOK, Stopping, CreateFails
<1>3. \A d \in Clients : wrapper'[d] = IF d = c THEN "failed" ELSE wrapper[d]
  BY <1>1 DEF IInv, TypeOK
<1>4. /\ \A m \in wire : m.client \in Clients
      /\ \A m \in flights : m.kind = "probe" => m.client \in Clients
  BY DEF IInv, TypeOK, Messages, Message
<1>5. Sent'
  BY <1>1, <1>3, <1>4 DEF IInv, Sent, Running
<1>. QED BY <1>1, <1>2, <1>5, QuietStep DEF IInv

\* Losing a request harms nobody.
LEMMA LoseIInv ==
  ASSUME IInv, NEW m, Lose(m)
  PROVE  IInv'
<1>. USE DEF service
<1>1. TypeOK' /\ Stopping'
  BY DEF IInv, TypeOK, Stopping, Lose
<1>2. Sent'
  BY DEF IInv, Sent, Running, Lose
<1>. QED BY <1>1, <1>2, QuietStep DEF IInv, Lose

\* A request arrives: its client is noted, and released if it closes.
LEMMA ArriveIInv ==
  ASSUME IInv, NEW m \in wire, Arrive(m)
  PROVE  IInv'
<1>. DEFINE c == m.client
            a == NoteClient(activity, c)
            b == IF m.kind = "close" THEN ReleasedClient(a, c) ELSE a
<1>1. m \in Messages /\ c \in Clients /\ ProcessOf[c] \in Processes
  BY LifecycleAssumption DEF IInv, TypeOK, Messages
<1>2. /\ wire' = wire \ {m}
      /\ UNCHANGED <<phase, wrapper, draining, drain, exits, up, handed>>
  BY DEF Arrive
<1>3. phase \in Phases /\ phase[ProcessOf[c]] # "unborn" /\ Alone(ProcessOf[c])
  BY DEF IInv, TypeOK, Phases, Sent, Crowd
<1>4. /\ Sound(a) /\ Holds(activity) \subseteq Holds(a)
      /\ Running(ProcessOf[c]) => c \in Counted(a)
  BY <1>1, <1>3, NoteClientSound DEF IInv, Crowd
<1>5. /\ Sound(b) /\ Holds(a) \ {c} \subseteq Holds(b)
      /\ m.kind # "close" => Holds(a) \subseteq Holds(b)
  BY <1>1, <1>4, ReleasedClientSound
<1>6. CASE Refused(m)
  <2>1. UNCHANGED <<activity, flights, rested, busy, noted>>
    BY <1>6 DEF Arrive
  <2>2. TypeOK' /\ Stopping'
    BY <1>2, <2>1 DEF IInv, TypeOK, Stopping
  <2>3. Sent'
    BY <1>2, <2>1 DEF IInv, Sent, Running
  <2>. QED BY <1>2, <2>1, <2>2, <2>3, QuietStep DEF IInv
<1>7. CASE ~Refused(m)
  <2>. DEFINE f == IF draining THEN Message(c, "refused") ELSE m
  <2>1. /\ activity' = b
        /\ noted' = IF m.kind = "close" THEN noted \ {c} ELSE noted \cup ({c} \cap Counted(a))
        /\ flights' = flights \cup {f}
        /\ rested' = FALSE /\ busy' = (busy \/ m.kind = "complete")
    BY <1>7 DEF Arrive
  <2>2. Sound(activity)'
    BY <1>2, <1>5, <2>1 DEF Sound, Activities, Exited
  <2>3. TypeOK' /\ Stopping'
    <3>1. /\ activity' \in Activities
          /\ \A i \in Pids : activity'.clients[i] = None => activity'.open[i] = {}
      BY <1>5, <2>1 DEF Sound
    <3>2. f \in Messages \cup [client : Clients, kind : {"refused"}]
      BY <1>1 DEF Message
    <3>3. flights' \subseteq Messages \cup [client : Clients, kind : {"refused"}]
                              \cup {Message(None, "shutdown")}
      BY <2>1, <3>2 DEF IInv, TypeOK
    <3>4. wire' \subseteq Messages /\ noted' \subseteq Clients
      BY <1>1, <1>2, <2>1 DEF IInv, TypeOK
    <3>5. rested' \in BOOLEAN /\ busy' \in BOOLEAN
      BY <2>1
    <3>. QED BY <1>2, <3>1, <3>3, <3>4, <3>5 DEF IInv, TypeOK, Stopping, Activities
  <2>4. OrphansAreDead'
    BY <1>2, <2>1, <2>2 DEF IInv, OrphansAreDead, Sound, Exited
  <2>5. NotedIsConserved'
    BY <1>2, <1>4, <1>5, <2>1 DEF IInv, NotedIsConserved, Holds, Counted
  <2>6. Crowd'
    BY <1>2 DEF IInv, Crowd, AllRunning, Running, Alone
  <2>7. Sent'
    <3>1. \A n \in wire' : n \in wire
      BY <1>2
    <3>2. \A n \in flights' : n.kind = "probe" =>
            n \in flights \/ (n = m /\ m.kind = "probe")
      BY <2>1 DEF Message
    <3>3. ASSUME NEW d \in Clients, d \in noted, Running(ProcessOf[d]),
                 wrapper[d] # "closed"
          PROVE  d \in noted'
      BY <2>1, <3>3 DEF IInv, Sent
    <3>4. m.kind = "probe" /\ Running(ProcessOf[c]) => c \in noted'
      BY <1>4, <2>1
    <3>5. \A n \in flights : n.kind = "probe" => n.client \in Clients
      BY DEF IInv, TypeOK, Messages, Message
    <3>6. ASSUME NEW n \in flights', n.kind = "probe"
          PROVE  /\ wrapper'[n.client] # "new"
                 /\ wrapper'[n.client] = "probing" /\ Running(ProcessOf[n.client])' =>
                      n.client \in noted'
      BY <1>2, <3>2, <3>3, <3>4, <3>5, <3>6 DEF IInv, Sent, Running
    <3>7. \A d \in Clients : wrapper'[d] = "open" /\ Running(ProcessOf[d])' => d \in noted'
      BY <1>2, <3>3 DEF IInv, Sent, Running
    <3>. QED BY <1>2, <3>1, <3>6, <3>7 DEF IInv, Sent
  <2>. QED BY <2>2, <2>3, <2>4, <2>5, <2>6, <2>7 DEF IInv
<1>. QED BY <1>6, <1>7

\* A response is sent; a probe that is answered makes an open client.
LEMMA FlightEndsIInv ==
  ASSUME IInv, NEW m \in flights, FlightEnds(m)
  PROVE  IInv'
<1>1. /\ flights' = flights \ {m} /\ rested' = FALSE
      /\ wrapper' = IF /\ m.kind = "probe" /\ wrapper[m.client] = "probing"
                       /\ Running(ProcessOf[m.client])
                    THEN [wrapper EXCEPT ![m.client] = "open"] ELSE wrapper
      /\ UNCHANGED <<phase, wire, activity, busy, draining, drain, exits, up, noted, handed>>
  BY DEF FlightEnds
<1>2. /\ \A n \in wire : n.client \in Clients
      /\ \A n \in flights : n.kind = "probe" => n.client \in Clients
  BY DEF IInv, TypeOK, Messages, Message
<1>3. TypeOK' /\ Stopping'
  <2>1. wrapper' \in [Clients -> {"new", "probing", "failed", "open", "closed"}]
    BY <1>1 DEF IInv, TypeOK
  <2>2. rested' \in BOOLEAN
    BY <1>1
  <2>. QED BY <1>1, <2>1, <2>2 DEF IInv, TypeOK, Stopping
<1>4. \A d \in Clients : \/ wrapper'[d] = wrapper[d]
                         \/ /\ wrapper[d] = "probing" /\ wrapper'[d] = "open"
                            /\ d \in noted
  BY <1>1, <1>2 DEF IInv, TypeOK, Sent
<1>5. Sent'
  BY <1>1, <1>2, <1>4 DEF IInv, Sent, Running
<1>. QED BY <1>1, <1>3, <1>5, QuietStep DEF IInv

\* The reaper hands over the clients of processes that exited.
LEMMA ReapIInv ==
  ASSUME IInv, Reap
  PROVE  IInv'
<1>. DEFINE a == Pruned(activity)
<1>1. /\ activity' = [a EXCEPT !.orphaned = {}]
      /\ handed' = handed \cup a.orphaned
      /\ busy' \in {busy, TRUE}
      /\ UNCHANGED <<phase, wrapper, wire, flights, rested, draining, drain, exits, up, noted>>
  BY DEF Reap, hermes
<1>2. Sound(a) /\ Holds(a) = Holds(activity)
  BY PrunedSound DEF IInv, TypeOK, Phases
<1>3. /\ activity' \in Activities /\ activity'.orphaned = {}
      /\ activity'.clients = a.clients /\ activity'.open = a.open
  BY <1>1, <1>2 DEF Sound, Activities
<1>4. Sound(activity)'
  BY <1>1, <1>2, <1>3 DEF Sound, Activities
<1>5. TypeOK' /\ Stopping'
  <2>1. handed' \subseteq Clients
    BY <1>1, <1>2 DEF IInv, TypeOK, Sound, Activities
  <2>2. busy' \in BOOLEAN
    BY <1>1 DEF IInv, TypeOK
  <2>3. \A i \in Pids : activity'.clients[i] = None => activity'.open[i] = {}
    BY <1>2, <1>3 DEF Sound
  <2>. QED BY <1>1, <1>3, <2>1, <2>2, <2>3 DEF IInv, TypeOK, Stopping, Activities
<1>6. OrphansAreDead'
  BY <1>1, <1>2, <1>3 DEF IInv, OrphansAreDead, Sound, Exited
<1>7. NotedIsConserved'
  BY <1>1, <1>2, <1>3 DEF IInv, NotedIsConserved, Holds, Counted
<1>8. Crowd' /\ Sent'
  BY <1>1 DEF IInv, Crowd, Sent, AllRunning, Running, Alone
<1>. QED BY <1>4, <1>5, <1>6, <1>7, <1>8 DEF IInv

\* The idle check forgets dead processes, and may start to drain.
LEMMA IdleCheckIInv ==
  ASSUME IInv, IdleCheck
  PROVE  IInv'
<1>1. /\ activity' = Pruned(activity)
      /\ \/ draining' = TRUE /\ exits' = exits + 1
         \/ UNCHANGED <<draining, exits>>
      /\ ~draining
      /\ UNCHANGED <<phase, wrapper, wire, flights, rested, busy, drain, up, noted, handed>>
  BY DEF IdleCheck, MayRest, hermes
<1>2. /\ Sound(activity') /\ Holds(activity') = Holds(activity)
  BY <1>1, PrunedSound DEF IInv, TypeOK, Phases
<1>3. Sound(activity)'
  BY <1>1, <1>2 DEF Sound, Activities, Exited
<1>4. exits = 0 /\ drain = "none"
  BY <1>1 DEF IInv, Stopping
<1>5. TypeOK' /\ Stopping'
  <2>1. /\ activity' \in Activities
        /\ \A i \in Pids : activity'.clients[i] = None => activity'.open[i] = {}
    BY <1>2 DEF Sound
  <2>2. draining' \in BOOLEAN
    BY <1>1 DEF IInv, TypeOK
  <2>3. exits' \in 0 .. 1 /\ drain' = "none"
    BY <1>1, <1>4
  <2>4. ~draining' => exits' = 0
    BY <1>1, <1>4
  <2>5. Stopping'
    BY <2>3, <2>4 DEF Stopping
  <2>. QED BY <1>1, <2>1, <2>2, <2>3, <2>5 DEF IInv, TypeOK, Activities
<1>6. OrphansAreDead'
  BY <1>1, <1>2 DEF IInv, OrphansAreDead, Sound, Exited
<1>7. NotedIsConserved'
  BY <1>1, <1>2 DEF IInv, NotedIsConserved, Holds, Counted
<1>8. Crowd' /\ Sent'
  BY <1>1 DEF IInv, Crowd, Sent, AllRunning, Running, Alone
<1>. QED BY <1>3, <1>5, <1>6, <1>7, <1>8 DEF IInv

\* A shutdown request drains the service, once.
LEMMA ShutdownIInv ==
  ASSUME IInv, ShutdownRequested
  PROVE  IInv'
<1>1. /\ flights' = flights \cup {Message(None, "shutdown")}
      /\ rested' = FALSE /\ draining' = TRUE
      /\ drain' = IF draining THEN drain ELSE "polling"
      /\ UNCHANGED <<phase, wrapper, wire, activity, busy, exits, up, noted, handed>>
  BY DEF ShutdownRequested, hermes
<1>2. TypeOK' /\ Stopping'
  <2>1. rested' \in BOOLEAN /\ draining' \in BOOLEAN
    BY <1>1
  <2>2. drain' \in {"none", "polling", "over"} /\ (drain' = "polling" => exits' = 0)
    BY <1>1 DEF IInv, TypeOK, Stopping
  <2>3. Stopping'
    BY <1>1, <2>2 DEF Stopping
  <2>. QED BY <1>1, <2>1, <2>2, <2>3 DEF IInv, TypeOK
<1>3. Sent'
  BY <1>1 DEF IInv, Sent, Running, Message
<1>. QED BY <1>1, <1>2, <1>3, QuietStep DEF IInv

\* The drain task ends and asks for the stop.
LEMMA DrainEndsIInv ==
  ASSUME IInv, NEW expired \in BOOLEAN, DrainEnds(expired)
  PROVE  IInv'
<1>1. /\ drain = "polling" /\ drain' = "over" /\ exits' = exits + 1
      /\ UNCHANGED <<phase, wrapper, wire, activity, flights, rested, busy, draining,
                     up, noted, handed>>
  BY DEF DrainEnds, Retired, hermes
<1>2. draining /\ exits = 0
  BY <1>1 DEF IInv, Stopping
<1>3. exits' \in 0 .. 1
  BY <1>1, <1>2
<1>4. TypeOK' /\ Stopping'
  BY <1>1, <1>2, <1>3 DEF IInv, TypeOK, Stopping
<1>5. Sent'
  BY <1>1 DEF IInv, Sent, Running
<1>. QED BY <1>1, <1>4, <1>5, QuietStep DEF IInv

\* The other steps touch neither the processes nor the tables.
LEMMA OtherIInv ==
  ASSUME IInv, OwnersSettle \/ Rest \/ Down \/ UNCHANGED vars
  PROVE  IInv'
<1>1. /\ UNCHANGED <<phase, wrapper, wire, activity, flights, draining, drain, exits,
                     noted, handed>>
      /\ rested' \in {rested, TRUE} /\ busy' \in {busy, FALSE} /\ up' \in {up, FALSE}
  BY DEF OwnersSettle, Rest, Down, vars, hermes, service
<1>2. rested' \in BOOLEAN /\ busy' \in BOOLEAN /\ up' \in BOOLEAN
  BY <1>1 DEF IInv, TypeOK
<1>3. TypeOK' /\ Stopping'
  BY <1>1, <1>2 DEF IInv, TypeOK, Stopping
<1>4. Sent'
  BY <1>1 DEF IInv, Sent, Running
<1>. QED BY <1>1, <1>3, <1>4, QuietStep DEF IInv

\* Every step keeps the inductive invariant.
LEMMA NextIInv == IInv /\ [Next]_vars => IInv'
<1>. SUFFICES ASSUME IInv, [Next]_vars PROVE IInv'
  OBVIOUS
<1>1. ASSUME NEW p \in Processes, Start(p) PROVE IInv'
  BY <1>1, StartIInv
<1>2. ASSUME NEW p \in Processes, Exit(p) PROVE IInv'
  BY <1>2, ExitIInv
<1>3. ASSUME NEW c \in Clients, Create(c) PROVE IInv'
  BY <1>3, SendIInv DEF Create
<1>4. ASSUME NEW c \in Clients, Complete(c) PROVE IInv'
  BY <1>4, SendIInv DEF Complete
<1>5. ASSUME NEW c \in Clients, Close(c) PROVE IInv'
  BY <1>5, SendIInv DEF Close
<1>6. ASSUME NEW c \in Clients, CreateFails(c) PROVE IInv'
  BY <1>6, CreateFailsIInv
<1>7. ASSUME NEW m \in wire, Lose(m) PROVE IInv'
  BY <1>7, LoseIInv
<1>8. ASSUME NEW m \in wire, Arrive(m) PROVE IInv'
  BY <1>8, ArriveIInv
<1>9. ASSUME NEW m \in flights, FlightEnds(m) PROVE IInv'
  BY <1>9, FlightEndsIInv
<1>10. ASSUME NEW expired \in BOOLEAN, DrainEnds(expired) PROVE IInv'
  BY <1>10, DrainEndsIInv
<1>. QED
  BY <1>1, <1>2, <1>3, <1>4, <1>5, <1>6, <1>7, <1>8, <1>9, <1>10,
     ReapIInv, IdleCheckIInv, ShutdownIInv, OtherIInv DEF Next
----------------------------------------------------------------------------
(* Theorems *)

\* The inductive invariant holds in every reachable state.
THEOREM LifecycleInvariant == Spec => []IInv
  BY InitIInv, NextIInv, PTL DEF Spec

\* The service's fields keep their shape, and it asks at most once to be stopped
\* (retire, api.py:1062).
THEOREM LifecycleTypeCorrect == Spec => []TypeOK
<1>1. IInv => TypeOK
  BY DEF IInv
<1>. QED BY <1>1, LifecycleInvariant, PTL

\* Only clients of processes that exited are handed to the owners
\* (take_orphaned, service_lifecycle.py:108), whichever PIDs are reused.
THEOREM OrphansAlwaysDead == Spec => []OrphansAreDead
<1>1. IInv => OrphansAreDead
  BY DEF IInv
<1>. QED BY <1>1, LifecycleInvariant, PTL

\* A client the service took note of is counted, orphaned or handed over until
\* it is released (note_client, prune).
THEOREM NotedAlwaysConserved == Spec => []NotedIsConserved
<1>1. IInv => NotedIsConserved
  BY DEF IInv
<1>. QED BY <1>1, LifecycleInvariant, PTL

\* An open client of a running process is among the counted ones.
LEMMA OpenIsCounted ==
  ASSUME IInv, NEW c \in Clients, wrapper[c] = "open", ~Exited(c)
  PROVE  Running(ProcessOf[c]) /\ c \in Counted(activity)
<1>1. ProcessOf[c] \in Processes
  BY LifecycleAssumption
<1>2. Running(ProcessOf[c])
  BY <1>1 DEF IInv, TypeOK, Sent, Exited, Running
<1>3. c \in noted
  BY <1>2 DEF IInv, Sent
<1>. QED BY <1>2, <1>3 DEF IInv, NotedIsConserved, OrphansAreDead

\* The service retires on its own only when no request is served, no owner is
\* busy and no running process has an open client (should_retire,
\* service_lifecycle.py:114).
THEOREM RetiresUnusedAlways == Spec => RetiresOnlyUnused
<1>. DEFINE P == ~draining /\ draining' /\ drain' = "none" =>
                   /\ flights = {} /\ ~busy
                   /\ \A c \in Clients : wrapper[c] = "open" => Exited(c)
<1>1. ASSUME IInv, [Next]_vars PROVE [P]_vars
  <2>. SUFFICES ASSUME Next, ~draining, draining', drain' = "none"
                PROVE  /\ flights = {} /\ ~busy
                       /\ \A c \in Clients : wrapper[c] = "open" => Exited(c)
    BY <1>1
  <2>1. IdleCheck
    BY DEF Next, Start, Exit, Create, Complete, Close, Send, CreateFails, Lose, Arrive,
       FlightEnds, OwnersSettle, Rest, Reap, ShutdownRequested, DrainEnds, Down,
       service, hermes
  <2>2. flights = {} /\ ~busy
    BY <2>1 DEF IdleCheck, MayRest
  <2>3. Counted(Pruned(activity)) = {}
    BY <2>1 DEF IdleCheck
  <2>4. ASSUME NEW c \in Clients, wrapper[c] = "open" PROVE Exited(c)
    <3>. SUFFICES ASSUME ~Exited(c) PROVE FALSE
      OBVIOUS
    <3>1. Running(ProcessOf[c]) /\ c \in Counted(activity)
      BY <1>1, <2>4, OpenIsCounted
    <3>2. c \in Counted(Pruned(activity))
      BY <1>1, <3>1, PrunedSound DEF IInv, TypeOK, Phases
    <3>. QED BY <2>3, <3>2
  <2>. QED BY <2>2, <2>4
<1>. QED BY <1>1, LifecycleInvariant, PTL DEF RetiresOnlyUnused, Spec
============================================================================
