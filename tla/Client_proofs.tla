--------------------------- MODULE Client_proofs ---------------------------
(***************************************************************************)
(* For any number of Hermes sessions and requests, whatever is in their    *)
(* histories: a request that may be sent again was never handed to a       *)
(* native, no more natives are open than the limit allows, a closed client *)
(* leaves none behind that it used, and a native was told exactly the      *)
(* request that it works on.                                               *)
(***************************************************************************)
EXTENDS Client, FiniteSetTheorems, SequenceTheorems, TLAPS

Places == {"idle", "admitted", "retiring", "launched", "started", "ready", "waiting",
           "unwinding", "failing", "closing", "leaving", "popped"}

\* Where the request has a native of its binding in its hands.
Holding == {"retiring", "launched", "started", "ready", "waiting", "unwinding"}

\* Why a native is retired.
Reasons == {"diverged", "stale", "switched", "rotated"}

\* Before the exchange.
Early == {"idle", "admitted", "retiring", "launched", "started", "ready"}

TurnFields == {"at", "session", "messages", "tools", "native", "transport", "frame",
               "tracked", "fenced", "delivered", "why"}

ClientFields == {"closed", "aborted", "left", "settling", "peer", "errors", "published"}

IsBinding(b) ==
    /\ DOMAIN b = {"registered", "native", "history", "source", "compacted", "exchanged"}
    /\ b.registered \in BOOLEAN
    /\ b.native \in Numbers \cup {None}

IsNative(a) ==
    /\ DOMAIN a = {"state", "closer", "dead", "errors", "seen", "tools", "severed"}
    /\ a.state \in {"none", "created", "started", "closing", "closed"}
    /\ a.state = "none" => a.seen = <<>>

TypeOK ==
    /\ DOMAIN bindings = Sessions /\ \A s \in Sessions : IsBinding(bindings[s])
    /\ DOMAIN natives = Numbers /\ \A n \in Numbers : IsNative(natives[n])
    /\ number \in 0 .. MaxRequests
    /\ DOMAIN turn = TurnFields
    /\ turn.at \in Places
    /\ turn.native \in Numbers \cup {None}
    /\ turn.fenced \in BOOLEAN /\ turn.delivered \in BOOLEAN
    /\ turn.at # "idle" => turn.session \in Sessions /\ number \in Numbers
    /\ DOMAIN client = ClientFields
    /\ client.closed \in BOOLEAN /\ client.published \in BOOLEAN
    /\ client.aborted \in BOOLEAN
    /\ client.left \subseteq Sessions
    /\ client.settling \in BOOLEAN /\ client.peer \in Numbers \cup {None}
    /\ aborting \subseteq Numbers

\* The native of a binding was created.
Launched ==
    \A s \in Sessions :
        bindings[s].native # None => natives[bindings[s].native].state # "none"

\* What the request knows of its binding and its native.
Placed ==
    /\ turn.at \notin {"idle", "popped"} => turn.session \in Occupied
    /\ turn.at = "popped" => turn.session \notin Occupied
    /\ turn.at \in Holding => turn.native \in Numbers /\ turn.native = Mine.native
    /\ turn.at = "retiring" => turn.why \in Reasons
    /\ turn.at \in {"admitted", "retiring"} => natives[number].state = "none"
    /\ Launched
    /\ \A n \in Numbers : n > number => natives[n].state = "none"

\* Reports of what never reached a native are made where that is known.
Reported ==
    /\ DOMAIN last = {"how", "delivered"}
    /\ turn.at \in Early => ~turn.delivered
    /\ turn.delivered /\ turn.at \in {"unwinding", "failing", "closing"}
         => turn.why # "undelivered"
    /\ ReplayableUndelivered

\* A native that nobody told to close belongs to a registered binding, or to a request
\* that has just dropped its binding and is about to close it.
Accounted ==
    \A n \in Numbers : Open(n) =>
        \/ \E s \in Occupied : bindings[s].native = n
        \/ turn.at = "popped" /\ turn.native = n

Counted ==
    /\ Cardinality(Occupied) <= MaxSessions
    /\ turn.at = "popped" => Cardinality(Occupied) < MaxSessions

\* Somebody will close it: close(), or the request, which cannot answer any more.
Awaited(n) ==
    \/ \E s \in client.left : bindings[s].native = n
    \/ client.settling /\ client.peer = n
    \/ turn.at = "waiting" /\ turn.native = n /\ turn.fenced
    \/ turn.at = "popped" /\ turn.native = n

Used(n) == natives[n].seen # <<>> \/ (turn.at = "waiting" /\ turn.native = n)

LeftBehind ==
    /\ client.published => client.closed /\ client.left = {} /\ ~client.settling
    /\ client.closed => \A n \in Numbers : Open(n) /\ Used(n) => Awaited(n)

IInv == TypeOK /\ Placed /\ Reported /\ Accounted /\ Counted /\ LeftBehind
-----------------------------------------------------------------------------
(* What the helpers do to a binding, and to the natives *)

Same(b, c) == IsBinding(c) /\ c.native = b.native /\ c.registered = b.registered

Freed(b, c) == IsBinding(c) /\ c.native = None /\ c.registered = b.registered

LEMMA FollowingSame == ASSUME NEW b, IsBinding(b) PROVE Same(b, Following(b))
BY DEF Same, IsBinding, Following, WithoutTail

LEMMA FreshSame == ASSUME NEW b, IsBinding(b) PROVE Same(b, FreshBinding(b))
BY FollowingSame DEF Same, IsBinding, FreshBinding

LEMMA ForgottenFreed == ASSUME NEW b, IsBinding(b) PROVE Freed(b, Forgotten(b))
BY DEF Freed, IsBinding, Forgotten

LEMMA RetiredFreed ==
  ASSUME NEW b, IsBinding(b), NEW why \in Reasons
  PROVE  Freed(b, Retired(b, why))
<1>1. CASE why = "diverged"
  BY <1>1 DEF Freed, IsBinding, Retired, WithoutNative
<1>2. CASE why = "stale"
  BY <1>2, ForgottenFreed DEF Retired
<1>3. CASE why \in {"switched", "rotated"}
  <2>1. Freed(b, WithoutTail(Forgotten(b)))
    BY DEF Freed, IsBinding, WithoutTail, Forgotten
  <2>. QED
    BY <2>1, <1>3 DEF Retired
<1>. QED
  BY <1>1, <1>2, <1>3 DEF Reasons

LEMMA CommittedSame ==
  ASSUME NEW answer, IsBinding(Mine)
  PROVE  Same(Mine, CommittedBinding(answer))
BY DEF Same, IsBinding, CommittedBinding

\* close() of a native changes the state of that native, if it is open.
LEMMA ClosingShape ==
  ASSUME TypeOK, NEW n \in Numbers, NEW who
  PROVE  /\ DOMAIN Closing(n, who) = Numbers
         /\ \A m \in Numbers :
              /\ IsNative(Closing(n, who)[m])
              /\ Closing(n, who)[m].seen = natives[m].seen
              /\ Closing(n, who)[m].state =
                   IF m = n /\ Open(n) THEN "closing" ELSE natives[m].state
BY DEF TypeOK, Closing, Open, IsNative
-----------------------------------------------------------------------------
LEMMA InitKeeps == ASSUME Init PROVE IInv
<1>. USE ClientAssumption DEF Init
<1>a. IsBinding(Unbound) /\ IsNative(NoNative)
  BY DEF IsBinding, IsNative, Unbound, NewBinding, NoNative
<1>1. TypeOK
  BY <1>a DEF TypeOK, NoTurn, Places, TurnFields, ClientFields
<1>2. Placed /\ Reported /\ Accounted /\ LeftBehind
  BY DEF Placed, Launched, Reported, Accounted, LeftBehind, Holding, Early, NoTurn,
    NoNative, NoEnd, Unbound, NewBinding, ReplayableUndelivered, Open, Numbers
<1>3. Occupied = {}
  BY DEF Occupied, Unbound, NewBinding
<1>4. Counted
  BY <1>3, FS_EmptySet DEF Counted, NoTurn
<1>. QED
  BY <1>1, <1>2, <1>4 DEF IInv

(* Steps that only bring natives nearer to their end. *)

\* Native n goes from open to closing, or from closing to closed.
Shut(n) ==
    /\ DOMAIN natives' = Numbers
    /\ natives[n].state # "none"
    /\ IsNative(natives'[n]) /\ natives'[n].state \in {"closing", "closed"}
    /\ \A m \in Numbers \ {n} :
         IsNative(natives'[m]) /\ natives'[m].state = natives[m].state
           /\ natives'[m].seen = natives[m].seen
    /\ UNCHANGED <<bindings, turn, number, last, client, aborting, canonical>>

LEMMA ShutKeeps == ASSUME IInv, NEW n \in Numbers, Shut(n) PROVE IInv'
<1>. USE DEF IInv, Shut
<1>1. /\ TypeOK
      /\ Mine' = Mine /\ Occupied' = Occupied
      /\ \A m \in Numbers : Open(m)' => m # n /\ Open(m) /\ natives'[m].seen = natives[m].seen
  BY DEF TypeOK, Mine, Occupied, Open
<1>2. TypeOK'
  BY DEF TypeOK, IsBinding, IsNative
<1>a. Launched'
  BY <1>1 DEF TypeOK, Placed, Launched, IsBinding
<1>3. Placed'
  BY <1>1, <1>2, <1>a DEF TypeOK, Placed, Numbers, Places
<1>4. Reported' /\ Counted'
  BY <1>1 DEF Reported, Counted, ReplayableUndelivered
<1>5. Accounted'
  BY <1>1 DEF Accounted
<1>6. LeftBehind'
  BY <1>1 DEF LeftBehind, Used, Awaited, TypeOK
<1>. QED
  BY <1>2, <1>3, <1>4, <1>5, <1>6

LEMMA ClosingShuts ==
  ASSUME IInv, NEW n \in Numbers, NEW who, Open(n), natives' = Closing(n, who),
         UNCHANGED <<bindings, turn, number, last, client, aborting, canonical>>
  PROVE  IInv'
<1>1. Shut(n)
  BY ClosingShape DEF IInv, Shut, Open
<1>. QED
  BY <1>1, ShutKeeps

LEMMA EndsKeep ==
  ASSUME IInv, NEW n \in Numbers, CloseEnds(n) \/ Expires(n) \/ AbortCloses(n) PROVE IInv'
<1>1. CASE CloseEnds(n)
  <2>1. PICK dead \in BOOLEAN, errors \in BOOLEAN :
          natives' = [natives EXCEPT ![n] =
             [NoNative EXCEPT !.state = "closed", !.dead = dead, !.errors = errors]]
    BY <1>1 DEF CloseEnds
  <2>2. Shut(n)
    BY <1>1, <2>1 DEF CloseEnds, Shut, IInv, TypeOK, IsNative, NoNative
  <2>. QED
    BY <2>2, ShutKeeps
<1>2. CASE Expires(n)
  BY <1>2, ClosingShuts DEF Expires, Open
<1>3. CASE AbortCloses(n)
  BY <1>3, ClosingShuts DEF AbortCloses
<1>. QED
  BY <1>1, <1>2, <1>3

LEMMA CloserKeeps ==
  ASSUME IInv, Close \/ Closer PROVE IInv'
<1>. USE DEF IInv
<1>1. CASE Close
  <2>1. TypeOK' /\ Occupied' = Occupied /\ Mine' = Mine /\ client'.left = Occupied
        /\ client'.closed = TRUE /\ ~client'.published /\ client'.settling = client.settling /\ client'.peer = client.peer
    BY <1>1 DEF Close, CloseBegins, TypeOK, ClientFields, Occupied, Mine, LeftBehind
  <2>2. Placed' /\ Reported' /\ Accounted' /\ Counted'
    BY <1>1, <2>1 DEF Close, Placed, Launched, Reported, Accounted, Counted, Open, ReplayableUndelivered
  <2>3. LeftBehind'
    BY <1>1, <2>1 DEF Close, LeftBehind, Accounted, Awaited, Open
  <2>. QED
    BY <2>1, <2>2, <2>3
<1>2. ASSUME NEW s \in Sessions, Settles(s) PROVE IInv'
  <2>a. /\ DOMAIN client' = ClientFields /\ client'.left = client.left \ {s}
        /\ client'.settling = TRUE /\ client'.peer = bindings[s].native
        /\ client'.closed = client.closed /\ client'.published = client.published
    BY <1>2 DEF Settles, TypeOK, ClientFields
  <2>b. Occupied' = Occupied /\ Mine' = Mine
    BY <1>2 DEF Settles, Occupied, Mine
  <2>c. TypeOK'
    BY <1>2, <2>a DEF Settles, TypeOK, IsBinding
  <2>1. TypeOK' /\ Occupied' = Occupied /\ Mine' = Mine /\ client'.left = client.left \ {s}
        /\ client'.settling /\ client'.peer = bindings[s].native
        /\ client'.closed = client.closed /\ client'.published = client.published
    BY <2>a, <2>b, <2>c
  <2>2. Placed' /\ Reported' /\ Accounted' /\ Counted'
    BY <1>2, <2>1 DEF Settles, Placed, Launched, Reported, Accounted, Counted, Open, ReplayableUndelivered
  <2>3. \A n \in Numbers : Awaited(n) => Awaited(n)'
    BY <1>2, <2>1 DEF Settles, Awaited
  <2>4. \A n \in Numbers : Open(n)' = Open(n) /\ Used(n)' = Used(n)
    BY <1>2 DEF Settles, Open, Used
  <2>5. LeftBehind'
    BY <1>2, <2>1, <2>3, <2>4 DEF Settles, LeftBehind
  <2>. QED
    BY <2>1, <2>2, <2>5
<1>3. CASE ClientCloses
  BY <1>3, ClosingShuts DEF ClientCloses, TypeOK
<1>4. CASE Settled
  <2>1. TypeOK' /\ Occupied' = Occupied /\ Mine' = Mine /\ client'.left = client.left
        /\ ~client'.settling
        /\ client'.closed = client.closed /\ client'.published = client.published
    BY <1>4 DEF Settled, TypeOK, ClientFields, Occupied, Mine
  <2>2. Placed' /\ Reported' /\ Accounted' /\ Counted'
    BY <1>4, <2>1 DEF Settled, Placed, Launched, Reported, Accounted, Counted, Open, ReplayableUndelivered
  <2>3. ASSUME NEW n \in Numbers, Awaited(n), Open(n) PROVE Awaited(n)'
    <3>1. n # None
      BY ClientAssumption DEF Numbers
    <3>2. ~(client.settling /\ client.peer = n)
      BY <1>4, <2>3, <3>1 DEF Settled
    <3>. QED
      BY <1>4, <2>1, <2>3, <3>2 DEF Settled, Awaited
  <2>4. \A n \in Numbers : Open(n)' = Open(n) /\ Used(n)' = Used(n)
    BY <1>4 DEF Settled, Open, Used
  <2>5. LeftBehind'
    BY <1>4, <2>1, <2>3, <2>4 DEF LeftBehind
  <2>. QED
    BY <2>1, <2>2, <2>5
<1>5. CASE Publish
  <2>1. TypeOK' /\ Occupied' = Occupied /\ Mine' = Mine /\ client'.left = client.left
        /\ client'.settling = client.settling /\ client'.peer = client.peer /\ client'.closed = client.closed
    BY <1>5 DEF Publish, TypeOK, ClientFields, Occupied, Mine
  <2>2. Placed' /\ Reported' /\ Accounted' /\ Counted'
    BY <1>5, <2>1 DEF Publish, Placed, Launched, Reported, Accounted, Counted, Open, ReplayableUndelivered
  <2>3. LeftBehind'
    BY <1>5, <2>1 DEF Publish, LeftBehind, Awaited, Open, Used
  <2>. QED
    BY <2>1, <2>2, <2>3
<1>. QED
  BY <1>1, <1>2, <1>3, <1>4, <1>5 DEF Closer

LEMMA AbortKeeps == ASSUME IInv, Abort PROVE IInv'
<1>. USE DEF IInv
<1>1. TypeOK' /\ Occupied' = Occupied /\ Mine' = Mine /\ client'.left = client.left
      /\ client'.settling = client.settling /\ client'.peer = client.peer /\ client'.closed = client.closed
      /\ client'.published = client.published
  BY DEF Abort, TypeOK, ClientFields, Occupied, Mine, IsBinding
<1>2. Placed' /\ Reported' /\ Accounted' /\ Counted'
  BY <1>1 DEF Abort, Placed, Launched, Reported, Accounted, Counted, Open, ReplayableUndelivered
<1>3. LeftBehind'
  BY <1>1 DEF Abort, LeftBehind, Awaited, Open, Used
<1>. QED
  BY <1>1, <1>2, <1>3
-----------------------------------------------------------------------------
(* Steps of the request that open no native and keep its binding registered. *)

Busy == Places \ {"idle", "popped"}

\* Its native may go, once it is not open any more.
BindingStep ==
    /\ DOMAIN bindings' = Sessions
    /\ \A s \in Sessions \ {turn.session} : bindings'[s] = bindings[s]
    /\ IsBinding(bindings'[turn.session])
    /\ bindings'[turn.session].registered = Mine.registered
    /\ \/ bindings'[turn.session].native = Mine.native
       \/ bindings'[turn.session].native = None /\ (Mine.native # None => ~Open(Mine.native))

\* Only the native of an exchange is told anything.
NativesStep ==
    /\ DOMAIN natives' = Numbers
    /\ \A n \in Numbers :
         /\ IsNative(natives'[n])
         /\ natives'[n].state = "none" <=> natives[n].state = "none"
         /\ Open(n)' => Open(n)
         /\ natives'[n].seen = natives[n].seen
              \/ (turn.native = n /\ turn.at = "waiting")
              \/ (turn'.native = n /\ turn'.at = "waiting")

TurnStep ==
    /\ turn.at \in Busy /\ turn'.at \in Busy
    /\ DOMAIN turn' = TurnFields /\ turn'.session = turn.session
    /\ turn'.native \in Numbers \cup {None}
    /\ turn'.fenced \in BOOLEAN /\ turn'.delivered \in BOOLEAN
    /\ turn'.at \in {"admitted", "retiring"} => turn.at \in {"admitted", "retiring"}
    /\ turn'.at = "retiring" => turn'.why \in Reasons
    /\ turn'.at = "waiting" /\ client.closed => turn'.fenced
    /\ turn.at = "waiting" /\ turn.fenced =>
         \A n \in Numbers : turn.native = n => ~Open(n)'

TurnMoves ==
    /\ TurnStep /\ BindingStep /\ NativesStep
    /\ turn'.at \in Holding =>
         turn'.native \in Numbers /\ turn'.native = bindings'[turn.session].native
    /\ UNCHANGED <<number, client, aborting>>

LEMMA MovesKeep == ASSUME IInv, TurnMoves, Reported' PROVE IInv'
<1>. USE DEF IInv, TurnMoves
<1>1. TypeOK'
  BY DEF TypeOK, TurnStep, BindingStep, NativesStep, Busy
<1>2. turn.session \in Sessions /\ turn.session \in Occupied
  BY DEF TypeOK, Placed, TurnStep, Busy
<1>3. Occupied' = Occupied
  BY <1>2 DEF BindingStep, Occupied, Mine
<1>a. Launched'
  BY <1>2 DEF TypeOK, Placed, Launched, BindingStep, NativesStep, IsBinding, Mine
<1>4. Placed'
  BY <1>1, <1>2, <1>3, <1>a
    DEF TypeOK, Placed, TurnStep, NativesStep, Busy, Mine, Holding, Numbers
<1>5. Counted'
  BY <1>3 DEF Counted, TurnStep, Busy
<1>6. ASSUME NEW n \in Numbers, Open(n)', NEW s \in Sessions, bindings[s].native = n
      PROVE  bindings'[s].native = n
  <2>1. Open(n) /\ n # None
    BY <1>6, ClientAssumption DEF NativesStep, Numbers
  <2>. QED
    BY <1>6, <2>1 DEF BindingStep, Mine
<1>7. Accounted'
  BY <1>3, <1>6 DEF Accounted, NativesStep, TurnStep, Busy, Occupied
<1>8. ASSUME client.closed, NEW n \in Numbers, Open(n)', Used(n)' PROVE Awaited(n)'
  <2>1. Open(n)
    BY <1>8 DEF NativesStep
  <2>2. CASE turn'.at = "waiting" /\ turn'.native = n
    BY <2>2, <1>8 DEF TurnStep, Awaited
  <2>3. CASE ~(turn'.at = "waiting" /\ turn'.native = n)
    <3>1. Used(n)
      BY <2>3, <1>8 DEF Used, NativesStep
    <3>2. Awaited(n)
      BY <2>1, <3>1, <1>8 DEF LeftBehind
    <3>3. ~(turn.at = "waiting" /\ turn.native = n /\ turn.fenced)
      BY <1>8 DEF TurnStep
    <3>4. turn.at # "popped" /\ client' = client /\ client.left \subseteq Sessions
      BY DEF TurnStep, Busy, TypeOK
    <3>5. CASE \E s \in client.left : bindings[s].native = n
      <4>1. PICK s \in client.left : bindings[s].native = n
        BY <3>5
      <4>2. bindings'[s].native = n
        BY <4>1, <3>4, <1>6, <1>8
      <4>. QED
        BY <4>2, <3>4 DEF Awaited
    <3>6. CASE client.settling /\ client.peer = n
      BY <3>6, <3>4 DEF Awaited
    <3>. QED
      BY <3>2, <3>3, <3>4, <3>5, <3>6 DEF Awaited
  <2>. QED
    BY <2>2, <2>3
<1>9. LeftBehind'
  BY <1>8 DEF LeftBehind
<1>. QED
  BY <1>1, <1>4, <1>5, <1>7, <1>9

(* The pieces most steps are made of. *)

LEMMA NativesStay == ASSUME TypeOK, natives' = natives PROVE NativesStep
BY DEF TypeOK, NativesStep, Open

LEMMA NativesClose ==
  ASSUME TypeOK, NEW n \in Numbers, NEW who, natives' = Closing(n, who)
  PROVE  NativesStep /\ ~Open(n)'
<1>1. NativesStep
  BY ClosingShape DEF NativesStep, Open
<1>2. ~Open(n)'
  BY ClosingShape DEF Open
<1>. QED
  BY <1>1, <1>2

LEMMA BindingStays ==
  ASSUME TypeOK, turn.session \in Sessions, bindings' = bindings PROVE BindingStep
BY DEF TypeOK, BindingStep, Mine

LEMMA BindSame ==
  ASSUME TypeOK, turn.session \in Sessions, NEW b, Same(Mine, b), Bind(b)
  PROVE  BindingStep /\ bindings'[turn.session].native = Mine.native
BY DEF TypeOK, BindingStep, Bind, Same, Mine

LEMMA BindFreed ==
  ASSUME TypeOK, turn.session \in Sessions, NEW b, Freed(Mine, b), Bind(b),
         Mine.native # None => ~Open(Mine.native)
  PROVE  BindingStep
BY DEF TypeOK, BindingStep, Bind, Freed, Mine

LEMMA OverShape ==
  ASSUME NEW why
  PROVE  /\ DOMAIN Over(why) = TurnFields
         /\ Over(why).session = turn.session /\ Over(why).native = turn.native
         /\ Over(why).delivered = turn.delivered /\ Over(why).why = why
         /\ Over(why).fenced = FALSE
BY DEF Over, NoTurn, TurnFields
-----------------------------------------------------------------------------
(* The steps before the exchange *)

LEMMA RetiresKeep ==
  ASSUME IInv, NEW why \in Reasons,
         RetireStale(why) \/ RetireUsed(why)
  PROVE  IInv'
<1>. USE DEF IInv
<1>1. /\ turn.at = "admitted" /\ turn.session \in Sessions /\ TypeOK
      /\ IsBinding(Mine) /\ Mine.native # None /\ Retiring(why)
      /\ UNCHANGED <<natives, number, last, client, aborting>>
      /\ bindings' = bindings \/ Bind(Following(Mine))
  BY DEF RetireStale, RetireUsed, Reuses, At, TypeOK, Mine
<1>2. BindingStep /\ bindings'[turn.session].native = Mine.native
  BY <1>1, FollowingSame, BindSame, BindingStays DEF Mine
<1>3. NativesStep
  BY <1>1, NativesStay
<1>4. /\ DOMAIN turn' = TurnFields /\ turn'.at = "retiring" /\ turn'.session = turn.session
      /\ turn'.native = Mine.native /\ turn'.fenced = turn.fenced
      /\ turn'.delivered = turn.delivered /\ turn'.why = why
  BY <1>1 DEF Retiring, TypeOK, TurnFields
<1>5. TurnMoves
  BY <1>1, <1>2, <1>3, <1>4 DEF TurnMoves, TurnStep, Busy, Places, TypeOK, IsBinding
<1>6. Reported'
  BY <1>1, <1>4 DEF Reported, Early, ReplayableUndelivered
<1>. QED
  BY <1>5, <1>6, MovesKeep

\* A frame that is ready: the binding and its native stay.
LEMMA PreparedKeeps ==
  ASSUME IInv, NEW b, Same(Mine, b), Bind(b), NEW n, n = Mine.native, Mine.native # None,
         turn.at \in {"admitted", "started"},
         NEW transport, NEW tracked, Prepared(b, n, transport, tracked),
         UNCHANGED <<natives, number, last, client, aborting>>
  PROVE  IInv'
<1>. USE DEF IInv
<1>1. turn.session \in Sessions /\ TypeOK /\ IsBinding(Mine)
  BY DEF TypeOK, Mine
<1>2. BindingStep /\ bindings'[turn.session].native = Mine.native
  BY <1>1, BindSame
<1>3. NativesStep
  BY <1>1, NativesStay
<1>4. /\ DOMAIN turn' = TurnFields /\ turn'.at = "ready" /\ turn'.session = turn.session
      /\ turn'.native = Mine.native /\ turn'.fenced = turn.fenced
      /\ turn'.delivered = turn.delivered
  BY <1>1 DEF Prepared, TypeOK, TurnFields
<1>5. TurnMoves
  BY <1>1, <1>2, <1>3, <1>4 DEF TurnMoves, TurnStep, Busy, Places, TypeOK, IsBinding
<1>6. Reported'
  BY <1>4 DEF Reported, Early, ReplayableUndelivered
<1>. QED
  BY <1>5, <1>6, MovesKeep

LEMMA ReuseKeeps == ASSUME IInv, Reuse PROVE IInv'
<1>1. IsBinding(Mine)
  BY DEF Reuse, Reuses, At, IInv, TypeOK, Mine
<1>. QED
  BY <1>1, FollowingSame, PreparedKeeps DEF Reuse, Reuses, At

LEMMA BootstrapKeeps == ASSUME IInv, Bootstrap PROVE IInv'
<1>1. IsBinding(Mine) /\ turn.native = Mine.native /\ turn.native # None
  BY ClientAssumption DEF Bootstrap, At, IInv, TypeOK, Mine, Placed, Holding, Numbers
<1>. QED
  BY <1>1, FreshSame, PreparedKeeps DEF Bootstrap, At

\* Failures before the exchange.
LEMMA EarlyFailureKeeps ==
  ASSUME IInv, FailsEarly, turn.at \in Early \ {"idle"}, NativesStep,
         UNCHANGED <<bindings, number, last, client, aborting>>
  PROVE  IInv'
<1>. USE DEF IInv
<1>1. turn.session \in Sessions /\ TypeOK
  BY DEF TypeOK, Early
<1>2. BindingStep
  BY <1>1, BindingStays
<1>3. /\ DOMAIN turn' = TurnFields /\ turn'.at = "failing" /\ turn'.session = turn.session
      /\ turn'.native = turn.native /\ turn'.fenced = FALSE
      /\ turn'.delivered = turn.delivered
  BY <1>1, OverShape DEF FailsEarly, TurnFields
<1>4. TurnMoves
  BY <1>1, <1>2, <1>3 DEF TurnMoves, TurnStep, Busy, Places, Early, TypeOK, Holding
<1>5. Reported'
  BY <1>1, <1>3 DEF Reported, Early, ReplayableUndelivered
<1>. QED
  BY <1>4, <1>5, MovesKeep

LEMMA EarlyFailures == ASSUME IInv, StartFails \/ PrepareFails PROVE IInv'
<1>. USE DEF IInv
<1>1. CASE StartFails
  <2>1. turn.native \in Numbers /\ TypeOK
    BY <1>1 DEF StartFails, At, Placed, Holding
  <2>2. natives' = natives \/ natives' = Closing(turn.native, "turn")
    BY <1>1 DEF StartFails
  <2>3. NativesStep
    BY <2>1, <2>2, NativesStay, NativesClose
  <2>. QED
    BY <1>1, <2>3, EarlyFailureKeeps DEF StartFails, At, Early
<1>2. CASE PrepareFails
  <2>1. NativesStep
    BY <1>2, NativesStay DEF PrepareFails
  <2>. QED
    BY <1>2, <2>1, EarlyFailureKeeps DEF PrepareFails, At, Early
<1>. QED
  BY <1>1, <1>2

LEMMA TurnClosesKeeps == ASSUME IInv, TurnCloses PROVE IInv'
<1>1. turn.native \in Numbers
  BY DEF TurnCloses, IInv, TypeOK
<1>. QED
  BY <1>1, ClosingShuts DEF TurnCloses

LEMMA RetireKeeps == ASSUME IInv, Retire PROVE IInv'
<1>. USE DEF IInv
<1>1. /\ turn.at = "retiring" /\ turn.session \in Sessions /\ TypeOK /\ IsBinding(Mine)
      /\ turn.native = Mine.native /\ turn.native # None /\ ~Open(Mine.native)
      /\ natives' = natives
  BY ClientAssumption DEF Retire, At, TypeOK, Placed, Holding, Mine, TurnClosed, Numbers
<1>2. NativesStep
  BY <1>1, NativesStay
<1>3. CASE Raised
  BY <1>1, <1>2, <1>3, EarlyFailureKeeps DEF Retire, Early
<1>4. CASE ~Raised
  <2>1. turn.why \in Reasons
    BY <1>1 DEF Placed
  <2>2. /\ DOMAIN turn' = TurnFields /\ turn'.at = "admitted" /\ turn'.session = turn.session
        /\ turn'.native = None /\ turn'.fenced = turn.fenced
        /\ turn'.delivered = turn.delivered
    BY <1>1, <1>4 DEF Retire, TypeOK, TurnFields
  <2>3. BindingStep
    BY <1>1, <1>4, <2>1, RetiredFreed, BindFreed DEF Retire
  <2>4. TurnMoves
    BY <1>1, <1>2, <2>3, <2>2 DEF Retire, TurnMoves, TurnStep, Busy, Places, TypeOK, Holding
  <2>5. Reported'
    BY <1>1, <2>2 DEF Retire, Reported, Early, ReplayableUndelivered
  <2>. QED
    BY <2>4, <2>5, MovesKeep
<1>. QED
  BY <1>3, <1>4

LEMMA StartKeeps == ASSUME IInv, Start PROVE IInv'
<1>. USE DEF IInv
<1>1. /\ turn.at = "launched" /\ turn.session \in Sessions /\ TypeOK
      /\ turn.native \in Numbers /\ natives[turn.native].state = "created"
      /\ turn.native = Mine.native
      /\ natives' = [natives EXCEPT ![turn.native].state = "started"]
      /\ UNCHANGED <<bindings, number, last, client, aborting>>
  BY DEF Start, At, TypeOK, Placed, Holding
<1>2. NativesStep
  BY <1>1 DEF TypeOK, NativesStep, IsNative, Open
<1>3. BindingStep
  BY <1>1, BindingStays
<1>4. /\ DOMAIN turn' = TurnFields /\ turn'.at = "started" /\ turn'.session = turn.session
      /\ turn'.native = turn.native /\ turn'.fenced = turn.fenced
      /\ turn'.delivered = turn.delivered
  BY <1>1 DEF Start, TypeOK, TurnFields
<1>5. TurnMoves
  BY <1>1, <1>2, <1>3, <1>4 DEF TurnMoves, TurnStep, Busy, Places, TypeOK, Mine
<1>6. Reported'
  BY <1>1, <1>4 DEF Reported, Early, ReplayableUndelivered
<1>. QED
  BY <1>5, <1>6, MovesKeep

LEMMA LaunchKeeps == ASSUME IInv, Launch PROVE IInv'
<1>. USE DEF IInv
<1>1. /\ turn.at = "admitted" /\ turn.session \in Sessions /\ TypeOK /\ IsBinding(Mine)
      /\ Mine.native = None /\ number \in Numbers
      /\ natives[number].state = "none" /\ natives[number].seen = <<>>
      /\ turn.session \in Occupied
      /\ UNCHANGED <<number, last, client, aborting>>
  BY DEF Launch, At, TypeOK, Placed, Mine, IsNative
<1>2. /\ DOMAIN natives' = Numbers
      /\ IsNative(natives'[number]) /\ natives'[number].state = "created"
      /\ natives'[number].seen = <<>>
      /\ \A n \in Numbers \ {number} : natives'[n] = natives[n]
  BY <1>1 DEF Launch, TypeOK, IsNative
<1>3. /\ DOMAIN bindings' = Sessions
      /\ IsBinding(bindings'[turn.session])
      /\ bindings'[turn.session].native = number
      /\ bindings'[turn.session].registered = Mine.registered
      /\ \A s \in Sessions \ {turn.session} : bindings'[s] = bindings[s]
  BY <1>1 DEF Launch, Bind, TypeOK, IsBinding, Mine
<1>4. /\ DOMAIN turn' = TurnFields /\ turn'.at = "launched" /\ turn'.session = turn.session
      /\ turn'.native = number /\ turn'.fenced = turn.fenced
      /\ turn'.delivered = turn.delivered
  BY <1>1 DEF Launch, TypeOK, TurnFields
<1>5. TypeOK'
  BY <1>1, <1>2, <1>3, <1>4 DEF TypeOK, Places
<1>6. Occupied' = Occupied
  BY <1>1, <1>3 DEF Occupied, Mine
<1>7. Launched'
  <2>1. ASSUME NEW s \in Sessions \ {turn.session}, bindings'[s].native # None
        PROVE  natives'[bindings'[s].native].state # "none"
    <3>1. bindings[s].native \in Numbers /\ natives[bindings[s].native].state # "none"
      BY <2>1, <1>3 DEF Placed, Launched, TypeOK, IsBinding
    <3>. QED
      BY <2>1, <3>1, <1>1, <1>2, <1>3
  <2>. QED
    BY <2>1, <1>2, <1>3 DEF Launched
<1>8. Placed'
  <2>1. \A n \in Numbers : n > number => natives'[n].state = "none"
    BY <1>1, <1>2 DEF Placed, Numbers
  <2>2. Mine'.native = number
    BY <1>3, <1>4 DEF Mine
  <2>. QED
    BY <1>1, <1>4, <1>6, <1>7, <2>1, <2>2 DEF Placed
<1>9. Reported'
  BY <1>1, <1>4 DEF Reported, Early, ReplayableUndelivered
<1>10. Counted'
  BY <1>4, <1>6 DEF Counted
<1>11. Accounted'
  <2>1. ASSUME NEW n \in Numbers \ {number}, Open(n)'
        PROVE  \E s \in Occupied : bindings'[s].native = n
    <3>1. Open(n) /\ n # None
      BY <2>1, <1>2, ClientAssumption DEF Open, Numbers
    <3>2. PICK s \in Occupied : bindings[s].native = n
      BY <3>1, <1>1 DEF Accounted
    <3>3. s \in Sessions \ {turn.session}
      BY <3>1, <3>2, <1>1 DEF Occupied, Mine
    <3>. QED
      BY <3>2, <3>3, <1>3
  <2>. QED
    BY <2>1, <1>1, <1>3, <1>6 DEF Accounted
<1>12. LeftBehind'
  <2>1. ASSUME client.closed, NEW n \in Numbers, Open(n)', Used(n)' PROVE Awaited(n)'
    <3>1. n # number /\ natives'[n] = natives[n] /\ n # None
      BY <2>1, <1>2, <1>4, ClientAssumption DEF Used, Numbers
    <3>2. Awaited(n)
      BY <2>1, <3>1, <1>4 DEF LeftBehind, Open, Used
    <3>3. \A s \in Sessions : bindings[s].native = n => bindings'[s].native = n
      BY <3>1, <1>1, <1>3 DEF Mine
    <3>. QED
      BY <3>2, <3>3, <1>1 DEF Awaited, TypeOK
  <2>. QED
    BY <2>1, <1>1 DEF LeftBehind
<1>. QED
  BY <1>5, <1>8, <1>9, <1>10, <1>11, <1>12
-----------------------------------------------------------------------------
(* The exchange and what follows it *)

LEMMA DeliverKeeps == ASSUME IInv, Deliver PROVE IInv'
<1>. USE DEF IInv
<1>1. /\ turn.at = "ready" /\ turn.session \in Sessions /\ TypeOK
      /\ turn.native \in Numbers /\ turn.native = Mine.native
      /\ natives[turn.native].state # "none"
      /\ UNCHANGED <<bindings, number, last, client, aborting>>
  BY ClientAssumption DEF Deliver, At, TypeOK, Placed, Launched, Holding, Mine, Numbers
<1>2. /\ DOMAIN turn' = TurnFields /\ turn'.at = "waiting" /\ turn'.session = turn.session
      /\ turn'.native = turn.native /\ turn'.fenced = (client.closed \/ client.aborted)
      /\ turn'.delivered = TRUE
  BY <1>1 DEF Deliver, Cancelled, TypeOK, TurnFields
<1>3. /\ DOMAIN natives' = Numbers
      /\ \A n \in Numbers \ {turn.native} : natives'[n] = natives[n]
      /\ natives'[turn.native].state = natives[turn.native].state
      /\ DOMAIN natives'[turn.native] = DOMAIN natives[turn.native]
  BY <1>1 DEF Deliver, TypeOK, IsNative
<1>4. NativesStep
  BY <1>1, <1>2, <1>3 DEF NativesStep, TypeOK, IsNative, Open
<1>5. BindingStep
  BY <1>1, BindingStays
<1>6. TurnMoves
  BY <1>1, <1>2, <1>4, <1>5 DEF TurnMoves, TurnStep, Busy, Places, TypeOK, Mine
<1>7. Reported'
  BY <1>1, <1>2 DEF Reported, Early, ReplayableUndelivered
<1>. QED
  BY <1>6, <1>7, MovesKeep

\* A request that turns its back on the exchange.
LEMMA TurnsAway ==
  ASSUME IInv, NEW why, NEW place \in {"unwinding", "failing"},
         turn.at \in {"ready", "waiting"}, turn' = [Over(why) EXCEPT !.at = place],
         turn.delivered => why # "undelivered",
         NativesStep,
         turn.at = "waiting" /\ turn.fenced =>
            natives'[turn.native].state \notin {"created", "started"},
         UNCHANGED <<bindings, number, last, client, aborting>>
  PROVE  IInv'
<1>. USE DEF IInv
<1>1. /\ turn.session \in Sessions /\ TypeOK
      /\ turn.native \in Numbers /\ turn.native = Mine.native
  BY DEF TypeOK, Placed, Holding
<1>2. BindingStep
  BY <1>1, BindingStays
<1>3. /\ DOMAIN turn' = TurnFields /\ turn'.at = place /\ turn'.session = turn.session
      /\ turn'.native = turn.native /\ turn'.fenced = FALSE
      /\ turn'.delivered = turn.delivered /\ turn'.why = why
  BY OverShape DEF TurnFields
<1>4. TurnMoves
  BY <1>1, <1>2, <1>3 DEF TurnMoves, TurnStep, Busy, Places, TypeOK, Mine, Open
<1>5. Reported'
  BY <1>3 DEF Reported, Early, ReplayableUndelivered
<1>. QED
  BY <1>4, <1>5, MovesKeep

LEMMA HandsKeep ==
  ASSUME IInv, NEW why \in {"failed", "undelivered", "uncertain"}, NotDelivered(why)
  PROVE  IInv'
<1>. USE DEF IInv
<1>1. turn.at = "ready" /\ ~turn.delivered /\ turn.native \in Numbers /\ TypeOK
  BY DEF NotDelivered, At, Reported, Early, Placed, Holding
<1>2. NativesStep
  BY <1>1, NativesClose DEF NotDelivered
<1>. QED
  BY <1>1, <1>2, TurnsAway DEF NotDelivered

LEMMA FailuresKeep ==
  ASSUME IInv, AnswerInvalid \/ \E why \in {"failed", "uncertain"} : ExchangeFails(why)
  PROVE  IInv'
<1>. USE DEF IInv
<1>1. turn.at = "waiting" /\ turn.native \in Numbers /\ TypeOK
  BY DEF AnswerInvalid, ExchangeFails, At, Placed, Holding
<1>2. CASE AnswerInvalid
  <2>1. NativesStep
    BY <1>1, <1>2, NativesStay DEF AnswerInvalid
  <2>. QED
    BY <1>1, <1>2, <2>1, TurnsAway DEF AnswerInvalid
<1>3. ASSUME NEW why \in {"failed", "uncertain"}, ExchangeFails(why) PROVE IInv'
  <2>1. NativesStep /\ natives'[turn.native].state \notin {"created", "started"}
    BY <1>1, <1>3, NativesClose DEF ExchangeFails, Open
  <2>. QED
    BY <1>1, <1>3, <2>1, TurnsAway DEF ExchangeFails
<1>. QED
  BY <1>2, <1>3

\* The end of a request, whatever becomes of its binding and its native.
LEMMA EndsKeepIt ==
  ASSUME IInv, NEW how, how = "undelivered" => ~turn.delivered, Ends(how),
         turn.at \in Busy, turn.at = "waiting" => ~turn.fenced,
         NativesStep, BindingStep,
         UNCHANGED <<number, client, aborting>>
  PROVE  IInv'
<1>. USE DEF IInv
<1>1. /\ DOMAIN turn' = TurnFields /\ turn'.at = "leaving" /\ turn'.session = turn.session
      /\ turn'.native = turn.native /\ turn'.fenced = FALSE
      /\ turn'.delivered = turn.delivered
      /\ last' = [how |-> how, delivered |-> turn.delivered]
  BY OverShape DEF Ends, TurnFields
<1>2. TurnMoves
  BY <1>1 DEF TurnMoves, TurnStep, Busy, Places, TypeOK, Holding
<1>3. Reported'
  BY <1>1 DEF Reported, Early, ReplayableUndelivered
<1>. QED
  BY <1>2, <1>3, MovesKeep

LEMMA AnswerKeeps ==
  ASSUME IInv, NEW role \in {"assistant", "calls"}, Answer(role) PROVE IInv'
<1>. USE DEF IInv
<1>. DEFINE answer == Message(role, number)
<1>1. /\ turn.at = "waiting" /\ ~turn.fenced /\ turn.session \in Sessions /\ TypeOK
      /\ turn.native \in Numbers /\ IsBinding(Mine)
      /\ turn.native = Mine.native /\ natives[turn.native].state # "none"
      /\ natives' = [natives EXCEPT ![turn.native].seen = Append(@, answer)]
      /\ Bind(CommittedBinding(answer)) /\ Ends("answered")
      /\ UNCHANGED <<number, client, aborting>>
  BY ClientAssumption
    DEF Answer, At, TypeOK, Placed, Launched, Holding, Mine, Numbers
<1>. HIDE DEF answer
<1>2. NativesStep
  <2>1. /\ DOMAIN natives' = Numbers
        /\ \A n \in Numbers \ {turn.native} : natives'[n] = natives[n]
        /\ natives'[turn.native].state = natives[turn.native].state
        /\ DOMAIN natives'[turn.native] = DOMAIN natives[turn.native]
    BY <1>1 DEF TypeOK, IsNative
  <2>. QED
    BY <1>1, <2>1 DEF NativesStep, TypeOK, IsNative, Open
<1>3. BindingStep
  BY <1>1, CommittedSame, BindSame
<1>. QED
  BY <1>1, <1>2, <1>3, EndsKeepIt DEF Busy, Places

LEMMA UnwindKeeps == ASSUME IInv, Unwind PROVE IInv'
<1>. USE DEF IInv
<1>1. /\ turn.at = "unwinding" /\ turn.session \in Sessions /\ TypeOK /\ IsBinding(Mine)
      /\ turn.native = Mine.native /\ turn.native \in Numbers /\ ~Open(Mine.native)
      /\ natives' = natives /\ UNCHANGED <<number, client, aborting>>
  BY ClientAssumption DEF Unwind, At, TypeOK, Placed, Holding, Mine, TurnClosed, Numbers
<1>2. NativesStep
  BY <1>1, NativesStay
<1>3. CASE Raised
  <2>1. BindingStep /\ Ends("error")
    BY <1>1, <1>3, BindingStays DEF Unwind
  <2>. QED
    BY <1>1, <1>2, <2>1, EndsKeepIt DEF Busy, Places
<1>4. CASE ~Raised /\ turn.why = "failed"
  <2>1. BindingStep /\ Ends("lost")
    BY <1>1, <1>4, ForgottenFreed, BindFreed DEF Unwind
  <2>. QED
    BY <1>1, <1>2, <2>1, EndsKeepIt DEF Busy, Places
<1>5. CASE ~Raised /\ turn.why # "failed"
  <2>1. BindingStep /\ turn' = [turn EXCEPT !.at = "failing"] /\ last' = last
    BY <1>1, <1>5, BindingStays DEF Unwind
  <2>2. /\ DOMAIN turn' = TurnFields /\ turn'.at = "failing" /\ turn'.session = turn.session
        /\ turn'.native = turn.native /\ turn'.fenced = turn.fenced
        /\ turn'.delivered = turn.delivered /\ turn'.why = turn.why
    BY <1>1, <2>1 DEF TypeOK, TurnFields
  <2>3. TurnMoves
    BY <1>1, <1>2, <2>1, <2>2 DEF TurnMoves, TurnStep, Busy, Places, TypeOK, Holding
  <2>4. Reported'
    BY <1>1, <2>1, <2>2 DEF Reported, Early, ReplayableUndelivered
  <2>. QED
    BY <2>3, <2>4, MovesKeep
<1>. QED
  BY <1>3, <1>4, <1>5

LEMMA PopKeeps == ASSUME IInv, Pop PROVE IInv'
<1>. USE DEF IInv
<1>1. /\ turn.at = "leaving" /\ turn.session \in Sessions /\ TypeOK /\ IsBinding(Mine)
      /\ turn.session \in Occupied
      /\ UNCHANGED <<natives, number, last, client, aborting>>
  BY DEF Pop, At, TypeOK, Placed, Mine
<1>2. /\ DOMAIN bindings' = Sessions
      /\ IsBinding(bindings'[turn.session])
      /\ bindings'[turn.session].native = Mine.native
      /\ bindings'[turn.session].registered = FALSE
      /\ \A s \in Sessions \ {turn.session} : bindings'[s] = bindings[s]
  BY <1>1 DEF Pop, Bind, TypeOK, IsBinding, Unbound, NewBinding
<1>3. /\ DOMAIN turn' = TurnFields /\ turn'.at = "popped" /\ turn'.session = turn.session
      /\ turn'.native = Mine.native /\ turn'.fenced = turn.fenced
      /\ turn'.delivered = turn.delivered
  BY <1>1 DEF Pop, TypeOK, TurnFields
<1>4. TypeOK'
  BY <1>1, <1>2, <1>3 DEF TypeOK, Places, IsBinding
<1>5. Occupied' = Occupied \ {turn.session}
  BY <1>2 DEF Occupied
<1>6. \A s \in Sessions : bindings'[s].native = bindings[s].native
  BY <1>2 DEF Mine
<1>7. Launched'
  BY <1>1, <1>6 DEF Placed, Launched
<1>8. Placed'
  BY <1>1, <1>3, <1>5, <1>7 DEF Placed, Holding
<1>9. Reported'
  BY <1>1, <1>3 DEF Reported, Early, ReplayableUndelivered
<1>10. Counted'
  <2>1. IsFiniteSet(Occupied)
    BY ClientAssumption, FS_Subset DEF Occupied
  <2>2. Cardinality(Occupied) \in Nat /\ Cardinality(Occupied') = Cardinality(Occupied) - 1
    BY <2>1, <1>1, <1>5, FS_RemoveElement, FS_CardinalityType
  <2>. QED
    BY <2>2, ClientAssumption DEF Counted
<1>11. Accounted'
  <2>1. ASSUME NEW n \in Numbers, Open(n)
        PROVE  (\E s \in Occupied' : bindings'[s].native = n) \/ turn'.native = n
    <3>1. PICK s \in Occupied : bindings[s].native = n
      BY <2>1, <1>1 DEF Accounted
    <3>. QED
      BY <3>1, <1>3, <1>5, <1>6 DEF Mine, Occupied
  <2>. QED
    BY <2>1, <1>1, <1>3 DEF Accounted, Open
<1>12. LeftBehind'
  <2>1. ASSUME NEW n \in Numbers, Awaited(n) PROVE Awaited(n)'
    BY <2>1, <1>1, <1>3, <1>6 DEF Awaited, TypeOK
  <2>. QED
    BY <2>1, <1>1, <1>3 DEF LeftBehind, Open, Used
<1>. QED
  BY <1>4, <1>8, <1>9, <1>10, <1>11, <1>12

LEMMA LeaveKeeps == ASSUME IInv, Leave PROVE IInv'
<1>. USE DEF IInv
<1>1. /\ turn.at \in {"leaving", "popped"} /\ TypeOK
      /\ turn' = NoTurn /\ UNCHANGED <<bindings, natives, number, client, aborting>>
      /\ turn.at = "popped" /\ turn.native # None => ~Open(turn.native)
  BY DEF Leave, At, TurnClosed
<1>2. /\ DOMAIN turn' = TurnFields /\ turn'.at = "idle" /\ turn'.native = None
      /\ turn'.fenced = FALSE /\ turn'.delivered = FALSE
  BY <1>1 DEF NoTurn, TurnFields
<1>3. DOMAIN last' = {"how", "delivered"} /\ last'.delivered = last.delivered
      /\ last'.how \in {last.how, "error"}
  BY DEF Leave, Reported
<1>4. TypeOK' /\ Occupied' = Occupied
  BY <1>1, <1>2 DEF TypeOK, Places, Occupied, IsBinding
<1>5. Placed'
  BY <1>1, <1>2, <1>4 DEF Placed, Holding, Launched
<1>6. Reported'
  BY <1>2, <1>3 DEF Reported, ReplayableUndelivered
<1>7. Counted'
  BY <1>2, <1>4 DEF Counted
<1>8. ASSUME NEW n \in Numbers, Open(n) PROVE ~(turn.at = "popped" /\ turn.native = n)
  BY <1>1, <1>8, ClientAssumption DEF Numbers
<1>9. Accounted'
  BY <1>1, <1>4, <1>8 DEF Accounted, Open
<1>10. LeftBehind'
  BY <1>1, <1>2, <1>8 DEF LeftBehind, Awaited, Open, Used
<1>. QED
  BY <1>4, <1>5, <1>6, <1>7, <1>9, <1>10

LEMMA ClosesSelf == ASSUME IInv, CloseSelf \/ ClosedSelf PROVE IInv'
<1>. USE DEF IInv
<1>1. /\ turn.at \in {"failing", "closing"} /\ turn.session \in Sessions /\ TypeOK
      /\ turn.why = "undelivered" => ~turn.delivered
      /\ UNCHANGED <<bindings, natives, number, aborting>>
  BY DEF CloseSelf, ClosedSelf, At, TypeOK, Reported
<1>2. NativesStep /\ BindingStep
  BY <1>1, NativesStay, BindingStays
<1>3. CASE ClosedSelf \/ client.closed
  <2>1. PICK how \in {"error", turn.why} : Ends(how)
    BY <1>3 DEF CloseSelf, ClosedSelf
  <2>2. client' = client
    BY <1>3 DEF CloseSelf, ClosedSelf
  <2>. QED
    BY <1>1, <1>2, <2>1, <2>2, EndsKeepIt DEF Busy, Places
<1>4. CASE CloseSelf /\ ~client.closed
  <2>1. /\ DOMAIN turn' = TurnFields /\ turn'.at = "closing" /\ turn'.session = turn.session
        /\ turn'.native = turn.native /\ turn'.fenced = turn.fenced
        /\ turn'.delivered = turn.delivered /\ turn'.why = turn.why /\ last' = last
        /\ turn.at = "failing"
    BY <1>1, <1>4 DEF CloseSelf, At, TypeOK, TurnFields
  <2>2. /\ DOMAIN client' = ClientFields /\ client'.closed = TRUE /\ client'.left = Occupied
        /\ client'.published = client.published /\ client'.aborted = client.aborted
        /\ client'.settling = client.settling /\ client'.peer = client.peer
    BY <1>4 DEF CloseSelf, CloseBegins, TypeOK, ClientFields
  <2>3. Occupied' = Occupied /\ Occupied \subseteq Sessions /\ ~client.published
    BY <1>1, <1>4 DEF Occupied, LeftBehind, TypeOK
  <2>4. TypeOK'
    BY <1>1, <2>1, <2>2, <2>3 DEF TypeOK, Places, IsBinding
  <2>5. Placed'
    BY <1>1, <2>1, <2>3 DEF Placed, Holding, Launched
  <2>6. Reported'
    BY <2>1 DEF Reported, Early, ReplayableUndelivered
  <2>7. Counted' /\ Accounted'
    BY <1>1, <2>1, <2>3 DEF Counted, Accounted, Open
  <2>8. LeftBehind'
    BY <1>1, <2>1, <2>2, <2>3 DEF LeftBehind, Accounted, Awaited, Open
  <2>. QED
    BY <2>4, <2>5, <2>6, <2>7, <2>8
<1>. QED
  BY <1>3, <1>4
-----------------------------------------------------------------------------
LEMMA AskKeeps == ASSUME IInv, Ask PROVE IInv'
<1>. USE DEF IInv
<1>a. PICK s \in Sessions, tools \in Toolsets :
        \E messages \in Speaks(s, number + 1) : Admit(s, messages, tools)
  BY DEF Ask
<1>1. PICK messages \in Speaks(s, number + 1) : Admit(s, messages, tools)
  BY <1>a
<1>. DEFINE evicted == {t \in Occupied \ {s} : Expired(t)}
            full == Cardinality(Occupied \ evicted) >= MaxSessions /\ s \notin Occupied
            kept == [t \in Sessions |-> IF t \in evicted THEN Unbound ELSE bindings[t]]
<1>2. /\ turn.at = "idle" /\ ~client.closed /\ number < MaxRequests /\ number' = number + 1
      /\ UNCHANGED <<natives, client, aborting>>
      /\ \/ bindings' = kept /\ turn' = turn
              /\ last' = [how |-> "refused", delivered |-> FALSE]
         \/ /\ ~full
            /\ bindings' = IF s \in Occupied THEN kept ELSE [kept EXCEPT ![s] = NewBinding]
            /\ turn' = [NoTurn EXCEPT !.at = "admitted", !.session = s,
                                      !.messages = messages, !.tools = tools]
            /\ last' = NoEnd
  BY <1>1 DEF Admit
<1>3. number \in Nat /\ number + 1 \in Numbers /\ natives[number + 1].state = "none"
  BY <1>2, ClientAssumption DEF TypeOK, Placed, Numbers
<1>4. /\ DOMAIN bindings' = Sessions
      /\ \A t \in Sessions :
           \/ bindings'[t] = bindings[t] /\ t \notin evicted
           \/ bindings'[t] \in {Unbound, NewBinding} /\ (t \in evicted \/ t \notin Occupied)
  BY <1>2 DEF TypeOK
<1>5. IsBinding(Unbound) /\ IsBinding(NewBinding) /\ Unbound.native = None
      /\ NewBinding.native = None
  BY DEF IsBinding, Unbound, NewBinding
<1>6. /\ DOMAIN turn' = TurnFields
      /\ turn' = turn \/ (turn'.at = "admitted" /\ turn'.session = s /\ turn'.native = None
                            /\ turn'.fenced = FALSE /\ turn'.delivered = FALSE)
  BY <1>2 DEF NoTurn, TurnFields, TypeOK
<1>7. TypeOK'
  <2>1. \A t \in Sessions : IsBinding(bindings'[t])
    BY <1>4, <1>5 DEF TypeOK
  <2>2. number' \in 0 .. MaxRequests /\ number' \in Numbers
    BY <1>2, <1>3 DEF Numbers
  <2>3. turn'.at \in Places /\ turn'.native \in Numbers \cup {None}
        /\ turn'.fenced \in BOOLEAN /\ turn'.delivered \in BOOLEAN
        /\ (turn'.at # "idle" => turn'.session \in Sessions)
    BY <1>2, <1>6 DEF TypeOK, Places
  <2>. QED
    BY <1>2, <1>4, <1>6, <2>1, <2>2, <2>3 DEF TypeOK
<1>8. Launched'
  BY <1>2, <1>4, <1>5 DEF Placed, Launched
<1>9. /\ Occupied' \subseteq (Occupied \ evicted) \cup {s}
      /\ Occupied \ evicted \subseteq Occupied'
      /\ turn' = turn \/ s \in Occupied => Occupied' \subseteq Occupied
      /\ turn' # turn => s \in Occupied'
      /\ turn' # turn => ~full
  <2>1. ~Unbound.registered /\ NewBinding.registered
    BY DEF Unbound, NewBinding
  <2>2. CASE turn' = turn
    <3>1. bindings' = kept
      BY <2>2, <1>2 DEF NoTurn
    <3>. QED
      BY <2>1, <2>2, <3>1, <1>4 DEF Occupied
  <2>3. CASE turn' # turn
    <3>1. /\ ~full
          /\ bindings' = IF s \in Occupied THEN kept ELSE [kept EXCEPT ![s] = NewBinding]
      BY <2>3, <1>2
    <3>. QED
      BY <2>1, <2>3, <3>1 DEF Occupied
  <2>. QED
    BY <2>2, <2>3
<1>10. Placed'
  BY <1>2, <1>3, <1>6, <1>8, <1>9 DEF Placed, Holding, Numbers
<1>11. Reported'
  BY <1>2, <1>6 DEF Reported, Early, ReplayableUndelivered, NoEnd
<1>12. Counted'
  <2>1. IsFiniteSet(Occupied) /\ IsFiniteSet(Occupied \ evicted)
    BY ClientAssumption, FS_Subset DEF Occupied
  <2>2. CASE Occupied' \subseteq Occupied
    <3>1. Cardinality(Occupied') <= Cardinality(Occupied)
      BY <2>1, <2>2, FS_Subset
    <3>2. Cardinality(Occupied') \in Nat /\ Cardinality(Occupied) \in Nat
      BY <2>1, <2>2, FS_Subset, FS_CardinalityType
    <3>. QED
      BY <3>1, <3>2, <1>2, <1>6, ClientAssumption DEF Counted
  <2>3. CASE ~(Occupied' \subseteq Occupied)
    <3>1. Cardinality(Occupied \ evicted) < MaxSessions /\ turn'.at = "admitted"
      BY <2>1, <2>3, <1>6, <1>9, FS_CardinalityType, ClientAssumption
    <3>2. Occupied' = (Occupied \ evicted) \cup {s}
      BY <2>3, <1>9
    <3>3. Cardinality(Occupied') <= MaxSessions
      <4>1. Cardinality(Occupied \ evicted) \in Nat
        BY <2>1, FS_CardinalityType
      <4>2. Cardinality(Occupied') \in {Cardinality(Occupied \ evicted),
                                         Cardinality(Occupied \ evicted) + 1}
        BY <2>1, <3>2, FS_AddElement
      <4>. QED
        BY <3>1, <4>1, <4>2, ClientAssumption
    <3>. QED
      BY <3>1, <3>3 DEF Counted
  <2>. QED
    BY <2>2, <2>3
<1>13. Accounted'
  <2>1. ASSUME NEW n \in Numbers, Open(n)
        PROVE  \E t \in Occupied' : bindings'[t].native = n
    <3>1. PICK t \in Occupied : bindings[t].native = n
      BY <2>1, <1>2 DEF Accounted
    <3>2. t \notin evicted
      BY <2>1, <3>1, ClientAssumption DEF Expired, ProvedDead, Open, Numbers
    <3>3. t \in Occupied' /\ bindings'[t] = bindings[t]
      BY <3>1, <3>2, <1>4, <1>9 DEF Occupied
    <3>. QED
      BY <3>1, <3>3
  <2>. QED
    BY <2>1, <1>2 DEF Accounted, Open
<1>14. LeftBehind'
  BY <1>2 DEF LeftBehind
<1>. QED
  BY <1>7, <1>10, <1>11, <1>12, <1>13, <1>14
-----------------------------------------------------------------------------
LEMMA TurnKeeps == ASSUME IInv, Turn PROVE IInv'
<1>1. CASE Prepares
  BY <1>1, RetiresKeep, ReuseKeeps, TurnClosesKeeps, RetireKeeps, LaunchKeeps, StartKeeps,
    EarlyFailures, BootstrapKeeps DEF Prepares, Reasons
<1>2. CASE Hands
  BY <1>2, DeliverKeeps, HandsKeep DEF Hands
<1>3. CASE Waits
  BY <1>3, AnswerKeeps, FailuresKeep DEF Waits
<1>4. CASE Finishes
  BY <1>4, UnwindKeeps, PopKeeps, LeaveKeeps, ClosesSelf DEF Finishes
<1>. QED
  BY <1>1, <1>2, <1>3, <1>4 DEF Turn

LEMMA StutterKeeps == ASSUME IInv, UNCHANGED vars PROVE IInv'
BY DEF vars, IInv, TypeOK, IsBinding, IsNative, Placed, Launched, Mine, Occupied, Reported,
  ReplayableUndelivered, Accounted, Open, Counted, LeftBehind, Awaited, Used

LEMMA NextKeeps == ASSUME IInv, [Next]_vars PROVE IInv'
<1>1. CASE Next
  BY <1>1, StutterKeeps, AskKeeps, TurnKeeps, CloserKeeps, AbortKeeps, EndsKeep
    DEF Next, Rests
<1>. QED
  BY <1>1, StutterKeeps

\* The inductive invariant: every native that is open is somebody's, whatever the
\* request, close(), the abort and the janitors do to one another (client.py).
THEOREM ClientInvariant == Spec => []IInv
<1>. QED
  BY InitKeeps, NextKeeps, PTL DEF Spec

\* The registered bindings bound the natives: two of them never share one, and a
\* request that dropped its binding gave its place up before its native is closed.
LEMMA OpenOnesFit == ASSUME IInv PROVE SessionsBound
<1>. USE DEF IInv
<1>. DEFINE Opened == {n \in Numbers : Open(n)}
            Owner(n) == CHOOSE s \in Occupied : bindings[s].native = n
            Held == IF turn.at = "popped" THEN Occupied \cup {turn.session} ELSE Occupied
            Mapped == [n \in Opened |->
                         IF \E s \in Occupied : bindings[s].native = n
                         THEN Owner(n) ELSE turn.session]
<1>1. IsFiniteSet(Occupied) /\ Cardinality(Occupied) \in Nat
  BY ClientAssumption, FS_Subset, FS_CardinalityType DEF Occupied
<1>2. IsFiniteSet(Held) /\ Cardinality(Held) \in Nat /\ Cardinality(Held) <= MaxSessions
  <2>1. CASE turn.at = "popped"
    <3>1. Cardinality(Held) \in {Cardinality(Occupied), Cardinality(Occupied) + 1}
      BY <2>1, <1>1, FS_AddElement
    <3>2. IsFiniteSet(Held)
      BY <2>1, <1>1, FS_AddElement
    <3>. QED
      BY <2>1, <3>1, <3>2, <1>1, ClientAssumption DEF Counted
  <2>2. CASE turn.at # "popped"
    BY <2>2, <1>1 DEF Counted
  <2>. QED
    BY <2>1, <2>2
<1>3. \A n \in Opened :
        \/ /\ \E s \in Occupied : bindings[s].native = n
           /\ Mapped[n] \in Occupied /\ bindings[Mapped[n]].native = n
        \/ /\ ~ \E s \in Occupied : bindings[s].native = n
           /\ turn.at = "popped" /\ turn.native = n /\ Mapped[n] = turn.session
  BY DEF Accounted
<1>4. turn.at = "popped" => turn.session \notin Occupied
  BY DEF Placed
<1>5. Mapped \in [Opened -> Held]
  BY <1>3
<1>6. \A m, n \in Opened : Mapped[m] = Mapped[n] => m = n
  BY <1>3, <1>4
<1>7. Mapped \in Injection(Opened, Held)
  BY <1>5, <1>6 DEF Injection, IsInjective
<1>8. IsFiniteSet(Opened) /\ Cardinality(Opened) <= Cardinality(Held)
  BY <1>2, <1>7, FS_Injection
<1>9. Cardinality(Opened) \in Nat
  BY <1>8, FS_CardinalityType
<1>. QED
  BY <1>2, <1>8, <1>9, ClientAssumption DEF SessionsBound

\* The place of a binding is given away only when its native is proved dead, so the
\* natives that are open never exceed max_sessions, for any number of sessions and
\* requests (client.py, the eviction of create).
THEOREM OpenNativesBounded == Spec => []SessionsBound
<1>. QED
  BY ClientInvariant, OpenOnesFit, PTL

\* What create reports as safe to send again was never handed to a native, at
\* whatever step before or after the exchange it failed (client.py, native.py).
THEOREM ReplayIsSafe == Spec => []ReplayableUndelivered
<1>1. IInv => ReplayableUndelivered
  BY DEF IInv, Reported
<1>. QED
  BY <1>1, ClientInvariant, PTL

\* A client that published its outcome leaves no native open that was ever used, even
\* if a request, a janitor or a host abort was at work on it (client.py, close).
THEOREM NothingUsedStays == Spec => []StrayUnused
<1>1. IInv => StrayUnused
  BY DEF IInv, LeftBehind, Awaited, Used, StrayUnused
<1>. QED
  BY <1>1, ClientInvariant, PTL
-----------------------------------------------------------------------------
(* Induction: the library's principles take an operator as a parameter, so *)
(* numbers, sequences and recursive functions get one over sets            *)

\* The induction principle of this module.
LEMMA LeastNat ==
  ASSUME NEW T \in SUBSET Nat, T # {}
  PROVE  \E x \in T : \A y \in T : x <= y
<1>1. PICK n \in T : TRUE
  OBVIOUS
<1>. DEFINE D == {k \in 0 .. n : \A j \in 0 .. k : j \notin T}
            c == Cardinality(D)
<1>2. n \in Nat /\ D \in SUBSET (0 .. n) /\ IsFiniteSet(0 .. n)
  BY FS_Interval
<1>3. IsFiniteSet(D) /\ c \in Nat
  BY <1>2, FS_Subset, FS_CardinalityType
<1>4. \A k \in D : 0 .. k \subseteq D
  BY <1>2
<1>. HIDE DEF c
<1>5. c \notin D
  <2>. SUFFICES ASSUME c \in D PROVE FALSE
    OBVIOUS
  <2>1. (0 .. c) \in SUBSET D
    BY <1>4
  <2>2. Cardinality(0 .. c) = c + 1
    BY <1>3, FS_Interval
  <2>3. Cardinality(0 .. c) <= Cardinality(D)
    BY <1>3, <2>1, FS_Subset
  <2>. QED BY <1>3, <2>2, <2>3 DEF c
<1>6. D = 0 .. c - 1
  <2>1. \A k \in D : k < c
    BY <1>2, <1>3, <1>4, <1>5
  <2>2. D \in SUBSET (0 .. c - 1)
    BY <1>2, <1>3, <2>1
  <2>3. IsFiniteSet(0 .. c - 1) /\ Cardinality(0 .. c - 1) = c
    BY <1>3, FS_Interval
  <2>. QED BY <2>2, <2>3, FS_Subset DEF c
<1>7. c <= n
  <2>1. n \notin D
    BY <1>1, <1>2
  <2>. HIDE DEF D
  <2>. QED BY <1>2, <1>3, <1>6, <2>1
<1>8. ASSUME NEW y \in T PROVE c <= y
  <2>1. \A k \in 0 .. c - 1 : y \notin 0 .. k
    BY <1>6
  <2>. HIDE DEF D
  <2>2. y \in Nat
    OBVIOUS
  <2>. QED BY <1>3, <2>1, <2>2
<1>9. c \in T
  <2>. SUFFICES ASSUME c \notin T PROVE FALSE
    OBVIOUS
  <2>1. \A j \in 0 .. c : j \notin T
    BY <1>3, <1>6
  <2>. QED BY <1>3, <1>5, <1>7, <2>1
<1>. QED BY <1>8, <1>9

\* A recursive function over an interval, as TLA+ defines it, exists and has values
\* where its steps stay.
LEMMA Recursion ==
  \A S : \A base \in S, n \in Nat : \A step \in [1 .. n -> [S -> S]] :
    \E f \in [0 .. n -> S] : f[0] = base /\ \A i \in 1 .. n : f[i] = step[i][f[i - 1]]
<1>. SUFFICES ASSUME NEW S, NEW base \in S, NEW n \in Nat, NEW step \in [1 .. n -> [S -> S]]
     PROVE  \E f \in [0 .. n -> S] :
              f[0] = base /\ \A i \in 1 .. n : f[i] = step[i][f[i - 1]]
  OBVIOUS
<1>. DEFINE Steps(k, f) == f[0] = base /\ \A i \in 1 .. k : f[i] = step[i][f[i - 1]]
            T == {k \in 0 .. n : ~\E f \in [0 .. k -> S] : Steps(k, f)}
<1>0. n \in T <=> ~\E f \in [0 .. n -> S] : Steps(n, f)
  OBVIOUS
<1>. SUFFICES ASSUME T # {} PROVE FALSE
  <2>. HIDE DEF T
  <2>. QED BY <1>0
<1>1. PICK k \in T : \A y \in T : k <= y
  <2>1. T \in SUBSET Nat
    OBVIOUS
  <2>. HIDE DEF T
  <2>. QED BY <2>1, LeastNat
<1>2. k \in 0 .. n /\ ~\E f \in [0 .. k -> S] : Steps(k, f)
  OBVIOUS
<1>3. k # 0
  <2>. DEFINE f == [i \in 0 .. 0 |-> base]
  <2>1. f \in [0 .. 0 -> S] /\ Steps(0, f)
    OBVIOUS
  <2>. QED BY <1>2, <2>1
<1>4. PICK f \in [0 .. k - 1 -> S] : Steps(k - 1, f)
  <2>1. k - 1 \in 0 .. n /\ ~(k <= k - 1)
    BY <1>2, <1>3
  <2>2. k - 1 \notin T
    BY <1>1, <2>1
  <2>. QED BY <2>1, <2>2
<1>. HIDE DEF T
<1>. DEFINE g == [i \in 0 .. k |-> IF i = k THEN step[k][f[k - 1]] ELSE f[i]]
<1>5. f[k - 1] \in S /\ k \in 1 .. n
  BY <1>2, <1>3
<1>6. g \in [0 .. k -> S]
  BY <1>2, <1>5
<1>7. g[0] = base /\ g[k] = step[k][f[k - 1]] /\ g[k - 1] = f[k - 1]
  BY <1>2, <1>3, <1>4
<1>8. ASSUME NEW i \in 1 .. k PROVE g[i] = step[i][g[i - 1]]
  <2>1. CASE i = k
    BY <1>7, <2>1
  <2>2. CASE i # k
    <3>1. i \in 1 .. k - 1 /\ i \in 0 .. k /\ i - 1 \in 0 .. k /\ i - 1 # k
      BY <1>2, <2>2
    <3>2. g[i] = f[i] /\ g[i - 1] = f[i - 1]
      BY <2>2, <3>1
    <3>. QED BY <1>4, <3>1, <3>2
  <2>. QED BY <2>1, <2>2
<1>. HIDE DEF g
<1>9. Steps(k, g)
  BY <1>7, <1>8
<1>. QED BY <1>2, <1>6, <1>9

-----------------------------------------------------------------------------
(* Sequences of sequences *)

\* The recursive function that FlattenSeq is defined by.
Flattens(q, f) ==
    f = [i \in 1 .. Len(q) |-> IF i = 1 THEN q[i] ELSE f[i - 1] \o q[i]]

LEMMA FlattenExists ==
  ASSUME NEW X, NEW q \in Seq(Seq(X))
  PROVE  \E f \in [1 .. Len(q) -> Seq(X)] : Flattens(q, f)
<1>. DEFINE n == Len(q)
            step == [i \in 1 .. n |-> [a \in Seq(X) |-> a \o q[i]]]
<1>1. n \in Nat /\ \A i \in 1 .. n : q[i] \in Seq(X)
  BY LenProperties, ElementOfSeq
<1>2. step \in [1 .. n -> [Seq(X) -> Seq(X)]]
  BY <1>1, ConcatProperties
<1>3. \A i \in 1 .. n, a \in Seq(X) : step[i][a] = a \o q[i]
  OBVIOUS
<1>4. <<>> \in Seq(X)
  BY EmptySeq
<1>y. \E f \in [0 .. n -> Seq(X)] :
        f[0] = <<>> /\ \A i \in 1 .. n : f[i] = step[i][f[i - 1]]
  <2>. DEFINE Z == Seq(X)
              base == <<>>
  <2>1. base \in Z /\ step \in [1 .. n -> [Z -> Z]] /\ n \in Nat
    BY <1>1, <1>2, <1>4
  <2>2. \E f \in [0 .. n -> Z] :
          /\ f[0] = base
          /\ \A i \in 1 .. n : f[i] = step[i][f[i - 1]]
    <3>. HIDE DEF step, n, Z, base
    <3>. QED BY <2>1, Recursion, SMTT(60)
  <2>. QED BY <2>2
<1>5. PICK f \in [0 .. n -> Seq(X)] :
        f[0] = <<>> /\ \A i \in 1 .. n : f[i] = step[i][f[i - 1]]
  BY <1>y
<1>. DEFINE g == [i \in 1 .. n |-> f[i]]
<1>6. g \in [1 .. n -> Seq(X)]
  BY <1>1
<1>7. ASSUME NEW i \in 1 .. n PROVE g[i] = IF i = 1 THEN q[i] ELSE g[i - 1] \o q[i]
  <2>1. /\ i \in 0 .. n /\ i # 0 /\ i - 1 \in 0 .. n /\ g[i] = f[i]
        /\ i # 1 => i - 1 \in 1 .. n /\ g[i - 1] = f[i - 1]
    BY <1>1
  <2>2. f[i] = step[i][f[i - 1]] /\ f[i - 1] \in Seq(X) /\ f[0] = <<>>
    BY <1>1, <1>5, <2>1
  <2>3. f[i] = f[i - 1] \o q[i] /\ q[i] \in Seq(X)
    BY <1>1, <1>3, <2>2
  <2>4. ASSUME i = 1 PROVE f[i - 1] \o q[i] = q[i]
    <3>1. f[i - 1] = <<>>
      BY <2>2, <2>4
    <3>. QED BY <2>3, <3>1, ConcatEmptySeq
  <2>. HIDE DEF g
  <2>. QED BY <2>1, <2>3, <2>4
<1>8. Flattens(q, g)
  <2>. HIDE DEF g
  <2>1. g = [i \in 1 .. n |-> g[i]]
    BY <1>6
  <2>. QED BY <1>7, <2>1 DEF Flattens, n
<1>. QED BY <1>6, <1>8 DEF n

LEMMA FlattenSame ==
  ASSUME NEW n \in Nat, NEW s, NEW f, Flattens(s, f), n <= Len(s), Len(s) \in Nat,
         NEW t, NEW g, Flattens(t, g), n <= Len(t), Len(t) \in Nat,
         \A i \in 1 .. n : s[i] = t[i]
  PROVE  \A i \in 1 .. n : f[i] = g[i]
<1>. DEFINE T == {i \in 1 .. n : f[i] # g[i]}
<1>. SUFFICES ASSUME T # {} PROVE FALSE
  OBVIOUS
<1>1. PICK i \in T : \A y \in T : i <= y
  <2>1. T \in SUBSET Nat
    OBVIOUS
  <2>. HIDE DEF T
  <2>. QED BY <2>1, LeastNat
<1>2. i \in 1 .. n /\ f[i] # g[i] /\ i \in 1 .. Len(s) /\ i \in 1 .. Len(t)
  OBVIOUS
<1>3. i # 1 => f[i - 1] = g[i - 1]
  <2>1. i # 1 => i - 1 \in 1 .. n /\ ~(i <= i - 1)
    BY <1>2
  <2>. QED BY <1>1, <2>1
<1>. HIDE DEF T
<1>4. f[i] = IF i = 1 THEN s[i] ELSE f[i - 1] \o s[i]
  BY <1>2 DEF Flattens
<1>5. g[i] = IF i = 1 THEN t[i] ELSE g[i - 1] \o t[i]
  BY <1>2 DEF Flattens
<1>. QED BY <1>2, <1>3, <1>4, <1>5

\* What FlattenSeq computes, one part at a time.
LEMMA FlattenAppend ==
  ASSUME NEW X, NEW q \in Seq(Seq(X)), NEW x \in Seq(X)
  PROVE  /\ FlattenSeq(<<>>) = <<>>
         /\ FlattenSeq(q) \in Seq(X)
         /\ FlattenSeq(Append(q, x)) = FlattenSeq(q) \o x
<1>. DEFINE n == Len(q)
            r == Append(q, x)
            F(s) == CHOOSE f : Flattens(s, f)
<1>1. /\ n \in Nat /\ r \in Seq(Seq(X)) /\ Len(r) = n + 1 /\ r[n + 1] = x
      /\ \A i \in 1 .. n : r[i] = q[i]
  BY LenProperties, AppendProperties
<1>2. ASSUME NEW s \in Seq(Seq(X)) PROVE Flattens(s, F(s))
  BY FlattenExists
<1>3. ASSUME NEW s \in Seq(Seq(X)), Len(s) # 0 PROVE FlattenSeq(s) = F(s)[Len(s)]
  BY <1>3 DEF FlattenSeq, Flattens
<1>4. FlattenSeq(<<>>) = <<>>
  BY DEF FlattenSeq
<1>5. n = 0 => q = <<>>
  BY EmptySeq
<1>. HIDE DEF F, r
<1>6. ASSUME n # 0 PROVE FlattenSeq(q) = F(q)[n] /\ F(q)[n] \in Seq(X)
  <2>1. PICK f \in [1 .. n -> Seq(X)] : Flattens(q, f)
    BY FlattenExists
  <2>2. n \in 1 .. n
    BY <1>1, <1>6
  <2>3. F(q)[n] = f[n]
    <3>1. Flattens(q, F(q)) /\ n <= Len(q)
      BY <1>1, <1>2
    <3>2. /\ Len(q) \in Nat /\ \A i \in 1 .. n : q[i] = q[i]
          /\ Flattens(q, f) /\ n \in Nat
      BY <1>1, <2>1
    <3>. HIDE DEF n
    <3>3. \A i \in 1 .. n : F(q)[i] = f[i]
      BY <3>1, <3>2, FlattenSame
    <3>. QED BY <2>2, <3>3
  <2>. QED BY <1>3, <1>6, <2>1, <2>2, <2>3
<1>7. FlattenSeq(q) \in Seq(X)
  BY <1>4, <1>5, <1>6, EmptySeq
<1>8. FlattenSeq(r) = F(r)[n + 1] /\ Flattens(r, F(r))
  BY <1>1, <1>2, <1>3
<1>9. F(r)[n + 1] = IF n = 0 THEN x ELSE F(r)[n] \o x
  <2>. DEFINE g == F(r)
  <2>1. Flattens(r, g) /\ n + 1 \in 1 .. Len(r) /\ n + 1 - 1 = n /\ (n + 1 = 1 <=> n = 0)
    BY <1>1, <1>8
  <2>. HIDE DEF g, n
  <2>2. \A i \in 1 .. Len(r) : g[i] = IF i = 1 THEN r[i] ELSE g[i - 1] \o r[i]
    BY <2>1 DEF Flattens
  <2>3. g[n + 1] = IF n + 1 = 1 THEN r[n + 1] ELSE g[n + 1 - 1] \o r[n + 1]
    BY <1>1, <2>1, <2>2
  <2>. QED BY <1>1, <2>1, <2>3 DEF g
<1>10. n # 0 => F(r)[n] = F(q)[n]
  <2>1. n # 0 => n \in 1 .. n
    BY <1>1
  <2>2. n <= Len(r) /\ n <= Len(q) /\ Len(r) \in Nat /\ Len(q) \in Nat
    BY <1>1
  <2>3. Flattens(q, F(q)) /\ Flattens(r, F(r))
    BY <1>2, <1>8
  <2>4. \A i \in 1 .. n : F(r)[i] = F(q)[i]
    <3>1. n \in Nat /\ \A i \in 1 .. n : r[i] = q[i]
      BY <1>1
    <3>. HIDE DEF n
    <3>. QED BY <2>2, <2>3, <3>1, FlattenSame, SMTT(60)
  <2>. QED BY <2>1, <2>4
<1>11. FlattenSeq(r) = FlattenSeq(q) \o x
  <2>1. CASE n = 0
    BY <1>4, <1>5, <1>8, <1>9, <2>1, ConcatEmptySeq
  <2>2. CASE n # 0
    BY <1>6, <1>8, <1>9, <1>10, <2>2
  <2>. QED BY <2>1, <2>2
<1>. QED BY <1>4, <1>7, <1>11 DEF r

\* Induction on numbers and on sequences, over sets.
LEMMA NatGood ==
  ASSUME NEW Good, 0 \in Good, \A n \in Nat : n \in Good => n + 1 \in Good
  PROVE  \A n \in Nat : n \in Good
<1>. DEFINE T == {n \in Nat : n \notin Good}
<1>. SUFFICES ASSUME T # {} PROVE FALSE
  OBVIOUS
<1>1. PICK n \in T : \A y \in T : n <= y
  <2>1. T \in SUBSET Nat
    OBVIOUS
  <2>. HIDE DEF T
  <2>. QED BY <2>1, LeastNat
<1>2. n \in Nat /\ n \notin Good /\ n # 0
  OBVIOUS
<1>3. n - 1 \in Nat /\ ~(n <= n - 1) /\ (n - 1) + 1 = n
  BY <1>2
<1>4. n - 1 \in Good
  BY <1>1, <1>3
<1>. QED BY <1>2, <1>3, <1>4

LEMMA SeqGood ==
  ASSUME NEW S, NEW Good, <<>> \in Good,
         \A s \in Seq(S), e \in S : s \in Good => Append(s, e) \in Good
  PROVE  \A s \in Seq(S) : s \in Good
<1>. DEFINE Long == {n \in Nat : \A s \in Seq(S) : Len(s) = n => s \in Good}
<1>1. 0 \in Long
  BY EmptySeq
<1>2. ASSUME NEW n \in Nat, n \in Long PROVE n + 1 \in Long
  <2>. SUFFICES ASSUME NEW s \in Seq(S), Len(s) = n + 1 PROVE s \in Good
    OBVIOUS
  <2>1. s # <<>>
    BY EmptySeq
  <2>2. PICK r \in Seq(S), e \in S : s = Append(r, e)
    BY <2>1, SequenceEmptyOrAppend
  <2>3. Len(r) \in Nat /\ Len(s) = Len(r) + 1
    BY <2>2, LenProperties, AppendProperties
  <2>4. r \in Good
    BY <1>2, <2>3
  <2>. QED BY <2>2, <2>4
<1>3. \A n \in Nat : n \in Long
  <2>. HIDE DEF Long
  <2>. QED BY <1>1, <1>2, NatGood
<1>. QED BY <1>3, LenProperties
-----------------------------------------------------------------------------
(* What the notices stand for *)

Raw == [role : {"user", "assistant", "calls", "tool", "system"},
        number : Nat, omitted : {<<>>}]

Said == Raw \cup [role : {"notice"}, number : {0}, omitted : Seq(Raw)]

\* A message once its notice is looked up.
Part(m) == IF m.role = "notice" THEN m.omitted ELSE <<m>>

LEMMA RawParts ==
  /\ \A x \in Raw : x \in Said /\ x.role # "notice" /\ Part(x) = <<x>>
  /\ \A x \in Said : Part(x) \in Seq(Raw) /\ (x.role # "notice" => x \in Raw)
  /\ \A q \in Seq(Raw) :
       Notice(q) \in Said /\ Notice(q).role = "notice" /\ Notice(q).omitted = q
         /\ Part(Notice(q)) = q
  /\ \A x \in Said : x.role = "notice" => x.omitted \in Seq(Raw)
<1>1. ASSUME NEW x \in Raw PROVE x \in Said /\ x.role # "notice" /\ Part(x) = <<x>>
  BY DEF Raw, Said, Part
<1>2. ASSUME NEW x \in Raw PROVE <<x>> \in Seq(Raw)
  OBVIOUS
<1>3. ASSUME NEW x \in Said, x.role = "notice" PROVE x.omitted \in Seq(Raw) /\ Part(x) \in Seq(Raw)
  <2>1. x \notin Raw
    BY <1>1, <1>3
  <2>2. x \in [role : {"notice"}, number : {0}, omitted : Seq(Raw)]
    BY <2>1 DEF Said
  <2>. QED BY <1>3, <2>2 DEF Part
<1>4. ASSUME NEW x \in Said, x.role # "notice" PROVE x \in Raw
  BY <1>4 DEF Said
<1>5. ASSUME NEW x \in Said PROVE Part(x) \in Seq(Raw)
  BY <1>1, <1>2, <1>3, <1>4
<1>6. ASSUME NEW q \in Seq(Raw)
      PROVE  Notice(q) \in Said /\ Notice(q).role = "notice" /\ Notice(q).omitted = q
  BY DEF Said, Notice
<1>7. ASSUME NEW q \in Seq(Raw) PROVE Part(Notice(q)) = q
  BY <1>6 DEF Part
<1>. QED BY <1>1, <1>3, <1>4, <1>5, <1>6, <1>7

LEMMA ExpandedStep ==
  ASSUME NEW s \in Seq(Said), NEW x \in Said
  PROVE  /\ Expanded(<<>>) = <<>>
         /\ Expanded(s) \in Seq(Raw)
         /\ Expanded(Append(s, x)) = Expanded(s) \o Part(x)
<1>. DEFINE Parts(r) == [i \in DOMAIN r |-> Part(r[i])]
<1>1. \A r : Expanded(r) = FlattenSeq(Parts(r))
  BY DEF Expanded, Part
<1>2. ASSUME NEW r \in Seq(Said)
      PROVE  Parts(r) \in Seq(Seq(Raw)) /\ Len(Parts(r)) = Len(r) /\ DOMAIN r = 1 .. Len(r)
  <2>1. Len(r) \in Nat /\ DOMAIN r = 1 .. Len(r) /\ \A i \in 1 .. Len(r) : r[i] \in Said
    BY LenProperties, ElementOfSeq
  <2>2. \A i \in 1 .. Len(r) : Part(r[i]) \in Seq(Raw)
    BY <2>1, RawParts
  <2>. QED BY <2>1, <2>2
<1>3. Parts(Append(s, x)) = Append(Parts(s), Part(x))
  <2>1. /\ Append(s, x) \in Seq(Said) /\ Len(Append(s, x)) = Len(s) + 1 /\ Len(s) \in Nat
        /\ Append(s, x)[Len(s) + 1] = x
        /\ \A i \in 1 .. Len(s) : Append(s, x)[i] = s[i]
    BY AppendProperties, LenProperties
  <2>2. Part(x) \in Seq(Raw)
    BY RawParts
  <2>3. /\ Parts(s) \in Seq(Seq(Raw)) /\ Len(Parts(s)) = Len(s)
        /\ Parts(Append(s, x)) \in Seq(Seq(Raw)) /\ Len(Parts(Append(s, x))) = Len(s) + 1
    BY <1>2, <2>1
  <2>4. /\ Append(Parts(s), Part(x)) \in Seq(Seq(Raw))
        /\ Len(Append(Parts(s), Part(x))) = Len(s) + 1
        /\ Append(Parts(s), Part(x))[Len(s) + 1] = Part(x)
        /\ \A i \in 1 .. Len(s) : Append(Parts(s), Part(x))[i] = Parts(s)[i]
    <3>. HIDE DEF Parts
    <3>. QED BY <2>2, <2>3, AppendProperties
  <2>5. \A i \in 1 .. Len(s) + 1 : Parts(Append(s, x))[i] = Part(Append(s, x)[i])
    BY <1>2, <2>1
  <2>6. \A i \in 1 .. Len(s) : Parts(s)[i] = Part(s[i])
    BY <1>2
  <2>7. \A i \in 1 .. Len(s) + 1 : i \in 1 .. Len(s) \/ i = Len(s) + 1
    BY <2>1
  <2>. HIDE DEF Parts
  <2>8. \A i \in 1 .. Len(s) + 1 : Parts(Append(s, x))[i] = Append(Parts(s), Part(x))[i]
    BY <2>1, <2>4, <2>5, <2>6, <2>7
  <2>. QED BY <2>3, <2>4, <2>8, SeqEqual
<1>4. Parts(s) \in Seq(Seq(Raw)) /\ Part(x) \in Seq(Raw)
  BY <1>2, RawParts
<1>5. Parts(<<>>) = <<>>
  OBVIOUS
<1>. HIDE DEF Parts
<1>. QED BY <1>1, <1>3, <1>4, <1>5, FlattenAppend

LEMMA RawAssociative ==
  ASSUME NEW s \in Seq(Raw), NEW t \in Seq(Raw), NEW u \in Seq(Raw)
  PROVE  (s \o t) \o u = s \o (t \o u)
BY ConcatAssociative

LEMMA SaidAssociative ==
  ASSUME NEW s \in Seq(Said), NEW t \in Seq(Said), NEW u \in Seq(Said)
  PROVE  (s \o t) \o u = s \o (t \o u)
BY ConcatAssociative

LEMMA ExpandedConcat ==
  ASSUME NEW s \in Seq(Said), NEW r \in Seq(Raw)
  PROVE  s \o r \in Seq(Said) /\ Expanded(s \o r) = Expanded(s) \o r
<1>. DEFINE Good == {q \in Seq(Raw) : s \o q \in Seq(Said) /\ Expanded(s \o q) = Expanded(s) \o q}
<1>1. <<>> \in Good
  BY ConcatEmptySeq, EmptySeq, ExpandedStep, RawParts
<1>2. ASSUME NEW q \in Seq(Raw), NEW x \in Raw, q \in Good PROVE Append(q, x) \in Good
  <2>1. /\ Append(q, x) \in Seq(Raw) /\ Append(q, x) = q \o <<x>>
        /\ x \in Said /\ Part(x) = <<x>> /\ <<x>> \in Seq(Raw) /\ <<x>> \in Seq(Said)
        /\ q \in Seq(Said)
    BY AppendProperties, AppendIsConcat, RawParts, SeqMonotonic
  <2>2. s \o Append(q, x) = Append(s \o q, x)
    <3>1. s \o (q \o <<x>>) = (s \o q) \o <<x>>
      BY <2>1, SaidAssociative
    <3>2. Append(s \o q, x) = (s \o q) \o <<x>>
      BY <1>2, <2>1, AppendIsConcat
    <3>. QED BY <2>1, <3>1, <3>2
  <2>3. Append(s \o q, x) \in Seq(Said) /\ Expanded(Append(s \o q, x)) = Expanded(s \o q) \o <<x>>
    BY <1>2, <2>1, ExpandedStep, AppendProperties
  <2>4. Expanded(s \o q) \o <<x>> = Expanded(s) \o Append(q, x)
    <3>1. Expanded(s) \in Seq(Raw)
      BY <2>1, ExpandedStep
    <3>2. (Expanded(s) \o q) \o <<x>> = Expanded(s) \o (q \o <<x>>)
      <4>. DEFINE e == Expanded(s)
      <4>1. e \in Seq(Raw) /\ <<x>> \in Seq(Raw)
        BY <2>1, <3>1
      <4>. HIDE DEF e, Good
      <4>2. (e \o q) \o <<x>> = e \o (q \o <<x>>)
        BY <4>1, RawAssociative
      <4>. QED BY <4>2 DEF e
    <3>. QED BY <1>2, <2>1, <3>2
  <2>. QED BY <2>1, <2>2, <2>3, <2>4
<1>3. \A q \in Seq(Raw) : q \in Good
  <2>. HIDE DEF Good
  <2>. QED BY <1>1, <1>2, SeqGood
<1>. QED BY <1>3

LEMMA ExpandedRaw ==
  ASSUME NEW r \in Seq(Raw)
  PROVE  r \in Seq(Said) /\ Expanded(r) = r
<1>1. r \in Seq(Said)
  BY RawParts, SeqMonotonic
<1>2. <<>> \in Seq(Said)
  BY EmptySeq
<1>3. Expanded(<<>> \o r) = Expanded(<<>>) \o r
  BY <1>2, ExpandedConcat
<1>4. Expanded(<<>>) = <<>>
  <2>1. Notice(<<>>) \in Said
    BY RawParts, EmptySeq
  <2>. QED BY <1>2, <2>1, ExpandedStep
<1>. QED BY <1>1, <1>3, <1>4, ConcatEmptySeq

LEMMA LeftOutSays ==
  ASSUME NEW a \in Seq(Said), NEW x \in Raw
  PROVE  LeftOut(a, x) \in Seq(Said) /\ Expanded(LeftOut(a, x)) = Expanded(a) \o <<x>>
<1>1. <<x>> \in Seq(Raw) /\ Part(Notice(<<x>>)) = <<x>> /\ Notice(<<x>>) \in Said
  BY RawParts
<1>2. CASE a # <<>> /\ Last(a).role = "notice"
  <2>1. PICK b \in Seq(Said), y \in Said : a = Append(b, y)
    BY <1>2, SequenceEmptyOrAppend
  <2>2. /\ Len(b) \in Nat /\ Len(a) = Len(b) + 1 /\ a[Len(b) + 1] = y
        /\ \A i \in 1 .. Len(b) : a[i] = b[i]
    BY <2>1, LenProperties, AppendProperties
  <2>3. Last(a) = y
    BY <2>2 DEF Last
  <2>4. Front(a) = b
    <3>1. \A i \in 1 .. Len(b) : a[i] \in Said
      BY <2>2, ElementOfSeq
    <3>2. /\ SubSeq(a, 1, Len(b)) \in Seq(Said) /\ Len(SubSeq(a, 1, Len(b))) = Len(b)
          /\ \A i \in 1 .. Len(b) : SubSeq(a, 1, Len(b))[i] = a[i]
      <4>. DEFINE n == Len(b)
      <4>1. n \in Nat /\ \A i \in 1 .. n : a[i] \in Said
        BY <2>2, <3>1
      <4>. HIDE DEF n
      <4>2. /\ SubSeq(a, 1, n) \in Seq(Said) /\ Len(SubSeq(a, 1, n)) = IF 1 <= n THEN n - 1 + 1 ELSE 0
            /\ \A i \in 1 .. n - 1 + 1 : SubSeq(a, 1, n)[i] = a[1 + i - 1]
        BY <4>1, SubSeqProperties
      <4>3. \A i \in 1 .. n : i \in 1 .. n - 1 + 1 /\ 1 + i - 1 = i
        BY <4>1
      <4>. QED BY <4>1, <4>2, <4>3 DEF n
    <3>3. \A i \in 1 .. Len(b) : SubSeq(a, 1, Len(b))[i] = b[i]
      BY <2>2, <3>2
    <3>4. SubSeq(a, 1, Len(b)) = b
      BY <3>2, <3>3, SeqEqual
    <3>. QED BY <2>2, <3>4 DEF Front
  <2>5. y.role = "notice" /\ y.omitted \in Seq(Raw) /\ Part(y) = y.omitted
    BY <1>2, <2>3, RawParts DEF Part
  <2>. DEFINE q == Append(y.omitted, x)
  <2>6. q \in Seq(Raw) /\ q = y.omitted \o <<x>>
    BY <2>5, AppendProperties, AppendIsConcat
  <2>7. Notice(q) \in Said /\ Part(Notice(q)) = q
    BY <2>6, RawParts
  <2>8. LeftOut(a, x) = Append(b, Notice(q))
    BY <1>2, <2>3, <2>4 DEF LeftOut
  <2>. HIDE DEF q
  <2>9. /\ Expanded(Append(b, Notice(q))) = Expanded(b) \o q
        /\ Append(b, Notice(q)) \in Seq(Said)
        /\ Expanded(a) = Expanded(b) \o y.omitted
        /\ Expanded(b) \in Seq(Raw)
    BY <2>1, <2>5, <2>7, ExpandedStep, AppendProperties
  <2>10. (Expanded(b) \o y.omitted) \o <<x>> = Expanded(b) \o (y.omitted \o <<x>>)
    <3>. DEFINE eb == Expanded(b)
                w == y.omitted
                v == <<x>>
    <3>1. eb \in Seq(Raw) /\ w \in Seq(Raw) /\ v \in Seq(Raw)
      BY <1>1, <2>5, <2>9
    <3>. HIDE DEF eb, w, v
    <3>2. (eb \o w) \o v = eb \o (w \o v)
      BY <3>1, RawAssociative
    <3>. QED BY <3>2 DEF eb, w, v
  <2>. QED BY <2>6, <2>8, <2>9, <2>10
<1>3. CASE ~(a # <<>> /\ Last(a).role = "notice")
  <2>1. LeftOut(a, x) = Append(a, Notice(<<x>>))
    BY <1>3 DEF LeftOut
  <2>. DEFINE y == Notice(<<x>>)
  <2>2. y \in Said /\ Part(y) = <<x>>
    BY <1>1
  <2>. HIDE DEF y
  <2>3. Append(a, y) \in Seq(Said) /\ Expanded(Append(a, y)) = Expanded(a) \o Part(y)
    BY <2>2, ExpandedStep, AppendProperties
  <2>. QED BY <2>1, <2>2, <2>3 DEF y
<1>. QED BY <1>2, <1>3

LEMMA CandidateSays ==
  ASSUME NEW r \in Seq(Raw), NEW start
  PROVE  Candidate(r, start) \in Seq(Said) /\ Expanded(Candidate(r, start)) = r
<1>. DEFINE n == Len(r)
            Stays(i) == Required(r, i) \/ GroupOf(r, i) >= start
            Step(i, a) == IF Stays(i) THEN Append(a, r[i]) ELSE LeftOut(a, r[i])
            step == [i \in 1 .. n |-> [a \in Seq(Said) |-> Step(i, a)]]
            UpTo(f) == f = [i \in 0 .. n |-> IF i = 0 THEN <<>> ELSE Step(i, f[i - 1])]
            u == CHOOSE f : UpTo(f)
<1>1. n \in Nat /\ \A i \in 1 .. n : r[i] \in Raw /\ r[i] \in Said
  BY LenProperties, ElementOfSeq, RawParts
<1>2. ASSUME NEW i \in 1 .. n, NEW a \in Seq(Said)
      PROVE  Step(i, a) \in Seq(Said) /\ Expanded(Step(i, a)) = Expanded(a) \o <<r[i]>>
  <2>. HIDE DEF Stays
  <2>1. CASE Stays(i)
    <3>1. Part(r[i]) = <<r[i]>>
      BY <1>1, RawParts
    <3>. QED BY <1>1, <2>1, <3>1, ExpandedStep, AppendProperties
  <2>2. CASE ~Stays(i)
    BY <1>1, <2>2, LeftOutSays
  <2>. QED BY <2>1, <2>2
<1>3. Candidate(r, start) = u[n]
  BY DEF Candidate
<1>. HIDE DEF Step
<1>4. step \in [1 .. n -> [Seq(Said) -> Seq(Said)]]
  BY <1>2
<1>5. \A i \in 1 .. n, a \in Seq(Said) : step[i][a] = Step(i, a)
  OBVIOUS
<1>6. <<>> \in Seq(Said)
  BY EmptySeq
<1>7. \E f \in [0 .. n -> Seq(Said)] :
        f[0] = <<>> /\ \A i \in 1 .. n : f[i] = step[i][f[i - 1]]
  <2>. DEFINE Z == Seq(Said)
              base == <<>>
  <2>1. base \in Z /\ step \in [1 .. n -> [Z -> Z]] /\ n \in Nat
    BY <1>1, <1>4, <1>6
  <2>2. \E f \in [0 .. n -> Z] :
          /\ f[0] = base
          /\ \A i \in 1 .. n : f[i] = step[i][f[i - 1]]
    <3>. HIDE DEF step, n, Z, base
    <3>. QED BY <2>1, Recursion, SMTT(60)
  <2>. QED BY <2>2
<1>. HIDE DEF step, n
<1>8. PICK f \in [0 .. n -> Seq(Said)] :
        f[0] = <<>> /\ \A i \in 1 .. n : f[i] = step[i][f[i - 1]]
  BY <1>7
<1>9. ASSUME NEW i \in 0 .. n PROVE f[i] = IF i = 0 THEN <<>> ELSE Step(i, f[i - 1])
  <2>1. CASE i = 0
    BY <1>8, <2>1
  <2>2. CASE i # 0
    <3>1. i \in 1 .. n /\ i - 1 \in 0 .. n
      BY <1>1, <2>2
    <3>. QED BY <1>5, <1>8, <2>2, <3>1
  <2>. QED BY <2>1, <2>2
<1>10. UpTo(f)
  BY <1>9
<1>11. UpTo(u)
  BY <1>10
<1>. HIDE DEF u
<1>12. u[0] = <<>> /\ \A i \in 1 .. n : u[i] = Step(i, u[i - 1])
  <2>. DEFINE e == [i \in 0 .. n |-> IF i = 0 THEN <<>> ELSE Step(i, u[i - 1])]
  <2>1. e[0] = <<>> /\ \A i \in 1 .. n : e[i] = Step(i, u[i - 1])
    BY <1>1
  <2>2. u = e
    BY <1>11
  <2>. HIDE DEF e
  <2>. QED BY <2>1, <2>2
<1>13. Expanded(<<>>) = <<>>
  BY ExpandedRaw, EmptySeq
<1>. DEFINE Good == {i \in Nat : i <= n => u[i] \in Seq(Said) /\ Expanded(u[i]) = SubSeq(r, 1, i)}
<1>14. 0 \in Good
  <2>1. SubSeq(r, 1, 0) = <<>>
    BY SubSeqEmpty
  <2>. QED BY <1>6, <1>12, <1>13, <2>1
<1>15. ASSUME NEW i \in Nat, i \in Good PROVE i + 1 \in Good
  <2>. SUFFICES ASSUME i + 1 <= n
       PROVE  u[i + 1] \in Seq(Said) /\ Expanded(u[i + 1]) = SubSeq(r, 1, i + 1)
    OBVIOUS
  <2>1. i + 1 \in 1 .. n /\ i <= n /\ (i + 1) - 1 = i
    BY <1>1
  <2>2. u[i] \in Seq(Said) /\ Expanded(u[i]) = SubSeq(r, 1, i)
    BY <1>15, <2>1
  <2>3. u[i + 1] = Step(i + 1, u[i])
    BY <1>12, <2>1
  <2>4. SubSeq(r, 1, i + 1) = SubSeq(r, 1, i) \o <<r[i + 1]>>
    <3>1. 1 \in 1 .. Len(r) /\ i + 1 \in 1 .. Len(r)
      BY <1>1, <2>1 DEF n
    <3>2. SubSeq(r, 1, i + 1) = SubSeq(r, 1, (i + 1) - 1) \o <<r[i + 1]>>
      BY <3>1, SubSeqRecursiveSecond
    <3>. QED BY <2>1, <3>2
  <2>. QED BY <1>2, <2>1, <2>2, <2>3, <2>4
<1>16. \A i \in Nat : i \in Good
  <2>. HIDE DEF Good
  <2>. QED BY <1>14, <1>15, NatGood
<1>17. u[n] \in Seq(Said) /\ Expanded(u[n]) = SubSeq(r, 1, n)
  BY <1>1, <1>16
<1>. QED BY <1>3, <1>17, SubSeqFull DEF n

\* The bounded bootstrap leaves nothing out that its notices do not name, and changes
\* no order: for every history and limit (client.py, _bounded_bootstrap).
THEOREM BoundedSays ==
  ASSUME NEW r \in Seq(Raw), NEW limit
  PROVE  Bounded(r, limit) \in Seq(Said) /\ Expanded(Bounded(r, limit)) = r
BY CandidateSays, ExpandedRaw DEF Bounded

\* A history without notices is not continued by a request that needs one.
LEMMA ContinuedWhole ==
  ASSUME NEW h, NEW S, h.messages \in Seq(S),
         \A i \in 1 .. Len(h.messages) : h.messages[i].role # "notice",
         NEW q \in Seq(Said), NEW tools, Continues(h, q, tools)
  PROVE  q \in Seq(Raw) /\ Expanded(q) = q
<1>. DEFINE k == Len(h.messages)
            n == Len(q)
<1>1. k \in Nat /\ n \in Nat /\ k <= n /\ SubSeq(h.messages, 1, k) = SubSeq(q, 1, k)
  BY LenProperties DEF Continues, IsPrefix
<1>2. \A i \in 1 .. n : q[i] \in Said
  BY ElementOfSeq
<1>3. ASSUME NEW i \in 1 .. n PROVE q[i].role # "notice"
  <2>1. CASE i <= k
    <3>1. SubSeq(h.messages, 1, k) = h.messages
      BY SubSeqFull
    <3>2. SubSeq(q, 1, k)[i] = q[i]
      <4>. HIDE DEF k, n
      <4>1. i \in 1 .. k - 1 + 1 /\ 1 + i - 1 = i /\ \A j \in 1 .. k : q[j] \in Said
        BY <1>1, <1>2, <2>1
      <4>2. \A j \in 1 .. k - 1 + 1 : SubSeq(q, 1, k)[j] = q[1 + j - 1]
        BY <1>1, <4>1, SubSeqProperties
      <4>. QED BY <4>1, <4>2
    <3>. QED BY <1>1, <2>1, <3>1, <3>2
  <2>2. CASE ~(i <= k)
    <3>. DEFINE rest == Rest(h, q)
                j == i - k
    <3>1. j \in 1 .. n - k /\ k + 1 + j - 1 = i
      <4>. HIDE DEF k, n
      <4>. QED BY <1>1, <2>2
    <3>2. DOMAIN rest = 1 .. n - k /\ rest[j] = q[i]
      <4>. HIDE DEF k, n, j
      <4>1. n - (k + 1) + 1 = n - k /\ \A x \in k + 1 .. n : q[x] \in Said
        BY <1>1, <1>2
      <4>2. /\ SubSeq(q, k + 1, n) \in Seq(Said)
            /\ Len(SubSeq(q, k + 1, n)) = IF k + 1 <= n THEN n - (k + 1) + 1 ELSE 0
            /\ \A x \in 1 .. n - (k + 1) + 1 : SubSeq(q, k + 1, n)[x] = q[k + 1 + x - 1]
        BY <1>1, <4>1, SubSeqProperties
      <4>3. Len(SubSeq(q, k + 1, n)) = n - k
        BY <1>1, <2>2, <4>1, <4>2
      <4>4. DOMAIN SubSeq(q, k + 1, n) = 1 .. n - k
        BY <4>2, <4>3, LenProperties
      <4>5. SubSeq(q, k + 1, n)[j] = q[i]
        BY <3>1, <4>1, <4>2
      <4>. QED BY <4>4, <4>5 DEF Rest, k, n
    <3>3. ~Instructs(rest[j])
      BY <3>1, <3>2 DEF Continues
    <3>. QED BY <3>2, <3>3 DEF Instructs
  <2>. QED BY <2>1, <2>2
<1>4. \A i \in 1 .. n : q[i] \in Raw
  BY <1>2, <1>3, RawParts
<1>5. q \in Seq(Raw)
  <2>1. q = [i \in 1 .. n |-> q[i]]
    BY LenProperties
  <2>. QED BY <1>1, <1>4, <2>1
<1>. QED BY <1>5, ExpandedRaw

LEMMA PrefixRest ==
  ASSUME NEW S, NEW p \in Seq(S), NEW q \in Seq(S), IsPrefix(p, q)
  PROVE  SubSeq(q, Len(p) + 1, Len(q)) \in Seq(S) /\ p \o SubSeq(q, Len(p) + 1, Len(q)) = q
<1>. DEFINE k == Len(p)
            n == Len(q)
<1>1. k \in Nat /\ n \in Nat /\ k <= n /\ SubSeq(p, 1, k) = SubSeq(q, 1, k)
  BY LenProperties DEF IsPrefix
<1>2. SubSeq(p, 1, k) = p /\ SubSeq(q, 1, n) = q
  BY SubSeqFull
<1>3. \A i \in k + 1 .. n : q[i] \in S
  <2>1. \A i \in k + 1 .. n : i \in 1 .. n
    BY <1>1
  <2>. QED BY <2>1, ElementOfSeq
<1>4. SubSeq(q, k + 1, n) \in Seq(S)
  <2>. HIDE DEF k, n
  <2>. QED BY <1>1, <1>3, SubSeqProperties
<1>5. SubSeq(q, 1, k) \o SubSeq(q, k + 1, n) = SubSeq(q, 1, n)
  <2>1. 1 \in 1 .. n + 1 /\ k \in 1 - 1 .. n /\ n \in k .. n
    BY <1>1
  <2>. QED BY <2>1, ConcatAdjacentSubSeq
<1>. QED BY <1>1, <1>2, <1>4, <1>5
-----------------------------------------------------------------------------
(* What a native was told *)

\* What a binding remembers, if anything, of its source.
Remembers(b) ==
    /\ b.history.messages \in Seq(Said)
    /\ b.source # None /\ b.source.committed =>
         /\ b.source.messages \in Seq(Raw)
         /\ b.compacted \in Seq(Said)
         /\ Expanded(b.compacted) = b.source.messages

\* The native of a binding was told what the binding remembers of it.
Synced(b, ns) ==
    /\ b.native = None => b.history = Blank
    /\ b.native # None =>
         (ns[b.native].state \in {"created", "started"} /\ ~ns[b.native].severed =>
            ns[b.native].seen = b.history.messages /\ ns[b.native].tools = b.history.tools)

FreshOf(b, messages, tools) ==
    IF b.source # None /\ Continues(b.source, messages, tools)
    THEN b.compacted \o Rest(b.source, messages)
    ELSE Bounded(messages, MaxFrame)

\* The frame of a fresh native would be a bootstrap.
Anew(b, messages, tools) == ~Continues(b.history, FreshOf(b, messages, tools), tools)

\* What Hermes says, and what the bindings remember of it.
Recorded ==
    /\ DOMAIN canonical = Sessions /\ \A s \in Sessions : canonical[s] \in Seq(Raw)
    /\ turn.messages \in Seq(Raw)
    /\ \A s \in Sessions : Remembers(bindings[s])

\* No native has two bindings.
Unshared ==
    \A s, t \in Sessions :
        s # t /\ bindings[s].native # None => bindings[s].native # bindings[t].native

\* Once the client is closed nothing is asked of a binding any more.
Rested ==
    ~client.closed =>
        /\ \A s \in Sessions : turn.at = "idle" \/ s # turn.session => Synced(bindings[s], natives)
        /\ turn.at = "leaving" => Synced(bindings[turn.session], natives)

\* The request has yet to find out what its native may be told.
Admitted ==
    LET b == bindings[turn.session]
    IN  IF b.native = None THEN Severed(b) \/ Anew(b, turn.messages, turn.tools)
                           ELSE Synced(b, natives)

\* The native the request created.
Fresh(n) ==
    LET b == bindings[turn.session]
    IN  /\ natives[n].seen = <<>>
        /\ natives[n].severed \/ Anew(b, turn.messages, turn.tools)

\* The frame completes what the native was told.
Ready(n) ==
    LET h == bindings[turn.session].history
    IN  /\ turn.frame = Frame(h, turn.transport, turn.tools)
        /\ Open(n) /\ ~natives[n].severed =>
             IF Continues(h, turn.transport, turn.tools)
             THEN natives[n].seen = h.messages /\ natives[n].tools = turn.tools
             ELSE natives[n].seen = <<>>

\* It was handed over.
Handed(n) ==
    Open(n) /\ ~natives[n].severed =>
        natives[n].seen = turn.transport /\ natives[n].tools = turn.tools

\* The frame, with what the native was told before, is the request.
Says == turn.transport \in Seq(Said) /\ Expanded(turn.transport) = turn.messages

\* What the request knows at each place.
Phase ==
    /\ turn.at = "admitted" => Admitted
    /\ turn.at = "retiring" /\ turn.why = "diverged" =>
         LET b == bindings[turn.session]
         IN  Severed(b) \/ Anew(b, turn.messages, turn.tools)
    /\ turn.at \in {"launched", "started"} /\ Open(turn.native) => Fresh(turn.native)
    /\ turn.at \in {"ready", "waiting"} => Says
    /\ turn.at = "ready" => Ready(turn.native)
    /\ turn.at = "waiting" => Handed(turn.native)
    /\ turn.at = "closing" => client.closed
    /\ turn.at = "popped" =>
         /\ turn.native = bindings[turn.session].native
         /\ bindings[turn.session].history = Blank

\* What the bindings remember and the natives were told agree, whenever no request is
\* between the two.
FInv == Recorded /\ Unshared /\ Rested /\ Phase
-----------------------------------------------------------------------------
\* FrameSound is the last phase of the invariant.
LEMMA FInvSound == ASSUME IInv, FInv PROVE FrameSound
BY DEF FInv, Phase, Handed, Says, FrameSound

LEMMA TailedSays ==
  ASSUME NEW b, Remembers(b), NEW q \in Seq(Raw), NEW tools,
         b.source # None, Continues(b.source, q, tools)
  PROVE  /\ b.compacted \o Rest(b.source, q) \in Seq(Said)
         /\ Expanded(b.compacted \o Rest(b.source, q)) = q
<1>1. /\ b.source.messages \in Seq(Raw) /\ b.compacted \in Seq(Said)
      /\ Expanded(b.compacted) = b.source.messages /\ IsPrefix(b.source.messages, q)
  BY DEF Remembers, Continues
<1>2. /\ Rest(b.source, q) \in Seq(Raw)
      /\ b.source.messages \o Rest(b.source, q) = q
  BY <1>1, PrefixRest DEF Rest
<1>. QED BY <1>1, <1>2, ExpandedConcat

LEMMA FreshSays ==
  ASSUME NEW b, Remembers(b), NEW q \in Seq(Raw), NEW tools
  PROVE  FreshOf(b, q, tools) \in Seq(Said) /\ Expanded(FreshOf(b, q, tools)) = q
BY TailedSays, BoundedSays DEF FreshOf

LEMMA FreshIs ==
  ASSUME NEW b
  PROVE  FreshTransport(b) = FreshOf(b, turn.messages, turn.tools)
BY DEF FreshTransport, FreshOf, FromTail, SourceContinues, Tailed

LEMMA ReuseSays ==
  ASSUME NEW b, Remembers(b), turn.messages \in Seq(Raw)
  PROVE  /\ ReuseTransport(b) \in Seq(Said)
         /\ Expanded(ReuseTransport(b)) = turn.messages
<1>1. CASE b.source = None
  <2>1. ReuseTransport(b) = turn.messages
    BY <1>1 DEF ReuseTransport, FromTail
  <2>. QED BY <2>1, ExpandedRaw
<1>2. CASE b.source # None /\ SourceContinues(b)
  <2>1. ReuseTransport(b) = b.compacted \o Rest(b.source, turn.messages)
    BY <1>2 DEF ReuseTransport, FromTail, Tailed
  <2>. QED BY <1>2, <2>1, TailedSays DEF SourceContinues
<1>3. CASE b.source # None /\ ~SourceContinues(b)
  <2>1. ReuseTransport(b) = Bounded(turn.messages, MaxFrame)
    BY <1>3 DEF ReuseTransport, FromTail
  <2>. QED BY <2>1, BoundedSays
<1>. QED BY <1>1, <1>2, <1>3

\* Where no notice hides what the binding remembers, a fresh native is told everything.
LEMMA DivergedIsAnew ==
  ASSUME NEW b, IsBinding(b), Remembers(b), turn.messages \in Seq(Raw),
         ~Continues(Following(b).history, ReuseTransport(b), turn.tools)
  PROVE  Severed(Following(b)) \/ Anew(Following(b), turn.messages, turn.tools)
<1>. DEFINE q == turn.messages
            c == Following(b)
<1>1. CASE b.source = None
  <2>1. c = b /\ ReuseTransport(b) = q /\ FreshOf(c, q, turn.tools) = Bounded(q, MaxFrame)
    BY <1>1 DEF Following, ReuseTransport, FromTail, FreshOf
  <2>2. ASSUME ~Severed(b), Continues(b.history, Bounded(q, MaxFrame), turn.tools) PROVE FALSE
    <3>1. \A i \in 1 .. Len(b.history.messages) : b.history.messages[i].role # "notice"
      BY <1>1, <2>2, LenProperties DEF Severed, Remembers
    <3>2. Bounded(q, MaxFrame) \in Seq(Said) /\ Expanded(Bounded(q, MaxFrame)) = q
      BY BoundedSays
    <3>3. Expanded(Bounded(q, MaxFrame)) = Bounded(q, MaxFrame)
      <4>. DEFINE h == b.history
                  w == Bounded(q, MaxFrame)
      <4>1. /\ h.messages \in Seq(Said) /\ Continues(h, w, turn.tools) /\ w \in Seq(Said)
            /\ \A i \in 1 .. Len(h.messages) : h.messages[i].role # "notice"
        BY <2>2, <3>1, <3>2 DEF Remembers
      <4>. HIDE DEF h, w
      <4>2. Expanded(w) = w
        BY <4>1, ContinuedWhole
      <4>. QED BY <4>2 DEF w
    <3>. QED BY <2>1, <2>2, <3>2, <3>3
  <2>. QED BY <2>1, <2>2 DEF Anew
<1>2. CASE b.source # None /\ SourceContinues(b)
  <2>1. c = b /\ ReuseTransport(b) = FreshOf(c, q, turn.tools)
    BY <1>2 DEF Following, ReuseTransport, FromTail, Tailed, FreshOf, SourceContinues
  <2>. QED BY <2>1 DEF Anew
<1>3. CASE b.source # None /\ ~SourceContinues(b)
  <2>1. c.source = None
    BY <1>3 DEF Following, WithoutTail, IsBinding
  <2>2. ReuseTransport(b) = Bounded(q, MaxFrame) /\ FreshOf(c, q, turn.tools) = Bounded(q, MaxFrame)
    BY <1>3, <2>1 DEF ReuseTransport, FromTail, FreshOf
  <2>. QED BY <2>2 DEF Anew
<1>. QED BY <1>1, <1>2, <1>3
-----------------------------------------------------------------------------
(* One step at a time *)

\* A native that is open was open, and was told nothing.
Stays(n) ==
    Open(n)' => /\ Open(n)
                /\ natives'[n].seen = natives[n].seen /\ natives'[n].tools = natives[n].tools
                /\ natives'[n].severed = natives[n].severed

Fades == \A n \in Numbers : Stays(n)

LEMMA SyncedStays ==
  ASSUME NEW b, IsBinding(b), b.native # None => Stays(b.native), Synced(b, natives)
  PROVE  Synced(b, natives')
BY DEF IsBinding, Stays, Open, Synced

LEMMA ClosingFades ==
  ASSUME TypeOK, NEW n \in Numbers, NEW who, natives' = Closing(n, who)
  PROVE  Fades
BY DEF TypeOK, Closing, Open, IsNative, Fades, Stays

\* A step of somebody else.
LEMMA FadesKeep ==
  ASSUME IInv, FInv, Fades, UNCHANGED <<bindings, turn, canonical>>,
         client.closed => client'.closed
  PROVE  FInv'
<1>. USE DEF FInv
<1>0. TypeOK /\ \A s \in Sessions : IsBinding(bindings[s])
  BY DEF IInv, TypeOK
<1>1. Recorded' /\ Unshared'
  BY DEF Recorded, Unshared
<1>2. ASSUME NEW s \in Sessions, Synced(bindings[s], natives) PROVE Synced(bindings[s], natives')
  <2>1. bindings[s].native # None => Stays(bindings[s].native)
    BY <1>0 DEF Fades, IsBinding
  <2>. QED BY <1>0, <1>2, <2>1, SyncedStays
<1>3. turn.at # "idle" => turn.session \in Sessions
  BY DEF IInv, TypeOK
<1>4. Rested'
  BY <1>2, <1>3 DEF Rested
<1>5. Admitted => Admitted' \/ turn.at # "admitted"
  BY <1>2, <1>3 DEF Admitted
<1>6. turn.at \in {"launched", "started", "ready", "waiting"} => turn.native \in Numbers
  BY DEF IInv, Placed, Holding
<1>7. ASSUME NEW n \in Numbers
      PROVE  /\ Open(n)' => Open(n)
             /\ Open(n)' /\ Fresh(n) => Fresh(n)'
             /\ Ready(n) => Ready(n)'
             /\ Handed(n) => Handed(n)'
  <2>. USE DEF Fades, Stays
  <2>1. Open(n)' /\ Fresh(n) => Fresh(n)'
    BY DEF Fresh
  <2>2. Ready(n) => Ready(n)'
    BY DEF Ready
  <2>3. Handed(n) => Handed(n)'
    BY DEF Handed
  <2>. QED BY <2>1, <2>2, <2>3
<1>8. Phase'
  BY <1>5, <1>6, <1>7 DEF Phase, Says
<1>. QED BY <1>1, <1>4, <1>8

\* A step of the request, as far as the bindings and the histories go.
OwnStep ==
    /\ turn.at # "idle" /\ turn'.at # "idle" /\ turn'.session = turn.session
    /\ turn'.messages \in Seq(Raw)
    /\ DOMAIN canonical' = Sessions /\ \A s \in Sessions : canonical'[s] \in Seq(Raw)
    /\ \A s \in Sessions \ {turn.session} : bindings'[s] = bindings[s]
    /\ Remembers(bindings'[turn.session])
    /\ \/ bindings'[turn.session].native \in {None, bindings[turn.session].native}
       \/ natives[bindings'[turn.session].native].state = "none"
    /\ client.closed => client'.closed
    /\ \A n \in Numbers :
         n # bindings[turn.session].native /\ natives[n].state # "none" => Stays(n)
    /\ turn'.at = "leaving" => client'.closed \/ Synced(bindings'[turn.session], natives')

LEMMA OwnStepKeeps ==
  ASSUME IInv, FInv, OwnStep PROVE Recorded' /\ Unshared' /\ Rested'
<1>. USE DEF FInv, OwnStep
<1>. DEFINE me == turn.session
<1>1. /\ me \in Sessions /\ Launched /\ \A s \in Sessions : IsBinding(bindings[s])
  BY DEF IInv, TypeOK, Placed
<1>2. Recorded'
  BY <1>1 DEF Recorded
<1>3. Unshared'
  <2>1. ASSUME NEW s \in Sessions \ {me}, bindings[s].native # None
        PROVE  bindings'[me].native # bindings[s].native
    <3>1. natives[bindings[s].native].state # "none" /\ bindings[s].native # bindings[me].native
      BY <1>1, <2>1 DEF Launched, Unshared
    <3>. QED BY <2>1, <3>1
  <2>2. ASSUME NEW s \in Sessions, NEW t \in Sessions, s # t, bindings'[s].native # None
        PROVE  bindings'[s].native # bindings'[t].native
    <3>1. CASE s = me
      <4>1. t \in Sessions \ {me} /\ bindings'[t] = bindings[t]
        BY <2>2, <3>1
      <4>. QED BY <2>1, <2>2, <3>1, <4>1
    <3>2. CASE t = me
      <4>1. s \in Sessions \ {me} /\ bindings'[s] = bindings[s]
        BY <2>2, <3>2
      <4>. QED BY <2>1, <2>2, <3>2, <4>1
    <3>3. CASE s # me /\ t # me
      BY <2>2, <3>3 DEF Unshared
    <3>. QED BY <3>1, <3>2, <3>3
  <2>. QED BY <2>2 DEF Unshared
<1>4. ASSUME NEW s \in Sessions \ {me}, ~client'.closed PROVE Synced(bindings'[s], natives')
  <2>1. Synced(bindings[s], natives) /\ bindings'[s] = bindings[s]
    BY <1>4 DEF Rested
  <2>2. bindings[s].native # None => Stays(bindings[s].native)
    <3>. SUFFICES ASSUME bindings[s].native # None PROVE Stays(bindings[s].native)
      OBVIOUS
    <3>1. /\ bindings[s].native \in Numbers /\ natives[bindings[s].native].state # "none"
          /\ bindings[s].native # bindings[me].native
      BY <1>1 DEF Launched, Unshared, IsBinding
    <3>. QED BY <3>1
  <2>. QED BY <1>1, <2>1, <2>2, SyncedStays
<1>5. Rested'
  BY <1>4 DEF Rested
<1>. QED BY <1>2, <1>3, <1>5

LEMMA FadesOwn ==
  ASSUME IInv, FInv, Fades, UNCHANGED <<bindings, canonical>>,
         client.closed => client'.closed,
         turn.at # "idle", turn'.at \notin {"idle", "leaving"}, turn'.session = turn.session,
         turn'.messages \in Seq(Raw)
  PROVE  Recorded' /\ Unshared' /\ Rested'
<1>1. turn.session \in Sessions
  BY DEF IInv, TypeOK
<1>2. OwnStep
  BY <1>1 DEF OwnStep, Fades, FInv, Recorded
<1>. QED BY <1>2, OwnStepKeeps

\* The request gives up, or is about to retire its native for another reason than its frame.
LEMMA GivesUp ==
  ASSUME IInv, FInv, Fades, UNCHANGED <<bindings, canonical>>,
         client.closed => client'.closed,
         turn.at # "idle", turn'.session = turn.session, turn'.messages \in Seq(Raw),
         \/ turn'.at \in {"failing", "unwinding"}
         \/ turn'.at = "closing" /\ client'.closed
         \/ turn'.at = "retiring" /\ turn'.why # "diverged"
  PROVE  FInv'
<1>1. Recorded' /\ Unshared' /\ Rested'
  BY FadesOwn
<1>2. Phase'
  BY DEF Phase
<1>. QED BY <1>1, <1>2 DEF FInv

\* The request is over.
LEMMA EndsSound ==
  ASSUME IInv, FInv, OwnStep, NEW how, Ends(how) PROVE FInv'
<1>1. Recorded' /\ Unshared' /\ Rested'
  BY OwnStepKeeps
<1>2. turn'.at = "leaving"
  BY DEF Ends, Over, NoTurn
<1>3. Phase'
  BY <1>2 DEF Phase
<1>. QED BY <1>1, <1>3 DEF FInv

LEMMA FInit == ASSUME Init PROVE FInv
<1>. USE ClientAssumption DEF Init
<1>1. <<>> \in Seq(Raw) /\ <<>> \in Seq(Said) /\ Before \in Seq(Raw)
  <2>. DEFINE Old == [role : {"user", "assistant", "calls", "tool", "system"},
                      number : {0}, omitted : {<<>>}]
  <2>1. Old \subseteq Raw
    BY DEF Raw
  <2>2. Before \in Seq(Old)
    OBVIOUS
  <2>. HIDE DEF Old
  <2>. QED BY <2>1, <2>2, EmptySeq, SeqMonotonic
<1>2. \A s \in Sessions : bindings[s].native = None /\ bindings[s].history = Blank /\ bindings[s].source = None
  BY DEF Unbound, NewBinding
<1>3. turn.at = "idle" /\ turn.messages = <<>>
  BY DEF NoTurn
<1>4. Recorded
  <2>1. DOMAIN canonical = Sessions /\ \A s \in Sessions : canonical[s] \in Seq(Raw)
    BY <1>1
  <2>2. Blank.messages = <<>>
    BY DEF Blank
  <2>3. \A s \in Sessions : Remembers(bindings[s])
    BY <1>1, <1>2, <2>2 DEF Remembers
  <2>. QED BY <1>1, <1>3, <2>1, <2>3 DEF Recorded
<1>5. Unshared /\ Rested /\ Phase
  BY <1>2, <1>3 DEF Unshared, Rested, Synced, Phase
<1>. QED BY <1>4, <1>5 DEF FInv

LEMMA SpeaksRaw ==
  ASSUME NEW s \in Sessions, canonical[s] \in Seq(Raw), NEW n \in Nat, NEW q \in Speaks(s, n)
  PROVE  q \in Seq(Raw)
<1>. DEFINE history == canonical[s]
            Kept == {SubSeq(history, 1, i) : i \in 0 .. Len(history)}
            user == Message("user", n)
            tool == Message("tool", n)
            system == Message("system", n)
<1>1. user \in Raw /\ tool \in Raw /\ system \in Raw
  BY DEF Raw, Message
<1>2. ASSUME NEW h \in Kept PROVE h \in Seq(Raw)
  <2>1. PICK i \in 0 .. Len(history) : h = SubSeq(history, 1, i)
    OBVIOUS
  <2>2. Len(history) \in Nat /\ \A j \in 1 .. i : history[j] \in Raw
    BY LenProperties, ElementOfSeq
  <2>3. i \in Nat
    BY <2>2
  <2>. HIDE DEF history
  <2>. QED BY <2>1, <2>2, <2>3, SubSeqProperties
<1>. HIDE DEF Kept
<1>3. CASE s \in Ephemeral
  <2>1. q = <<user>>
    BY <1>3 DEF Speaks
  <2>. HIDE DEF user
  <2>. QED BY <1>1, <2>1
<1>4. CASE s \notin Ephemeral
  <2>1. \/ \E kept \in Kept : q \in {kept \o <<user>>, kept \o <<system, user>>}
        \/ \E h \in Kept : q = Append(h, tool)
        \/ q = history
    <3>. DEFINE D == {h \in Kept : h = <<>> \/ Last(h).role = "assistant"}
                E == {<<user>>, <<system, user>>}
                A == {kept \o added : kept \in D, added \in E}
                B == {Append(h, tool) : h \in {k \in Kept : k # <<>> /\ Last(k).role = "calls"}}
                C == {h \in {history} : h # <<>> /\ Last(h).role \in {"user", "tool"}}
    <3>1. Speaks(s, n) = A \cup B \cup C
      BY <1>4 DEF Speaks, Kept
    <3>. HIDE DEF user, tool, system, history
    <3>2. CASE q \in A
      <4>1. \E kept \in D, added \in E : q = kept \o added
        <5>. HIDE DEF D, E
        <5>. QED BY <3>2
      <4>2. PICK kept \in D, added \in E : q = kept \o added
        BY <4>1
      <4>. QED BY <4>2
    <3>3. CASE q \in B
      BY <3>3
    <3>4. CASE q \in C
      BY <3>4
    <3>. HIDE DEF A, B, C
    <3>. QED BY <3>1, <3>2, <3>3, <3>4
  <2>2. <<user>> \in Seq(Raw) /\ <<system, user>> \in Seq(Raw)
    BY <1>1
  <2>. HIDE DEF user, tool, system
  <2>3. CASE \E kept \in Kept : q \in {kept \o <<user>>, kept \o <<system, user>>}
    BY <1>2, <2>2, <2>3, ConcatProperties
  <2>4. CASE \E h \in Kept : q = Append(h, tool)
    BY <1>1, <1>2, <2>4, AppendProperties
  <2>. QED BY <2>1, <2>3, <2>4
<1>. QED BY <1>3, <1>4

LEMMA AskSound == ASSUME IInv, FInv, Ask PROVE FInv'
<1>. USE DEF FInv
<1>0. TypeOK /\ \A s \in Sessions : IsBinding(bindings[s])
  BY DEF IInv, TypeOK
<1>a. PICK s \in Sessions, tools \in Toolsets :
        \E messages \in Speaks(s, number + 1) : Admit(s, messages, tools)
  BY DEF Ask
<1>1. PICK messages \in Speaks(s, number + 1) : Admit(s, messages, tools)
  BY <1>a
<1>2. messages \in Seq(Raw)
  <2>1. number + 1 \in Nat
    BY <1>0 DEF TypeOK
  <2>. QED BY <1>1, <2>1, SpeaksRaw DEF Recorded
<1>. DEFINE evicted == {t \in Occupied \ {s} : Expired(t)}
            full == Cardinality(Occupied \ evicted) >= MaxSessions /\ s \notin Occupied
            kept == [t \in Sessions |-> IF t \in evicted THEN Unbound ELSE bindings[t]]
<1>3. /\ turn.at = "idle" /\ ~client.closed /\ UNCHANGED <<natives, client>>
      /\ \/ bindings' = kept /\ turn' = turn /\ canonical' = canonical
         \/ /\ bindings' = IF s \in Occupied THEN kept ELSE [kept EXCEPT ![s] = NewBinding]
            /\ turn' = [NoTurn EXCEPT !.at = "admitted", !.session = s,
                                      !.messages = messages, !.tools = tools]
            /\ canonical' = [canonical EXCEPT ![s] = messages]
  BY <1>1 DEF Admit
<1>4. \A t \in Sessions : bindings'[t] \in {bindings[t], Unbound, NewBinding}
  BY <1>3
<1>. HIDE DEF kept
<1>5. \A b \in {Unbound, NewBinding} :
        b.native = None /\ b.history = Blank /\ b.source = None /\ Remembers(b)
  <2>1. Blank.messages \in Seq(Said)
    BY EmptySeq DEF Blank
  <2>2. /\ Unbound.native = None /\ Unbound.history = Blank /\ Unbound.source = None
        /\ NewBinding.native = None /\ NewBinding.history = Blank /\ NewBinding.source = None
    BY DEF Unbound, NewBinding
  <2>. QED BY <2>1, <2>2 DEF Remembers
<1>6. \/ turn' = turn
      \/ /\ turn'.at = "admitted" /\ turn'.session = s /\ turn'.messages = messages
         /\ turn'.tools = tools
  BY <1>3 DEF NoTurn
<1>7. Recorded'
  BY <1>2, <1>3, <1>4, <1>5, <1>6 DEF Recorded
<1>8. Unshared'
  BY <1>4, <1>5 DEF Unshared
<1>9. ASSUME NEW t \in Sessions PROVE Synced(bindings'[t], natives')
  <2>1. Synced(bindings[t], natives')
    BY <1>3 DEF Rested
  <2>2. \A b \in {Unbound, NewBinding} : Synced(b, natives')
    BY <1>5 DEF Synced
  <2>. QED BY <1>4, <2>1, <2>2
<1>10. Rested'
  BY <1>3, <1>6, <1>9 DEF Rested
<1>11. turn'.at = "admitted" => Admitted'
  <2>. SUFFICES ASSUME turn'.at = "admitted" PROVE Admitted'
    OBVIOUS
  <2>1. turn'.session \in Sessions
    BY <1>3, <1>6
  <2>2. Synced(bindings'[turn'.session], natives')
    BY <1>9, <2>1
  <2>3. bindings'[turn'.session].native = None => bindings'[turn'.session].history = Blank
    BY <2>2 DEF Synced
  <2>. QED BY <2>2, <2>3 DEF Admitted, Anew, Continues, Blank
<1>12. Phase'
  BY <1>3, <1>6, <1>11 DEF Phase
<1>. QED BY <1>7, <1>8, <1>10, <1>12

(* Steps of the others *)

LEMMA OthersSound ==
  ASSUME IInv, FInv,
         \/ Close \/ Closer \/ Abort
         \/ \E n \in Numbers : AbortCloses(n) \/ CloseEnds(n) \/ Expires(n)
  PROVE  FInv'
<1>0. TypeOK
  BY DEF IInv
<1>1. CASE Close \/ Abort \/ Settled \/ Publish \/ \E s \in Sessions : Settles(s)
  <2>1. Fades /\ UNCHANGED <<bindings, turn, canonical>>
    BY <1>1 DEF Close, Abort, Settled, Publish, Settles, Fades, Stays, Open
  <2>2. client.closed => client'.closed
    BY <1>0, <1>1 DEF TypeOK, ClientFields, Close, CloseBegins, Abort, Settled, Publish, Settles
  <2>. QED BY <2>1, <2>2, FadesKeep
<1>2. CASE ClientCloses \/ \E n \in Numbers : AbortCloses(n) \/ Expires(n)
  <2>1. \E n \in Numbers, who \in {"client", "abort", "other"} : natives' = Closing(n, who)
    BY <1>0, <1>2 DEF ClientCloses, AbortCloses, Expires, TypeOK
  <2>2. Fades
    BY <1>0, <2>1, ClosingFades
  <2>3. UNCHANGED <<bindings, turn, client, canonical>>
    BY <1>2 DEF ClientCloses, AbortCloses, Expires
  <2>. QED BY <2>2, <2>3, FadesKeep
<1>3. ASSUME NEW n \in Numbers, CloseEnds(n) PROVE FInv'
  <2>1. PICK dead \in BOOLEAN, errors \in BOOLEAN :
          natives' = [natives EXCEPT ![n] =
             [NoNative EXCEPT !.state = "closed", !.dead = dead, !.errors = errors]]
    BY <1>3 DEF CloseEnds
  <2>2. natives'[n].state = "closed" /\ \A m \in Numbers \ {n} : natives'[m] = natives[m]
    BY <1>0, <2>1 DEF TypeOK, NoNative
  <2>3. Fades
    BY <2>2 DEF Fades, Stays, Open
  <2>. QED BY <1>3, <2>3, FadesKeep DEF CloseEnds
<1>. QED BY <1>1, <1>2, <1>3 DEF Closer

\* Where the request stands, and what its binding remembers.
LEMMA Here ==
  ASSUME IInv, FInv, turn.at # "idle"
  PROVE  /\ TypeOK /\ turn.session \in Sessions /\ Mine = bindings[turn.session]
         /\ IsBinding(Mine) /\ Remembers(Mine) /\ turn.messages \in Seq(Raw)
         /\ \A s \in Sessions : canonical[s] \in Seq(Raw)
         /\ DOMAIN canonical = Sessions
BY DEF IInv, TypeOK, FInv, Recorded, Mine

LEMMA BindShape ==
  ASSUME TypeOK, turn.session \in Sessions, NEW b, Bind(b)
  PROVE  /\ bindings'[turn.session] = b
         /\ \A s \in Sessions \ {turn.session} : bindings'[s] = bindings[s]
BY DEF TypeOK, Bind

LEMMA FollowingKeeps ==
  ASSUME NEW b, IsBinding(b), Remembers(b)
  PROVE  /\ Remembers(Following(b)) /\ Following(b).history = b.history
         /\ Following(b).native = b.native
<1>1. CASE Following(b) = b
  BY <1>1
<1>2. CASE Following(b) = WithoutTail(b)
  BY <1>2 DEF Remembers, WithoutTail, IsBinding
<1>. QED BY <1>1, <1>2 DEF Following

LEMMA FreshKeeps ==
  ASSUME NEW b, IsBinding(b), Remembers(b)
  PROVE  /\ Remembers(FreshBinding(b)) /\ FreshBinding(b).history = b.history
         /\ FreshBinding(b).native = b.native
<1>1. CASE BeginsTail(b)
  <2>1. /\ FreshBinding(b).source = Blank /\ FreshBinding(b).history = b.history
        /\ FreshBinding(b).native = b.native
    BY <1>1 DEF FreshBinding, IsBinding
  <2>. QED BY <2>1 DEF Remembers, Blank
<1>2. CASE ~BeginsTail(b)
  BY <1>2, FollowingKeeps DEF FreshBinding
<1>. QED BY <1>1, <1>2

\* A step that binds, and does nothing to the natives of others.
LEMMA BindsOwn ==
  ASSUME IInv, FInv, turn.at # "idle", NEW b, Bind(b), Remembers(b),
         \/ b.native \in {None, Mine.native}
         \/ natives[b.native].state = "none",
         \A n \in Numbers : n # Mine.native /\ natives[n].state # "none" => Stays(n),
         turn'.at # "idle", turn'.session = turn.session, turn'.messages \in Seq(Raw),
         client.closed => client'.closed,
         turn'.at = "leaving" => client'.closed \/ Synced(b, natives'),
         canonical' = canonical
  PROVE  OwnStep
<1>1. /\ bindings'[turn.session] = b /\ Mine = bindings[turn.session]
      /\ \A s \in Sessions \ {turn.session} : bindings'[s] = bindings[s]
  BY Here, BindShape
<1>. QED BY <1>1, Here DEF OwnStep

LEMMA UntouchedFade == ASSUME natives' = natives PROVE Fades
BY DEF Fades, Stays, Open

LEMMA RetireStaleSound ==
  ASSUME IInv, FInv, NEW why \in {"stale", "switched"}, RetireStale(why) PROVE FInv'
<1>1. turn.at = "admitted" /\ UNCHANGED <<bindings, natives, client, canonical>>
  BY DEF RetireStale, At
<1>2. turn'.at = "retiring" /\ turn'.why = why /\ turn'.session = turn.session
      /\ turn'.messages = turn.messages
  BY <1>1, Here DEF RetireStale, Retiring, TypeOK, TurnFields
<1>. QED BY <1>1, <1>2, Here, UntouchedFade, GivesUp

LEMMA RetireUsedSound ==
  ASSUME IInv, FInv, NEW why \in {"diverged", "rotated"}, RetireUsed(why) PROVE FInv'
<1>. DEFINE c == Following(Mine)
<1>1. turn.at = "admitted" /\ Bind(c) /\ UNCHANGED <<natives, client, canonical>>
      /\ (why = "diverged" => ~ReuseContinues)
  BY DEF RetireUsed, Reuses, At
<1>2. turn'.at = "retiring" /\ turn'.why = why /\ turn'.session = turn.session
      /\ turn'.messages = turn.messages /\ turn'.tools = turn.tools
  BY <1>1, Here DEF RetireUsed, Retiring, TypeOK, TurnFields
<1>3. Remembers(c) /\ c.native = Mine.native
  BY <1>1, Here, FollowingKeeps
<1>4. OwnStep
  BY <1>1, <1>2, <1>3, Here, UntouchedFade, BindsOwn DEF Fades
<1>5. why = "diverged" => Severed(c) \/ Anew(c, turn.messages, turn.tools)
  BY <1>1, Here, DivergedIsAnew DEF ReuseContinues
<1>6. bindings'[turn.session] = c
  BY <1>1, Here, BindShape
<1>. HIDE DEF c
<1>7. Phase'
  BY <1>2, <1>5, <1>6 DEF Phase
<1>. QED BY <1>4, <1>7, OwnStepKeeps DEF FInv

\* The frame of a request is prepared.
LEMMA PreparedSound ==
  ASSUME IInv, FInv, turn.at \in {"admitted", "started"}, NEW b, Bind(b), Remembers(b),
         b.native = Mine.native, NEW n \in Numbers, NEW transport, NEW tracked,
         Prepared(b, n, transport, tracked),
         transport \in Seq(Said), Expanded(transport) = turn.messages,
         UNCHANGED <<natives, client, canonical>>,
         Open(n) /\ ~natives[n].severed =>
           IF Continues(b.history, transport, turn.tools)
           THEN natives[n].seen = b.history.messages /\ natives[n].tools = turn.tools
           ELSE natives[n].seen = <<>>
  PROVE  FInv'
<1>1. /\ turn'.at = "ready" /\ turn'.native = n /\ turn'.transport = transport
      /\ turn'.frame = Frame(b.history, transport, turn.tools)
      /\ turn'.session = turn.session /\ turn'.messages = turn.messages
      /\ turn'.tools = turn.tools
  BY Here DEF Prepared, TypeOK, TurnFields
<1>2. OwnStep
  BY <1>1, Here, UntouchedFade, BindsOwn DEF Fades
<1>3. bindings'[turn.session] = b
  BY Here, BindShape
<1>4. Ready(turn.native)'
  BY <1>1, <1>3 DEF Ready, Open
<1>5. Phase'
  BY <1>1, <1>4 DEF Phase, Says
<1>. QED BY <1>2, <1>5, OwnStepKeeps DEF FInv

LEMMA ReuseSound == ASSUME IInv, FInv, Reuse PROVE FInv'
<1>. DEFINE b == Following(Mine)
            transport == ReuseTransport(Mine)
<1>1. /\ turn.at = "admitted" /\ Mine.native # None /\ Bind(b)
      /\ Prepared(b, Mine.native, transport, FromTail(Mine))
      /\ Continues(b.history, transport, turn.tools)
      /\ UNCHANGED <<natives, client, canonical>>
  BY DEF Reuse, Reuses, ReuseContinues, At
<1>2. Remembers(b) /\ b.native = Mine.native /\ b.history = Mine.history
  BY <1>1, Here, FollowingKeeps
<1>3. transport \in Seq(Said) /\ Expanded(transport) = turn.messages
  BY <1>1, Here, ReuseSays
<1>4. Mine.native \in Numbers
  BY <1>1, Here DEF IsBinding
<1>5. Synced(Mine, natives)
  BY <1>1, Here DEF FInv, Phase, Admitted
<1>6. Open(Mine.native) /\ ~natives[Mine.native].severed =>
        natives[Mine.native].seen = b.history.messages /\ natives[Mine.native].tools = turn.tools
  BY <1>1, <1>2, <1>5 DEF Synced, Open, Continues
<1>. HIDE DEF b, transport
<1>. QED BY <1>1, <1>2, <1>3, <1>4, <1>6, PreparedSound

LEMMA BootstrapSound == ASSUME IInv, FInv, Bootstrap PROVE FInv'
<1>. DEFINE b == FreshBinding(Mine)
            transport == FreshTransport(Mine)
            n == turn.native
<1>1. /\ turn.at = "started" /\ Bind(b)
      /\ Prepared(b, n, transport, FromTail(Mine) \/ BeginsTail(Mine))
      /\ UNCHANGED <<natives, client, canonical>>
  BY DEF Bootstrap, At
<1>2. Remembers(b) /\ b.native = Mine.native /\ b.history = Mine.history
  BY <1>1, Here, FreshKeeps
<1>3. transport = FreshOf(Mine, turn.messages, turn.tools)
  BY FreshIs
<1>4. transport \in Seq(Said) /\ Expanded(transport) = turn.messages
  BY <1>1, <1>3, Here, FreshSays
<1>5. n \in Numbers
  BY <1>1 DEF IInv, Placed, Holding
<1>6. Open(n) => Fresh(n)
  BY <1>1 DEF FInv, Phase
<1>7. Open(n) /\ ~natives[n].severed =>
        natives[n].seen = <<>> /\ ~Continues(b.history, transport, turn.tools)
  BY <1>1, <1>2, <1>3, <1>6, Here DEF Fresh, Anew
<1>. HIDE DEF b, transport, n
<1>. QED BY <1>1, <1>2, <1>4, <1>5, <1>7, PreparedSound

\* The request closes its client or its native, or gives up.
LEMMA TurnClosesSound == ASSUME IInv, FInv, TurnCloses PROVE FInv'
<1>1. turn.native \in Numbers /\ TypeOK
  BY DEF TurnCloses, IInv, TypeOK
<1>2. Fades
  BY <1>1, ClosingFades DEF TurnCloses
<1>. QED BY <1>2, FadesKeep DEF TurnCloses

LEMMA OverSays ==
  ASSUME NEW why
  PROVE  Over(why).messages = <<>> /\ Over(why).messages \in Seq(Raw)
         /\ Over(why).session = turn.session
BY EmptySeq DEF Over, NoTurn

LEMMA FailsEarlySound ==
  ASSUME IInv, FInv, turn.at # "idle", FailsEarly, Fades, UNCHANGED <<bindings, client, canonical>>
  PROVE  FInv'
<1>1. turn'.at = "failing" /\ turn'.messages \in Seq(Raw) /\ turn'.session = turn.session
  BY OverSays, OverShape DEF FailsEarly, TurnFields
<1>. QED BY <1>1, GivesUp

LEMMA EarlySound == ASSUME IInv, FInv, StartFails \/ PrepareFails PROVE FInv'
<1>1. /\ turn.at \in {"admitted", "launched", "started"} /\ FailsEarly
      /\ UNCHANGED <<bindings, client, canonical>>
  BY DEF StartFails, PrepareFails, At
<1>2. \/ natives' = natives
      \/ turn.native \in Numbers /\ natives' = Closing(turn.native, "turn")
  BY DEF StartFails, PrepareFails, At, IInv, Placed, Holding
<1>3. Fades
  BY <1>2, ClosingFades, UntouchedFade DEF IInv
<1>. QED BY <1>1, <1>3, FailsEarlySound

\* Its native closes, or had been closed, and the request gives up.
LEMMA TurnsAwaySound ==
  ASSUME IInv, FInv, turn.at # "idle", NEW why, NEW place \in {"unwinding", "failing"},
         turn' = [Over(why) EXCEPT !.at = place],
         \/ natives' = natives
         \/ turn.native \in Numbers /\ natives' = Closing(turn.native, "turn"),
         UNCHANGED <<bindings, client, canonical>>
  PROVE  FInv'
<1>1. turn'.at = place /\ turn'.messages \in Seq(Raw) /\ turn'.session = turn.session
  BY OverSays, OverShape DEF TurnFields
<1>2. Fades
  BY ClosingFades, UntouchedFade DEF IInv
<1>. QED BY <1>1, <1>2, GivesUp

LEMMA FailuresSound ==
  ASSUME IInv, FInv,
         \/ \E why \in {"failed", "undelivered", "uncertain"} : NotDelivered(why)
         \/ AnswerInvalid
         \/ \E why \in {"failed", "uncertain"} : ExchangeFails(why)
  PROVE  FInv'
<1>1. turn.at \in {"ready", "waiting"} /\ turn.native \in Numbers
      /\ UNCHANGED <<bindings, client, canonical>>
  BY DEF NotDelivered, AnswerInvalid, ExchangeFails, At, IInv, Placed, Holding
<1>2. \E why \in {"undelivered", "failed", "uncertain"}, place \in {"unwinding", "failing"} :
        turn' = [Over(why) EXCEPT !.at = place]
  BY DEF NotDelivered, AnswerInvalid, ExchangeFails
<1>3. natives' = natives \/ natives' = Closing(turn.native, "turn")
  BY DEF NotDelivered, AnswerInvalid, ExchangeFails
<1>. QED BY <1>1, <1>2, <1>3, TurnsAwaySound

LEMMA RetireSound == ASSUME IInv, FInv, Retire PROVE FInv'
<1>1. /\ turn.at = "retiring" /\ UNCHANGED <<natives, client, canonical>>
      /\ turn.native = Mine.native /\ turn.why \in Reasons
  BY DEF Retire, At, IInv, Placed, Holding
<1>2. CASE Raised
  <2>1. FailsEarly /\ bindings' = bindings
    BY <1>2 DEF Retire
  <2>. QED BY <1>1, <2>1, UntouchedFade, FailsEarlySound
<1>3. CASE ~Raised
  <2>. DEFINE c == Retired(Mine, turn.why)
  <2>1. Bind(c) /\ turn'.at = "admitted" /\ turn'.session = turn.session
        /\ turn'.messages = turn.messages /\ turn'.tools = turn.tools
    BY <1>1, <1>3, Here DEF Retire, TypeOK, TurnFields
  <2>2. c.native = None
    BY <1>1, Here, RetiredFreed DEF Freed
  <2>3. CASE turn.why = "diverged"
    <3>1. c.history = Mine.history /\ c.source = Mine.source /\ c.compacted = Mine.compacted
      BY <1>1, <2>3, Here DEF Retired, WithoutNative, IsBinding
    <3>2. Remembers(c)
      BY <1>1, <3>1, Here DEF Remembers
    <3>3. Severed(Mine) \/ Anew(Mine, turn.messages, turn.tools)
      BY <1>1, <2>3, Here DEF FInv, Phase
    <3>4. Severed(c) \/ Anew(c, turn.messages, turn.tools)
      BY <3>1, <3>3 DEF Severed, Anew, FreshOf
    <3>5. bindings'[turn.session] = c
      BY <1>1, <2>1, Here, BindShape
    <3>6. OwnStep
      BY <1>1, <2>1, <2>2, <3>2, Here, UntouchedFade, BindsOwn DEF Fades
    <3>. HIDE DEF c
    <3>7. Admitted'
      BY <2>1, <2>2, <3>4, <3>5 DEF Admitted
    <3>8. Phase'
      BY <2>1, <3>7 DEF Phase
    <3>. QED BY <3>6, <3>8, OwnStepKeeps DEF FInv
  <2>4. CASE turn.why # "diverged"
    <3>1. c = Forgotten(Mine) \/ c = WithoutTail(Forgotten(Mine))
      BY <1>1, <2>4 DEF Retired, Reasons
    <3>2. c.history = Blank /\ (c.source = None \/ (c.source = Mine.source /\ c.compacted = Mine.compacted))
      BY <1>1, <3>1, Here DEF Forgotten, WithoutTail, IsBinding
    <3>3. Remembers(c)
      BY <1>1, <3>2, Here, EmptySeq DEF Remembers, Blank
    <3>4. Anew(c, turn.messages, turn.tools)
      BY <3>2 DEF Anew, Continues, Blank
    <3>5. bindings'[turn.session] = c
      BY <1>1, <2>1, Here, BindShape
    <3>6. OwnStep
      BY <1>1, <2>1, <2>2, <3>3, Here, UntouchedFade, BindsOwn DEF Fades
    <3>. HIDE DEF c
    <3>7. Admitted'
      BY <2>1, <2>2, <3>4, <3>5 DEF Admitted
    <3>8. Phase'
      BY <2>1, <3>7 DEF Phase
    <3>. QED BY <3>6, <3>8, OwnStepKeeps DEF FInv
  <2>. QED BY <2>3, <2>4
<1>. QED BY <1>2, <1>3

LEMMA LaunchSound == ASSUME IInv, FInv, Launch PROVE FInv'
<1>. DEFINE b == [Mine EXCEPT !.native = number, !.exchanged = FALSE]
<1>1. /\ turn.at = "admitted" /\ Mine.native = None /\ UNCHANGED <<client, canonical>>
      /\ natives' = [natives EXCEPT ![number].state = "created",
                                    ![number].severed = Severed(Mine)]
      /\ Bind(b) /\ turn' = [turn EXCEPT !.at = "launched", !.native = number]
  BY DEF Launch, At
<1>2. /\ turn'.at = "launched" /\ turn'.native = number /\ turn'.session = turn.session
      /\ turn'.messages = turn.messages /\ turn'.tools = turn.tools
  BY <1>1, Here DEF TypeOK, TurnFields
<1>3. /\ number \in Numbers /\ natives[number].state = "none" /\ natives[number].seen = <<>>
  BY <1>1, Here DEF IInv, TypeOK, Placed, IsNative
<1>4. /\ natives'[number].seen = <<>> /\ natives'[number].severed = Severed(Mine)
      /\ \A n \in Numbers \ {number} : natives'[n] = natives[n]
  BY <1>1, <1>3, Here DEF TypeOK, IsNative
<1>5. /\ b.native = number /\ b.history = Mine.history /\ b.source = Mine.source
      /\ b.compacted = Mine.compacted
  BY <1>1, Here DEF IsBinding
<1>6. Remembers(b)
  BY <1>1, <1>5, Here DEF Remembers
<1>7. \A n \in Numbers : natives[n].state # "none" => Stays(n)
  BY <1>3, <1>4 DEF Stays, Open
<1>8. Severed(Mine) \/ Anew(Mine, turn.messages, turn.tools)
  BY <1>1, Here DEF FInv, Phase, Admitted
<1>9. bindings'[turn.session] = b
  BY <1>1, Here, BindShape
<1>10. OwnStep
  BY <1>1, <1>2, <1>3, <1>5, <1>6, <1>7, Here, BindsOwn
<1>11. Anew(Mine, turn.messages, turn.tools) => Anew(b, turn.messages, turn.tools)
  BY <1>5 DEF Anew, FreshOf
<1>. HIDE DEF b
<1>12. Fresh(turn.native)'
  BY <1>2, <1>4, <1>8, <1>9, <1>11 DEF Fresh
<1>13. Phase'
  BY <1>2, <1>12 DEF Phase
<1>. QED BY <1>10, <1>13, OwnStepKeeps DEF FInv

LEMMA StartSound == ASSUME IInv, FInv, Start PROVE FInv'
<1>1. /\ turn.at = "launched" /\ UNCHANGED <<bindings, client, canonical>>
      /\ turn.native \in Numbers /\ natives[turn.native].state = "created"
      /\ natives' = [natives EXCEPT ![turn.native].state = "started"]
      /\ turn' = [turn EXCEPT !.at = "started"]
  BY DEF Start, At, IInv, Placed, Holding
<1>2. /\ turn'.at = "started" /\ turn'.native = turn.native /\ turn'.session = turn.session
      /\ turn'.messages = turn.messages /\ turn'.tools = turn.tools
  BY <1>1, Here DEF TypeOK, TurnFields
<1>3. Fades
  BY <1>1, Here DEF Fades, Stays, Open, TypeOK, IsNative
<1>4. Recorded' /\ Unshared' /\ Rested'
  BY <1>1, <1>2, <1>3, Here, FadesOwn
<1>5. Fresh(turn.native)
  BY <1>1 DEF FInv, Phase, Open
<1>6. Open(turn.native)' => Fresh(turn.native)'
  BY <1>1, <1>2, <1>3, <1>5 DEF Fresh, Fades, Stays
<1>7. Phase'
  BY <1>2, <1>6 DEF Phase
<1>. QED BY <1>4, <1>7 DEF FInv

LEMMA DeliverSound == ASSUME IInv, FInv, Deliver PROVE FInv'
<1>. DEFINE n == turn.native
            h == Mine.history
<1>1. /\ turn.at = "ready" /\ UNCHANGED <<bindings, client, canonical>>
      /\ n \in Numbers /\ n = Mine.native /\ natives[n].state # "none"
      /\ natives' = [natives EXCEPT
           ![n].seen = @ \o turn.frame,
           ![n].tools = IF Continues(h, turn.transport, turn.tools) THEN @ ELSE turn.tools]
      /\ turn' = [turn EXCEPT !.at = "waiting", !.fenced = Cancelled, !.delivered = TRUE]
  BY ClientAssumption DEF Deliver, At, IInv, Placed, Launched, Holding, Mine, TypeOK, Numbers
<1>2. /\ turn'.at = "waiting" /\ turn'.native = n /\ turn'.session = turn.session
      /\ turn'.messages = turn.messages /\ turn'.tools = turn.tools
      /\ turn'.transport = turn.transport
  BY <1>1, Here DEF TypeOK, TurnFields
<1>3. /\ \A m \in Numbers \ {n} : natives'[m] = natives[m]
      /\ natives'[n].state = natives[n].state /\ natives'[n].severed = natives[n].severed
      /\ natives'[n].seen = natives[n].seen \o turn.frame
      /\ natives'[n].tools =
           IF Continues(h, turn.transport, turn.tools) THEN natives[n].tools ELSE turn.tools
  BY <1>1, Here DEF TypeOK, IsNative
<1>4. \A m \in Numbers : m # Mine.native => Stays(m)
  BY <1>1, <1>3 DEF Stays, Open
<1>5. Says /\ Ready(n)
  BY <1>1 DEF FInv, Phase
<1>6. OwnStep
  BY <1>1, <1>2, <1>4, Here DEF OwnStep
<1>7. Handed(n)'
  <2>. SUFFICES ASSUME Open(n), ~natives[n].severed
       PROVE  natives'[n].seen = turn.transport /\ natives'[n].tools = turn.tools
    BY <1>2, <1>3 DEF Handed, Open
  <2>1. CASE Continues(h, turn.transport, turn.tools)
    <3>1. /\ turn.frame = Rest(h, turn.transport) /\ natives[n].seen = h.messages
          /\ natives[n].tools = turn.tools
      BY <1>1, <1>5, <2>1, Here DEF Ready, Frame
    <3>2. IsPrefix(h.messages, turn.transport)
      BY <2>1 DEF Continues
    <3>3. h.messages \o Rest(h, turn.transport) = turn.transport
      <4>. DEFINE w == h.messages
      <4>1. w \in Seq(Said) /\ turn.transport \in Seq(Said) /\ IsPrefix(w, turn.transport)
        BY <1>1, <1>5, <3>2, Here DEF Remembers, Says
      <4>. HIDE DEF w
      <4>2. w \o SubSeq(turn.transport, Len(w) + 1, Len(turn.transport)) = turn.transport
        BY <4>1, PrefixRest
      <4>. QED BY <4>2 DEF Rest, w
    <3>. QED BY <1>3, <2>1, <3>1, <3>3
  <2>2. CASE ~Continues(h, turn.transport, turn.tools)
    <3>1. turn.frame = turn.transport /\ natives[n].seen = <<>>
      BY <1>1, <1>5, <2>2, Here DEF Ready, Frame
    <3>2. <<>> \o turn.transport = turn.transport
      BY <1>5, ConcatEmptySeq DEF Says
    <3>. QED BY <1>3, <2>2, <3>1, <3>2
  <2>. QED BY <2>1, <2>2
<1>8. Phase'
  BY <1>2, <1>5, <1>7 DEF Phase, Says
<1>. QED BY <1>6, <1>8, OwnStepKeeps DEF FInv

LEMMA AnswerSound == ASSUME IInv, FInv, NEW role, Answer(role) PROVE FInv'
<1>. DEFINE n == turn.native
            answer == Message(role, number)
            told == Append(turn.transport, answer)
            b == CommittedBinding(answer)
<1>1. /\ turn.at = "waiting" /\ UNCHANGED client
      /\ n \in Numbers /\ n = Mine.native
      /\ role \in {"assistant", "calls"}
      /\ natives' = [natives EXCEPT ![n].seen = Append(@, answer)]
      /\ Bind(b) /\ Ends("answered")
      /\ canonical' = [canonical EXCEPT ![turn.session] = Append(turn.messages, answer)]
  BY DEF Answer, Answers, Roles, At, IInv, Placed, Holding
<1>2. answer \in Raw /\ answer \in Said /\ Part(answer) = <<answer>>
  <2>1. number \in Nat
    BY <1>1, Here DEF TypeOK
  <2>2. answer \in Raw
    BY <1>1, <2>1 DEF Raw, Message
  <2>. QED BY <2>2, RawParts
<1>3. /\ turn'.at = "leaving" /\ turn'.session = turn.session /\ turn'.messages \in Seq(Raw)
  BY <1>1, OverSays, OverShape DEF Ends, TurnFields
<1>4. /\ \A m \in Numbers \ {n} : natives'[m] = natives[m]
      /\ natives'[n].state = natives[n].state /\ natives'[n].severed = natives[n].severed
      /\ natives'[n].seen = Append(natives[n].seen, answer)
      /\ natives'[n].tools = natives[n].tools
  BY <1>1, Here DEF TypeOK, IsNative
<1>5. \A m \in Numbers : m # Mine.native => Stays(m)
  BY <1>1, <1>4 DEF Stays, Open
<1>6. Says /\ Handed(n)
  BY <1>1 DEF FInv, Phase
<1>. HIDE DEF answer
<1>7. /\ told \in Seq(Said) /\ Append(turn.messages, answer) \in Seq(Raw)
      /\ Expanded(told) = Append(turn.messages, answer)
  <2>1. Expanded(told) = Expanded(turn.transport) \o <<answer>>
    BY <1>2, <1>6, ExpandedStep DEF Says
  <2>2. Append(turn.messages, answer) = turn.messages \o <<answer>>
    BY <1>1, <1>2, Here, AppendIsConcat
  <2>. QED BY <1>1, <1>2, <1>6, <2>1, <2>2, Here, AppendProperties DEF Says
<1>8. /\ b.native = n /\ b.history = Committed(told, turn.tools)
      /\ \/ b.source = Committed(Append(turn.messages, answer), turn.tools) /\ b.compacted = told
         \/ b.source = Mine.source /\ b.compacted = Mine.compacted
  BY <1>1, Here DEF CommittedBinding, IsBinding
<1>. HIDE DEF told, b
<1>9. Remembers(b)
  <2>1. \A q, t : Committed(q, t).messages = q
    BY DEF Committed
  <2>2. b.history.messages \in Seq(Said)
    BY <1>7, <1>8, <2>1
  <2>3. CASE b.source = Committed(Append(turn.messages, answer), turn.tools) /\ b.compacted = told
    BY <1>7, <2>1, <2>2, <2>3 DEF Remembers
  <2>4. CASE b.source = Mine.source /\ b.compacted = Mine.compacted
    BY <1>1, <2>2, <2>4, Here DEF Remembers
  <2>. QED BY <1>8, <2>3, <2>4
<1>10. Synced(b, natives')
  <2>1. b.native # None
    BY <1>1, <1>8, ClientAssumption DEF Numbers
  <2>2. ASSUME Open(n), ~natives[n].severed
        PROVE  natives'[n].seen = told /\ natives'[n].tools = turn.tools
    BY <1>4, <1>6, <2>2 DEF Handed, told
  <2>3. b.history.messages = told /\ b.history.tools = turn.tools
    BY <1>8 DEF Committed
  <2>4. natives'[n].state \in {"created", "started"} /\ ~natives'[n].severed
          => Open(n) /\ ~natives[n].severed
    BY <1>4 DEF Open
  <2>. HIDE DEF n
  <2>. QED BY <1>8, <2>1, <2>2, <2>3, <2>4 DEF Synced
<1>11. \A s \in Sessions : canonical'[s] \in Seq(Raw)
  BY <1>1, <1>7, Here
<1>12. /\ bindings'[turn.session] = b
       /\ \A s \in Sessions \ {turn.session} : bindings'[s] = bindings[s]
  BY <1>1, Here, BindShape
<1>13. DOMAIN canonical' = Sessions
  BY <1>1, Here
<1>14. OwnStep
  BY <1>1, <1>3, <1>5, <1>8, <1>9, <1>10, <1>11, <1>12, <1>13, Here DEF OwnStep
<1>. QED BY <1>1, <1>14, EndsSound

LEMMA UnwindSound == ASSUME IInv, FInv, Unwind PROVE FInv'
<1>1. /\ turn.at = "unwinding" /\ UNCHANGED <<natives, client, canonical>>
      /\ turn.native = Mine.native /\ turn.native \in Numbers /\ ~Open(turn.native)
  BY ClientAssumption DEF Unwind, At, TurnClosed, IInv, Placed, Holding, Numbers
<1>2. CASE Raised
  <2>1. Ends("error") /\ bindings' = bindings
    BY <1>2 DEF Unwind
  <2>2. turn'.at = "leaving" /\ turn'.session = turn.session /\ turn'.messages \in Seq(Raw)
    BY <2>1, OverSays, OverShape DEF Ends, TurnFields
  <2>3. Synced(Mine, natives)
    BY <1>1, ClientAssumption DEF Synced, Open, Numbers
  <2>4. OwnStep
    BY <1>1, <2>1, <2>2, <2>3, Here, UntouchedFade DEF OwnStep, Fades, FInv, Recorded
  <2>. QED BY <2>1, <2>4, EndsSound
<1>3. CASE ~Raised /\ turn.why = "failed"
  <2>1. Ends("lost") /\ Bind(Forgotten(Mine))
    BY <1>3 DEF Unwind
  <2>2. turn'.at = "leaving" /\ turn'.session = turn.session /\ turn'.messages \in Seq(Raw)
    BY <2>1, OverSays, OverShape DEF Ends, TurnFields
  <2>. DEFINE c == Forgotten(Mine)
  <2>3. /\ c.native = None /\ c.history = Blank /\ c.source = Mine.source
        /\ c.compacted = Mine.compacted
    BY <1>1, Here DEF Forgotten, IsBinding
  <2>4. Remembers(c)
    BY <1>1, <2>3, Here, EmptySeq DEF Remembers, Blank
  <2>5. Synced(c, natives')
    BY <2>3 DEF Synced
  <2>6. OwnStep
    BY <1>1, <2>1, <2>2, <2>3, <2>4, <2>5, UntouchedFade, BindsOwn DEF Fades
  <2>. QED BY <2>1, <2>6, EndsSound
<1>4. CASE ~Raised /\ turn.why # "failed"
  <2>1. turn' = [turn EXCEPT !.at = "failing"] /\ bindings' = bindings
    BY <1>4 DEF Unwind
  <2>2. turn'.at = "failing" /\ turn'.session = turn.session /\ turn'.messages = turn.messages
    BY <1>1, <2>1, Here DEF TypeOK, TurnFields
  <2>. QED BY <1>1, <2>1, <2>2, Here, UntouchedFade, GivesUp
<1>. QED BY <1>2, <1>3, <1>4

LEMMA PopSound == ASSUME IInv, FInv, Pop PROVE FInv'
<1>. DEFINE c == [Unbound EXCEPT !.native = Mine.native]
<1>1. /\ turn.at = "leaving" /\ UNCHANGED <<natives, client, canonical>> /\ Bind(c)
      /\ turn' = [turn EXCEPT !.at = "popped", !.native = Mine.native]
  BY DEF Pop, At
<1>2. /\ turn'.at = "popped" /\ turn'.native = Mine.native /\ turn'.session = turn.session
      /\ turn'.messages = turn.messages
  BY <1>1, Here DEF TypeOK, TurnFields
<1>3. c.native = Mine.native /\ c.history = Blank /\ c.source = None
  BY DEF Unbound, NewBinding
<1>4. Remembers(c)
  <2>1. Blank.messages \in Seq(Said)
    BY EmptySeq DEF Blank
  <2>. HIDE DEF c
  <2>. QED BY <1>3, <2>1 DEF Remembers
<1>5. OwnStep
  BY <1>1, <1>2, <1>3, <1>4, Here, UntouchedFade, BindsOwn DEF Fades
<1>6. bindings'[turn.session] = c
  BY <1>1, Here, BindShape
<1>. HIDE DEF c
<1>7. Phase'
  BY <1>2, <1>3, <1>6 DEF Phase
<1>. QED BY <1>5, <1>7, OwnStepKeeps DEF FInv

LEMMA LeaveSound == ASSUME IInv, FInv, Leave PROVE FInv'
<1>1. /\ turn.at \in {"leaving", "popped"} /\ turn' = NoTurn
      /\ UNCHANGED <<bindings, natives, client, canonical>>
      /\ turn.at = "popped" => TurnClosed
  BY DEF Leave, At
<1>2. turn'.at = "idle" /\ turn'.messages = <<>>
  BY <1>1 DEF NoTurn
<1>3. ~client.closed => Synced(Mine, natives)
  <2>1. CASE turn.at = "leaving"
    BY <2>1, Here DEF FInv, Rested
  <2>2. CASE turn.at = "popped"
    <3>1. turn.native = Mine.native /\ Mine.history = Blank
      BY <2>2, Here DEF FInv, Phase
    <3>2. Mine.native # None => ~Open(Mine.native)
      BY <1>1, <2>2, <3>1 DEF TurnClosed
    <3>. QED BY <3>1, <3>2 DEF Synced, Open
  <2>. QED BY <1>1, <2>1, <2>2
<1>4. Recorded' /\ Unshared'
  BY <1>1, <1>2, EmptySeq DEF FInv, Recorded, Unshared
<1>5. Rested'
  BY <1>1, <1>2, <1>3, Here DEF FInv, Rested
<1>6. Phase'
  BY <1>2 DEF Phase
<1>. QED BY <1>4, <1>5, <1>6 DEF FInv

LEMMA ClosesSelfSound == ASSUME IInv, FInv, CloseSelf \/ ClosedSelf PROVE FInv'
<1>1. turn.at \in {"failing", "closing"} /\ UNCHANGED <<bindings, natives, canonical>>
  BY DEF CloseSelf, ClosedSelf, At
<1>2. CASE ClosedSelf \/ client.closed
  <2>1. PICK how \in {"error", turn.why} : Ends(how)
    BY <1>2 DEF CloseSelf, ClosedSelf
  <2>2. client' = client /\ client.closed
    BY <1>1, <1>2 DEF CloseSelf, ClosedSelf, At, FInv, Phase
  <2>3. turn'.at = "leaving" /\ turn'.session = turn.session /\ turn'.messages \in Seq(Raw)
    BY <2>1, OverSays, OverShape DEF Ends, TurnFields
  <2>4. OwnStep
    BY <1>1, <2>2, <2>3, Here, UntouchedFade DEF OwnStep, Fades, FInv, Recorded
  <2>. QED BY <2>1, <2>4, EndsSound
<1>3. CASE CloseSelf /\ ~client.closed
  <2>1. turn' = [turn EXCEPT !.at = "closing"] /\ CloseBegins
    BY <1>3 DEF CloseSelf
  <2>2. client'.closed
    BY <1>1, <2>1, Here DEF CloseBegins, TypeOK, ClientFields
  <2>3. turn'.at = "closing" /\ turn'.session = turn.session /\ turn'.messages = turn.messages
    BY <1>1, <2>1, Here DEF TypeOK, TurnFields
  <2>. QED BY <1>1, <2>2, <2>3, Here, UntouchedFade, GivesUp
<1>. QED BY <1>2, <1>3
-----------------------------------------------------------------------------
LEMMA NextSound == ASSUME IInv, FInv, [Next]_vars PROVE FInv'
<1>1. CASE UNCHANGED vars
  BY <1>1, UntouchedFade, FadesKeep DEF vars
<1>2. CASE Prepares
  BY <1>2, RetireStaleSound, RetireUsedSound, ReuseSound, TurnClosesSound, RetireSound,
    LaunchSound, StartSound, EarlySound, BootstrapSound DEF Prepares
<1>3. CASE Hands \/ Waits
  BY <1>3, DeliverSound, FailuresSound, AnswerSound DEF Hands, Waits
<1>4. CASE Finishes
  BY <1>4, UnwindSound, PopSound, LeaveSound, ClosesSelfSound DEF Finishes
<1>5. CASE Turn
  BY <1>2, <1>3, <1>4, <1>5 DEF Turn
<1>. QED BY <1>1, <1>5, AskSound, OthersSound DEF Next, Rests

\* A native that was not launched for a severed binding has been told the whole request
\* that it is asked, once and in order, after the notices are looked up, and offers its
\* tools: for any histories, limits and numbers of requests, whatever is retired,
\* rotated, lost or bounded in between (client.py, create; protocol.py, HistoryTracker).
THEOREM FrameSoundAlways == Spec => []FrameSound
<1>1. Init => IInv /\ FInv
  BY InitKeeps, FInit
<1>2. IInv /\ FInv /\ [Next]_vars => IInv' /\ FInv'
  BY NextKeeps, NextSound
<1>3. IInv /\ FInv => FrameSound
  BY FInvSound
<1>. QED BY <1>1, <1>2, <1>3, PTL DEF Spec
============================================================================
