------------------------------- MODULE Owners -------------------------------
(***************************************************************************)
(* The owners of the HTTP service (api.py): admission of a completion      *)
(* request to the owner of its key, the generation it starts, the          *)
(* retirement of the generation, the release of the owner, the proof that  *)
(* its engine is gone, tombstones against replay, leases and capacity.     *)
(*                                                                         *)
(* The service is one asyncio event loop: what runs between two awaits is  *)
(* one action.  Each task (`_retire`, `_release_owner`, `_run_close`) and   *)
(* each request handler is a program counter that the actions move.  Time  *)
(* is abstract: an idle owner may expire, a bounded join may give up and a *)
(* tombstone may age out at any step.                                      *)
(*                                                                         *)
(* An owner object is named by the request whose admission created it, so  *)
(* that a handler that outlives its owner is told from the next owner of   *)
(* the same key.                                                           *)
(***************************************************************************)
EXTENDS Naturals, FiniteSets, Sequences

CONSTANTS
    Requests,       \* completion requests, each admitted at most once
    Keys,           \* owner keys
    LogicalKeys,    \* keys ("logical", lineage, session), one per conversation
    EphemeralKeys,  \* fresh uuid keys of requests without client or session
    Contents,       \* request bodies without the stream flag
    Leases,         \* X-Hermes-Bridge-Client ids of wrappers of a lineage
    Streams,        \* the values of the stream flag that clients send
    ExplicitSeam,   \* whether engines expose cleanup_confirmed
    Limit,          \* the owner capacity
    MaxTombstones,  \* MAX_TOMBSTONES
    None

ASSUME OwnersAssumption ==
    /\ IsFiniteSet(Requests)
    /\ LogicalKeys \subseteq Keys
    /\ EphemeralKeys \subseteq Keys
    /\ LogicalKeys \cap EphemeralKeys = {}
    /\ Streams \subseteq BOOLEAN
    /\ ExplicitSeam \in BOOLEAN
    /\ Limit \in Nat
    /\ MaxTombstones \in Nat \ {0}
    /\ None \notin Requests \cup (Contents \X BOOLEAN) \cup LogicalKeys

VARIABLES
    items,          \* Owners.items: the owner registered for each key
    owner,          \* the fields of every owner object
    tombstones,     \* Owners.tombstones, oldest first
    req,            \* the handler of each request
    gen,            \* the generation task of each request
    down,           \* whether the application has shut down
    dirty           \* ghost: attempts that may have reached Claude, with their retry key

vars == <<items, owner, tombstones, req, gen, down, dirty>>

Fingerprint == Contents \X BOOLEAN          \* body with its stream flag
\* (lineage, session, body): a conversation is named by its logical key.
RetryKey    == LogicalKeys \X Contents
Attempts    == Requests \X RetryKey

Phases   == {"idle", "pruning", "running", "joining", "closing", "rejoining", "done"}
Verdicts == {"success", "undelivered", "uncertain"}
\* "ended" is any outcome that nobody reads any more.
Outcomes == {"result", "undelivered", "uncertain", "ended"}

OwnerRecord ==
    [key : Keys \cup {None},
     fingerprint : Fingerprint \cup {None}, result : Fingerprint \cup {None},
     conversation : LogicalKeys \cup {None},
     busy : BOOLEAN, failed : BOOLEAN, replayable : BOOLEAN,
     removal : BOOLEAN, orphaned : BOOLEAN, leases : SUBSET Leases,
     task : Requests \cup {None},
     engine : BOOLEAN, live : BOOLEAN,
     closeTask : {"none", "running", "done"}, returned : {"no", "yes", "raised"},
     confirmed : BOOLEAN, capacityReleased : BOOLEAN,
     cleanup : {"none", "started", "completed"}, verdict : Verdicts,
     retire : {"none", "new", "gathering", "closing", "done"},
     release : {"none", "new", "retiring", "gathering", "closing", "done"}]

RequestRecord ==
    [phase : Phases, key : Keys \cup {None}, content : Contents \cup {None},
     conversation : LogicalKeys \cup {None},
     stream : BOOLEAN, leases : SUBSET Leases, own : Requests \cup {None},
     cached : BOOLEAN, verdict : Verdicts, marked : BOOLEAN]

\* Owner(None, ephemeral): registered, without engine.
NewOwner(k) ==
    [key |-> k, fingerprint |-> None, result |-> None, conversation |-> None,
     busy |-> FALSE, failed |-> FALSE, replayable |-> FALSE,
     removal |-> FALSE, orphaned |-> FALSE, leases |-> {}, task |-> None,
     engine |-> FALSE, live |-> FALSE,
     closeTask |-> "none", returned |-> "no",
     confirmed |-> FALSE, capacityReleased |-> FALSE,
     cleanup |-> "none", verdict |-> "uncertain",
     retire |-> "none", release |-> "none"]

\* A handler that has nothing to do: not arrived yet, or answered.
Handled(phase) ==
    [phase |-> phase, key |-> None, content |-> None, conversation |-> None,
     stream |-> FALSE, leases |-> {}, own |-> None, cached |-> FALSE,
     verdict |-> "uncertain", marked |-> FALSE]

Init ==
    /\ items = [k \in Keys |-> None]
    /\ owner = [o \in Requests |-> NewOwner(None)]
    /\ tombstones = <<>>
    /\ req = [r \in Requests |-> Handled("idle")]
    /\ gen = [r \in Requests |-> "none"]
    /\ down = FALSE
    /\ dirty = {}
----------------------------------------------------------------------------
(* Retry keys and tombstones *)

\* The retry key of content c in a conversation, as a set: empty for None.
RetryOf(conversation, c) == IF conversation = None THEN {} ELSE {<<conversation, c>>}

RetryOfOwner(w) ==
    IF w.fingerprint = None THEN {} ELSE RetryOf(w.conversation, w.fingerprint[1])

RetryOfRequest(r) == RetryOf(req[r].conversation, req[r].content)

\* The attempt that request r is, as a set.
Attempt(r) == {r} \X RetryOfRequest(r)

\* The attempts with one of these keys.
AttemptsOf(keys) == {a \in dirty : a[2] \in keys}

Retained(key) == \E i \in 1 .. Len(tombstones) : tombstones[i] = key

Without(key) ==
    IF Retained(key)
    THEN LET i == CHOOSE i \in 1 .. Len(tombstones) : tombstones[i] = key
         IN  SubSeq(tombstones, 1, i - 1) \o SubSeq(tombstones, i + 1, Len(tombstones))
    ELSE tombstones

\* Mutant: the table of tombstones is not bounded.
RememberAll(keys) ==
    /\ tombstones' = IF keys = {} THEN tombstones
                                  ELSE Append(tombstones, CHOOSE key \in keys : TRUE)
    /\ UNCHANGED dirty

\* Mutant: an uncertain attempt is not remembered.
RememberNothing(keys) == UNCHANGED <<tombstones, dirty>>

\* _remember_failure: a full table forgets its oldest entry first.
Remember(keys) ==
    IF keys = {}
    THEN UNCHANGED <<tombstones, dirty>>
    ELSE \E key \in keys :
           IF Len(tombstones) < MaxTombstones
           THEN /\ tombstones' = Append(Without(key), key)
                /\ UNCHANGED dirty
           ELSE /\ tombstones' = IF Head(tombstones) = key
                                 THEN Append(Tail(tombstones), key)
                                 ELSE Append(Tail(Without(key)), key)
                /\ dirty' = dirty \ AttemptsOf({Head(tombstones)} \ {key})

\* _prune_tombstones: the oldest entry is TOMBSTONE_SECONDS old.
Forget ==
    /\ tombstones # <<>>
    /\ tombstones' = Tail(tombstones)
    /\ dirty' = dirty \ AttemptsOf({Head(tombstones)})
    /\ UNCHANGED <<items, owner, req, gen, down>>
----------------------------------------------------------------------------
(* Owners as records *)

Registered == {o \in Requests : \E k \in Keys : items[k] = o}

\* Mutant: owners on their way out are not counted.
CapacityStaying(own) ==
    Cardinality({o \in Registered : ~own[o].capacityReleased /\ ~own[o].removal})

\* _capacity_used
CapacityUsed(own) == Cardinality({o \in Registered : ~own[o].capacityReleased})

\* _cleanup_proof: an explicit marker, set once the native processes are dead.
Proof(w) == ExplicitSeam /\ ~w.live

\* Mutant: the release of a busy owner is put off.
ReleasedLater(w) ==
    [w EXCEPT !.removal = TRUE, !.busy = TRUE,
              !.release = IF @ = "none" /\ ~w.busy THEN "new" ELSE @]

\* _start_release
Released(w) ==
    [w EXCEPT !.removal = TRUE, !.busy = TRUE,
              !.release = IF @ = "none" THEN "new" ELSE @]

\* The start of _close: without an engine there is nothing left to prove.
Closing(w) ==
    IF ~w.engine
    THEN [w EXCEPT !.confirmed = TRUE, !.capacityReleased = TRUE]
    ELSE [w EXCEPT !.closeTask = IF @ = "none" THEN "running" ELSE @]

\* Unbounded _close returns when its task ended, or had nothing to do.
Closed(w) == w.closeTask # "running"

\* The first call of finish for a generation starts its retirement.
Finishing(w, verdict) ==
    IF w.cleanup # "none" THEN w
    ELSE [w EXCEPT !.cleanup = "started", !.retire = "new", !.verdict = verdict]

\* Mutant: the owner is forgotten whatever became of its engine.
PopAlways(condition, o) ==
    items' = IF items[owner[o].key] = o THEN [items EXCEPT ![owner[o].key] = None] ELSE items

\* items.pop(key) if it is still this owner.
PopIf(condition, o) ==
    items' = IF condition /\ items[owner[o].key] = o
             THEN [items EXCEPT ![owner[o].key] = None]
             ELSE items

\* What later steps can read of an owner that was forgotten: a handler that
\* still holds it may yet retire it.  The rest is cleared, or kept while the
\* owner stays registered.
Left(condition, w) ==
    IF condition /\ w.release \in {"none", "done"}
    THEN [NewOwner(w.key) EXCEPT !.fingerprint = w.fingerprint,
                                 !.conversation = w.conversation,
                                 !.engine = w.engine, !.live = w.live,
                                 !.retire = w.retire, !.cleanup = w.cleanup]
    ELSE w

\* Mutant: the generation is not cancelled.
CancelNothing(r) == UNCHANGED gen

\* generation.cancel(); the handler that awaits it takes this for a failure
\* that may have reached Claude.
Cancel(r) ==
    gen' = IF r # None /\ gen[r] = "running"
           THEN [gen EXCEPT ![r] = IF req[r].phase = "running" THEN "uncertain" ELSE "ended"]
           ELSE gen
----------------------------------------------------------------------------
(* Admission: POST /v1/chat/completions up to its first suspension *)

Idle(w) == ~w.busy /\ ~w.removal

\* Mutant: prune forgets the orphan mark of an owner.
PrunedForgets(expired) ==
    [o \in Requests |->
       LET w == [owner[o] EXCEPT !.orphaned = FALSE]
       IN  IF o \notin Registered \/ ~Idle(owner[o]) THEN owner[o]
           ELSE IF o \in expired THEN Released(w) ELSE w]

\* Mutant: prune only looks at the age of an owner.
PrunedByAge(expired) ==
    [o \in Requests |->
       IF o \in Registered /\ Idle(owner[o]) /\ o \in expired
       THEN Released(owner[o]) ELSE owner[o]]

\* prune, when the owners in `expired` have been idle for OWNER_IDLE_SECONDS.
Pruned(expired) ==
    [o \in Requests |->
       LET w == [owner[o] EXCEPT !.orphaned = @ /\ owner[o].leases = {}]
       IN  IF o \notin Registered \/ ~Idle(owner[o]) THEN owner[o]
           ELSE IF w.orphaned \/ o \in expired THEN Released(w) ELSE w]

\* Mutant: a busy owner is not refused.
EngagedElsewhere(w) ==
    \/ w.removal
    \/ w.closeTask # "none" /\ ~w.confirmed
    \/ w.release \notin {"none", "done"}
    \/ w.cleanup = "started"

\* Reasons for 409: somebody else uses the owner or tears it down.
Engaged(w) ==
    \/ w.busy
    \/ w.removal
    \/ w.closeTask # "none" /\ ~w.confirmed
    \/ w.release \notin {"none", "done"}
    \/ w.cleanup = "started"

\* Mutant: the result of the last generation stays.
RestartedKeepsResult(w, fingerprint, conversation) ==
    [w EXCEPT !.engine = TRUE, !.live = @ \/ ~w.engine,
              !.closeTask = "none", !.returned = "no",
              !.confirmed = FALSE, !.capacityReleased = FALSE,
              !.retire = "none", !.cleanup = "none", !.busy = TRUE,
              !.fingerprint = fingerprint, !.conversation = conversation,
              !.failed = FALSE, !.replayable = FALSE]

\* A generation starts on the owner: every flag of the last one is reset.
Restarted(w, fingerprint, conversation) ==
    [w EXCEPT !.engine = TRUE, !.live = @ \/ ~w.engine,
              !.closeTask = "none", !.returned = "no",
              !.confirmed = FALSE, !.capacityReleased = FALSE,
              !.retire = "none", !.cleanup = "none", !.busy = TRUE,
              !.fingerprint = fingerprint, !.conversation = conversation,
              !.result = None, !.failed = FALSE, !.replayable = FALSE]

Refuse(r, own) ==
    /\ req' = [req EXCEPT ![r] = Handled("done")]
    /\ owner' = own
    /\ UNCHANGED <<items, gen, dirty>>

\* admit and the rest of the handler until it waits: `own` are the owners
\* after prune, `record` the request.  Every case but a start is a refusal or
\* the replay of a finished result.
Admit(r, record, own) ==
    LET k == record.key
        o == items[k]
        fingerprint == <<record.content, record.stream>>
        retry == RetryOf(record.conversation, record.content)
        touched == [own EXCEPT ![o].leases = @ \cup record.leases]
        same == own[o].fingerprint = fingerprint
        full == CapacityUsed(own) >= Limit
        Start(id, w) ==
            /\ owner' = [own EXCEPT ![id] =
                  [Restarted(w, fingerprint, record.conversation) EXCEPT !.task = r]]
            /\ req' = [req EXCEPT ![r] = [record EXCEPT !.phase = "running", !.own = id]]
            /\ gen' = [gen EXCEPT ![r] = "running"]
            /\ dirty' = dirty \cup ({r} \X retry)
    IN
    \/ /\ \E key \in retry : Retained(key)                         \* 502
       /\ Refuse(r, own)
    \/ /\ \A key \in retry : ~Retained(key)
       /\ \/ /\ o = None
             /\ Refuse(r, own)                              \* 429 or 503
          \/ /\ o = None /\ ~full
             /\ Start(r, [NewOwner(k) EXCEPT !.leases = record.leases])
             /\ items' = [items EXCEPT ![k] = r]
          \/ /\ o # None /\ Engaged(own[o])                         \* 409
             /\ Refuse(r, own)
          \/ /\ o # None /\ ~Engaged(own[o])
             /\ same /\ own[o].failed /\ ~own[o].replayable         \* 502
             /\ Refuse(r, touched)
          \/ /\ o # None /\ ~Engaged(own[o])
             /\ same /\ own[o].result # None                        \* replay
             /\ owner' = [touched EXCEPT ![o].retire = "none", ![o].cleanup = "none",
                                         ![o].busy = record.stream]
             /\ req' = [req EXCEPT ![r] =
                   IF record.stream
                   THEN [record EXCEPT !.phase = "running", !.own = o, !.cached = TRUE]
                   ELSE Handled("done")]
             /\ UNCHANGED <<items, gen, dirty>>
          \/ /\ o # None /\ ~Engaged(own[o])
             /\ same => own[o].result = None /\ (own[o].failed => own[o].replayable)
             /\ \/ /\ \/ own[o].capacityReleased /\ full            \* 429
                      \/ ~own[o].engine                             \* 503
                   /\ Refuse(r, touched)
                \/ /\ ~(own[o].capacityReleased /\ full)
                   /\ Start(o, touched[o])
                   /\ UNCHANGED items

\* The request arrives and prunes; it waits only for releases it started.
Receive(r, record, expired) ==
    /\ ~down
    /\ req[r].phase = "idle"
    /\ record.key \in EphemeralKeys => items[record.key] = None
    /\ LET own == Pruned(expired)
       IN  IF \A o \in Requests : own[o].release = owner[o].release
           THEN Admit(r, record, own)
           ELSE /\ owner' = own
                /\ req' = [req EXCEPT ![r] = record]
                /\ UNCHANGED <<items, gen, dirty>>
    /\ UNCHANGED <<tombstones, down>>

\* The bounded wait for those releases ends.
AdmitAfterPrune(r) ==
    /\ ~down
    /\ req[r].phase = "pruning"
    /\ Admit(r, req[r], owner)
    /\ UNCHANGED <<tombstones, down>>
----------------------------------------------------------------------------
(* The generation and its handler *)

\* invoke(): the engine returned, refused before delivery, or failed otherwise.
\* Nobody reads the outcome once the handler is gone.
GenerationEnds(r, outcome) ==
    /\ gen[r] = "running"
    /\ req[r].phase = "running" <=> outcome # "ended"
    /\ gen' = [gen EXCEPT ![r] = outcome]
    /\ UNCHANGED <<items, owner, tombstones, req, down, dirty>>

\* The handler leaves its try block with this verdict; its first cleanup begins.
Finish(r, verdict, w) ==
    /\ owner' = [owner EXCEPT ![req[r].own] = Finishing(w, verdict)]
    /\ req' = [req EXCEPT ![r].phase = "joining", ![r].verdict = verdict]
    /\ gen' = IF gen[r] \in {"none", "running"} THEN gen ELSE [gen EXCEPT ![r] = "ended"]
    /\ UNCHANGED <<items, tombstones, down>>

Succeed(r) ==
    /\ req[r].phase = "running"
    /\ req[r].cached \/ gen[r] = "result"
    /\ LET w == owner[req[r].own]
       IN  Finish(r, "success",
                  IF req[r].cached THEN w
                  ELSE [w EXCEPT !.result = <<req[r].content, req[r].stream>>])
    /\ dirty' = IF req[r].cached THEN dirty ELSE dirty \ Attempt(r)

\* The generation failed or was cancelled.
Fail(r) ==
    /\ req[r].phase = "running"
    /\ gen[r] \in {"undelivered", "uncertain"}
    /\ Finish(r, gen[r], owner[req[r].own])
    /\ dirty' = IF gen[r] = "undelivered" THEN dirty \ Attempt(r) ELSE dirty

\* Disconnected, out of time, cancelled, or the streamed text diverged.
Abandon(r) ==
    /\ req[r].phase = "running"
    /\ Finish(r, "uncertain", owner[req[r].own])
    /\ UNCHANGED dirty

\* The bounded join of finish ends: the retirement is over, or time is up; the
\* event loop has begun the retirement by then.  A streaming handler then notes
\* whether the cleanup of its owner is complete.
JoinEnds(r) ==
    /\ req[r].phase \in {"joining", "rejoining"}
    /\ LET w == owner[req[r].own]
       IN  /\ w.task = r => w.retire # "new"
           /\ owner' = IF w.retire \notin {"none", "done"} /\ w.engine /\ Proof(w)
                       THEN [owner EXCEPT ![req[r].own].capacityReleased = TRUE]
                       ELSE owner
           /\ req' = [req EXCEPT
                 ![r] = IF @.stream /\ @.phase = "joining"
                        THEN [@ EXCEPT !.phase = "closing",
                                       !.marked = w.cleanup = "completed"]
                        ELSE Handled("done")]
    /\ UNCHANGED <<items, tombstones, gen, down, dirty>>

\* _ClosingStreamingResponse calls cleanup once more after the body.
CleanUpAgain(r) ==
    /\ req[r].phase = "closing"
    /\ IF req[r].marked
       THEN /\ req' = [req EXCEPT ![r] = Handled("done")]
            /\ UNCHANGED owner
       ELSE /\ req' = [req EXCEPT ![r].phase = "rejoining"]
            /\ owner' = [owner EXCEPT ![req[r].own] = Finishing(@, req[r].verdict)]
    /\ UNCHANGED <<items, tombstones, gen, down, dirty>>
----------------------------------------------------------------------------
(* The retirement task of a generation: _retire *)

\* Mutant: the end of a retirement leaves the owner busy.
RetireDoneBusy(w) ==
    [w EXCEPT !.task = None, !.verdict = "uncertain",
              !.cleanup = "completed", !.retire = "done"]

\* The finally clause of _retire.
RetireDone(w) ==
    [w EXCEPT !.busy = FALSE, !.task = None, !.verdict = "uncertain",
              !.cleanup = "completed", !.retire = "done"]

Ephemeral(o) == owner[o].key \in EphemeralKeys

\* A success leaves the engine alone, unless the owner is ephemeral.
RetireSuccess(o) ==
    /\ owner[o].retire = "new" /\ owner[o].verdict = "success"
    /\ owner' = [owner EXCEPT ![o] =
          IF Ephemeral(o) THEN [Closing(@) EXCEPT !.removal = TRUE, !.retire = "closing"]
                          ELSE RetireDone(@)]
    /\ UNCHANGED <<items, tombstones, req, gen, down, dirty>>

\* A failure drops the result, remembers an uncertain attempt and cancels.
RetireFailure(o) ==
    /\ owner[o].retire = "new" /\ owner[o].verdict # "success"
    /\ owner' = [owner EXCEPT ![o] =
          [@ EXCEPT !.failed = TRUE, !.result = None,
                    !.replayable = owner[o].verdict = "undelivered",
                    !.retire = "gathering"]]
    /\ Remember(IF owner[o].verdict = "uncertain" THEN RetryOfOwner(owner[o]) ELSE {})
    /\ Cancel(owner[o].task)
    /\ UNCHANGED <<items, req, down>>

RetireClose(o) ==
    /\ owner[o].retire = "gathering"
    /\ owner' = [owner EXCEPT ![o] = [Closing(@) EXCEPT !.retire = "closing"]]
    /\ UNCHANGED <<items, tombstones, req, gen, down, dirty>>

RetireEnds(o) ==
    /\ owner[o].retire = "closing"
    /\ Closed(owner[o])
    /\ LET w == RetireDone(owner[o])
           gone == Ephemeral(o) /\ w.confirmed
       IN  /\ owner' = [owner EXCEPT ![o] =
                 Left(gone, [w EXCEPT !.removal = w.removal \/ Ephemeral(o)])]
           /\ PopIf(gone, o)
    /\ UNCHANGED <<tombstones, req, gen, down, dirty>>
----------------------------------------------------------------------------
(* The release task of an owner: _release_owner *)

\* An owner in use without a result is remembered as failed.
ReleaseStarts(o) ==
    /\ owner[o].release = "new"
    /\ LET lost == owner[o].busy /\ owner[o].result = None
       IN  /\ owner' = [owner EXCEPT ![o].failed = @ \/ lost, ![o].release = "retiring"]
           /\ Remember(IF lost THEN RetryOfOwner(owner[o]) ELSE {})
    /\ UNCHANGED <<items, req, gen, down>>

\* The retirement is over, or there is none.
ReleaseCancels(o) ==
    /\ owner[o].release = "retiring"
    /\ owner[o].retire \in {"none", "done"}
    /\ Cancel(owner[o].task)
    /\ owner' = [owner EXCEPT ![o] =
          IF owner[o].task = None THEN [Closing(@) EXCEPT !.release = "closing"]
                                  ELSE [@ EXCEPT !.release = "gathering"]]
    /\ UNCHANGED <<items, tombstones, req, down, dirty>>

ReleaseCloses(o) ==
    /\ owner[o].release = "gathering"
    /\ owner' = [owner EXCEPT ![o] = [Closing(@) EXCEPT !.release = "closing"]]
    /\ UNCHANGED <<items, tombstones, req, gen, down, dirty>>

\* The owner is only forgotten when its teardown is proven.
ReleaseEnds(o) ==
    /\ owner[o].release = "closing"
    /\ Closed(owner[o])
    /\ owner' = [owner EXCEPT ![o] = Left(@.confirmed, [@ EXCEPT !.release = "done"])]
    /\ PopIf(owner[o].confirmed, o)
    /\ UNCHANGED <<tombstones, req, gen, down, dirty>>
----------------------------------------------------------------------------
(* The close thread of an engine and the task that watches it: _run_close *)

\* The native processes of the engine die.
EngineDies(o) ==
    /\ owner[o].closeTask = "running"
    /\ owner[o].live
    /\ owner' = [owner EXCEPT ![o].live = FALSE]
    /\ UNCHANGED <<items, tombstones, req, gen, down, dirty>>

\* engine.close() returns or raises.  An engine without the explicit seam
\* returns only after its processes are gone; with the seam nobody asks how
\* close() ended.
CloseReturns(o, how) ==
    /\ owner[o].closeTask = "running"
    /\ owner[o].returned = "no"
    /\ IF how = "yes" THEN ExplicitSeam \/ ~owner[o].live ELSE ~ExplicitSeam
    /\ owner' = [owner EXCEPT ![o].returned = how]
    /\ UNCHANGED <<items, tombstones, req, gen, down, dirty>>

\* While close() hangs, an explicit proof already frees the capacity; so it
\* does at the end of a bounded wait for a release.
CloseWatches(o) ==
    /\ owner[o].closeTask = "running"
    /\ Proof(owner[o])
    /\ owner' = [owner EXCEPT ![o].capacityReleased = TRUE]
    /\ UNCHANGED <<items, tombstones, req, gen, down, dirty>>

\* The engine is gone: proven, or close() of an engine without seam returned.
Gone(w) == Proof(w) \/ (w.returned = "yes" /\ ~ExplicitSeam)

CloseConfirms(o) ==
    /\ owner[o].closeTask = "running"
    /\ owner[o].returned # "no"
    /\ Gone(owner[o])
    /\ owner' = [owner EXCEPT ![o] =
          [@ EXCEPT !.closeTask = "done", !.confirmed = TRUE,
                    !.engine = FALSE, !.capacityReleased = TRUE]]
    /\ UNCHANGED <<items, tombstones, req, gen, down, dirty>>

\* close() raised and the engine has no seam to ask again.
CloseGivesUp(o) ==
    /\ owner[o].closeTask = "running"
    /\ owner[o].returned = "raised" /\ ~ExplicitSeam
    /\ owner' = [owner EXCEPT ![o].closeTask = "done"]
    /\ UNCHANGED <<items, tombstones, req, gen, down, dirty>>
----------------------------------------------------------------------------
(* Releases: close, leases, the reaper and shutdown *)

\* POST /v1/owner/close of a client without a lineage.
CloseOwner(k) ==
    /\ k \notin LogicalKeys \cup EphemeralKeys
    /\ items[k] # None
    /\ owner' = [owner EXCEPT ![items[k]] = Released(@)]
    /\ UNCHANGED <<items, tombstones, req, gen, down, dirty>>

\* POST /v1/owner/close of one wrapper: the last lease releases the owner.
CloseLease(lease) ==
    /\ \E o \in Registered : lease \in owner[o].leases
    /\ owner' = [o \in Requests |->
          LET w == [owner[o] EXCEPT !.leases = @ \ {lease}]
          IN  IF o \notin Registered \/ lease \notin owner[o].leases THEN owner[o]
              ELSE IF w.leases = {} /\ ~w.removal THEN Released(w) ELSE w]
    /\ UNCHANGED <<items, tombstones, req, gen, down, dirty>>

\* release_leases: the process that held these leases exited.  A busy owner
\* only loses its leases now; prune releases it later.
ProcessExits(dead) ==
    LET Named(o) == owner[o].key \in dead
        Hit(o) == /\ o \in Registered
                  /\ ~owner[o].removal
                  /\ Named(o) \/ owner[o].leases \cap dead # {}
    IN  /\ \E o \in Requests : Hit(o)
        /\ owner' = [o \in Requests |->
              LET w == [owner[o] EXCEPT !.leases = IF Named(o) THEN {} ELSE @ \ dead]
              IN  IF ~Hit(o) THEN owner[o]
                  ELSE IF w.leases # {} THEN w
                  ELSE IF w.busy THEN [w EXCEPT !.orphaned = TRUE]
                  ELSE Released(w)]
        /\ UNCHANGED <<items, tombstones, req, gen, down, dirty>>

\* The reaper prunes every 30 seconds.
Reap(expired) ==
    /\ ~down
    /\ owner' = Pruned(expired)
    /\ UNCHANGED <<items, tombstones, req, gen, down, dirty>>

\* Owners.shutdown at the end of the application's life.
Shutdown ==
    /\ ~down
    /\ down' = TRUE
    /\ owner' = [o \in Requests |-> IF o \in Registered THEN Released(owner[o]) ELSE owner[o]]
    /\ UNCHANGED <<items, tombstones, req, gen, dirty>>
----------------------------------------------------------------------------
\* A logical request names its conversation by its key and brings a lease. An
\* ephemeral one, without client header or session, may still name a lineage and a
\* session; a plain one has no lineage.
Inputs ==
    {record \in
        [phase : {"pruning"}, key : Keys, content : Contents,
         conversation : LogicalKeys \cup {None}, stream : Streams,
         leases : SUBSET Leases, own : {None}, cached : {FALSE},
         verdict : {"uncertain"}, marked : {FALSE}] :
        /\ record.leases # {} <=> record.key \in LogicalKeys
        /\ record.key \in LogicalKeys => record.conversation = record.key
        /\ record.conversation # None => record.key \in LogicalKeys \cup EphemeralKeys}

Expired == SUBSET {o \in Registered : Idle(owner[o])}

Clients ==
    \/ \E r \in Requests, record \in Inputs, e \in Expired : Receive(r, record, e)
    \/ \E r \in Requests : Abandon(r)
    \/ \E k \in Keys : CloseOwner(k)
    \/ \E lease \in Leases : CloseLease(lease)
    \/ \E dead \in (SUBSET (Leases \cup (Keys \ LogicalKeys))) \ {{}} : ProcessExits(dead)

Handler(r) ==
    \/ AdmitAfterPrune(r)
    \/ Succeed(r)
    \/ Fail(r)
    \/ JoinEnds(r)
    \/ CleanUpAgain(r)

Generation(r) == \E outcome \in Outcomes : GenerationEnds(r, outcome)

RetireTask(o) ==
    RetireSuccess(o) \/ RetireFailure(o) \/ RetireClose(o) \/ RetireEnds(o)

ReleaseTask(o) ==
    ReleaseStarts(o) \/ ReleaseCancels(o) \/ ReleaseCloses(o) \/ ReleaseEnds(o)

CloseThread(o) == EngineDies(o) \/ \E how \in {"yes", "raised"} : CloseReturns(o, how)

CloseTask(o) == CloseWatches(o) \/ CloseConfirms(o) \/ CloseGivesUp(o)

Reaper == \E e \in Expired : Reap(e)

Next ==
    \/ Clients
    \/ \E r \in Requests : Handler(r) \/ Generation(r)
    \/ \E o \in Requests : RetireTask(o) \/ ReleaseTask(o) \/ CloseThread(o) \/ CloseTask(o)
    \/ Reaper
    \/ Forget
    \/ Shutdown

Spec == Init /\ [][Next]_vars

\* Tasks of the event loop run; a close thread kills the processes of its
\* engine and returns; generations end (the request deadline sees to it); the
\* reaper wakes up.  Nothing obliges clients, processes or clocks.
Fairness ==
    /\ \A r \in Requests : WF_vars(Handler(r)) /\ WF_vars(Generation(r))
    /\ \A o \in Requests :
         /\ WF_vars(RetireTask(o))
         /\ WF_vars(ReleaseTask(o))
         /\ WF_vars(EngineDies(o))
         /\ WF_vars(\E how \in {"yes", "raised"} : CloseReturns(o, how))
         /\ WF_vars(CloseConfirms(o))
    /\ WF_vars(Reap({}))

FairSpec == Spec /\ Fairness
----------------------------------------------------------------------------
(* Properties *)

\* Every field keeps the values its dataclass gives it.
TypeOK ==
    /\ items \in [Keys -> Requests \cup {None}]
    /\ owner \in [Requests -> OwnerRecord]
    /\ tombstones \in Seq(RetryKey) /\ Len(tombstones) <= MaxTombstones
    /\ req \in [Requests -> RequestRecord]
    /\ gen \in [Requests -> Outcomes \cup {"none", "running"}]
    /\ down \in BOOLEAN
    /\ dirty \in SUBSET Attempts

\* An engine that may still own native processes belongs to a registered
\* owner whose capacity is not given away: an owner is forgotten, and its slot
\* reused, only after the proof that its processes are gone.
LiveIsAccounted ==
    \A o \in Requests : owner[o].live => o \in Registered /\ ~owner[o].capacityReleased

\* However retirements, releases, hung closes, failures of the factory and new
\* requests interleave, at most Limit engines may own native processes.
CapacityBound == Cardinality({o \in Requests : owner[o].live}) <= Limit

\* "Owner already has an active request; no inference started" (settings.py:16):
\* while a generation of an owner runs, the owner is busy with exactly that one.
OneActiveRequest ==
    \A r \in Requests :
        gen[r] = "running" => \E o \in Requests : owner[o].busy /\ owner[o].task = r

\* A stored result answers the fingerprint it is stored under, so the replay of
\* a cached result is never the answer of another request.
ResultMatchesFingerprint ==
    \A o \in Registered : owner[o].result \in {None, owner[o].fingerprint}

\* No engine is closed under a generation that was not cancelled first.
NoCloseUnderGeneration ==
    \A o \in Requests :
        owner[o].task # None /\ gen[owner[o].task] = "running" =>
            owner[o].closeTask = "none"

\* A logical owner that no wrapper references is on its way out: it is being
\* released, or marked so that the next prune releases it.
UnleasedIsLeaving ==
    \A o \in Registered :
        owner[o].key \in LogicalKeys /\ owner[o].leases = {} =>
            owner[o].removal \/ owner[o].orphaned

\* An attempt that may have reached Claude and gave no result is not started again
\* once its client was answered, while its tombstone is kept, whichever wrapper, owner
\* object or stream flag the identical request comes with (api.py:795).  Before that,
\* only a request of an ephemeral owner can run beside it: those share no owner.
NeverReplayed ==
    [][\A r \in Requests :
         gen[r] = "none" /\ gen'[r] = "running" =>
            \A a \in dirty :
               a[2] \in RetryOf(req'[r].conversation, req'[r].content) =>
                  /\ req[a[1]].phase \in {"running", "joining"}
                  /\ \E s \in {a[1], r} : req'[s].key \in EphemeralKeys]_vars

\* "The last failure proved the native never accepted the request, so an
\* identical retry is admitted" (api.py:584): only attempts that may have
\* reached Claude are refused later.
TombstoneJustified ==
    \A i \in 1 .. Len(tombstones) : \E a \in dirty : a[2] = tombstones[i]

\* The release of an owner ends: it waits for its retirement, the retirement
\* for the close and the close for a proof, and none of them waits in a circle.
ReleaseCompletes ==
    \A o \in Requests : (o \in Registered /\ owner[o].removal) ~> (o \notin Registered)

\* Every request gives its owner back, whether it ends, fails or is abandoned.
OwnerSettles ==
    \A o \in Requests : (o \in Registered /\ owner[o].busy) ~>
                            (o \notin Registered \/ ~owner[o].busy)

\* The notice that a process exited arrives once; the busy owner it left behind
\* is still released, unless a live wrapper claims it before.
OrphanIsReleased ==
    \A o \in Requests : (o \in Registered /\ owner[o].orphaned) ~>
                            (o \notin Registered \/ ~owner[o].orphaned)
=============================================================================
