------------------------------ MODULE Channel ------------------------------
(***************************************************************************)
(* The Node side of the bridge: the rendezvous object `Bridge`             *)
(* (channel/protocol.mjs), the long poll of its HTTP server                *)
(* (channel/http.mjs) and the life cycle of its MCP server                 *)
(* (channel/server.mjs).                                                   *)
(*                                                                         *)
(* The Python client posts a request (/advance), Claude answers it with    *)
(* ordinary text (/text-complete, sent by the client when the stop hook    *)
(* fired) or with an MCP call of the `respond` tool, which stays pending   *)
(* until the client acknowledges the decision with the next request.  Every*)
(* handler runs to completion between two awaits of one event loop, so one *)
(* handler is one action; the single await inside a handler that changes   *)
(* state, the one on the first notification of /advance, is split.         *)
(***************************************************************************)
EXTENDS Naturals, FiniteSets

CONSTANTS
    Requests,       \* request ids the client may send
    Calls,          \* MCP `respond` calls, each one a JSON-RPC request
    Pollers,        \* HTTP connections that may hold a GET /response
    Prompts,        \* native prompt ids named by a wake
    Tools,          \* tool names
    None,           \* JavaScript null
    MaxRequests,    \* MAX_REQUESTS
    MaxWaiters,     \* MAX_WAITERS
    MaxGeneration   \* MAX_WAKE_GENERATION

Reasons == {"session_request_limit", "native_cancelled", "notification_failed",
            "native_transport_error", "http_internal_error", "stopped"}

Frames == (SUBSET Tools) \cup {None}  \* the tools of a bootstrap, None: continue

Proposals == [kind : {"tool_calls"}, tools : (SUBSET Tools) \ {{}}]
                \cup [kind : {"final"}, tools : {{}}]

Decision == [sequence : Nat, request : Requests,
             kind : {"tool_calls", "final"}, tools : SUBSET Tools]

HeldCall == [sequence : Nat, call : Calls]

Waiter == [poller : Pollers, after : Nat, wakeAfter : 0 .. MaxGeneration]

ASSUME ChannelAssumption ==
    /\ IsFiniteSet(Requests)
    /\ IsFiniteSet(Pollers)
    /\ MaxRequests \in Nat
    /\ MaxWaiters \in Nat
    /\ MaxGeneration \in Nat
    /\ None \notin Requests \cup Calls \cup Prompts \cup Reasons
    /\ None \notin Decision
    /\ None \notin HeldCall

VARIABLES
    sequence,       \* number of decisions published so far
    current,        \* the request Claude is working on
    held,           \* the pending `respond` call and its sequence
    latest,         \* the decision not acknowledged yet
    failed,         \* the sticky failure reason
    seen,           \* request ids accepted so far
    wakeGeneration, \* newest wake generation of the current request
    wakePrompt,     \* the prompt the wakes of the current request name
    latestWake,     \* generation of the undelivered wake, 0 for null
    allowedTools,   \* the allow-list of the last bootstrap frame
    waiters,        \* registered long polls
    calls,          \* what became of each MCP call
    listening,      \* calls whose abort signal still has our listener
    notifying,      \* requests whose channel notification is awaited
    server          \* life cycle of the MCP server process

bridge == <<sequence, current, held, latest, failed, seen, wakeGeneration,
            wakePrompt, latestWake, allowedTools>>
mcp    == <<calls, listening>>
vars   == <<bridge, mcp, waiters, notifying, server>>

Init ==
    /\ sequence = 0
    /\ current = None
    /\ held = None
    /\ latest = None
    /\ failed = None
    /\ seen = {}
    /\ wakeGeneration = 0
    /\ wakePrompt = None
    /\ latestWake = 0
    /\ allowedTools = None
    /\ waiters = {}
    /\ calls = [c \in Calls |-> "idle"]
    /\ listening = {}
    /\ notifying = {}
    /\ server = "starting"

Healthy == failed = None

(***************************************************************************)
(* What ends the long poll w in a state with these values of the bridge.   *)
(* A poll without wake_after is one whose wakeAfter is MaxGeneration: no   *)
(* generation is larger.                                                   *)
(***************************************************************************)
Answers(w, reason, decision, wake) ==
    \/ reason # None
    \/ decision # None /\ decision.sequence > w.after
    \/ wake > w.wakeAfter

\* emit('change'): every registered poll looks at the state the step leaves.
EmitChange ==
    waiters' = {w \in waiters : ~Answers(w, failed', latest', latestWake')}

\* Mutant: the call is left pending.
SettleSilently(outcome) ==
    /\ UNCHANGED calls
    /\ listening' = IF held = None THEN listening ELSE listening \ {held.call}

\* held.cleanup() and the end of the held call.
Settle(outcome) ==
    /\ calls' = IF held = None THEN calls ELSE [calls EXCEPT ![held.call] = outcome]
    /\ listening' = IF held = None THEN listening ELSE listening \ {held.call}

\* Bridge.fail when nothing failed before.
Fail(reason) ==
    /\ failed' = reason
    /\ held' = None
    /\ current' = None
    /\ latest' = None
    /\ latestWake' = 0
    /\ Settle("rejected")
    /\ EmitChange
    /\ UNCHANGED <<sequence, seen, wakeGeneration, wakePrompt, allowedTools>>

\* Bridge.fail: only the first reason counts.
FailOnce(reason) ==
    \/ Healthy /\ Fail(reason)
    \/ ~Healthy /\ UNCHANGED <<bridge, mcp, waiters>>

Serving == server = "ready"

----------------------------------------------------------------------------
(* POST /advance *)

\* The acknowledgement names the decision nobody acknowledged yet.
AckMatches(ack) ==
    IF latest # None THEN ack = latest.sequence
                     ELSE sequence = 0 /\ ack = None

\* Mutant: a request is accepted while another one is in flight.
MayAdvanceBusy(r, ack) == Serving /\ Healthy /\ AckMatches(ack) /\ r \notin seen

\* Mutant: a request id is accepted twice.
MayAdvanceAgain(r, ack) == Serving /\ Healthy /\ current = None /\ AckMatches(ack)

\* Mutant: a failed session accepts requests.
MayAdvanceFailed(r, ack) == Serving /\ current = None /\ AckMatches(ack) /\ r \notin seen

MayAdvance(r, ack) ==
    /\ Serving
    /\ Healthy
    /\ current = None
    /\ AckMatches(ack)
    /\ r \notin seen

Advance(r, ack, frame) ==
    /\ MayAdvance(r, ack)
    /\ Cardinality(seen) < MaxRequests
    /\ allowedTools' = IF frame = None THEN allowedTools ELSE frame
    /\ held' = None
    /\ latest' = None
    /\ current' = r
    /\ wakeGeneration' = 0
    /\ wakePrompt' = None
    /\ latestWake' = 0
    /\ seen' = seen \cup {r}
    /\ Settle("resumed")
    /\ notifying' = IF held = None THEN notifying \cup {r} ELSE notifying
    /\ UNCHANGED <<sequence, failed, waiters, server>>

\* A fresh request beyond the budget of the process breaks the session.
AdvanceBeyondBudget(r, ack) ==
    /\ MayAdvance(r, ack)
    /\ Cardinality(seen) >= MaxRequests
    /\ Fail("session_request_limit")
    /\ UNCHANGED <<notifying, server>>

\* The await on mcp.notification of an initial request ends.
NotificationSent(r) ==
    /\ r \in notifying
    /\ notifying' = notifying \ {r}
    /\ UNCHANGED <<bridge, mcp, waiters, server>>

NotificationFailed(r) ==
    /\ r \in notifying
    /\ notifying' = notifying \ {r}
    /\ FailOnce("notification_failed")
    /\ UNCHANGED server
----------------------------------------------------------------------------
(* Decisions: POST /text-complete and the MCP tool `respond` *)

\* Mutant: the answer need not name the request in flight.
MayDecideAny(r) == Healthy /\ held = None /\ current # None

MayDecide(r) == Healthy /\ held = None /\ current # None /\ r = current

\* Mutant: the decision names the request after it was cleared.
PublishCleared(r, proposal) ==
    /\ sequence' = sequence + 1
    /\ current' = None
    /\ latestWake' = 0
    /\ latest' = [sequence |-> sequence + 1, request |-> current',
                  kind |-> proposal.kind, tools |-> proposal.tools]
    /\ UNCHANGED <<failed, seen, wakeGeneration, wakePrompt, allowedTools>>
    /\ EmitChange

Publish(r, proposal) ==
    /\ sequence' = sequence + 1
    /\ current' = None
    /\ latestWake' = 0
    /\ latest' = [sequence |-> sequence + 1, request |-> r,
                  kind |-> proposal.kind, tools |-> proposal.tools]
    /\ UNCHANGED <<failed, seen, wakeGeneration, wakePrompt, allowedTools>>
    /\ EmitChange

CompleteText(r) ==
    /\ Serving
    /\ MayDecide(r)
    /\ Publish(r, [kind |-> "final", tools |-> {}])
    /\ UNCHANGED <<held, mcp, notifying, server>>

\* Mutant: tool names are not checked.
AnyTools(proposal) == TRUE

\* A proposal that names an unknown tool is refused and changes nothing.
KnownTools(proposal) ==
    allowedTools # None => proposal.tools \subseteq allowedTools

Respond(c, r, proposal) ==
    /\ calls[c] = "idle"
    /\ MayDecide(r)
    /\ KnownTools(proposal)
    /\ Publish(r, proposal)
    /\ held' = [sequence |-> sequence + 1, call |-> c]
    /\ calls' = [calls EXCEPT ![c] = "pending"]
    /\ listening' = listening \cup {c}
    /\ UNCHANGED <<notifying, server>>

\* The call was cancelled before its handler ran.
RespondAborted(c, r, proposal) ==
    /\ calls[c] = "idle"
    /\ MayDecide(r)
    /\ KnownTools(proposal)
    /\ Fail("native_cancelled")
    /\ UNCHANGED <<notifying, server>>

\* The abort signal of a call fires; it only matters while we listen to it.
Abort(c) ==
    /\ c \in listening
    /\ FailOnce("native_cancelled")
    /\ UNCHANGED <<notifying, server>>
----------------------------------------------------------------------------
(* POST /wake and GET /response *)

NotifyWake(r, prompt, generation) ==
    /\ Serving
    /\ Healthy
    /\ current # None /\ r = current
    /\ wakePrompt \in {None, prompt}
    /\ generation > wakeGeneration
    /\ wakePrompt' = prompt
    /\ wakeGeneration' = generation
    /\ latestWake' = generation
    /\ UNCHANGED <<sequence, current, held, latest, failed, seen, allowedTools>>
    /\ EmitChange
    /\ UNCHANGED <<mcp, notifying, server>>

\* Mutant: a poll registers without looking at the state first.
RegisterBlindly(w) ==
    /\ Serving
    /\ w.after <= sequence
    /\ \A v \in waiters : v.poller # w.poller
    /\ Cardinality(waiters) < MaxWaiters
    /\ waiters' = waiters \cup {w}
    /\ UNCHANGED <<bridge, mcp, notifying, server>>

\* A poll that nothing answers yet registers; the others reply at once.
Register(w) ==
    /\ Serving
    /\ w.after <= sequence
    /\ ~Answers(w, failed, latest, latestWake)
    /\ \A v \in waiters : v.poller # w.poller
    /\ Cardinality(waiters) < MaxWaiters
    /\ waiters' = waiters \cup {w}
    /\ UNCHANGED <<bridge, mcp, notifying, server>>

\* The wait_ms timer of a registered poll fires.
PollTimeout(w) ==
    /\ w \in waiters
    /\ waiters' = waiters \ {w}
    /\ UNCHANGED <<bridge, mcp, notifying, server>>

\* The peer closes the connection of a registered poll.
PollClosed(w) == PollTimeout(w)
----------------------------------------------------------------------------
(* The server process *)

\* oninitialized: ready.json appears, so clients learn the port.
Initialized ==
    /\ server = "starting"
    /\ server' = "ready"
    /\ UNCHANGED <<bridge, mcp, waiters, notifying>>

\* mcp.onerror, and an exception of an HTTP handler that is no BridgeError.
Break(reason) ==
    /\ server # "stopped"
    /\ Healthy
    /\ Fail(reason)
    /\ UNCHANGED <<notifying, server>>

\* shutdown: a signal, the end of stdin, or the MCP connection closing.
Shutdown ==
    /\ server # "stopped"
    /\ server' = "stopped"
    /\ FailOnce("stopped")
    /\ notifying' = {}

----------------------------------------------------------------------------
Client ==
    \/ \E r \in Requests, ack \in {None} \cup 0 .. Cardinality(Requests), f \in Frames :
          Advance(r, ack, f)
    \/ \E r \in Requests, ack \in {None} \cup 0 .. Cardinality(Requests) :
          AdvanceBeyondBudget(r, ack)
    \/ \E r \in Requests : CompleteText(r)
    \/ \E r \in Requests, p \in Prompts, g \in 1 .. MaxGeneration : NotifyWake(r, p, g)
    \/ \E p \in Pollers, a \in 0 .. sequence, g \in 0 .. MaxGeneration :
          Register([poller |-> p, after |-> a, wakeAfter |-> g])
    \/ \E w \in waiters : PollClosed(w)

Native ==
    \/ \E c \in Calls, r \in Requests, p \in Proposals : Respond(c, r, p)
    \/ \E c \in Calls, r \in Requests, p \in Proposals : RespondAborted(c, r, p)
    \/ \E c \in Calls : Abort(c)
    \/ \E r \in Requests : NotificationFailed(r)

Process ==
    \/ Initialized
    \/ \E reason \in {"native_transport_error", "http_internal_error"} : Break(reason)
    \/ Shutdown
    \/ \E r \in Requests : NotificationSent(r)

Timer == \E w \in waiters : PollTimeout(w)

Next == Client \/ Native \/ Process \/ Timer

Spec == Init /\ [][Next]_vars
----------------------------------------------------------------------------
(* Properties *)

\* Every variable keeps the shape its field has in the source.
TypeOK ==
    /\ sequence \in Nat
    /\ current \in Requests \cup {None}
    /\ held \in HeldCall \cup {None}
    /\ latest \in Decision \cup {None}
    /\ failed \in Reasons \cup {None}
    /\ seen \in SUBSET Requests
    /\ wakeGeneration \in 0 .. MaxGeneration
    /\ wakePrompt \in Prompts \cup {None}
    /\ latestWake \in 0 .. MaxGeneration
    /\ allowedTools \in Frames
    /\ waiters \in SUBSET Waiter
    /\ calls \in [Calls -> {"idle", "pending", "resumed", "rejected"}]
    /\ listening \in SUBSET Calls
    /\ notifying \in SUBSET Requests
    /\ server \in {"starting", "ready", "stopped"}

\* A request in flight and an unacknowledged decision exclude each other, the
\* unacknowledged decision is the newest one, and a pending tool call is held
\* for exactly that decision: whoever polls with the sequence it acknowledged
\* last can only read the answer to its own request.
HalfDuplex ==
    /\ current # None => latest = None /\ current \in seen
    /\ latest # None => latest.sequence = sequence /\ latest.request \in seen
    /\ held # None => latest # None /\ held.sequence = latest.sequence
    /\ ~Healthy => current = None /\ latest = None /\ held = None

\* While the session is healthy, every accepted request but the one in flight
\* has been answered, once: the sequence counts them.
OneAnswerPerRequest ==
    Healthy => Cardinality(seen) = sequence + (IF current = None THEN 0 ELSE 1)

\* Subscription setup is synchronous (http.mjs:103): no poll stays registered
\* while a decision or a wake past its cursors is there, or after a failure.
NoLostWakeup == \A w \in waiters : ~Answers(w, failed, latest, latestWake)

\* An MCP call is pending only while the bridge holds it: Claude is never
\* left waiting for a tool result that no later request or failure delivers.
PendingCallIsHeld ==
    \A c \in Calls : calls[c] = "pending" <=> held # None /\ held.call = c

\* cleanup() detaches the abort listener of a call that was resumed or
\* rejected, so a late cancellation cannot break a healthy session.
OnlyHeldCallCancels ==
    \A c \in listening : held # None /\ held.call = c

\* A call and the bridge agree on whether it is waited for: nobody waits for a result
\* that will not come, and nobody who has it can end the session (protocol.mjs,
\* Bridge.respond and what settles its call: advance, fail).
CallsAgree == PendingCallIsHeld /\ OnlyHeldCallCancels

\* A published proposal only names tools the last bootstrap frame supplied,
\* also when later requests were continue frames that repeat no definitions.
ProposalInAllowList ==
    latest # None /\ allowedTools # None => latest.tools \subseteq allowedTools

\* A wake that waits to be delivered is the newest of the request in flight.
WakeBelongsToRequest ==
    latestWake # 0 =>
        /\ current # None
        /\ latestWake = wakeGeneration
        /\ wakePrompt # None

\* What a long poll may read, a decision or a wake, is of the request it belongs to
\* and of the tools that request was given (protocol.mjs, advance, respond, notifyWake).
ReadsAreCurrent == ProposalInAllowList /\ WakeBelongsToRequest

\* Reading a decision does not consume it: it disappears only when a new
\* request acknowledges it or when the session fails.  Sequence numbers grow by
\* one and a failed session stays failed.
DecisionKept ==
    [][ /\ latest # None /\ latest' # latest =>
             failed' # None \/ (current' \notin seen \cup {None} /\ latest' = None)
        /\ sequence' \in {sequence, sequence + 1}
        /\ ~Healthy => failed' = failed
      ]_vars
----------------------------------------------------------------------------
(* The rendezvous the object promises: see Rendezvous.tla. *)

Promise == INSTANCE Rendezvous WITH
    asked   <- seen,
    open    <- current,
    done    <- sequence,
    unread  <- latest # None,
    broken  <- failed # None

RendezvousSpec == Promise!Spec
=============================================================================
