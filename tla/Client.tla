------------------------------- MODULE Client -------------------------------
(***************************************************************************)
(* The engine behind one owner (client.py): it serves the requests of      *)
(* Hermes sessions with native sessions, one request at a time, and keeps  *)
(* for each Hermes session a binding: its native and what that native has  *)
(* been told (History).                                                    *)
(*                                                                         *)
(* Three others act beside the request: whoever closes the client, the     *)
(* thread of a host abort, and the janitors of idle natives.  A native is  *)
(* named by the request that created it.  Its close is that of Session,    *)
(* seen from outside: the first caller does the work, others return at     *)
(* once, and it ends with a verdict and perhaps an error.  Its exchange is *)
(* that of Window: an exit of Claude is one of its failures.               *)
(***************************************************************************)
EXTENDS History, FiniteSets

CONSTANTS
    Sessions,      \* Hermes sessions
    Ephemeral,     \* those that stand for calls without a session, one each
    MaxSessions,   \* max_sessions
    Toolsets,      \* the sets of tools requests offer
    MaxFrame,      \* bootstrap_max_chars
    MaxRequests,   \* bound: requests
    Before,        \* a conversation that is older than the client
    None

ASSUME ClientAssumption ==
    /\ IsFiniteSet(Sessions) /\ Ephemeral \subseteq Sessions
    /\ MaxSessions \in Nat \ {0} /\ MaxFrame \in Nat /\ MaxRequests \in Nat
    /\ Before \in Seq([role : {"user", "assistant", "calls", "tool", "system"},
                       number : {0}, omitted : {<<>>}])
    /\ None \notin Nat

Numbers == 1 .. MaxRequests

VARIABLES
    bindings,    \* the Binding of each Hermes session, registered in _bindings or not
    natives,     \* the native session each request created
    turn,        \* the request that holds _invoke_lock
    number,      \* requests so far
    last,        \* how the last one ended, and whether a native was handed it (ghost)
    client,      \* _closed, _host_abort_started, the progress of close(), its outcome
    aborting,    \* the natives the thread of a host abort was given to close
    canonical    \* Hermes: the history of each of its sessions

vars == <<bindings, natives, turn, number, last, client, aborting, canonical>>

NoNative ==
    [state |-> "none", closer |-> None, dead |-> FALSE, errors |-> FALSE,
     seen |-> <<>>, tools |-> {}, severed |-> FALSE]

NewBinding ==
    [registered |-> TRUE, native |-> None, history |-> Blank, source |-> None,
     compacted |-> <<>>, exchanged |-> FALSE]

Unbound == [NewBinding EXCEPT !.registered = FALSE]

NoTurn ==
    [at |-> "idle", session |-> None, messages |-> <<>>, tools |-> {}, native |-> None,
     transport |-> <<>>, frame |-> <<>>, tracked |-> FALSE, fenced |-> FALSE,
     delivered |-> FALSE, why |-> None]

\* The turn once its messages do not matter any more.
Over(why) ==
    [NoTurn EXCEPT !.session = turn.session, !.native = turn.native,
                   !.delivered = turn.delivered, !.why = why]

NoEnd == [how |-> None, delivered |-> FALSE]

Init ==
    /\ bindings = [s \in Sessions |-> Unbound]
    /\ natives = [n \in Numbers |-> NoNative]
    /\ turn = NoTurn
    /\ number = 0
    /\ last = NoEnd
    /\ client = [closed |-> FALSE, aborted |-> FALSE, left |-> {}, settling |-> FALSE,
                 peer |-> None, errors |-> FALSE, published |-> FALSE]
    /\ aborting = {}
    /\ canonical = [s \in Sessions |-> IF s \in Ephemeral THEN <<>> ELSE Before]
----------------------------------------------------------------------------
(* Natives *)

Open(n) == natives[n].state \in {"created", "started"}

IsClosed(n) == natives[n].state \in {"closing", "closed"}

\* safe_to_release_capacity of its cleanup_outcome.
ProvedDead(n) == natives[n].state = "closed" /\ natives[n].dead

\* NativeSession.close(), called by `who`, who has to wait if the work is his.
Closing(n, who) ==
    IF Open(n) THEN [natives EXCEPT ![n].state = "closing", ![n].closer = who]
               ELSE natives

Working(n, who) == natives[n].state = "closing" /\ natives[n].closer = who

\* A teardown that recorded errors raises, at every call.
CloseRaises(n) == natives[n].state = "closed" /\ natives[n].errors

\* The teardown proves the process dead or does not, and may record errors.
CloseEnds(n) ==
    /\ natives[n].state = "closing"
    /\ \E dead, errors \in BOOLEAN :
         natives' = [natives EXCEPT ![n] =
             [NoNative EXCEPT !.state = "closed", !.dead = dead, !.errors = errors]]
    /\ UNCHANGED <<bindings, turn, number, last, client, aborting, canonical>>

InExchange(n) == turn.native = n /\ turn.at = "waiting"

\* The janitor of a native that no exchange uses.
Expires(n) ==
    /\ natives[n].state = "started" /\ ~InExchange(n)
    /\ natives' = Closing(n, "other")
    /\ UNCHANGED <<bindings, turn, number, last, client, aborting, canonical>>
----------------------------------------------------------------------------
(* Hermes *)

Speaks(s, n) ==
    IF s \in Ephemeral THEN {<<Message("user", n)>>}
    ELSE LET history == canonical[s]
             Kept == {SubSeq(history, 1, i) : i \in 0 .. Len(history)}
         IN  {kept \o added :
                kept \in {h \in Kept : h = <<>> \/ Last(h).role = "assistant"},
                added \in {<<Message("user", n)>>,
                           <<Message("system", n), Message("user", n)>>}}
             \cup {Append(h, Message("tool", n)) :
                     h \in {k \in Kept : k # <<>> /\ Last(k).role = "calls"}}
             \cup {h \in {history} : h # <<>> /\ Last(h).role \in {"user", "tool"}}

\* Hermes knows the answer once it was returned.
Answers(s, messages, answer) ==
    canonical' = [canonical EXCEPT ![s] = Append(messages, answer)]
----------------------------------------------------------------------------
(* create: under the lock *)

Occupied == {s \in Sessions : bindings[s].registered}

\* Mutant: every place is given away, but that of a teardown in progress.
ExpiredUnlessClosing(s) ==
    bindings[s].native # None => natives[bindings[s].native].state # "closing"

\* Its place may be given away.
Expired(s) == bindings[s].native = None \/ ProvedDead(bindings[s].native)

Admit(s, messages, tools) ==
    LET evicted == {t \in Occupied \ {s} : Expired(t)}
        full == Cardinality(Occupied \ evicted) >= MaxSessions /\ s \notin Occupied
        kept == [t \in Sessions |-> IF t \in evicted THEN Unbound ELSE bindings[t]]
    IN  /\ turn.at = "idle" /\ ~client.closed /\ number < MaxRequests
        /\ s \in Ephemeral => canonical[s] = <<>>
        /\ number' = number + 1
        /\ IF full
           THEN /\ bindings' = kept
                /\ last' = [how |-> "refused", delivered |-> FALSE]
                /\ UNCHANGED <<turn, canonical>>
           ELSE /\ bindings' = IF s \in Occupied THEN kept
                               ELSE [kept EXCEPT ![s] = NewBinding]
                /\ turn' = [NoTurn EXCEPT !.at = "admitted", !.session = s,
                                          !.messages = messages, !.tools = tools]
                /\ canonical' = [canonical EXCEPT ![s] = messages]
                /\ last' = NoEnd
        /\ UNCHANGED <<natives, client, aborting>>

Mine == bindings[turn.session]

Bind(b) == bindings' = [bindings EXCEPT ![turn.session] = b]

WithoutTail(b) == [b EXCEPT !.source = None, !.compacted = <<>>]

WithoutNative(b) == [b EXCEPT !.native = None]

Forgotten(b) == [b EXCEPT !.native = None, !.history = Blank]

\* Mutant: the native that expired had been told what its successor is not.
RetiredKeepsHistory(b, why) ==
    CASE why \in {"diverged", "stale"}   -> WithoutNative(b)
      [] why \in {"switched", "rotated"} -> WithoutTail(Forgotten(b))

\* The binding once its native was closed.
Retired(b, why) ==
    CASE why = "diverged" -> WithoutNative(b)
      [] why = "stale"    -> Forgotten(b)
      [] why \in {"switched", "rotated"} -> WithoutTail(Forgotten(b))
----------------------------------------------------------------------------
(* create: the frame *)

SourceContinues(b) == Continues(b.source, turn.messages, turn.tools)

\* The binding, with its tail dropped if the source diverged from it.
Following(b) ==
    IF b.source # None /\ ~SourceContinues(b) THEN WithoutTail(b) ELSE b

FromTail(b) == b.source # None /\ SourceContinues(b)

Tailed(b) == b.compacted \o Rest(b.source, turn.messages)

\* For a native that is still there.
ReuseTransport(b) ==
    CASE b.source = None -> turn.messages
      [] FromTail(b)     -> Tailed(b)
      [] b.source # None /\ ~SourceContinues(b) -> Bounded(turn.messages, MaxFrame)

\* For a fresh native. A bootstrap that leaves something out begins a tail, unless
\* an older tail was dropped for it.
FreshTransport(b) == IF FromTail(b) THEN Tailed(b) ELSE Bounded(turn.messages, MaxFrame)

NeedsBound(b, fresh) == IF fresh THEN ~FromTail(b) ELSE b.source # None /\ ~FromTail(b)

BeginsTail(b) == b.source = None /\ ~Small(turn.messages, MaxFrame)

FreshBinding(b) ==
    IF BeginsTail(b)
    THEN [b EXCEPT !.source = Blank, !.compacted = Bounded(turn.messages, MaxFrame)]
    ELSE Following(b)

\* The frame is ready for native n.
Prepared(b, n, transport, tracked) ==
    turn' = [turn EXCEPT !.at = "ready", !.native = n, !.transport = transport,
                         !.tracked = tracked,
                         !.frame = Frame(b.history, transport, turn.tools)]

\* A step before the exchange fails: input that is not valid, a file, an image, a
\* native that does not start. The client is closed, the request may be sent again.
FailsEarly == turn' = [Over("undelivered") EXCEPT !.at = "failing"]
----------------------------------------------------------------------------
(* create: the steps before the exchange *)

At(place) == turn.at = place

\* The request is to close the native it holds.
Retiring(why) ==
    turn' = [turn EXCEPT !.at = "retiring", !.native = Mine.native, !.why = why]

\* Closed meanwhile, or of another model or effort.
RetireStale(why) ==
    /\ At("admitted") /\ Mine.native # None
    /\ why = "stale" => IsClosed(Mine.native)
    /\ Retiring(why)
    /\ UNCHANGED <<bindings, natives, number, last, client, aborting, canonical>>

Reuses == At("admitted") /\ Mine.native # None /\ ~IsClosed(Mine.native)

ReuseContinues ==
    Continues(Following(Mine).history, ReuseTransport(Mine), turn.tools)

Reuse ==
    /\ Reuses
    /\ NeedsBound(Mine, FALSE) => Fits(turn.messages, MaxFrame)
    /\ ReuseContinues
    /\ Bind(Following(Mine))
    /\ Prepared(Following(Mine), Mine.native, ReuseTransport(Mine), FromTail(Mine))
    /\ UNCHANGED <<natives, number, last, client, aborting, canonical>>

\* The frame would be a bootstrap, or, after an exchange, the native is full.
RetireUsed(why) ==
    /\ Reuses
    /\ NeedsBound(Mine, FALSE) => Fits(turn.messages, MaxFrame)
    /\ why = "diverged" => ~ReuseContinues
    /\ why = "rotated" => ReuseContinues /\ Mine.exchanged
    /\ Bind(Following(Mine))
    /\ Retiring(why)
    /\ UNCHANGED <<natives, number, last, client, aborting, canonical>>

\* close() of the native: the work is the request's, if nobody else began it.
TurnCloses ==
    /\ At("retiring") \/ At("popped")
    /\ turn.native # None /\ Open(turn.native)
    /\ natives' = Closing(turn.native, "turn")
    /\ UNCHANGED <<bindings, turn, number, last, client, aborting, canonical>>

TurnClosed ==
    turn.native # None => ~Open(turn.native) /\ ~Working(turn.native, "turn")

Raised == turn.native # None /\ CloseRaises(turn.native)

Retire ==
    /\ At("retiring") /\ TurnClosed
    /\ IF Raised
       THEN FailsEarly /\ UNCHANGED bindings
       ELSE /\ Bind(Retired(Mine, turn.why))
            /\ turn' = [turn EXCEPT !.at = "admitted", !.native = None, !.why = None]
    /\ UNCHANGED <<natives, number, last, client, aborting, canonical>>

\* What it remembers of its last native left something out, and nothing tells what
\* that was.
Severed(b) ==
    b.source = None /\ \E i \in DOMAIN b.history.messages : b.history.messages[i].role = "notice"

Launch ==
    /\ At("admitted") /\ Mine.native = None
    /\ natives' = [natives EXCEPT ![number].state = "created",
                                  ![number].severed = Severed(Mine)]
    /\ Bind([Mine EXCEPT !.native = number, !.exchanged = FALSE])
    /\ turn' = [turn EXCEPT !.at = "launched", !.native = number]
    /\ UNCHANGED <<number, last, client, aborting, canonical>>

Start ==
    /\ At("launched") /\ natives[turn.native].state = "created" /\ ~client.published
    /\ natives' = [natives EXCEPT ![turn.native].state = "started"]
    /\ turn' = [turn EXCEPT !.at = "started"]
    /\ UNCHANGED <<bindings, number, last, client, aborting, canonical>>

\* Past its launch a native that does not come up closes itself.
StartFails ==
    /\ At("launched")
    /\ FailsEarly
    /\ natives' \in {natives} \cup
         (IF natives[turn.native].state = "created"
          THEN {Closing(turn.native, "turn")} ELSE {})
    /\ UNCHANGED <<bindings, number, last, client, aborting, canonical>>

Bootstrap ==
    /\ At("started")
    /\ NeedsBound(Mine, TRUE) => Fits(turn.messages, MaxFrame)
    /\ Bind(FreshBinding(Mine))
    /\ Prepared(FreshBinding(Mine), turn.native, FreshTransport(Mine),
                FromTail(Mine) \/ BeginsTail(Mine))
    /\ UNCHANGED <<natives, number, last, client, aborting, canonical>>

\* Anything else that may go wrong, a bootstrap that does not fit among it.
PrepareFails ==
    /\ At("admitted") \/ At("started")
    /\ FailsEarly
    /\ UNCHANGED <<bindings, natives, number, last, client, aborting, canonical>>
----------------------------------------------------------------------------
(* create: the exchange *)

Ends(how) ==
    /\ last' = [how |-> how, delivered |-> turn.delivered]
    /\ turn' = [Over(None) EXCEPT !.at = "leaving"]

\* Mutant: close() does not set _cancel.
CancelledByAbort == client.aborted

\* _cancel, which nothing resets.
Cancelled == client.closed \/ client.aborted

\* The channel has the request.
Deliver ==
    /\ At("ready") /\ ~IsClosed(turn.native) /\ ~client.published
    /\ natives' = [natives EXCEPT
         ![turn.native].seen = @ \o turn.frame,
         ![turn.native].tools =
            IF Continues(Mine.history, turn.transport, turn.tools) THEN @ ELSE turn.tools]
    /\ turn' = [turn EXCEPT !.at = "waiting", !.fenced = Cancelled,
                            !.delivered = TRUE]
    /\ UNCHANGED <<bindings, number, last, client, aborting, canonical>>

\* Mutant: the native says so of a request the channel has.
NotDeliveredLate(why) ==
    /\ At("waiting") /\ ~IsClosed(turn.native)
    /\ natives' = Closing(turn.native, "turn")
    /\ turn' = [Over("undelivered") EXCEPT !.at = "unwinding"]
    /\ UNCHANGED <<bindings, number, last, client, aborting, canonical>>

\* It does not: the native was closed before the exchange began (failed), the window
\* could not be opened (undelivered), or the call never got there, because the HTTP
\* client of the native is closed or the host cut it (failed, uncertain).  Somebody
\* may be closing the native at any of these; if not, it closes itself.
NotDelivered(why) ==
    /\ At("ready")
    /\ natives' = Closing(turn.native, "turn")
    /\ turn' = [Over(why) EXCEPT !.at = "unwinding"]
    /\ UNCHANGED <<bindings, number, last, client, aborting, canonical>>

\* The decision is valid for the tools of this request.
Roles == {"assistant"} \cup (IF turn.tools # {} THEN {"calls"} ELSE {})

CommittedBinding(answer) ==
    LET told == Append(turn.transport, answer)
        b == [Mine EXCEPT !.history = Committed(told, turn.tools), !.exchanged = TRUE]
    IN  IF turn.tracked
        THEN [b EXCEPT !.source = Committed(Append(turn.messages, answer), turn.tools),
                       !.compacted = told]
        ELSE b

Answer(role) ==
    LET answer == Message(role, number)
    IN  /\ At("waiting") /\ ~turn.fenced
        /\ role \in Roles
        /\ natives' = [natives EXCEPT ![turn.native].seen = Append(@, answer)]
        /\ Bind(CommittedBinding(answer))
        /\ Answers(turn.session, turn.messages, answer)
        /\ Ends("answered")
        /\ UNCHANGED <<number, client, aborting>>

\* A decision that is not: the native goes on, the client is closed.
AnswerInvalid ==
    /\ At("waiting") /\ ~turn.fenced
    /\ turn' = [Over("uncertain") EXCEPT !.at = "failing"]
    /\ UNCHANGED <<bindings, natives, number, last, client, aborting, canonical>>

\* An error of the session (failed), or an interrupt, a deadline, a callback
\* (uncertain); a native that somebody else closes ends it either way. Whatever it
\* is, the exchange closes the native.
ExchangeFails(why) ==
    /\ At("waiting")
    /\ natives' = Closing(turn.native, "turn")
    /\ turn' = [Over(why) EXCEPT !.at = "unwinding"]
    /\ UNCHANGED <<bindings, number, last, client, aborting, canonical>>

\* A teardown that raises takes the place of the failure, now and when the client
\* closes the native once more.  The client asks the native for its health when it
\* failed: a native that is closed has none.
Unwind ==
    /\ At("unwinding") /\ TurnClosed
    /\ CASE Raised -> Ends("error") /\ UNCHANGED bindings
         [] ~Raised /\ turn.why = "failed" -> Bind(Forgotten(Mine)) /\ Ends("lost")
         [] ~Raised /\ turn.why # "failed" ->
                turn' = [turn EXCEPT !.at = "failing"] /\ UNCHANGED <<bindings, last>>
    /\ UNCHANGED <<natives, number, client, aborting, canonical>>

\* A call without a session leaves no binding behind.
Pop ==
    /\ At("leaving") /\ turn.session \in Ephemeral
    /\ Bind([Unbound EXCEPT !.native = Mine.native])
    /\ turn' = [turn EXCEPT !.at = "popped", !.native = Mine.native]
    /\ UNCHANGED <<natives, number, last, client, aborting, canonical>>

Leave ==
    /\ \/ At("leaving") /\ turn.session \notin Ephemeral /\ UNCHANGED last
       \/ /\ At("popped") /\ TurnClosed
          /\ last' = IF Raised THEN [last EXCEPT !.how = "error"] ELSE last
    /\ turn' = NoTurn
    /\ UNCHANGED <<bindings, natives, number, client, aborting, canonical>>
----------------------------------------------------------------------------
(* close *)

CloseBegins == client' = [client EXCEPT !.closed = TRUE, !.left = Occupied]

\* The request closes its client and waits; if somebody else began to, it gets the
\* outcome, or none yet.
CloseSelf ==
    /\ At("failing") /\ (turn.native # None => ~Working(turn.native, "turn"))
    /\ IF client.closed
       THEN Ends(IF client.published /\ client.errors THEN "error" ELSE turn.why)
            /\ UNCHANGED client
       ELSE CloseBegins /\ turn' = [turn EXCEPT !.at = "closing"] /\ UNCHANGED last
    /\ UNCHANGED <<bindings, natives, number, aborting, canonical>>

ClosedSelf ==
    /\ At("closing") /\ client.published
    /\ Ends(IF client.errors THEN "error" ELSE turn.why)
    /\ UNCHANGED <<bindings, natives, number, client, aborting, canonical>>

\* The API owner, or the cancellation of the request.
Close ==
    /\ ~client.closed
    /\ CloseBegins
    /\ UNCHANGED <<bindings, natives, turn, number, last, aborting, canonical>>

\* One binding after the other; the native is the one it has by then.
Settles(s) ==
    /\ s \in client.left /\ ~client.settling
    /\ client' = [client EXCEPT !.left = @ \ {s}, !.settling = TRUE,
                                !.peer = bindings[s].native]
    /\ UNCHANGED <<bindings, natives, turn, number, last, aborting, canonical>>

ClientCloses ==
    /\ client.settling /\ client.peer # None /\ Open(client.peer)
    /\ natives' = Closing(client.peer, "client")
    /\ UNCHANGED <<bindings, turn, number, last, client, aborting, canonical>>

\* Whoever finds another at work is told nothing.
Settled ==
    /\ client.settling
    /\ client.peer # None => ~Open(client.peer) /\ ~Working(client.peer, "client")
    /\ client' = [client EXCEPT
         !.settling = FALSE, !.peer = None,
         !.errors = @ \/ (client.peer # None /\ CloseRaises(client.peer))]
    /\ UNCHANGED <<bindings, natives, turn, number, last, aborting, canonical>>

\* cleanup_outcome, and the end of the HTTP pool through which the natives are
\* reached.  What the outcome says of the bindings is left out.
Publish ==
    /\ client.closed /\ ~client.published /\ client.left = {} /\ ~client.settling
    /\ client' = [client EXCEPT !.published = TRUE]
    /\ UNCHANGED <<bindings, natives, turn, number, last, aborting, canonical>>
----------------------------------------------------------------------------
(* Host abort: Hermes shuts the sockets of the client's HTTP pool down *)

Abort ==
    /\ ~client.aborted /\ ~client.closed
    /\ client' = [client EXCEPT !.aborted = TRUE]
    /\ aborting' = {bindings[s].native : s \in Occupied} \ {None}
    /\ UNCHANGED <<bindings, natives, turn, number, last, canonical>>

AbortCloses(n) ==
    /\ n \in aborting /\ Open(n) /\ \A m \in aborting : ~Working(m, "abort")
    /\ natives' = Closing(n, "abort")
    /\ UNCHANGED <<bindings, turn, number, last, client, aborting, canonical>>
----------------------------------------------------------------------------
Prepares ==
    \/ \E why \in {"stale", "switched"} : RetireStale(why)
    \/ Reuse
    \/ \E why \in {"diverged", "rotated"} : RetireUsed(why)
    \/ TurnCloses \/ Retire \/ Launch \/ Start \/ StartFails \/ Bootstrap \/ PrepareFails

Hands ==
    \/ Deliver
    \/ \E why \in {"failed", "undelivered", "uncertain"} : NotDelivered(why)

Waits ==
    \/ \E role \in {"assistant", "calls"} : Answer(role)
    \/ AnswerInvalid
    \/ \E why \in {"failed", "uncertain"} : ExchangeFails(why)

Finishes == Unwind \/ Pop \/ Leave \/ CloseSelf \/ ClosedSelf

Turn == Prepares \/ Hands \/ Waits \/ Finishes

Closer == (\E s \in Sessions : Settles(s)) \/ ClientCloses \/ Settled \/ Publish

Ask ==
    \E s \in Sessions, tools \in Toolsets :
        \E messages \in Speaks(s, number + 1) : Admit(s, messages, tools)

\* Nothing is left to do; whoever waits elsewhere waits for good.
Rests ==
    /\ turn.at = "idle" /\ (client.published \/ number = MaxRequests)
    /\ UNCHANGED vars

Next ==
    \/ Rests \/ Ask \/ Turn \/ Close \/ Closer \/ Abort
    \/ \E n \in Numbers : AbortCloses(n) \/ CloseEnds(n) \/ Expires(n)

Spec == Init /\ [][Next]_vars

----------------------------------------------------------------------------
\* What a native was told is the request, nothing twice and nothing left out, once
\* the notices are looked up, whatever switches, rotations, losses and divergences
\* its session went through.  It cannot be said of a native that was launched for a
\* severed binding: see StartsFromHistory.
FrameSound ==
    turn.at = "waiting" /\ Open(turn.native) /\ ~natives[turn.native].severed =>
        /\ Expanded(natives[turn.native].seen) = turn.messages
        /\ natives[turn.native].tools = turn.tools

\* "Hermes re-bootstraps a new native session from its own history" (README.md:165):
\* the first frame of a native is the whole request.  The code does not hold this:
\* after a divergence the binding keeps the history of the native that it closes
\* (client.py:900), and when both are bounded the new request may continue it.
StartsFromHistory ==
    turn.at = "waiting" /\ Open(turn.native) /\ natives[turn.native].seen = turn.frame =>
        Expanded(turn.frame) = turn.messages

\* A request that is reported as safe to send again was never handed to a native.
ReplayableUndelivered ==
    last.how = "undelivered" => ~last.delivered

\* No more natives are open than the limit allows.
SessionsBound == Cardinality({n \in Numbers : Open(n)}) <= MaxSessions

\* Once a client published its outcome and its last request is gone, no native is left
\* that was ever handed anything.  One that was never used may be: its request failed
\* before the exchange, after close() had seen its binding without a native, and its
\* own close() of the client had nothing left to do; it expires when it is idle.
StrayUnused ==
    client.published /\ turn.at = "idle" =>
        \A n \in Numbers : Open(n) => natives[n].seen = <<>>
============================================================================
