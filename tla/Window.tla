------------------------------ MODULE Window ------------------------------
(***************************************************************************)
(* The exchanges of one native session (native.py) and the request window  *)
(* they share with Claude's hooks through files (native_hooks.py).  An     *)
(* exchange opens the window, hands its request to the channel, watches    *)
(* for the answer and retires the window; a prompt that ends with a tool   *)
(* call stays unsealed and goes on in the next request.                    *)
(*                                                                         *)
(* Each hook is a process: it runs late, never, in another order, or dies  *)
(* holding the lock.  Claude, the janitor and whoever closes the session   *)
(* run beside the exchange.  The text is that of TextBatches and wakes are *)
(* those of Channel.                                                       *)
(***************************************************************************)
EXTENDS Naturals, FiniteSets

CONSTANTS
    MaxRequests,   \* bound: requests sent to the session
    MaxHooks,      \* bound: hook processes at once
    None

ASSUME WindowAssumption ==
    /\ MaxRequests \in Nat /\ MaxHooks \in Nat
    /\ None \notin Nat /\ None \notin {"answered", "replayable", "failed"}
    /\ None \notin [request : Nat, prompt : Nat \cup {None}, open : BOOLEAN]

Requests == 1 .. MaxRequests

VARIABLES
    phase,       \* exchange: idle, entered, opened, polling, committed, checked
    request,     \* the last request of an exchange
    continued,   \* _native_prompt_id
    seal,        \* seal_prompt
    result,      \* of each request: answered, replayable, failed
    closed,
    window,      \* active-request.json
    retired,     \* retired_prompt_ids
    stop,        \* native-stop.json
    compaction,  \* native-compaction.json
    pending,     \* native-compaction-pending.json
    poisoned,    \* native-attribution-error exists
    locked,      \* a hook died holding the lock
    delivered,   \* requests the channel accepted
    asked,       \* the one it has no answer for
    decided,     \* the one whose tool calls it published
    turn,        \* Claude: idle, submitting, busy, held
    hooks,       \* hook processes that have not run yet
    ended,       \* ghost: requests whose turn Claude ended with an answer
    honest       \* ghost: hooks ran in time

exchange == <<phase, request, continued, seal, result>>
files    == <<window, retired, stop, compaction, pending, poisoned, locked>>
channel  == <<delivered, asked, decided>>
claude   == <<turn, hooks, ended>>
vars     == <<exchange, closed, files, channel, claude, honest>>

Init ==
    /\ phase = "idle" /\ request = 0 /\ continued = None /\ seal = TRUE
    /\ result = [r \in Requests |-> None]
    /\ closed = FALSE
    /\ window = None /\ retired = {} /\ stop = None
    /\ compaction = None /\ pending = None /\ poisoned = FALSE /\ locked = FALSE
    /\ delivered = {} /\ asked = None /\ decided = None
    /\ turn = [state |-> "idle", request |-> 0, prompt |-> 0, compacts |-> "no"]
    /\ hooks = {} /\ ended = {}
    /\ honest = TRUE
----------------------------------------------------------------------------
(* The compaction journal *)

Compacting(c) == c # None /\ c.status = "compacting"

\* The end is unknown, which is no failure.
Incomplete(c) == IF Compacting(c) THEN [c EXCEPT !.missing = TRUE] ELSE c

MarkedIf(condition) ==
    IF condition THEN compaction' = Incomplete(compaction) /\ pending' = Incomplete(pending)
                 ELSE UNCHANGED <<compaction, pending>>

CompactionFailed == compaction # None /\ compaction.status = "failed"
----------------------------------------------------------------------------
(* open_request and retire_request, under the lock *)

\* The previous request left its prompt to the next one.
Unsealed == window # None /\ window.prompt # None /\ window.prompt \notin retired

Continues ==
    /\ ~locked
    /\ window # None =>
         /\ ~window.open
         /\ continued = IF Unsealed THEN window.prompt ELSE None

Opens == Continues /\ ~poisoned

Retires ==
    /\ ~locked /\ ~poisoned
    /\ window.open /\ window.request = request
    /\ window.prompt # None /\ window.prompt \notin retired

RetireWindow(sealing) ==
    /\ window' = [window EXCEPT !.open = FALSE]
    /\ retired' = IF sealing THEN retired \cup {window.prompt} ELSE retired
    /\ MarkedIf(Compacting(compaction) /\ compaction.request = request)
----------------------------------------------------------------------------
(* NativeSession.exchange *)

\* An engine calls it again only when the last exchange is over.
Enter ==
    /\ phase = "idle" /\ request < MaxRequests
    /\ request' = request + 1
    /\ IF closed THEN result' = [result EXCEPT ![request'] = "failed"] /\ UNCHANGED phase
                 ELSE phase' = "entered" /\ UNCHANGED result
    /\ seal' = TRUE
    /\ UNCHANGED <<continued, closed, files, channel, claude, honest>>

\* The files of the last request are removed and the window opened. What
\* open_request refuses becomes a failure.
OpenRequest ==
    /\ phase = "entered"
    /\ stop' = None
    /\ MarkedIf(Continues /\ Compacting(compaction))
    /\ IF Opens
       THEN /\ phase' = "opened"
            /\ window' = [request |-> request, prompt |-> continued, open |-> TRUE]
            /\ UNCHANGED poisoned
       ELSE /\ poisoned' = TRUE
            /\ UNCHANGED <<phase, window>>
    /\ UNCHANGED <<request, continued, seal, result, closed, retired,
                   locked, channel, claude, honest>>

\* The channel takes the request; the answer to /advance is on its way, or lost.
Advance ==
    /\ phase = "opened" /\ ~closed /\ request \notin delivered
    /\ delivered' = delivered \cup {request}
    /\ asked' = request /\ decided' = None
    /\ UNCHANGED <<exchange, closed, files, claude, honest>>

Advanced ==
    /\ phase = "opened" /\ request \in delivered
    /\ phase' = "polling"
    /\ UNCHANGED <<request, continued, seal, result, closed, files,
                   channel, claude, honest>>

\* The checks of every round.
Healthy == ~closed /\ ~poisoned /\ ~CompactionFailed

\* Mutant: a turn that failed or left work in the background counts as well.
EndedSomehow(s) == s # None

\* stopped_text: the event is Stop and nothing goes on in the background.
EndedWell(s) == s.ok

Usable(s) ==
    /\ s.request = request
    /\ continued # None => s.prompt = continued
    /\ EndedWell(s)

\* Claude ended its turn: the channel is told the text.
PollStop ==
    /\ phase = "polling" /\ Healthy
    /\ stop # None /\ Usable(stop) /\ asked = request
    /\ asked' = None
    /\ phase' = "committed"
    /\ UNCHANGED <<request, continued, seal, result, closed, files,
                   delivered, decided, claude, honest>>

\* Claude called respond: its prompt goes on.
PollDecision ==
    /\ phase = "polling" /\ Healthy
    /\ decided = request
    /\ seal' = FALSE
    /\ phase' = "committed"
    /\ UNCHANGED <<request, continued, result, closed, files, channel,
                   claude, honest>>

\* The last checks.
Check ==
    /\ phase = "committed"
    /\ ~closed /\ ~poisoned
    /\ stop # None => EndedWell(stop)
    /\ phase' = "checked"
    /\ UNCHANGED <<request, continued, seal, result, closed, files,
                   channel, claude, honest>>

\* The window is retired. If that fails so does the request, which was answered.
Leave ==
    /\ phase = "checked"
    /\ phase' = "idle"
    /\ IF Retires
       THEN /\ RetireWindow(seal)
            /\ continued' = IF seal THEN None ELSE window.prompt
            /\ result' = [result EXCEPT ![request] = "answered"]
            /\ UNCHANGED <<closed, poisoned>>
       ELSE /\ poisoned' = TRUE
            /\ continued' = None
            /\ closed' = TRUE
            /\ result' = [result EXCEPT ![request] = "failed"]
            /\ UNCHANGED <<window, retired, compaction, pending>>
    /\ UNCHANGED <<request, seal, stop, locked, channel,
                   claude, honest>>

\* Mutant: the flag is set once /advance was answered.
DeliveryAttemptedLate == phase \in {"polling", "committed"}

\* From the call of /advance on.
DeliveryAttempted == phase \in {"opened", "polling", "committed"}

\* A check, an interrupt, a deadline, a stall, a failure of the channel or of the
\* callback. The window is retired if it can be, and the session closed for good.
Fail ==
    /\ phase \in {"entered", "opened", "polling", "committed"}
    /\ phase' = "idle"
    /\ result' = [result EXCEPT ![request] =
                    IF DeliveryAttempted THEN "failed" ELSE "replayable"]
    /\ continued' = None
    /\ closed' = TRUE
    /\ IF phase = "entered"
       THEN UNCHANGED <<window, retired, compaction, pending, poisoned>>
       ELSE IF Retires
            THEN RetireWindow(TRUE) /\ UNCHANGED poisoned
            ELSE poisoned' = TRUE /\ UNCHANGED <<window, retired, compaction, pending>>
    /\ UNCHANGED <<request, seal, stop,
                   locked, channel, claude, honest>>
----------------------------------------------------------------------------
(* The client, an abort of the host, or the janitor: it looks at the session   *)
(* under its lock and closes it without, when an exchange may have begun       *)

Close ==
    /\ ~closed
    /\ closed' = TRUE
    /\ UNCHANGED <<exchange, files, channel, claude, honest>>
----------------------------------------------------------------------------
(* Claude. It waits for the hook of a prompt's submission, not for others *)

Spawned(event, ok) ==
    [event |-> event, prompt |-> turn'.prompt, origin |-> turn'.request, ok |-> ok]

Spawn(event, ok) ==
    /\ Cardinality(hooks) < MaxHooks
    /\ hooks' = hooks \cup {Spawned(event, ok)}

Acts(state) == ~closed /\ turn.state = state

NewRequest == asked # None /\ asked # turn.request

\* A new prompt for a request that finds Claude idle.
Begin ==
    /\ Acts("idle") /\ NewRequest
    /\ turn' = [state |-> "submitting", request |-> asked, prompt |-> turn.prompt + 1,
                compacts |-> "no"]
    /\ Spawn("submit", TRUE)
    /\ UNCHANGED <<exchange, closed, files, channel, ended, honest>>

Submitted ==
    /\ Acts("submitting")
    /\ \A h \in hooks : h.event # "submit"
    /\ turn' = [turn EXCEPT !.state = "busy"]
    /\ UNCHANGED <<exchange, closed, files, channel, hooks, ended, honest>>

\* The result of the held call: the same prompt goes on.
Resume ==
    /\ Acts("held") /\ NewRequest
    /\ turn' = [turn EXCEPT !.state = "busy", !.request = asked, !.compacts = "no"]
    /\ UNCHANGED <<exchange, closed, files, channel, hooks, ended, honest>>

Speak ==
    /\ Acts("busy")
    /\ UNCHANGED turn
    /\ Spawn("display", TRUE)
    /\ UNCHANGED <<exchange, closed, files, channel, ended, honest>>

Respond ==
    /\ Acts("busy") /\ asked = turn.request
    /\ turn' = [turn EXCEPT !.state = "held"]
    /\ asked' = None /\ decided' = turn.request
    /\ ended' = ended \cup {turn.request}
    /\ UNCHANGED <<exchange, closed, files, delivered, hooks, honest>>

\* Stop, or StopFailure, or a stop with background work pending.
Stop(ok) ==
    /\ Acts("busy")
    /\ turn' = [turn EXCEPT !.state = "idle"]
    /\ Spawn("stop", ok)
    /\ ended' = IF ok THEN ended \cup {turn.request} ELSE ended
    /\ UNCHANGED <<exchange, closed, files, channel, honest>>

\* At most one automatic compaction in a request.
Compact(from, to, event) ==
    /\ Acts("busy") /\ turn.compacts = from
    /\ turn' = [turn EXCEPT !.compacts = to]
    /\ Spawn(event, TRUE)
    /\ UNCHANGED <<exchange, closed, files, channel, ended, honest>>

CompactBegins == Compact("no", "begun", "pre")

CompactEnds == Compact("begun", "over", "post")
----------------------------------------------------------------------------
(* A hook: capture, under the lock *)

\* _bind_prompt_locked
Binds(h) == h.prompt \notin retired /\ window.prompt \in {None, h.prompt}

Bound(h) == [window EXCEPT !.prompt = h.prompt]

\* The window closed with the prompt unsealed.
Echo(h) == h.prompt = window.prompt /\ h.prompt \notin retired

\* What the event does to the window and the stop file.
CaptureTurn(h) ==
    IF window.open /\ Binds(h)
    THEN /\ window' = Bound(h)
         /\ stop' = IF h.event = "stop"
                    THEN [request |-> window.request, prompt |-> h.prompt, ok |-> h.ok]
                    ELSE stop
         /\ MarkedIf(h.event = "stop" /\ Compacting(compaction))
         /\ UNCHANGED poisoned
    ELSE /\ poisoned' = (poisoned \/ window.open \/ ~Echo(h))
         /\ MarkedIf(window.open /\ h.event = "stop" /\ Compacting(compaction))
         /\ UNCHANGED <<window, stop>>

OldPrompt(h) == h.prompt \in retired /\ h.prompt # window.prompt

\* _fail_compaction_locked: an event of an old prompt does not hit the request.
FailCompaction(h) ==
    LET poisons == window.open /\ ~OldPrompt(h)
    IN  /\ compaction' = [status |-> "failed", prompt |-> h.prompt, missing |-> FALSE,
                          request |-> IF poisons THEN window.request ELSE None]
        /\ poisoned' = (poisoned \/ poisons)
        /\ UNCHANGED pending

\* Mutant: a start whose end is missing is still waited for.
OverlapsMissing == Compacting(pending)

Overlaps == Compacting(pending) /\ ~pending.missing

PreCompact(h) ==
    IF Overlaps \/ ~window.open \/ h.prompt # window.prompt
    THEN FailCompaction(h)
    ELSE /\ compaction' = [status |-> "compacting", request |-> window.request,
                           prompt |-> h.prompt, missing |-> FALSE]
         /\ pending' = compaction'
         /\ UNCHANGED poisoned

Retained == IF pending = None /\ Compacting(compaction) THEN compaction ELSE pending

PostCompact(h) ==
    IF Retained = None \/ Retained.prompt # h.prompt
    THEN FailCompaction(h)
    ELSE /\ compaction' = [Retained EXCEPT !.status = "completed", !.missing = FALSE]
         /\ pending' = None
         /\ UNCHANGED poisoned

\* The request it belongs to is still the window's, and not sealed; the end of a
\* compaction may come any time after its start.
Timely(h) ==
    CASE h.event \in {"submit", "display", "stop"} ->
            window.request = h.origin /\ h.prompt \notin retired
      [] h.event = "pre" -> window.open /\ window.request = h.origin
      [] h.event = "post" -> pending # None /\ pending.request = h.origin

Capture(h) ==
    /\ ~closed /\ ~locked
    /\ hooks' = hooks \ {h}
    /\ honest' = (honest /\ Timely(h))
    /\ CASE h.event = "pre"  -> PreCompact(h) /\ UNCHANGED <<window, stop>>
         [] h.event = "post" -> PostCompact(h) /\ UNCHANGED <<window, stop>>
         [] OTHER -> CaptureTurn(h)
    /\ UNCHANGED <<exchange, closed, retired, locked, channel, turn, ended>>

\* Killed before it had the lock. The end of a compaction may be missed.
Lost(h) ==
    /\ ~closed
    /\ hooks' = hooks \ {h}
    /\ honest' = (honest /\ h.event = "post")
    /\ UNCHANGED <<exchange, closed, files, channel, turn, ended>>

\* Killed with the lock, before or after it bound the prompt.
Dies(h) ==
    /\ ~closed /\ ~locked
    /\ hooks' = hooks \ {h}
    /\ locked' = TRUE /\ honest' = FALSE
    /\ window' \in {window} \cup (IF window.open /\ Binds(h) THEN {Bound(h)} ELSE {})
    /\ UNCHANGED <<exchange, closed, retired, stop, compaction, pending,
                   poisoned, channel, turn, ended>>

TimesOut(h) ==
    /\ ~closed /\ locked
    /\ hooks' = hooks \ {h}
    /\ poisoned' = TRUE
    /\ UNCHANGED <<exchange, closed, window, retired, stop, compaction,
                   pending, locked, channel, turn, ended, honest>>
----------------------------------------------------------------------------
Exchange ==
    \/ Enter \/ OpenRequest \/ Advance \/ Advanced
    \/ PollStop \/ PollDecision \/ Check \/ Leave \/ Fail

Claude ==
    \/ Begin \/ Submitted \/ Resume \/ Speak \/ Respond
    \/ \E ok \in BOOLEAN : Stop(ok)
    \/ CompactBegins \/ CompactEnds

Hook == \E h \in hooks : Capture(h) \/ Lost(h) \/ Dies(h) \/ TimesOut(h)

Next == Exchange \/ Close \/ Claude \/ Hook

Spec == Init /\ [][Next]_vars
----------------------------------------------------------------------------
\* A failure called replayable left nothing with the channel, so the identical
\* request may be sent again (native.py:719, native.py:858).
ReplayableIsUndelivered ==
    \A r \in Requests : result[r] = "replayable" => r \notin delivered

\* An answer that is returned was given by Claude to this very request, whatever
\* the hooks did (native.py:740, native_hooks.py:618).
AnswerIsClaudes ==
    \A r \in Requests : result[r] = "answered" => r \in ended

\* Hooks that run in time never spoil a session that works: not by late echoes of
\* an unsealed prompt (native_hooks.py:527), nor by ends of compactions that come
\* late or never (native_hooks.py:156); and what was answered can be retired.
HonestHooksAccepted ==
    honest /\ ~closed =>
        /\ ~poisoned /\ ~CompactionFailed
        /\ phase = "checked" => Retires
============================================================================
