--------------------------- MODULE Window_proofs ---------------------------
(***************************************************************************)
(* For any number of requests and hook processes: a failure after which a  *)
(* request may be sent again left nothing with the channel; an answer is   *)
(* one Claude gave to that request, whatever the hooks do; and hooks that  *)
(* run in time never spoil a session.                                      *)
(***************************************************************************)
EXTENDS Window, TLAPS

Phases == {"idle", "entered", "opened", "polling", "committed", "checked"}

Results == {None, "answered", "replayable", "failed"}

\* The property alone is not inductive: the request in progress must have no
\* outcome yet, and later ones must not have reached the channel.
Delivery ==
    /\ phase \in Phases
    /\ request \in 0 .. MaxRequests
    /\ result \in [Requests -> Results]
    /\ phase # "idle" => request \in Requests /\ result[request] = None
    /\ \A r \in Requests : r > request => result[r] = None
    /\ delivered \subseteq 1 .. request
    /\ phase = "entered" => request \notin delivered
    /\ ReplayableIsUndelivered

LEMMA InitDelivery ==
  Init => Delivery
<1>. USE WindowAssumption
<1>. QED
  BY DEF Init, Delivery, Phases, Results, Requests, ReplayableIsUndelivered

\* Only these variables matter to the invariant.
LEMMA Unmoved ==
  ASSUME Delivery, UNCHANGED <<request, result, delivered>>,
         phase' \in Phases,
         phase = "idle" => phase' = "idle",
         phase' = "entered" => phase = "entered"
  PROVE  Delivery'
BY WindowAssumption DEF Delivery, Requests, ReplayableIsUndelivered

\* The request in progress gets its outcome.
LEMMA Decided ==
  ASSUME Delivery, phase # "idle", phase' = "idle",
         UNCHANGED <<request, delivered>>,
         NEW outcome \in Results,
         result' = [result EXCEPT ![request] = outcome],
         outcome = "replayable" => phase = "entered"
  PROVE  Delivery'
<1>1. request \in Requests /\ request \in Nat
  BY WindowAssumption DEF Delivery, Requests
<1>2. result' \in [Requests -> Results]
  BY DEF Delivery
<1>3. ASSUME NEW r \in Requests
      PROVE  result'[r] = IF r = request THEN outcome ELSE result[r]
  BY DEF Delivery
<1>4. \A r \in Requests : r > request' => result'[r] = None
  BY <1>1, <1>3 DEF Delivery, Requests
<1>5. ReplayableIsUndelivered'
  BY <1>1, <1>3 DEF Delivery, ReplayableIsUndelivered
<1>. QED
  BY <1>2, <1>4, <1>5 DEF Delivery, Phases

LEMMA NextDelivery ==
  Delivery /\ [Next]_vars => Delivery'
<1>. SUFFICES ASSUME Delivery, [Next]_vars
              PROVE  Delivery'
  OBVIOUS
<1>. USE WindowAssumption
<1>1. CASE Enter
  <2>1. /\ request + 1 \in Requests /\ request' = request + 1 /\ delivered' = delivered
        /\ request + 1 \notin delivered /\ result[request + 1] = None
    BY <1>1 DEF Enter, Delivery, Requests, channel
  <2>2. CASE closed
    <3>1. result' = [result EXCEPT ![request + 1] = "failed"] /\ phase' = "idle"
      BY <1>1, <2>1, <2>2 DEF Enter
    <3>2. \A r \in Requests :
             result'[r] = IF r = request + 1 THEN "failed" ELSE result[r]
      BY <3>1 DEF Delivery
    <3>3. result' \in [Requests -> Results]
      BY <3>1 DEF Delivery, Results
    <3>4. \A r \in Requests : r > request' => result'[r] = None
      BY <2>1, <3>2 DEF Delivery, Requests
    <3>5. ReplayableIsUndelivered'
      BY <2>1, <3>2 DEF Delivery, ReplayableIsUndelivered
    <3>. QED
      BY <2>1, <3>1, <3>3, <3>4, <3>5 DEF Delivery, Phases, Requests
  <2>3. CASE ~closed
    <3>1. result' = result /\ phase' = "entered"
      BY <1>1, <2>3 DEF Enter
    <3>. QED
      BY <2>1, <3>1 DEF Delivery, Phases, Requests, ReplayableIsUndelivered
  <2>. QED BY <2>2, <2>3
<1>2. CASE OpenRequest
  BY <1>2, Unmoved DEF OpenRequest, Delivery, Phases, channel
<1>3. CASE Advance
  <2>1. /\ phase = "opened" /\ phase' = phase /\ request' = request /\ result' = result
        /\ delivered' = delivered \cup {request}
    BY <1>3 DEF Advance, exchange
  <2>2. request \in Requests /\ result[request] = None
    BY <2>1 DEF Delivery
  <2>3. None # "replayable"
    BY <2>1 DEF Delivery
  <2>. QED
    BY <2>1, <2>2, <2>3 DEF Delivery, Requests, ReplayableIsUndelivered
<1>4. CASE Advanced \/ PollStop \/ PollDecision \/ Check
  BY <1>4, Unmoved
  DEF Advanced, PollStop, PollDecision, Check, Phases, channel
<1>5. CASE Leave
  <2>. DEFINE outcome == IF Retires THEN "answered" ELSE "failed"
  <2>1. /\ phase = "checked" /\ phase' = "idle" /\ UNCHANGED <<request, delivered>>
        /\ result' = [result EXCEPT ![request] = outcome]
    BY <1>5 DEF Leave, channel
  <2>. QED BY <2>1, Decided DEF Results
<1>6. CASE Fail
  <2>. DEFINE outcome == IF DeliveryAttempted THEN "failed" ELSE "replayable"
  <2>1. /\ phase \in {"entered", "opened", "polling", "committed"} /\ phase' = "idle"
        /\ UNCHANGED <<request, delivered>>
        /\ result' = [result EXCEPT ![request] = outcome]
    BY <1>6 DEF Fail, channel
  <2>2. outcome = "replayable" => phase = "entered"
    BY <2>1 DEF DeliveryAttempted
  <2>. QED BY <2>1, <2>2, Decided DEF Results
<1>7. CASE Close \/ Claude \/ Hook
  <2>1. UNCHANGED <<phase, request, result, delivered>>
    BY <1>7
    DEF Close, Claude, Hook, Begin, Submitted, Resume, Speak, Respond, Stop, Compact,
        CompactBegins, CompactEnds, Capture, Lost, Dies, TimesOut, exchange, channel
  <2>. QED BY <2>1, Unmoved DEF Delivery
<1>8. CASE UNCHANGED vars
  BY <1>8, Unmoved DEF vars, exchange, channel, Delivery
<1>. QED
  BY <1>1, <1>2, <1>3, <1>4, <1>5, <1>6, <1>7, <1>8 DEF Next, Exchange

\* What an exchange, its outcome and the channel's deliveries say of each other
\* holds in every reachable state of a session (native.py:703).
THEOREM DeliveryInvariant == Spec => []Delivery
<1>. QED BY InitDelivery, NextDelivery, PTL DEF Spec

\* A request whose failure was reported as not delivered never reached the channel,
\* so the identical one may be sent again (native.py:858).
THEOREM ReplayableNeverDelivered == Spec => []ReplayableIsUndelivered
<1>1. Delivery => ReplayableIsUndelivered
  BY DEF Delivery
<1>. QED BY <1>1, DeliveryInvariant, PTL
----------------------------------------------------------------------------
\* The shapes of the two records that actions change in part.
Shaped ==
    /\ turn = [state |-> turn.state, request |-> turn.request, prompt |-> turn.prompt,
               compacts |-> turn.compacts]
    /\ phase \in {"opened", "polling"} =>
         window = [request |-> window.request, prompt |-> window.prompt,
                   open |-> window.open]

\* While the session is open, what is asked is the exchange's request in its own
\* window; Claude works on what is asked; and once Claude ended a turn nothing is
\* started before the exchange has read the stop.
Correlated ==
    ~closed =>
    /\ asked # None => /\ asked = request /\ phase \in {"opened", "polling"}
                       /\ asked \in delivered /\ decided = None
    /\ phase = "opened" /\ request \notin delivered => stop = None
    /\ phase \in {"opened", "polling"} => window.request = request
    /\ turn.state \in {"submitting", "busy"} => asked # None /\ asked = turn.request
    /\ stop # None /\ phase \notin {"idle", "entered"} =>
         /\ stop.request = request
         /\ turn.state = "idle" /\ asked \in {None, turn.request}
    /\ \A h \in hooks : h.event = "stop" =>
         /\ turn.state = "idle" /\ asked # None /\ asked = turn.request
         /\ h.origin = asked /\ stop = None
    /\ \A g, h \in hooks : g.event = "stop" /\ h.event = "stop" => g = h

\* Whatever is taken for an answer is one.
Claimed ==
    /\ AnswerIsClaudes
    /\ phase \in {"committed", "checked"} => request \in ended
    /\ decided # None => decided \in ended
    /\ stop # None /\ stop.ok => stop.request \in ended
    /\ \A h \in hooks : h.event = "stop" /\ h.ok => h.origin \in ended

IInv == Delivery /\ Shaped /\ Correlated /\ Claimed

\* The exchange.
LEMMA ExchangeCorrelated ==
  ASSUME IInv, Exchange
  PROVE  Shaped' /\ Correlated' /\ Claimed'
<1>. USE WindowAssumption DEF IInv, Shaped, Correlated, Claimed, AnswerIsClaudes
<1>1. CASE Enter
  <2>1. /\ request + 1 \in Requests /\ request' = request + 1
        /\ phase = "idle" /\ phase' \in {"idle", "entered"}
        /\ UNCHANGED <<closed, files, channel, claude>>
    BY <1>1 DEF Enter, Delivery, Requests
  <2>2. \A r \in Requests : result'[r] = "answered" => result[r] = "answered"
    BY <1>1, <2>1 DEF Enter, Delivery
  <2>. QED BY <2>1, <2>2 DEF files, channel, claude
<1>2. CASE OpenRequest
  BY <1>2 DEF OpenRequest, channel, claude
<1>3. CASE Advance
  <2>1. /\ ~closed /\ phase = "opened" /\ asked' = request /\ decided' = None
        /\ UNCHANGED <<exchange, closed, files, claude>>
    BY <1>3 DEF Advance
  <2>2. request \notin delivered /\ delivered' = delivered \cup {request}
    BY <1>3 DEF Advance
  <2>3. asked = None /\ stop = None
    BY <2>1, <2>2
  <2>. QED BY <2>1, <2>2, <2>3 DEF exchange, files, claude
<1>4. CASE Advanced
  BY <1>4 DEF Advanced, files, channel, claude
<1>5. CASE PollStop
  BY <1>5 DEF PollStop, Healthy, Usable, EndedWell, files, claude
<1>6. CASE PollDecision
  <2>1. request # None
    BY DEF Delivery
  <2>. QED BY <1>6, <2>1 DEF PollDecision, Healthy, files, channel, claude
<1>7. CASE Check
  BY <1>7 DEF Check, files, channel, claude
<1>8. CASE Leave
  <2>1. phase = "checked" /\ phase' = "idle"
    BY <1>8 DEF Leave
  <2>2. \A r \in Requests : result'[r] = "answered" => r = request \/ result[r] = "answered"
    BY <1>8 DEF Leave, Delivery
  <2>. QED BY <1>8, <2>1, <2>2 DEF Leave, channel, claude
<1>9. CASE Fail
  <2>1. \A r \in Requests : result'[r] = "answered" => result[r] = "answered"
    BY <1>9 DEF Fail, Delivery
  <2>. QED BY <1>9, <2>1 DEF Fail, channel, claude
<1>. QED
  BY <1>1, <1>2, <1>3, <1>4, <1>5, <1>6, <1>7, <1>8, <1>9 DEF Exchange

\* Claude.
LEMMA ClaudeCorrelated ==
  ASSUME IInv, Claude
  PROVE  Shaped' /\ Correlated' /\ Claimed'
<1>. USE DEF IInv, Shaped, Correlated, Claimed, AnswerIsClaudes
<1>1. UNCHANGED <<exchange, closed, files, delivered>> /\ ~closed
  BY DEF Claude, Begin, Submitted, Resume, Speak, Respond, Stop, Compact, CompactBegins,
     CompactEnds, Acts, channel
<1>2. CASE Begin
  BY <1>1, <1>2 DEF Begin, Acts, NewRequest, Spawn, Spawned, exchange, files, channel
<1>3. CASE Submitted
  BY <1>1, <1>3 DEF Submitted, Acts, exchange, files, channel
<1>4. CASE Resume
  BY <1>1, <1>4 DEF Resume, Acts, NewRequest, exchange, files, channel
<1>5. CASE Speak
  BY <1>1, <1>5 DEF Speak, Acts, Spawn, Spawned, exchange, files, channel
<1>6. CASE Respond
  BY <1>1, <1>6 DEF Respond, Acts, exchange, files
<1>7. ASSUME NEW ok \in BOOLEAN, Stop(ok)
      PROVE  Shaped' /\ Correlated' /\ Claimed'
  BY <1>1, <1>7 DEF Stop, Acts, Spawn, Spawned, exchange, files, channel
<1>8. CASE CompactBegins \/ CompactEnds
  BY <1>1, <1>8
  DEF CompactBegins, CompactEnds, Compact, Acts, Spawn, Spawned, exchange, files, channel
<1>. QED
  BY <1>2, <1>3, <1>4, <1>5, <1>6, <1>7, <1>8 DEF Claude

\* The hooks: the one of a stop is captured in the window of the request it ends.
LEMMA HookCorrelated ==
  ASSUME IInv, Hook
  PROVE  Shaped' /\ Correlated' /\ Claimed'
<1>. USE DEF IInv, Shaped, Correlated, Claimed, AnswerIsClaudes
<1>1. PICK h \in hooks : Capture(h) \/ Lost(h) \/ Dies(h) \/ TimesOut(h)
  BY DEF Hook
<1>2. /\ ~closed /\ hooks' = hooks \ {h}
      /\ UNCHANGED <<exchange, closed, channel, turn, ended>>
  BY <1>1 DEF Capture, Lost, Dies, TimesOut
<1>3. CASE Capture(h)
  <2>1. CASE h.event \in {"pre", "post"}
    <3>1. UNCHANGED <<window, stop>>
      BY <1>3, <2>1 DEF Capture
    <3>. QED BY <1>2, <3>1 DEF exchange, channel
  <2>2. CASE h.event \notin {"pre", "post"}
    <3>1. CaptureTurn(h)
      BY <1>3, <2>2 DEF Capture
    <3>2. window' \in {window, Bound(h)}
      BY <3>1 DEF CaptureTurn
    <3>3. phase \in {"opened", "polling"} =>
            /\ window'.request = window.request
            /\ window' = [request |-> window'.request, prompt |-> window'.prompt,
                          open |-> window'.open]
      BY <3>2 DEF Bound
    <3>4. \/ stop' = stop
          \/ /\ h.event = "stop"
             /\ stop' = [request |-> window.request, prompt |-> h.prompt, ok |-> h.ok]
      BY <3>1 DEF CaptureTurn
    <3>5. CASE stop' = stop
      BY <1>2, <3>3, <3>5 DEF exchange, channel
    <3>6. CASE h.event = "stop" /\ stop' # stop
      <4>1. /\ stop'.request = window.request /\ stop'.ok = h.ok
            /\ asked = request /\ window.request = request /\ h.origin = request
            /\ turn.state = "idle" /\ asked = turn.request /\ asked \in delivered
        BY <1>2, <3>4, <3>6
      <4>2. \A g \in hooks' : g.event # "stop"
        BY <1>2, <3>6
      <4>3. stop'.ok => stop'.request \in ended
        BY <3>6, <4>1
      <4>4. UNCHANGED <<phase, request, result, closed, asked, decided, delivered, turn, ended>>
        BY <1>2 DEF exchange, channel
      <4>5. Shaped'
        BY <3>3, <4>4
      <4>6. Claimed'
        BY <1>2, <4>3, <4>4
      <4>7. Correlated'
        BY <1>2, <3>3, <4>1, <4>2, <4>4
      <4>. QED BY <4>5, <4>6, <4>7
    <3>. QED BY <3>4, <3>5, <3>6
  <2>. QED BY <2>1, <2>2
<1>4. CASE Lost(h) \/ TimesOut(h)
  BY <1>2, <1>4 DEF Lost, TimesOut, exchange, files, channel
<1>5. CASE Dies(h)
  BY <1>2, <1>5 DEF Dies, Bound, exchange, channel
<1>. QED BY <1>1, <1>3, <1>4, <1>5

\* The inductive invariant of a session.
LEMMA NextWindow ==
  IInv /\ [Next]_vars => IInv'
<1>. SUFFICES ASSUME IInv, [Next]_vars
              PROVE  IInv'
  OBVIOUS
<1>1. Delivery'
  BY NextDelivery DEF IInv
<1>2. Shaped' /\ Correlated' /\ Claimed'
  <2>1. CASE Exchange
    BY <2>1, ExchangeCorrelated
  <2>2. CASE Close
    BY <2>2
    DEF Close, exchange, files, channel, claude, IInv, Shaped, Correlated, Claimed,
        AnswerIsClaudes
  <2>3. CASE Claude
    BY <2>3, ClaudeCorrelated
  <2>4. CASE Hook
    BY <2>4, HookCorrelated
  <2>5. CASE UNCHANGED vars
    BY <2>5
    DEF vars, exchange, files, channel, claude, IInv, Shaped, Correlated, Claimed,
        AnswerIsClaudes
  <2>. QED BY <2>1, <2>2, <2>3, <2>4, <2>5 DEF Next
<1>. QED BY <1>1, <1>2 DEF IInv

\* Deliveries, windows, Claude's turn and the hooks of its end agree with each other
\* in every reachable state of a session (native.py:729, native_hooks.py:545).
THEOREM WindowInvariant == Spec => []IInv
<1>1. Init => IInv
  BY InitDelivery, WindowAssumption
  DEF Init, IInv, Shaped, Correlated, Claimed, AnswerIsClaudes
<1>. QED BY <1>1, NextWindow, PTL DEF Spec

\* An answer that is returned is one that Claude gave to that request: hooks that are
\* late, reordered, lost or die with the lock can fail a request but never answer
\* it for Claude (native.py:740, native_hooks.py:618).
THEOREM AnswerAlwaysClaudes == Spec => []AnswerIsClaudes
<1>1. IInv => AnswerIsClaudes
  BY DEF IInv, Claimed
<1>. QED BY <1>1, WindowInvariant, PTL
----------------------------------------------------------------------------
(* Hooks that run in time *)

Opened == phase \notin {"idle", "entered"}

Windows == [request : Nat, prompt : Nat \cup {None}, open : BOOLEAN]

\* Claude has not told the window its prompt.
Unbound ==
    \/ turn.state = "idle" /\ turn.request # window.request
    \/ turn.state = "submitting" /\ \E h \in hooks : h.event = "submit"

\* Where Claude is, and what the exchange makes of it.
InTurn ==
    /\ ~poisoned /\ ~locked
    /\ turn.state \in {"idle", "submitting", "busy", "held"}
    /\ turn.prompt \in Nat /\ turn.request \in Nat
    /\ turn.request = 0 \/ turn.request \in delivered
    /\ decided # None => turn.state = "held" /\ decided = turn.request
    /\ phase \in {"entered", "opened", "polling"} => seal
    /\ phase \in {"committed", "checked"} =>
         turn.request = request /\ turn.state = IF seal THEN "idle" ELSE "held"
    /\ ~Opened => continued = IF turn.state = "held" THEN turn.prompt ELSE None

\* The window holds Claude's prompt until it is sealed.
InWindow ==
    /\ retired \subseteq 0 .. turn.prompt
    /\ turn.state # "idle" => turn.prompt \notin retired
    /\ window = None => ~Opened /\ turn.state = "idle" /\ turn.request = 0 /\ hooks = {}
    /\ window # None =>
         /\ window \in Windows
         /\ window.open = Opened
         /\ window.prompt = IF Unbound THEN None ELSE turn.prompt
         /\ turn.request <= window.request
         /\ IF Opened
            THEN /\ window.request = request
                 /\ (turn.request = request => turn.prompt \notin retired)
            ELSE /\ window.request = turn.request
                 /\ turn.state = "idle" => turn.prompt \in retired

\* The hooks that have not run yet.
InTime ==
    \A h \in hooks :
        /\ h.event \in {"submit", "display", "stop", "pre", "post"}
        /\ h.origin <= turn.request /\ h.origin \in Nat
        /\ h.origin = turn.request =>
             /\ h.prompt = turn.prompt
             /\ h.event # "submit" => turn.state # "submitting"
             /\ h.event = "pre" => turn.compacts # "no"
        /\ h.event = "submit" => turn.state = "submitting" /\ h.origin = turn.request
        /\ h.event \in {"submit", "pre"} => h.ok = TRUE
        /\ h = [event |-> h.event, prompt |-> h.prompt, origin |-> h.origin, ok |-> h.ok]

Journals ==
    [status : {"compacting", "completed"}, request : Nat, prompt : Nat, missing : BOOLEAN]

\* A compaction that is not over, or whose end was missed.
InJournal ==
    /\ compaction # None => compaction \in Journals
    /\ pending = IF Compacting(compaction) THEN compaction ELSE None
    /\ pending # None =>
         /\ pending.request <= turn.request
         /\ pending.request = turn.request =>
              pending.prompt = turn.prompt /\ turn.compacts # "no"
         /\ ~pending.missing => pending.request = window.request
         /\ \A h \in hooks : h.origin = pending.request =>
              /\ h.event # "pre"
              /\ h.event = "post" => h.prompt = pending.prompt

Honest == honest /\ ~closed => InTurn /\ InWindow /\ InTime /\ InJournal

HInv == IInv /\ Honest

\* The events of a turn concern the journal only by marking it.
LEMMA JournalMarked ==
  ASSUME InJournal, NEW c \in BOOLEAN, MarkedIf(c), c => Compacting(compaction),
         UNCHANGED turn, hooks' \subseteq hooks,
         window'.request = window.request \/ c \/ pending = None
  PROVE  InJournal'
<1>1. CASE c
  <2>1. /\ compaction # None /\ compaction \in Journals /\ pending = compaction
        /\ compaction.status = "compacting"
    BY <1>1 DEF InJournal, Compacting
  <2>2. compaction' = [compaction EXCEPT !.missing = TRUE] /\ pending' = compaction'
    BY <1>1, <2>1 DEF MarkedIf, Incomplete, Compacting
  <2>3. /\ compaction' \in Journals /\ compaction'.status = "compacting"
        /\ pending'.request = pending.request /\ pending'.prompt = pending.prompt
        /\ pending'.missing
    BY <2>1, <2>2 DEF Journals
  <2>. QED BY <2>1, <2>2, <2>3 DEF InJournal, Compacting
<1>2. CASE ~c
  <2>1. UNCHANGED <<compaction, pending>>
    BY <1>2 DEF MarkedIf
  <2>. QED BY <1>2, <2>1 DEF InJournal, Compacting
<1>. QED BY <1>1, <1>2

LEMMA OpenRequestHonest ==
  ASSUME IInv, InTurn, InWindow, InTime, InJournal, OpenRequest, ~closed
  PROVE  InTurn' /\ InWindow' /\ InTime' /\ InJournal'
<1>1. /\ phase = "entered" /\ ~Opened
      /\ request \in Nat /\ request # 0 /\ request \notin delivered /\ delivered \subseteq Nat
      /\ asked = None
  BY WindowAssumption DEF OpenRequest, Opened, IInv, Delivery, Correlated, Requests
<1>2. turn.state \in {"idle", "held"} /\ turn.prompt \in Nat /\ turn.request \in Nat
  <2>1. turn.state \notin {"submitting", "busy"}
    BY <1>1 DEF IInv, Correlated
  <2>2. turn.state \in {"idle", "submitting", "busy", "held"} /\ turn.prompt \in Nat
        /\ (turn.request = 0 \/ turn.request \in delivered)
    BY DEF InTurn
  <2>3. turn.request \in Nat
    <3>1. CASE turn.request = 0
      BY <3>1
    <3>2. CASE turn.request \in delivered
      BY <1>1, <3>2
    <3>. QED BY <2>2, <3>1, <3>2
  <2>. QED BY <2>1, <2>2, <2>3
<1>3. turn.request # request /\ turn.request <= request
  <2>1. (turn.request = 0 \/ turn.request \in delivered) /\ delivered \subseteq 1 .. request
    BY DEF InTurn, IInv, Delivery
  <2>2. turn.request = 0 \/ turn.request \in 1 .. request
    BY <2>1
  <2>3. turn.request # request
    BY <1>1, <2>1
  <2>4. turn.request <= request
    BY <1>1, <2>2
  <2>. QED BY <2>3, <2>4
<1>4. continued = IF turn.state = "held" THEN turn.prompt ELSE None
  BY <1>1 DEF InTurn
<1>5. Opens
  <2>1. ASSUME window # None
        PROVE  ~window.open /\ continued = IF Unsealed THEN window.prompt ELSE None
    <3>1. ~window.open /\ window.request = turn.request
      BY <1>1, <2>1 DEF InWindow, Windows
    <3>2. window.prompt = turn.prompt /\ window.prompt # None
      BY <1>2, <2>1, <3>1, WindowAssumption DEF InWindow, Unbound
    <3>3. window.prompt \in retired <=> turn.state = "idle"
      BY <1>1, <1>2, <2>1, <3>2 DEF InWindow
    <3>. QED BY <1>2, <1>4, <2>1, <3>1, <3>2, <3>3 DEF Unsealed
  <2>. QED BY <2>1 DEF Opens, Continues, InTurn
<1>6. /\ phase' = "opened"
      /\ window' = [request |-> request, prompt |-> continued, open |-> TRUE]
      /\ MarkedIf(Compacting(compaction))
      /\ UNCHANGED <<request, continued, seal, closed, retired, locked, poisoned,
                     delivered, asked, decided, turn, hooks>>
  BY <1>5 DEF OpenRequest, Opens, MarkedIf, channel, claude
<1>7. window' \in Windows /\ window' # None
  <2>1. continued \in Nat \cup {None}
    BY <1>2, <1>4
  <2>2. window' \in Windows
    BY <1>1, <1>6, <2>1 DEF Windows
  <2>. QED BY <2>2, WindowAssumption DEF Windows
<1>8. InTurn'
  BY <1>1, <1>6 DEF InTurn, Opened
<1>9. InWindow'
  <2>1. window'.prompt = IF Unbound' THEN None ELSE turn'.prompt
    BY <1>2, <1>3, <1>4, <1>6 DEF Unbound
  <2>. QED BY <1>1, <1>3, <1>6, <1>7, <2>1 DEF InWindow, Opened
<1>10. InTime'
  BY <1>6 DEF InTime
<1>11. InJournal'
  <2>1. Compacting(compaction) \/ pending = None
    BY DEF InJournal
  <2>. QED BY <1>6, <2>1, JournalMarked DEF Compacting
<1>. QED BY <1>8, <1>9, <1>10, <1>11

\* An answered request leaves its prompt sealed or to the next one.
LEMMA LeaveHonest ==
  ASSUME IInv, InTurn, InWindow, InTime, InJournal, Leave, ~closed'
  PROVE  InTurn' /\ InWindow' /\ InTime' /\ InJournal'
<1>1. /\ phase = "checked" /\ phase' = "idle" /\ Opened /\ ~Opened'
      /\ Retires /\ RetireWindow(seal)
      /\ continued' = IF seal THEN None ELSE window.prompt
      /\ UNCHANGED <<closed, poisoned, request, seal, stop, locked, delivered, asked,
                     decided, turn, hooks>>
  BY DEF Leave, Opened, channel, claude
<1>2. /\ turn.request = request /\ turn.state = IF seal THEN "idle" ELSE "held"
      /\ turn.prompt \in Nat
  BY <1>1 DEF InTurn
<1>3. window # None
  BY <1>1 DEF InWindow
<1>4. /\ window \in Windows /\ window.request = request /\ window.prompt = turn.prompt
      /\ turn.prompt \notin retired
  BY <1>1, <1>2, <1>3 DEF InWindow, Unbound
<1>5. /\ window' = [window EXCEPT !.open = FALSE]
      /\ retired' = IF seal THEN retired \cup {window.prompt} ELSE retired
      /\ MarkedIf(Compacting(compaction) /\ compaction.request = request)
  BY <1>1 DEF RetireWindow
<1>6. /\ window' \in Windows /\ window'.request = request /\ window'.prompt = turn.prompt
      /\ window'.open = FALSE /\ window' # None
  BY <1>4, <1>5, WindowAssumption DEF Windows
<1>7. InTurn'
  BY <1>1, <1>2, <1>4 DEF InTurn
<1>8. InWindow'
  <2>1. ~Unbound'
    BY <1>1, <1>2, <1>6 DEF Unbound
  <2>2. request \in Nat
    BY <1>4 DEF Windows
  <2>3. /\ retired' \subseteq 0 .. turn.prompt
        /\ turn.prompt \in retired' <=> turn.state = "idle"
    BY <1>2, <1>4, <1>5 DEF InWindow
  <2>4. turn' = turn /\ ~Opened'
    BY <1>1
  <2>5. turn.request <= request /\ turn'.request <= window'.request
    BY <1>2, <1>6, <2>2, <2>4
  <2>6. turn'.state # "idle" => turn'.prompt \notin retired'
    BY <2>3, <2>4
  <2>7. /\ window' \in Windows /\ window'.open = Opened'
        /\ window'.prompt = IF Unbound' THEN None ELSE turn'.prompt
        /\ window'.request = turn'.request
        /\ turn'.state = "idle" => turn'.prompt \in retired'
        /\ retired' \subseteq 0 .. turn'.prompt
    <3>1. Opened' = FALSE
      BY <2>4
    <3>2. turn'.prompt = turn.prompt /\ turn'.request = turn.request /\ turn'.state = turn.state
      BY <2>4
    <3>3. window'.prompt = IF Unbound' THEN None ELSE turn'.prompt
      BY <1>6, <2>1, <3>2
    <3>4. window'.open = Opened'
      BY <1>6, <3>1
    <3>. QED BY <1>2, <1>6, <2>3, <3>2, <3>3, <3>4
  <2>. HIDE DEF Opened, Unbound
  <2>. QED BY <1>6, <2>4, <2>5, <2>6, <2>7 DEF InWindow
<1>9. InTime'
  BY <1>1 DEF InTime
<1>10. InJournal'
  BY <1>1, <1>4, <1>5, <1>6, JournalMarked DEF Compacting
<1>. QED BY <1>7, <1>8, <1>9, <1>10

LEMMA ExchangeHonest ==
  ASSUME IInv, InTurn, InWindow, InTime, InJournal, Exchange, ~closed'
  PROVE  InTurn' /\ InWindow' /\ InTime' /\ InJournal'
<1>1. CASE Enter
  <2>1. /\ phase = "idle" /\ phase' = "entered" /\ seal'
        /\ UNCHANGED <<continued, closed, files, channel, claude>>
    BY <1>1 DEF Enter
  <2>2. InTurn'
    BY <2>1 DEF InTurn, Opened, files, channel, claude
  <2>3. InWindow'
    BY <2>1 DEF InWindow, Opened, Unbound, files, claude
  <2>. QED BY <2>1, <2>2, <2>3 DEF InTime, InJournal, Compacting, files, claude
<1>2. CASE OpenRequest
  BY <1>2, OpenRequestHonest DEF OpenRequest
<1>3. ASSUME UNCHANGED <<request, continued, files, turn, hooks>>,
             Opened, Opened'
      PROVE  InWindow' /\ InTime' /\ InJournal'
  BY <1>3 DEF InWindow, Unbound, InTime, InJournal, Compacting, files
<1>4. CASE Advance
  <2>1. /\ phase = "opened" /\ decided' = None /\ delivered' = delivered \cup {request}
        /\ UNCHANGED <<exchange, files, turn, hooks>>
    BY <1>4 DEF Advance, claude
  <2>2. InTurn'
    BY <2>1 DEF InTurn, Opened, exchange, files
  <2>. QED BY <1>3, <2>1, <2>2 DEF exchange, Opened
<1>5. CASE Advanced
  <2>1. /\ phase = "opened" /\ phase' = "polling"
        /\ UNCHANGED <<request, continued, seal, files, channel, turn, hooks>>
    BY <1>5 DEF Advanced, claude
  <2>2. InTurn'
    BY <2>1 DEF InTurn, Opened, files, channel
  <2>. QED BY <1>3, <2>1, <2>2 DEF Opened
<1>6. CASE PollStop
  <2>1. /\ phase = "polling" /\ phase' = "committed" /\ asked = request /\ stop # None
        /\ ~closed
        /\ UNCHANGED <<request, continued, seal, files, delivered, decided, turn, hooks>>
    BY <1>6 DEF PollStop, Healthy, claude
  <2>2. turn.state = "idle" /\ turn.request = request
    BY <2>1, WindowAssumption DEF IInv, Correlated, Delivery, Requests
  <2>3. InTurn'
    BY <2>1, <2>2 DEF InTurn, Opened, files
  <2>. QED BY <1>3, <2>1, <2>3 DEF Opened
<1>7. CASE PollDecision
  <2>1. /\ phase = "polling" /\ phase' = "committed" /\ decided = request /\ ~seal'
        /\ UNCHANGED <<request, continued, files, channel, turn, hooks>>
        /\ seal' = FALSE
    BY <1>7 DEF PollDecision, claude
  <2>2. turn.state = "held" /\ turn.request = request
    BY <2>1, WindowAssumption DEF InTurn, IInv, Delivery, Requests
  <2>3. InTurn'
    BY <2>1, <2>2 DEF InTurn, Opened, files, channel
  <2>. QED BY <1>3, <2>1, <2>3 DEF Opened
<1>8. CASE Check
  <2>1. /\ phase = "committed" /\ phase' = "checked"
        /\ UNCHANGED <<request, continued, seal, files, channel, turn, hooks>>
    BY <1>8 DEF Check, claude
  <2>2. InTurn'
    BY <2>1 DEF InTurn, Opened, files, channel
  <2>. QED BY <1>3, <2>1, <2>2 DEF Opened
<1>9. CASE Leave
  BY <1>9, LeaveHonest
<1>10. CASE Fail
  BY <1>10 DEF Fail
<1>. QED
  BY <1>1, <1>2, <1>4, <1>5, <1>6, <1>7, <1>8, <1>9, <1>10 DEF Exchange

\* A hook of the turn in progress is added.
LEMMA SpawnHonest ==
  ASSUME InTime, InJournal, NEW event, NEW ok, hooks' = hooks \cup {Spawned(event, ok)},
         turn'.request \in Nat, turn'.request = turn.request, turn'.prompt = turn.prompt,
         turn.state \notin {"idle", "submitting"}, turn'.state # "submitting",
         event \in {"display", "stop", "pre", "post"}, event = "pre" => ok = TRUE,
         turn.compacts # "no" => turn'.compacts # "no",
         event = "pre" => turn.compacts = "no" /\ turn'.compacts # "no",
         UNCHANGED <<compaction, pending, window>>
  PROVE  InTime' /\ InJournal'
<1>1. \A h \in hooks' : h \in hooks \/
        /\ h.event = event /\ h.prompt = turn.prompt /\ h.origin = turn.request /\ h.ok = ok
        /\ h = [event |-> h.event, prompt |-> h.prompt, origin |-> h.origin, ok |-> h.ok]
  BY DEF Spawned
<1>2. InTime'
  BY <1>1 DEF InTime
<1>3. InJournal'
  <2>1. ASSUME pending # None
        PROVE  /\ turn.request = pending.request => turn.compacts # "no" /\ turn.prompt = pending.prompt
    BY <2>1 DEF InJournal
  <2>2. ASSUME pending # None, NEW h \in hooks', h.origin = pending.request
        PROVE  h.event # "pre" /\ (h.event = "post" => h.prompt = pending.prompt)
    BY <1>1, <2>1, <2>2 DEF InJournal
  <2>. QED BY <2>2 DEF InJournal, Compacting
<1>. QED BY <1>2, <1>3

\* A prompt or a resumed one is a new request of the turn.
LEMMA TurnMoves ==
  ASSUME IInv, InTurn, InWindow, Begin \/ Resume
  PROVE  /\ ~closed /\ Opened /\ window # None /\ window \in Windows /\ window.request = request
         /\ asked = request /\ asked \in delivered /\ decided = None
         /\ phase \in {"opened", "polling"}
         /\ turn.request \in Nat /\ turn.request < request /\ request \in Nat
         /\ turn.prompt \in Nat
<1>1. ~closed /\ asked # None /\ asked # turn.request
  BY DEF Begin, Resume, Acts, NewRequest
<1>2. /\ asked = request /\ asked \in delivered /\ decided = None
      /\ phase \in {"opened", "polling"}
  BY <1>1 DEF IInv, Correlated
<1>3. Opened /\ window # None /\ window \in Windows /\ window.request = request
  BY <1>2 DEF InWindow, Opened
<1>4. delivered \subseteq 1 .. request /\ request \in Nat
  BY WindowAssumption DEF IInv, Delivery
<1>5. turn.request \in Nat /\ turn.request <= request
  <2>1. turn.request <= request
    BY <1>3 DEF InWindow
  <2>2. CASE turn.request = 0
    BY <2>1, <2>2
  <2>3. CASE turn.request \in delivered
    <3>1. turn.request \in 1 .. request
      BY <1>4, <2>3
    <3>. QED BY <1>4, <3>1
  <2>4. turn.request = 0 \/ turn.request \in delivered
    BY DEF InTurn
  <2>. QED BY <2>2, <2>3, <2>4
<1>6. turn.prompt \in Nat
  BY DEF InTurn
<1>. QED BY <1>1, <1>2, <1>3, <1>4, <1>5, <1>6

LEMMA BeginHonest ==
  ASSUME IInv, InTurn, InWindow, InTime, InJournal, Begin
  PROVE  InTurn' /\ InWindow' /\ InTime' /\ InJournal'
<1>1. /\ ~closed /\ Opened /\ window # None /\ window \in Windows /\ window.request = request
      /\ asked = request /\ asked \in delivered /\ decided = None
      /\ phase \in {"opened", "polling"}
      /\ turn.request \in Nat /\ turn.request < request /\ request \in Nat
      /\ turn.prompt \in Nat
  BY TurnMoves
<1>2. /\ turn.state = "idle"
      /\ turn' = [state |-> "submitting", request |-> request, prompt |-> turn.prompt + 1,
                  compacts |-> "no"]
      /\ hooks' = hooks \cup {[event |-> "submit", prompt |-> turn.prompt + 1,
                               origin |-> request, ok |-> TRUE]}
      /\ UNCHANGED <<phase, request, continued, seal, window, retired, compaction, pending,
                     poisoned, locked, delivered, decided>>
  BY <1>1 DEF Begin, Acts, Spawn, Spawned, exchange, files, channel
<1>3. window.prompt = None
  BY <1>1, <1>2 DEF InWindow, Unbound
<1>4. \A h \in hooks' : h \in hooks \/
        /\ h.event = "submit" /\ h.prompt = turn.prompt + 1 /\ h.origin = request
        /\ h.ok = TRUE
        /\ h = [event |-> h.event, prompt |-> h.prompt, origin |-> h.origin, ok |-> h.ok]
  BY <1>2
<1>5. \A h \in hooks : /\ h.origin \in Nat /\ h.origin < request /\ h.event # "submit"
                       /\ h.event \in {"submit", "display", "stop", "pre", "post"}
                       /\ h.event \in {"submit", "pre"} => h.ok = TRUE
                       /\ h = [event |-> h.event, prompt |-> h.prompt,
                               origin |-> h.origin, ok |-> h.ok]
  BY <1>1, <1>2 DEF InTime
<1>6. InTurn'
  BY <1>1, <1>2 DEF InTurn, Opened
<1>7. InWindow'
  <2>1. Unbound' /\ Opened'
    <3>. DEFINE new == [event |-> "submit", prompt |-> turn.prompt + 1,
                        origin |-> request, ok |-> TRUE]
    <3>1. new \in hooks' /\ new.event = "submit"
      BY <1>2
    <3>. HIDE DEF new
    <3>. QED BY <1>1, <1>2, <3>1 DEF Unbound, Opened
  <2>2. retired' \subseteq 0 .. turn'.prompt /\ turn'.prompt \notin retired'
    <3>1. retired \subseteq 0 .. turn.prompt /\ retired' = retired
      BY <1>2 DEF InWindow
    <3>2. turn'.prompt = turn.prompt + 1
      BY <1>2
    <3>3. \A p \in retired' : p \in 0 .. turn.prompt
      BY <3>1
    <3>4. 0 .. turn.prompt \subseteq 0 .. turn.prompt + 1 /\ turn.prompt + 1 \notin 0 .. turn.prompt
      BY <1>1
    <3>. QED BY <3>2, <3>3, <3>4
  <2>3. window'.open = Opened'
    BY <1>1, <1>2 DEF InWindow, Opened
  <2>. HIDE DEF Opened, Unbound
  <2>. QED BY <1>1, <1>2, <1>3, <2>1, <2>2, <2>3 DEF InWindow
<1>8. InTime'
  BY <1>1, <1>2, <1>4, <1>5 DEF InTime
<1>9. InJournal'
  <2>1. ASSUME pending # None PROVE pending.request \in Nat /\ pending.request < request
    <3>1. pending \in Journals
      BY <2>1 DEF InJournal
    <3>2. pending.request \in Nat
      BY <3>1 DEF Journals
    <3>. QED BY <1>1, <2>1, <3>2 DEF InJournal
  <2>2. ASSUME pending # None, NEW h \in hooks', h.origin = pending.request
        PROVE  h.event # "pre" /\ (h.event = "post" => h.prompt = pending.prompt)
    BY <1>1, <1>4, <2>1, <2>2 DEF InJournal
  <2>. QED BY <1>1, <1>2, <2>1, <2>2 DEF InJournal, Compacting
<1>. QED BY <1>6, <1>7, <1>8, <1>9

LEMMA ResumeHonest ==
  ASSUME IInv, InTurn, InWindow, InTime, InJournal, Resume
  PROVE  InTurn' /\ InWindow' /\ InTime' /\ InJournal'
<1>1. /\ ~closed /\ Opened /\ window # None /\ window \in Windows /\ window.request = request
      /\ asked = request /\ asked \in delivered /\ decided = None
      /\ phase \in {"opened", "polling"}
      /\ turn.request \in Nat /\ turn.request < request /\ request \in Nat
      /\ turn.prompt \in Nat
  BY TurnMoves
<1>2. /\ turn.state = "held"
      /\ turn' = [turn EXCEPT !.state = "busy", !.request = asked, !.compacts = "no"]
      /\ UNCHANGED <<phase, request, continued, seal, window, retired, compaction, pending,
                     poisoned, locked, delivered, decided, hooks>>
  BY DEF Resume, Acts, exchange, files, channel
<1>3. /\ turn'.state = "busy" /\ turn'.request = request /\ turn'.prompt = turn.prompt
      /\ turn'.compacts = "no"
  BY <1>1, <1>2 DEF IInv, Shaped
<1>4. \A h \in hooks : /\ h.origin \in Nat /\ h.origin < request /\ h.event # "submit"
                       /\ h.event \in {"submit", "display", "stop", "pre", "post"}
                       /\ h.event \in {"submit", "pre"} => h.ok = TRUE
                       /\ h = [event |-> h.event, prompt |-> h.prompt,
                               origin |-> h.origin, ok |-> h.ok]
  BY <1>1, <1>2 DEF InTime
<1>5. InTurn'
  BY <1>1, <1>2, <1>3 DEF InTurn, Opened
<1>6. InWindow'
  <2>1. ~Unbound /\ ~Unbound'
    BY <1>2, <1>3 DEF Unbound
  <2>2. retired \subseteq 0 .. turn.prompt /\ turn.prompt \notin retired
        /\ window.prompt = turn.prompt
    BY <1>1, <1>2, <2>1 DEF InWindow
  <2>3. window'.open = Opened' /\ Opened'
    BY <1>1, <1>2 DEF InWindow, Opened
  <2>. HIDE DEF Opened, Unbound
  <2>. QED BY <1>1, <1>2, <1>3, <2>1, <2>2, <2>3 DEF InWindow
<1>7. InTime'
  BY <1>1, <1>2, <1>3, <1>4 DEF InTime
<1>8. InJournal'
  <2>1. ASSUME pending # None PROVE pending.request \in Nat /\ pending.request < request
    <3>1. pending \in Journals
      BY <2>1 DEF InJournal
    <3>2. pending.request \in Nat
      BY <3>1 DEF Journals
    <3>. QED BY <1>1, <2>1, <3>2 DEF InJournal
  <2>. QED BY <1>1, <1>2, <1>3, <2>1 DEF InJournal, Compacting
<1>. QED BY <1>5, <1>6, <1>7, <1>8

LEMMA ClaudeHonest ==
  ASSUME IInv, InTurn, InWindow, InTime, InJournal, Claude
  PROVE  InTurn' /\ InWindow' /\ InTime' /\ InJournal'
<1>1. CASE Begin
  BY <1>1, BeginHonest
<1>2. CASE Resume
  BY <1>2, ResumeHonest
<1>3. /\ ~closed
      /\ UNCHANGED <<phase, request, continued, seal, window, retired, compaction, pending,
                     poisoned, locked, delivered>>
  BY DEF Claude, Begin, Submitted, Resume, Speak, Respond, Stop, Compact, CompactBegins,
     CompactEnds, Acts, exchange, files, channel
<1>4. ASSUME turn.state \in {"submitting", "busy"}
      PROVE  /\ asked = turn.request /\ asked = request /\ phase \in {"opened", "polling"}
             /\ Opened /\ decided = None
             /\ window # None /\ window.request = request /\ turn.request \in Nat
  <2>1. /\ asked = turn.request /\ asked = request /\ phase \in {"opened", "polling"}
        /\ decided = None /\ asked # None
    BY <1>3, <1>4 DEF IInv, Correlated
  <2>2. Opened /\ window # None /\ window.request = request
    BY <2>1 DEF InWindow, Opened
  <2>3. request \in Nat
    BY WindowAssumption DEF IInv, Delivery
  <2>. QED BY <2>1, <2>2, <2>3
<1>5. CASE Submitted
  <2>1. /\ turn.state = "submitting" /\ (\A h \in hooks : h.event # "submit")
        /\ turn' = [turn EXCEPT !.state = "busy"] /\ UNCHANGED <<hooks, decided>>
    BY <1>5 DEF Submitted, Acts, channel
  <2>2. /\ turn'.state = "busy" /\ turn'.request = turn.request /\ turn'.prompt = turn.prompt
        /\ turn'.compacts = turn.compacts
    BY <2>1 DEF IInv, Shaped
  <2>3. InTurn'
    BY <1>3, <1>4, <2>1, <2>2 DEF InTurn, Opened
  <2>4. InWindow'
    <3>1. ~Unbound /\ ~Unbound'
      BY <2>1, <2>2 DEF Unbound
    <3>2. Opened' /\ Opened
      BY <1>3, <1>4, <2>1 DEF Opened
    <3>3. window'.open = Opened'
      BY <1>3, <1>4, <2>1, <3>2 DEF InWindow
    <3>4. /\ window' # None /\ window' \in Windows /\ window'.prompt = turn'.prompt
          /\ turn'.prompt \notin retired' /\ retired' \subseteq 0 .. turn'.prompt
          /\ window'.request = request' /\ turn'.request <= window'.request
      BY <1>3, <1>4, <2>1, <2>2, <3>1 DEF InWindow
    <3>. HIDE DEF Opened, Unbound
    <3>. QED BY <2>2, <3>1, <3>2, <3>3, <3>4 DEF InWindow
  <2>5. InTime'
    BY <2>1, <2>2 DEF InTime
  <2>6. InJournal'
    BY <1>3, <2>1, <2>2 DEF InJournal, Compacting
  <2>. QED BY <2>3, <2>4, <2>5, <2>6
\* Claude goes on with a prompt its window knows.
<1>6. ASSUME turn.state = "busy", turn'.state \in {"idle", "busy", "held"},
             turn'.prompt = turn.prompt, turn'.request = turn.request,
             decided' # None => turn'.state = "held" /\ decided' = turn.request
      PROVE  InTurn' /\ InWindow'
  <2>1. InTurn'
    BY <1>3, <1>4, <1>6 DEF InTurn, Opened
  <2>2. ~Unbound /\ ~Unbound'
    BY <1>3, <1>4, <1>6 DEF Unbound
  <2>3. Opened' /\ Opened
    BY <1>3, <1>4, <1>6 DEF Opened
  <2>. HIDE DEF Opened, Unbound
  <2>4. InWindow'
    BY <1>3, <1>4, <1>6, <2>2, <2>3 DEF InWindow
  <2>. QED BY <2>1, <2>4
<1>7. CASE Respond
  <2>1. /\ turn.state = "busy" /\ turn' = [turn EXCEPT !.state = "held"]
        /\ decided' = turn.request /\ UNCHANGED hooks
    BY <1>7 DEF Respond, Acts
  <2>2. /\ turn'.state = "held" /\ turn'.request = turn.request /\ turn'.prompt = turn.prompt
        /\ turn'.compacts = turn.compacts
    BY <2>1 DEF IInv, Shaped
  <2>3. InTime' /\ InJournal'
    BY <1>3, <2>1, <2>2 DEF InTime, InJournal, Compacting
  <2>. QED BY <1>6, <2>1, <2>2, <2>3
<1>8. ASSUME NEW event, NEW ok, hooks' = hooks \cup {Spawned(event, ok)},
             turn.state = "busy", turn'.state \in {"idle", "busy"}, decided' = decided,
             turn'.prompt = turn.prompt, turn'.request = turn.request,
             event \in {"display", "stop", "pre", "post"}, event = "pre" => ok = TRUE,
             turn.compacts # "no" => turn'.compacts # "no",
             event = "pre" => turn.compacts = "no" /\ turn'.compacts # "no"
      PROVE  InTurn' /\ InWindow' /\ InTime' /\ InJournal'
  <2>1. InTurn' /\ InWindow'
    BY <1>4, <1>6, <1>8
  <2>2. InTime' /\ InJournal'
    BY <1>3, <1>4, <1>8, SpawnHonest
  <2>. QED BY <2>1, <2>2
<1>9. CASE Speak
  <2>1. turn.state = "busy" /\ UNCHANGED turn
    BY <1>9 DEF Speak, Acts
  <2>2. hooks' = hooks \cup {Spawned("display", TRUE)} /\ decided' = decided
    BY <1>9 DEF Speak, Spawn, channel
  <2>3. /\ turn'.state = "busy" /\ turn'.request = turn.request /\ turn'.prompt = turn.prompt
        /\ turn'.compacts = turn.compacts
    BY <2>1
  <2>4. "display" \in {"display", "stop", "pre", "post"} /\ "display" # "pre"
    OBVIOUS
  <2>. QED BY <1>8, <2>1, <2>2, <2>3, <2>4
<1>10. ASSUME NEW ok \in BOOLEAN, Stop(ok)
       PROVE  InTurn' /\ InWindow' /\ InTime' /\ InJournal'
  <2>1. /\ turn.state = "busy" /\ turn' = [turn EXCEPT !.state = "idle"]
        /\ hooks' = hooks \cup {Spawned("stop", ok)} /\ UNCHANGED decided
    BY <1>10 DEF Stop, Acts, Spawn, channel
  <2>2. /\ turn'.state = "idle" /\ turn'.request = turn.request /\ turn'.prompt = turn.prompt
        /\ turn'.compacts = turn.compacts
    BY <2>1 DEF IInv, Shaped
  <2>3. /\ turn.state = "busy" /\ hooks' = hooks \cup {Spawned("stop", ok)}
        /\ decided' = decided
    BY <2>1
  <2>4. "stop" \in {"display", "stop", "pre", "post"} /\ "stop" # "pre"
    OBVIOUS
  <2>. QED BY <1>8, <2>2, <2>3, <2>4
<1>11. ASSUME NEW from, NEW to, NEW event, Compact(from, to, event),
              <<from, to, event>> \in {<<"no", "begun", "pre">>, <<"begun", "over", "post">>}
       PROVE  InTurn' /\ InWindow' /\ InTime' /\ InJournal'
  <2>1. /\ turn.state = "busy" /\ turn' = [turn EXCEPT !.compacts = to]
        /\ hooks' = hooks \cup {Spawned(event, TRUE)} /\ UNCHANGED decided
        /\ turn.compacts = from
    BY <1>11 DEF Compact, Acts, Spawn, channel
  <2>2. /\ turn'.state = "busy" /\ turn'.request = turn.request /\ turn'.prompt = turn.prompt
        /\ turn'.compacts = to
    BY <2>1 DEF IInv, Shaped
  <2>3. event \in {"pre", "post"} /\ to # "no" /\ (event = "pre" => from = "no")
    BY <1>11
  <2>. QED BY <1>8, <2>1, <2>2, <2>3
<1>12. CASE CompactBegins \/ CompactEnds
  BY <1>11, <1>12 DEF CompactBegins, CompactEnds
<1>. QED
  BY <1>1, <1>2, <1>5, <1>7, <1>9, <1>10, <1>12 DEF Claude

\* A hook that runs finds its window, and its compaction in the journal.
LEMMA CaptureHonest ==
  ASSUME IInv, InTurn, InWindow, InTime, InJournal, ~closed,
         NEW h \in hooks, Capture(h), Timely(h)
  PROVE  InTurn' /\ InWindow' /\ InTime' /\ InJournal'
<1>1. /\ ~poisoned /\ hooks' = hooks \ {h}
      /\ UNCHANGED <<phase, request, continued, seal, retired, locked, delivered, decided, turn>>
  BY DEF Capture, exchange, channel, InTurn
<1>2. /\ window # None /\ window \in Windows /\ turn.request <= window.request
      /\ window.open = Opened /\ h.origin <= turn.request
      /\ h.origin \in Nat /\ turn.request \in Nat /\ window.request \in Nat
      /\ turn.prompt \in Nat /\ turn.prompt # None
  <2>1. window # None
    BY DEF InWindow
  <2>2. window \in Windows /\ turn.request <= window.request /\ window.open = Opened
    BY <2>1 DEF InWindow
  <2>3. h.origin <= turn.request /\ h.origin \in Nat
    BY DEF InTime
  <2>. QED BY WindowAssumption, <2>1, <2>2, <2>3 DEF InTurn, Windows
<1>3. InTime'
  BY <1>1 DEF InTime
<1>4. ASSUME ~poisoned' PROVE InTurn'
  BY <1>1, <1>4 DEF InTurn, Opened
<1>0. UNCHANGED poisoned => InTurn'
  BY <1>1, <1>4
<1>5. ASSUME h.event # "submit", UNCHANGED window PROVE InWindow'
  <2>1. (\E g \in hooks' : g.event = "submit") <=> (\E g \in hooks : g.event = "submit")
    BY <1>1, <1>5
  <2>2. Unbound' = Unbound /\ Opened' = Opened
    BY <1>1, <1>5, <2>1 DEF Unbound, Opened
  <2>. HIDE DEF Unbound, Opened
  <2>. QED BY <1>1, <1>2, <1>5, <2>2 DEF InWindow
\* The hooks of the request that has the window.
<1>6. ASSUME h.origin = window.request
      PROVE  /\ h.origin = turn.request /\ h.prompt = turn.prompt
             /\ window.request = turn.request
             /\ window.prompt = IF Unbound THEN None ELSE turn.prompt
             /\ Unbound => turn.state = "submitting" /\ h.event = "submit"
             /\ turn.state = "submitting" <=> h.event = "submit"
  <2>1. h.origin = turn.request /\ window.request = turn.request
    BY <1>2, <1>6
  <2>2. /\ h.prompt = turn.prompt
        /\ h.event # "submit" => turn.state # "submitting"
        /\ h.event = "submit" => turn.state = "submitting"
    BY <2>1 DEF InTime
  <2>3. window.prompt = IF Unbound THEN None ELSE turn.prompt
    BY <1>2 DEF InWindow
  <2>. QED BY <2>1, <2>2, <2>3 DEF Unbound
<1>7. CASE h.event = "pre"
  <2>1. /\ PreCompact(h) /\ UNCHANGED <<window, stop>>
        /\ window.open /\ window.request = h.origin
    BY <1>7 DEF Capture, Timely
  <2>2. /\ h.prompt = turn.prompt /\ window.prompt = turn.prompt
        /\ h.origin = turn.request /\ turn.compacts # "no"
    BY <1>6, <1>7, <2>1 DEF InTime
  <2>3. ~Overlaps
    <3>1. SUFFICES ASSUME pending # None, ~pending.missing PROVE FALSE
      BY DEF Overlaps, Compacting
    <3>2. pending.request = h.origin
      BY <2>1, <3>1 DEF InJournal
    <3>. QED BY <1>7, <3>1, <3>2 DEF InJournal
  <2>4. /\ compaction' = [status |-> "compacting", request |-> window.request,
                          prompt |-> h.prompt, missing |-> FALSE]
        /\ pending' = compaction' /\ UNCHANGED poisoned
    BY <2>1, <2>2, <2>3 DEF PreCompact
  <2>5. InJournal'
    <3>1. /\ compaction' \in Journals /\ compaction'.status = "compacting"
          /\ pending'.request = turn.request /\ pending'.prompt = turn.prompt
          /\ pending'.request = window.request
      BY <1>2, <2>1, <2>2, <2>4 DEF Journals
    <3>2. ASSUME NEW g \in hooks', g.origin = turn.request
          PROVE  g.event # "pre" /\ g.prompt = turn.prompt
      <4>1. /\ g \in hooks /\ g # h /\ g.prompt = turn.prompt
            /\ g = [event |-> g.event, prompt |-> g.prompt, origin |-> g.origin, ok |-> g.ok]
            /\ g.event = "pre" => g.ok = TRUE
        BY <1>1, <3>2 DEF InTime
      <4>2. /\ h = [event |-> h.event, prompt |-> h.prompt, origin |-> h.origin, ok |-> h.ok]
            /\ h.ok = TRUE
        BY <1>7 DEF InTime
      <4>3. g.event = "pre" => g = h
        BY <1>7, <2>2, <3>2, <4>1, <4>2
      <4>. QED BY <4>1, <4>3
    <3>. QED BY <1>1, <1>2, <2>1, <2>2, <2>4, <3>1, <3>2 DEF InJournal, Compacting
  <2>. QED BY <1>0, <1>3, <1>5, <1>7, <2>1, <2>4, <2>5
<1>8. CASE h.event = "post"
  <2>1. /\ PostCompact(h) /\ UNCHANGED <<window, stop>>
        /\ pending # None /\ pending.request = h.origin
    BY <1>8 DEF Capture, Timely
  <2>2. /\ pending.prompt = h.prompt /\ pending \in Journals
    BY <1>8, <2>1 DEF InJournal
  <2>3. /\ compaction' = [pending EXCEPT !.status = "completed", !.missing = FALSE]
        /\ pending' = None /\ UNCHANGED poisoned
    BY <2>1, <2>2 DEF PostCompact, Retained
  <2>4. compaction' \in Journals /\ compaction'.status = "completed"
    BY <2>2, <2>3 DEF Journals
  <2>5. InJournal'
    BY <2>3, <2>4 DEF InJournal, Compacting
  <2>. QED BY <1>0, <1>3, <1>5, <1>8, <2>1, <2>3, <2>5
<1>9. CASE h.event \notin {"pre", "post"}
  <2>1. CaptureTurn(h)
    BY <1>9 DEF Capture
  <2>2. window.request = h.origin /\ h.prompt \notin retired
    BY <1>9 DEF Timely, InTime
  <2>3. /\ h.origin = turn.request /\ h.prompt = turn.prompt
        /\ window.request = turn.request
        /\ window.prompt = IF Unbound THEN None ELSE turn.prompt
        /\ Unbound => turn.state = "submitting" /\ h.event = "submit"
        /\ turn.state = "submitting" <=> h.event = "submit"
    BY <1>6, <2>2
  <2>4. turn.state = "submitting" => Opened
    BY DEF IInv, Correlated, Opened
  <2>5. CASE Opened
    <3>1. window.open /\ Binds(h)
      BY <1>2, <2>2, <2>3, <2>5 DEF Binds
    <3>2. /\ window' = [window EXCEPT !.prompt = turn.prompt]
          /\ MarkedIf(h.event = "stop" /\ Compacting(compaction)) /\ UNCHANGED poisoned
      BY <2>1, <2>3, <3>1 DEF CaptureTurn, Bound
    <3>3. /\ window' \in Windows /\ window' # None /\ window'.request = window.request
          /\ window'.prompt = turn.prompt /\ window'.open = window.open
      BY <1>2, <3>2, WindowAssumption DEF Windows
    <3>4. ~Unbound'
      <4>1. ASSUME NEW g \in hooks', g.event = "submit", h.event = "submit" PROVE FALSE
        <5>1. g \in hooks /\ g # h
          BY <1>1, <4>1
        <5>2. /\ g = [event |-> g.event, prompt |-> g.prompt, origin |-> g.origin, ok |-> g.ok]
              /\ g.ok = TRUE /\ g.origin = turn.request /\ g.prompt = turn.prompt
          BY <4>1, <5>1 DEF InTime
        <5>3. /\ h = [event |-> h.event, prompt |-> h.prompt, origin |-> h.origin, ok |-> h.ok]
              /\ h.ok = TRUE
          BY <4>1 DEF InTime
        <5>. QED BY <2>3, <4>1, <5>1, <5>2, <5>3
      <4>. QED BY <1>1, <2>3, <3>3, <4>1 DEF Unbound
    <3>5. InWindow'
      <4>1. Opened' /\ window'.open = Opened'
        BY <1>1, <1>2, <2>5, <3>3 DEF Opened
      <4>2. /\ retired' \subseteq 0 .. turn'.prompt /\ turn'.prompt \notin retired'
            /\ window'.request = request' /\ turn'.request <= window'.request
        BY <1>1, <1>2, <2>2, <2>3, <2>5, <3>3 DEF InWindow
      <4>3. window'.prompt = turn'.prompt
        BY <1>1, <3>3
      <4>. HIDE DEF Opened, Unbound
      <4>. QED BY <3>3, <3>4, <4>1, <4>2, <4>3 DEF InWindow
    <3>6. InJournal'
      <4>1. hooks' \subseteq hooks /\ turn' = turn
        BY <1>1
      <4>. QED BY <3>2, <3>3, <4>1, JournalMarked
    <3>. QED BY <1>0, <1>3, <3>2, <3>5, <3>6
  <2>6. CASE ~Opened
    <3>1. ~window.open /\ window.open = FALSE
      BY <1>2, <2>6
    <3>2. turn.state # "submitting" /\ h.event # "submit" /\ ~Unbound
      BY <2>3, <2>4, <2>6
    <3>3. Echo(h)
      BY <2>2, <2>3, <3>2 DEF Echo
    <3>4. UNCHANGED window /\ ~poisoned' /\ MarkedIf(FALSE)
      <4>1. /\ poisoned' = (poisoned \/ window.open \/ ~Echo(h)) /\ UNCHANGED window
            /\ MarkedIf(window.open /\ h.event = "stop" /\ Compacting(compaction))
        BY <2>1, <3>1 DEF CaptureTurn
      <4>. QED BY <1>1, <3>1, <3>3, <4>1 DEF MarkedIf
    <3>5. InJournal'
      <4>1. hooks' \subseteq hooks /\ turn' = turn
        BY <1>1
      <4>. QED BY <3>4, <4>1, JournalMarked
    <3>. QED BY <1>3, <1>4, <1>5, <3>2, <3>4, <3>5
  <2>. QED BY <2>5, <2>6
<1>. QED BY <1>7, <1>8, <1>9

LEMMA HookHonest ==
  ASSUME IInv, InTurn, InWindow, InTime, InJournal, Hook, honest'
  PROVE  InTurn' /\ InWindow' /\ InTime' /\ InJournal'
<1>1. PICK h \in hooks : Capture(h) \/ Lost(h) \/ Dies(h) \/ TimesOut(h)
  BY DEF Hook
<1>2. CASE Capture(h)
  <2>1. ~closed /\ Timely(h)
    BY <1>2 DEF Capture
  <2>. QED BY <1>2, <2>1, CaptureHonest
<1>3. CASE Lost(h)
  <2>1. /\ h.event = "post" /\ hooks' = hooks \ {h}
        /\ UNCHANGED <<exchange, files, delivered, decided, turn>>
    BY <1>3 DEF Lost, channel
  <2>2. (\E g \in hooks' : g.event = "submit") <=> (\E g \in hooks : g.event = "submit")
    BY <2>1
  <2>3. Unbound' = Unbound /\ Opened' = Opened
    BY <2>1, <2>2 DEF Unbound, Opened, exchange, files
  <2>4. InTurn'
    BY <2>1 DEF InTurn, Opened, exchange, files
  <2>5. InTime' /\ InJournal'
    BY <2>1 DEF InTime, InJournal, Compacting, files
  <2>. HIDE DEF Opened, Unbound
  <2>6. InWindow'
    BY <2>1, <2>3 DEF InWindow, exchange, files
  <2>. QED BY <2>4, <2>5, <2>6
<1>4. CASE Dies(h)
  BY <1>4 DEF Dies
<1>5. CASE TimesOut(h)
  BY <1>5 DEF TimesOut, InTurn
<1>. QED BY <1>1, <1>2, <1>3, <1>4, <1>5

LEMMA NextHonest ==
  HInv /\ [Next]_vars => HInv'
<1>. SUFFICES ASSUME HInv, [Next]_vars, honest', ~closed'
              PROVE  InTurn' /\ InWindow' /\ InTime' /\ InJournal'
  BY NextWindow DEF HInv, Honest
<1>1. honest /\ ~closed
  <2>1. closed => closed'
    BY DEF Next, Exchange, Claude, Hook, Enter, OpenRequest, Advance, Advanced, PollStop,
       PollDecision, Check, Leave, Fail, Close, Begin, Submitted, Resume, Speak, Respond, Stop,
       CompactBegins, CompactEnds, Compact, Capture, Lost, Dies, TimesOut, vars
  <2>2. honest' => honest
    BY DEF Next, Exchange, Claude, Hook, Enter, OpenRequest, Advance, Advanced, PollStop,
       PollDecision, Check, Leave, Fail, Close, Begin, Submitted, Resume, Speak, Respond, Stop,
       CompactBegins, CompactEnds, Compact, Capture, Lost, Dies, TimesOut, vars
  <2>. QED BY <2>1, <2>2
<1>2. IInv /\ InTurn /\ InWindow /\ InTime /\ InJournal
  BY <1>1 DEF HInv, Honest
<1>3. CASE Exchange
  BY <1>2, <1>3, ExchangeHonest
<1>4. CASE Close
  BY <1>4 DEF Close
<1>5. CASE Claude
  BY <1>2, <1>5, ClaudeHonest
<1>6. CASE Hook
  BY <1>2, <1>6, HookHonest
<1>7. CASE UNCHANGED vars
  BY <1>2, <1>7 DEF vars, exchange, files, channel, claude, InTurn, InWindow, InTime, InJournal,
     Opened, Unbound, Compacting
<1>. QED BY <1>3, <1>4, <1>5, <1>6, <1>7 DEF Next

\* As long as every hook runs in time, the window, the journal and Claude's turn
\* agree in every reachable state (native_hooks.py:527, native_hooks.py:156).
THEOREM HonestInvariant == Spec => []HInv
<1>1. Init => HInv
  <2>1. Init => IInv
    BY InitDelivery, WindowAssumption
    DEF Init, IInv, Shaped, Correlated, Claimed, AnswerIsClaudes
  <2>2. Init => InTurn /\ InWindow /\ InTime /\ InJournal
    BY DEF Init, InTurn, InWindow, InTime, InJournal, Opened, Compacting
  <2>. QED BY <2>1, <2>2 DEF HInv, Honest
<1>. QED BY <1>1, NextHonest, PTL DEF Spec

\* Hooks that run in time never spoil a session that works, whatever the order in
\* which late echoes and ends of compactions arrive, and what was answered can be
\* retired (native_hooks.py:527).
THEOREM HonestHooksAlwaysAccepted == Spec => []HonestHooksAccepted
<1>1. HInv => HonestHooksAccepted
  <2>. SUFFICES ASSUME HInv, honest, ~closed
                PROVE  /\ ~poisoned /\ ~CompactionFailed
                       /\ phase = "checked" => Retires
    BY DEF HonestHooksAccepted
  <2>1. InTurn /\ InWindow /\ InJournal
    BY DEF HInv, Honest
  <2>2. ~CompactionFailed
    BY <2>1 DEF InJournal, Journals, CompactionFailed
  <2>3. ASSUME phase = "checked" PROVE Retires
    <3>1. /\ turn.request = request /\ turn.state \in {"idle", "held"}
          /\ turn.prompt \in Nat
      BY <2>1, <2>3 DEF InTurn
    <3>2. Opened /\ window # None
      BY <2>1, <2>3 DEF InWindow, Opened
    <3>3. /\ window.open /\ window.request = request /\ window.prompt = turn.prompt
          /\ turn.prompt \notin retired
      BY <2>1, <3>1, <3>2 DEF InWindow, Unbound
    <3>. QED BY <2>1, <3>1, <3>3, WindowAssumption DEF Retires, InTurn
  <2>. QED BY <2>1, <2>2, <2>3 DEF InTurn
<1>. QED BY <1>1, HonestInvariant, PTL
============================================================================
