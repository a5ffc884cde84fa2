--------------------------- MODULE Channel_proofs ---------------------------
(***************************************************************************)
(* For every set of requests, calls, pollers, prompts and tools and every  *)
(* bound: the types, the half-duplex discipline, the absence of lost       *)
(* wake-ups, the fate of pending calls and the refinement of Rendezvous.   *)
(***************************************************************************)
EXTENDS Channel, FiniteSetTheorems, TLAPS

\* The conjunction that is inductive: the types are needed by every part.
IInv == TypeOK /\ HalfDuplex /\ PendingCallIsHeld /\ OnlyHeldCallCancels

\* A bridge that has just been constructed satisfies the inductive invariant.
LEMMA InitIInv == Init => IInv
  BY ChannelAssumption DEF Init, IInv, TypeOK, HalfDuplex, PendingCallIsHeld,
     OnlyHeldCallCancels, Healthy, Frames

\* What Fail(reason) does keeps the inductive invariant.
LEMMA FailIInv ==
  ASSUME IInv, NEW reason \in Reasons, Fail(reason),
         notifying' \in SUBSET Requests, server' \in {"starting", "ready", "stopped"}
  PROVE  IInv'
<1>1. TypeOK'
  <2>1. calls' \in [Calls -> {"idle", "pending", "resumed", "rejected"}]
    BY DEF IInv, TypeOK, Fail, Settle
  <2>2. listening' \in SUBSET Calls /\ waiters' \in SUBSET Waiter
    BY DEF IInv, TypeOK, Fail, Settle, EmitChange
  <2>. QED BY <2>1, <2>2, ChannelAssumption DEF IInv, TypeOK, Fail, Settle
<1>2. HalfDuplex'
  BY ChannelAssumption DEF Fail, Settle, HalfDuplex, Healthy
<1>3. PendingCallIsHeld' /\ OnlyHeldCallCancels'
  BY DEF IInv, TypeOK, Fail, Settle, PendingCallIsHeld, OnlyHeldCallCancels
<1>. QED BY <1>1, <1>2, <1>3 DEF IInv

\* Steps that leave the bridge and the calls alone keep it.
LEMMA StutterIInv ==
  ASSUME IInv, UNCHANGED <<bridge, mcp>>, waiters' \in SUBSET Waiter,
         notifying' \in SUBSET Requests, server' \in {"starting", "ready", "stopped"}
  PROVE  IInv'
  BY DEF IInv, TypeOK, HalfDuplex, PendingCallIsHeld, OnlyHeldCallCancels,
     Healthy, bridge, mcp

\* Bridge.fail keeps it, whether it is the first failure or not.
LEMMA FailOnceIInv ==
  ASSUME IInv, NEW reason \in Reasons, FailOnce(reason),
         notifying' \in SUBSET Requests, server' \in {"starting", "ready", "stopped"}
  PROVE  IInv'
<1>1. CASE Fail(reason)
  BY <1>1, FailIInv
<1>2. CASE UNCHANGED <<bridge, mcp, waiters>>
  BY <1>2, StutterIInv DEF IInv, TypeOK
<1>. QED BY <1>1, <1>2 DEF FailOnce

\* Bridge.advance keeps it: the held call is settled before it is let go.
LEMMA AdvanceIInv ==
  ASSUME IInv, NEW r \in Requests, NEW ack, NEW frame \in Frames,
         Advance(r, ack, frame)
  PROVE  IInv'
<1>1. TypeOK'
  <2>1. calls' \in [Calls -> {"idle", "pending", "resumed", "rejected"}]
    BY DEF IInv, TypeOK, Advance, Settle
  <2>2. listening' \in SUBSET Calls /\ notifying' \in SUBSET Requests
    BY DEF IInv, TypeOK, Advance, Settle
  <2>. QED BY <2>1, <2>2, ChannelAssumption DEF IInv, TypeOK, Advance
<1>2. HalfDuplex'
  BY ChannelAssumption DEF IInv, TypeOK, HalfDuplex, Healthy, Advance, Settle, MayAdvance
<1>3. PendingCallIsHeld' /\ OnlyHeldCallCancels'
  <2>1. CASE held # None
    BY <2>1 DEF IInv, TypeOK, Advance, Settle, PendingCallIsHeld, OnlyHeldCallCancels
  <2>2. CASE held = None
    BY <2>2 DEF IInv, TypeOK, Advance, Settle, PendingCallIsHeld, OnlyHeldCallCancels, mcp
  <2>. QED BY <2>1, <2>2
<1>. QED BY <1>1, <1>2, <1>3 DEF IInv

\* The shape of a published decision.
LEMMA PublishedDecision ==
  ASSUME sequence \in Nat, NEW r \in Requests,
         NEW p \in Proposals \cup {[kind |-> "final", tools |-> {}]}
  PROVE  [sequence |-> sequence + 1, request |-> r,
          kind |-> p.kind, tools |-> p.tools] \in Decision
  BY DEF Proposals, Decision

\* Bridge.completeText keeps it.
LEMMA CompleteTextIInv ==
  ASSUME IInv, NEW r \in Requests, CompleteText(r)
  PROVE  IInv'
<1>. DEFINE p == [kind |-> "final", tools |-> {}]
<1>. Publish(r, p) BY DEF CompleteText
<1>1. latest' \in Decision
  BY PublishedDecision DEF Publish, IInv, TypeOK
<1>2. TypeOK'
  BY <1>1, ChannelAssumption DEF IInv, TypeOK, CompleteText, Publish, EmitChange, mcp
<1>3. HalfDuplex'
  BY <1>1, ChannelAssumption
     DEF IInv, TypeOK, HalfDuplex, Healthy, CompleteText, MayDecide, Publish
<1>4. PendingCallIsHeld' /\ OnlyHeldCallCancels'
  BY DEF IInv, CompleteText, PendingCallIsHeld, OnlyHeldCallCancels, mcp
<1>. QED BY <1>2, <1>3, <1>4 DEF IInv

\* Bridge.respond keeps it: the call it holds is the pending one.
LEMMA RespondIInv ==
  ASSUME IInv, NEW c \in Calls, NEW r \in Requests, NEW p \in Proposals,
         Respond(c, r, p)
  PROVE  IInv'
<1>. Publish(r, p) BY DEF Respond
<1>1. latest' \in Decision
  BY PublishedDecision DEF Publish, IInv, TypeOK
<1>2. held' \in HeldCall /\ held'.call = c /\ held'.sequence = sequence + 1
  BY DEF Respond, HeldCall, IInv, TypeOK
<1>3. TypeOK'
  BY <1>1, <1>2, ChannelAssumption DEF IInv, TypeOK, Respond, Publish, EmitChange
<1>4. HalfDuplex'
  BY <1>1, <1>2, ChannelAssumption
     DEF IInv, TypeOK, HalfDuplex, Healthy, MayDecide, Respond, Publish
<1>5. PendingCallIsHeld' /\ OnlyHeldCallCancels'
  BY <1>2, ChannelAssumption
     DEF IInv, TypeOK, Respond, MayDecide, PendingCallIsHeld, OnlyHeldCallCancels
<1>. QED BY <1>3, <1>4, <1>5 DEF IInv

\* Bridge.notifyWake keeps it.
LEMMA NotifyWakeIInv ==
  ASSUME IInv, NEW r \in Requests, NEW p \in Prompts, NEW g \in 1 .. MaxGeneration,
         NotifyWake(r, p, g)
  PROVE  IInv'
<1>1. TypeOK'
  BY ChannelAssumption DEF IInv, TypeOK, NotifyWake, EmitChange, mcp
<1>2. HalfDuplex' /\ PendingCallIsHeld' /\ OnlyHeldCallCancels'
  BY DEF IInv, NotifyWake, HalfDuplex, Healthy, PendingCallIsHeld,
     OnlyHeldCallCancels, mcp
<1>. QED BY <1>1, <1>2 DEF IInv

\* Every step of the server keeps it.
LEMMA NextIInv == IInv /\ [Next]_vars => IInv'
<1>. SUFFICES ASSUME IInv, [Next]_vars PROVE IInv'
  OBVIOUS
<1>1. ASSUME Client PROVE IInv'
  <2>1. ASSUME NEW r \in Requests, NEW ack, NEW f \in Frames, Advance(r, ack, f)
        PROVE  IInv'
    BY <2>1, AdvanceIInv
  <2>2. ASSUME NEW r \in Requests, NEW ack, AdvanceBeyondBudget(r, ack)
        PROVE  IInv'
    BY <2>2, FailIInv DEF AdvanceBeyondBudget, Reasons, IInv, TypeOK
  <2>3. ASSUME NEW r \in Requests, CompleteText(r) PROVE IInv'
    BY <2>3, CompleteTextIInv
  <2>4. ASSUME NEW r \in Requests, NEW p \in Prompts, NEW g \in 1 .. MaxGeneration,
               NotifyWake(r, p, g)
        PROVE  IInv'
    BY <2>4, NotifyWakeIInv
  <2>5. ASSUME NEW p \in Pollers, NEW a \in 0 .. sequence, NEW g \in 0 .. MaxGeneration,
               Register([poller |-> p, after |-> a, wakeAfter |-> g])
        PROVE  IInv'
    <3>1. [poller |-> p, after |-> a, wakeAfter |-> g] \in Waiter
      BY DEF Waiter, IInv, TypeOK
    <3>. QED BY <2>5, <3>1, StutterIInv DEF Register, IInv, TypeOK
  <2>6. ASSUME NEW w \in waiters, PollClosed(w) PROVE IInv'
    BY <2>6, StutterIInv DEF PollClosed, PollTimeout, IInv, TypeOK
  <2>. QED BY <1>1, <2>1, <2>2, <2>3, <2>4, <2>5, <2>6 DEF Client
<1>2. ASSUME Native PROVE IInv'
  <2>1. ASSUME NEW c \in Calls, NEW r \in Requests, NEW p \in Proposals, Respond(c, r, p)
        PROVE  IInv'
    BY <2>1, RespondIInv
  <2>2. ASSUME NEW c \in Calls, NEW r \in Requests, NEW p \in Proposals,
               RespondAborted(c, r, p)
        PROVE  IInv'
    BY <2>2, FailIInv DEF RespondAborted, Reasons, IInv, TypeOK
  <2>3. ASSUME NEW c \in Calls, Abort(c) PROVE IInv'
    BY <2>3, FailOnceIInv DEF Abort, Reasons, IInv, TypeOK
  <2>4. ASSUME NEW r \in Requests, NotificationFailed(r) PROVE IInv'
    BY <2>4, FailOnceIInv DEF NotificationFailed, Reasons, IInv, TypeOK
  <2>. QED BY <1>2, <2>1, <2>2, <2>3, <2>4 DEF Native
<1>3. ASSUME Process PROVE IInv'
  <2>1. CASE Initialized
    BY <2>1, StutterIInv DEF Initialized, IInv, TypeOK
  <2>2. ASSUME NEW reason \in {"native_transport_error", "http_internal_error"},
               Break(reason)
        PROVE  IInv'
    BY <2>2, FailIInv DEF Break, Reasons, IInv, TypeOK
  <2>3. CASE Shutdown
    BY <2>3, FailOnceIInv DEF Shutdown, Reasons
  <2>4. ASSUME NEW r \in Requests, NotificationSent(r) PROVE IInv'
    BY <2>4, StutterIInv DEF NotificationSent, IInv, TypeOK
  <2>. QED BY <1>3, <2>1, <2>2, <2>3, <2>4 DEF Process
<1>4. ASSUME Timer PROVE IInv'
  BY <1>4, StutterIInv DEF Timer, PollTimeout, IInv, TypeOK
<1>5. CASE UNCHANGED vars
  BY <1>5, StutterIInv DEF vars, IInv, TypeOK
<1>. QED BY <1>1, <1>2, <1>3, <1>4, <1>5 DEF Next

\* The session is half-duplex and every pending MCP call is held, always.
THEOREM ChannelInvariant == Spec => []IInv
  BY InitIInv, NextIInv, PTL DEF Spec

\* The fields keep their types (protocol.mjs:131-140).
THEOREM TypeCorrect == Spec => []TypeOK
<1>1. IInv => TypeOK BY DEF IInv
<1>. QED BY <1>1, ChannelInvariant, PTL

\* A poll with the last acknowledged sequence reads only its own answer.
THEOREM HalfDuplexAlways == Spec => []HalfDuplex
<1>1. IInv => HalfDuplex BY DEF IInv
<1>. QED BY <1>1, ChannelInvariant, PTL

\* No MCP call stays pending without somebody who will resolve it.
THEOREM NoOrphanedCall == Spec => []CallsAgree
<1>1. IInv => CallsAgree BY DEF IInv, CallsAgree
<1>. QED BY <1>1, ChannelInvariant, PTL
----------------------------------------------------------------------------
\* What polls may read is cleared by a request and by a failure, and checked when a
\* proposal is published.
LEMMA NextReads == ASSUME IInv, ReadsAreCurrent, [Next]_vars PROVE ReadsAreCurrent'
<1>. USE DEF ReadsAreCurrent, ProposalInAllowList, WakeBelongsToRequest
<1>1. ASSUME UNCHANGED bridge PROVE ReadsAreCurrent'
  BY <1>1 DEF bridge
<1>2. ASSUME NEW reason, Fail(reason) PROVE ReadsAreCurrent'
  BY <1>2 DEF Fail
<1>3. ASSUME NEW reason, FailOnce(reason) PROVE ReadsAreCurrent'
  BY <1>1, <1>2, <1>3 DEF FailOnce
<1>4. ASSUME NEW r \in Requests, NEW p \in Proposals \cup {[kind |-> "final", tools |-> {}]},
             KnownTools(p), Publish(r, p)
      PROVE  ReadsAreCurrent'
  BY <1>4 DEF Publish, KnownTools
<1>5. CASE Client
  <2>1. ASSUME NEW r \in Requests, NEW ack, NEW f \in Frames, Advance(r, ack, f)
        PROVE  ReadsAreCurrent'
    BY <2>1 DEF Advance
  <2>2. ASSUME NEW r \in Requests, CompleteText(r) PROVE ReadsAreCurrent'
    BY <2>2, <1>4 DEF CompleteText, KnownTools
  <2>3. ASSUME NEW r \in Requests, NEW p \in Prompts, NEW g \in 1 .. MaxGeneration,
               NotifyWake(r, p, g)
        PROVE  ReadsAreCurrent'
    BY <2>3, ChannelAssumption DEF NotifyWake
  <2>. QED
    BY <1>5, <1>1, <1>2, <2>1, <2>2, <2>3
       DEF Client, AdvanceBeyondBudget, Register, PollClosed, PollTimeout
<1>6. CASE Native
  BY <1>6, <1>1, <1>2, <1>3, <1>4
     DEF Native, Respond, RespondAborted, Abort, NotificationFailed
<1>7. CASE Process \/ Timer
  BY <1>7, <1>1, <1>2, <1>3
     DEF Process, Timer, Initialized, Break, Shutdown, NotificationSent, PollTimeout
<1>8. CASE UNCHANGED vars
  BY <1>8, <1>1 DEF vars
<1>. QED BY <1>5, <1>6, <1>7, <1>8 DEF Next

\* A long poll reads only what belongs to the request in flight and to its tools.
THEOREM ReadsAlwaysCurrent == Spec => []ReadsAreCurrent
<1>1. Init => ReadsAreCurrent
  BY DEF Init, ReadsAreCurrent, ProposalInAllowList, WakeBelongsToRequest
<1>. QED BY <1>1, NextReads, ChannelInvariant, PTL DEF Spec
----------------------------------------------------------------------------
\* The actions that neither publish nor fail leave what polls wait for alone
\* or clear it; the others emit 'change'.
LEMMA EmitAnswersAll ==
  ASSUME EmitChange
  PROVE  NoLostWakeup'
  BY DEF EmitChange, NoLostWakeup, Answers

\* A step that shows the polls nothing new leaves none of them behind.
LEMMA QuietStep ==
  ASSUME NoLostWakeup, failed' = failed, latest' \in {latest, None},
         latestWake' \in {latestWake, 0}, waiters' \in SUBSET waiters, TypeOK
  PROVE  NoLostWakeup'
  BY DEF NoLostWakeup, Answers, TypeOK, Waiter

\* Every step answers the polls it concerns.
LEMMA NextNoLostWakeup == TypeOK /\ NoLostWakeup /\ [Next]_vars => NoLostWakeup'
<1>. SUFFICES ASSUME TypeOK, NoLostWakeup, [Next]_vars PROVE NoLostWakeup'
  OBVIOUS
<1>0. ASSUME NEW reason, FailOnce(reason) PROVE NoLostWakeup'
  BY <1>0, EmitAnswersAll, QuietStep DEF FailOnce, Fail, Settle, bridge
<1>1. ASSUME Client PROVE NoLostWakeup'
  <2>1. ASSUME NEW r \in Requests, NEW ack, NEW f \in Frames, Advance(r, ack, f)
        PROVE  NoLostWakeup'
    BY <2>1, QuietStep DEF Advance, Settle
  <2>2. ASSUME NEW r \in Requests, NEW ack, AdvanceBeyondBudget(r, ack)
        PROVE  NoLostWakeup'
    BY <2>2, EmitAnswersAll DEF AdvanceBeyondBudget, Fail, Settle
  <2>3. ASSUME NEW r \in Requests, CompleteText(r) PROVE NoLostWakeup'
    BY <2>3, EmitAnswersAll DEF CompleteText, Publish
  <2>4. ASSUME NEW r \in Requests, NEW p \in Prompts, NEW g \in 1 .. MaxGeneration,
               NotifyWake(r, p, g)
        PROVE  NoLostWakeup'
    BY <2>4, EmitAnswersAll DEF NotifyWake
  <2>5. ASSUME NEW p \in Pollers, NEW a \in 0 .. sequence, NEW g \in 0 .. MaxGeneration,
               Register([poller |-> p, after |-> a, wakeAfter |-> g])
        PROVE  NoLostWakeup'
    BY <2>5 DEF Register, NoLostWakeup, Answers, bridge
  <2>6. ASSUME NEW w \in waiters, PollClosed(w) PROVE NoLostWakeup'
    BY <2>6, QuietStep DEF PollClosed, PollTimeout, bridge
  <2>. QED BY <1>1, <2>1, <2>2, <2>3, <2>4, <2>5, <2>6 DEF Client
<1>2. ASSUME Native PROVE NoLostWakeup'
  BY <1>2, <1>0, EmitAnswersAll
     DEF Native, Respond, RespondAborted, Abort, NotificationFailed, Publish, Fail, Settle
<1>3. ASSUME Process PROVE NoLostWakeup'
  <2>1. CASE Initialized \/ \E r \in Requests : NotificationSent(r)
    BY <2>1, QuietStep DEF Initialized, NotificationSent, bridge
  <2>2. CASE \/ Shutdown
             \/ \E reason \in {"native_transport_error", "http_internal_error"} :
                    Break(reason)
    BY <2>2, <1>0, EmitAnswersAll DEF Shutdown, Break, Fail, Settle
  <2>. QED BY <1>3, <2>1, <2>2 DEF Process
<1>4. ASSUME Timer PROVE NoLostWakeup'
  BY <1>4, QuietStep DEF Timer, PollTimeout, bridge
<1>5. CASE UNCHANGED vars
  BY <1>5, QuietStep DEF vars, bridge
<1>. QED BY <1>1, <1>2, <1>3, <1>4, <1>5 DEF Next

\* However polls, decisions, wakes and failures interleave, none is missed
\* between the check of a poll and its registration (http.mjs:94-119).
THEOREM WakeupsNeverLost == Spec => []NoLostWakeup
<1>1. Init => NoLostWakeup
  BY DEF Init, NoLostWakeup
<1>. QED BY <1>1, NextNoLostWakeup, TypeCorrect, PTL DEF Spec
----------------------------------------------------------------------------
\* Each accepted request is answered once and the sequence counts the answers.
THEOREM OneAnswerAlways == Spec => []OneAnswerPerRequest
<1>1. Init => OneAnswerPerRequest
  BY FS_EmptySet DEF Init, OneAnswerPerRequest
<1>2. ASSUME IInv, OneAnswerPerRequest, [Next]_vars
      PROVE  OneAnswerPerRequest'
  <2>1. IsFiniteSet(seen) /\ Cardinality(seen) \in Nat
    BY <1>2, ChannelAssumption, FS_Subset, FS_CardinalityType DEF IInv, TypeOK
  <2>2. ASSUME UNCHANGED bridge PROVE OneAnswerPerRequest'
    BY <1>2, <2>2 DEF OneAnswerPerRequest, Healthy, bridge
  <2>3. ASSUME NEW reason \in Reasons, Fail(reason) PROVE OneAnswerPerRequest'
    BY <2>3, ChannelAssumption DEF Fail, Settle, OneAnswerPerRequest, Healthy
  <2>4. ASSUME NEW r \in Requests, NEW ack, NEW f \in Frames, Advance(r, ack, f)
        PROVE  OneAnswerPerRequest'
    <3>1. Cardinality(seen') = Cardinality(seen) + 1
      BY <2>1, <2>4, FS_AddElement DEF Advance, Settle, MayAdvance
    <3>. QED BY <1>2, <2>1, <2>4, <3>1, ChannelAssumption
         DEF Advance, Settle, MayAdvance, OneAnswerPerRequest, Healthy, IInv, TypeOK
  <2>5. ASSUME NEW r \in Requests, NEW p, MayDecide(r), Publish(r, p)
        PROVE  OneAnswerPerRequest'
    BY <1>2, <2>1, <2>5, ChannelAssumption
       DEF MayDecide, Publish, OneAnswerPerRequest, Healthy, IInv, TypeOK
  <2>6. CASE Client
    BY <2>6, <2>2, <2>3, <2>4, <2>5, <1>2
       DEF Client, AdvanceBeyondBudget, CompleteText, NotifyWake, Register,
           PollClosed, PollTimeout, Reasons, OneAnswerPerRequest, Healthy
  <2>7. CASE Native
    BY <2>7, <2>2, <2>3, <2>5
       DEF Native, Respond, RespondAborted, Abort, NotificationFailed, FailOnce, Reasons
  <2>8. CASE Process \/ Timer
    BY <2>8, <2>2, <2>3
       DEF Process, Timer, Initialized, Break, Shutdown, NotificationSent,
           PollTimeout, FailOnce, Reasons
  <2>9. CASE UNCHANGED vars
    BY <2>9, <2>2 DEF vars
  <2>. QED BY <1>2, <2>6, <2>7, <2>8, <2>9 DEF Next
<1>. QED BY <1>1, <1>2, ChannelInvariant, PTL DEF Spec
----------------------------------------------------------------------------
\* Reading consumes nothing: an unread decision goes away only with a failure or with
\* the request that acknowledges it (protocol.mjs, advance, fail).
THEOREM DecisionAlwaysKept == Spec => DecisionKept
<1>. DEFINE Kept ==
       /\ latest # None /\ latest' # latest =>
            failed' # None \/ (current' \notin seen \cup {None} /\ latest' = None)
       /\ sequence' \in {sequence, sequence + 1}
       /\ ~Healthy => failed' = failed
<1>1. ASSUME IInv, [Next]_vars
      PROVE  [Kept]_vars
  <2>1. ASSUME UNCHANGED <<sequence, latest, failed>> PROVE Kept
    BY <2>1
  <2>2. ASSUME NEW reason \in Reasons, Healthy, Fail(reason) PROVE Kept
    BY <2>2, ChannelAssumption DEF Fail, Settle
  <2>3. ASSUME NEW r \in Requests, NEW ack, NEW f \in Frames, Advance(r, ack, f)
        PROVE  Kept
    BY <2>3, ChannelAssumption DEF Advance, Settle, MayAdvance
  <2>4. ASSUME NEW r \in Requests, NEW p, MayDecide(r), Publish(r, p)
        PROVE  Kept
    BY <1>1, <2>4 DEF MayDecide, Publish, IInv, HalfDuplex, Healthy
  <2>5. CASE Client
    BY <2>5, <2>1, <2>2, <2>3, <2>4
       DEF Client, AdvanceBeyondBudget, MayAdvance, CompleteText, NotifyWake, Register,
           PollClosed, PollTimeout, Reasons, bridge
  <2>6. CASE Native
    BY <2>6, <2>1, <2>2, <2>4
       DEF Native, Respond, RespondAborted, MayDecide, Abort, NotificationFailed, FailOnce,
           Reasons, bridge
  <2>7. CASE Process \/ Timer
    BY <2>7, <2>1, <2>2
       DEF Process, Timer, Initialized, Break, Shutdown, NotificationSent,
           PollTimeout, FailOnce, Reasons, bridge
  <2>. QED BY <1>1, <2>5, <2>6, <2>7 DEF Next
<1>. QED BY <1>1, ChannelInvariant, PTL DEF Spec, DecisionKept
----------------------------------------------------------------------------
\* Every step of the channel is a question, an answer, a break or a stutter of
\* the rendezvous it promises.
THEOREM ImplementsRendezvous == Spec => RendezvousSpec
<1>1. Init => Promise!Init
  BY DEF Init, Promise!Init
<1>2. ASSUME IInv, [Next]_vars
      PROVE  [Promise!Next]_Promise!vars
  <2>1. ASSUME UNCHANGED bridge PROVE UNCHANGED Promise!vars
    BY <2>1 DEF bridge, Promise!vars
  <2>2. ASSUME NEW reason \in Reasons, Healthy, Fail(reason) PROVE Promise!Next
    BY <2>2, ChannelAssumption
       DEF Fail, Settle, Healthy, Promise!Next, Promise!Break
  <2>3. ASSUME NEW r \in Requests, NEW ack, NEW f \in Frames, Advance(r, ack, f)
        PROVE  Promise!Next
    <3>1. Promise!Ask(r)
      BY <2>3 DEF Advance, Settle, MayAdvance, AckMatches, Healthy, Promise!Ask
    <3>. QED BY <3>1 DEF Promise!Next
  <2>4. ASSUME NEW r \in Requests, NEW p \in Proposals \cup {[kind |-> "final", tools |-> {}]},
               MayDecide(r), Publish(r, p)
        PROVE  Promise!Next
    <3>1. latest' \in Decision
      BY <1>2, <2>4, PublishedDecision DEF Publish, IInv, TypeOK
    <3>. QED BY <1>2, <2>4, <3>1, ChannelAssumption
         DEF MayDecide, Publish, IInv, HalfDuplex, Healthy, Promise!Next, Promise!Answer
  <2>5. CASE Client
    <3>1. ASSUME NEW r \in Requests, NEW ack, AdvanceBeyondBudget(r, ack)
          PROVE  Promise!Next
      BY <3>1, <2>2 DEF AdvanceBeyondBudget, MayAdvance, Reasons
    <3>2. ASSUME NEW r \in Requests, CompleteText(r) PROVE Promise!Next
      BY <3>2, <2>4 DEF CompleteText
    <3>3. ASSUME NEW r \in Requests, NEW p \in Prompts, NEW g \in 1 .. MaxGeneration,
                 NotifyWake(r, p, g)
          PROVE  UNCHANGED Promise!vars
      BY <3>3 DEF NotifyWake, Promise!vars
    <3>. QED BY <2>5, <2>1, <2>3, <3>1, <3>2, <3>3
         DEF Client, Register, PollClosed, PollTimeout
  <2>6. CASE Native
    <3>1. ASSUME NEW c \in Calls, NEW r \in Requests, NEW p \in Proposals, Respond(c, r, p)
          PROVE  Promise!Next
      BY <3>1, <2>4 DEF Respond
    <3>2. ASSUME NEW c \in Calls, NEW r \in Requests, NEW p \in Proposals,
                 RespondAborted(c, r, p)
          PROVE  Promise!Next
      BY <3>2, <2>2 DEF RespondAborted, MayDecide, Reasons
    <3>. QED BY <2>6, <2>1, <2>2, <3>1, <3>2
         DEF Native, Abort, NotificationFailed, FailOnce, Reasons
  <2>7. CASE Process \/ Timer
    BY <2>7, <2>1, <2>2
       DEF Process, Timer, Initialized, Break, Shutdown, NotificationSent,
           PollTimeout, FailOnce, Reasons
  <2>8. CASE UNCHANGED vars
    BY <2>8, <2>1 DEF vars
  <2>. QED BY <1>2, <2>5, <2>6, <2>7, <2>8 DEF Next
<1>. QED BY <1>1, <1>2, ChannelInvariant, PTL DEF Spec, RendezvousSpec, Promise!Spec
=============================================================================
