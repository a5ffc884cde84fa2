------------------------------ MODULE History ------------------------------
(***************************************************************************)
(* What Hermes's canonical history becomes on its way to Claude: the       *)
(* tracker that decides between a bootstrap and a continuation             *)
(* (protocol.py) and the bootstrap that leaves older messages out and      *)
(* names a handle under which they can be read (client.py).                *)
(*                                                                         *)
(* A message is its role and the request that brought it; two messages are *)
(* equal when their projections are.  A notice is the system message that  *)
(* stands for a run of messages left out.  Sizes are numbers of messages.  *)
(* The identity message that leads every frame is left out everywhere.     *)
(***************************************************************************)
EXTENDS Naturals, SequencesExt

Message(role, number) == [role |-> role, number |-> number, omitted |-> <<>>]

Notice(messages) == [role |-> "notice", number |-> 0, omitted |-> messages]

\* Instructions: a notice is one.
Instructs(m) == m.role \in {"system", "notice"}

\* What the frame says once its notices are looked up.
Expanded(messages) ==
    FlattenSeq([i \in DOMAIN messages |->
        IF messages[i].role = "notice" THEN messages[i].omitted ELSE <<messages[i]>>])
----------------------------------------------------------------------------
(* HistoryTracker *)

Blank == [committed |-> FALSE, messages |-> <<>>, tools |-> {}]

Committed(messages, tools) ==
    [committed |-> TRUE, messages |-> messages, tools |-> tools]

Rest(tracker, messages) ==
    SubSeq(messages, Len(tracker.messages) + 1, Len(messages))

\* prepare() does not reset.
Continues(tracker, messages, tools) ==
    /\ tracker.committed
    /\ tracker.tools = tools
    /\ IsPrefix(tracker.messages, messages)
    /\ \A i \in DOMAIN Rest(tracker, messages) : ~Instructs(Rest(tracker, messages)[i])

\* The messages of the frame.
Frame(tracker, messages, tools) ==
    IF Continues(tracker, messages, tools) THEN Rest(tracker, messages) ELSE messages
----------------------------------------------------------------------------
(* _bounded_bootstrap *)

\* A proposal and the results that follow it are one group.
Heads(messages) ==
    {i \in DOMAIN messages : i = 1 \/ messages[i].role # "tool"}

GroupOf(messages, i) ==
    CHOOSE h \in Heads(messages) :
        h <= i /\ \A g \in Heads(messages) : g <= i => g <= h

\* The first message of the current task; none if no user ever spoke.
CurrentStart(messages) ==
    LET users == {i \in DOMAIN messages : messages[i].role = "user"}
    IN  IF users = {} THEN Len(messages) + 1
        ELSE CHOOSE i \in users : \A j \in users : j <= i

Required(messages, i) ==
    Instructs(messages[i]) \/ GroupOf(messages, i) >= CurrentStart(messages)

\* A message that is left out goes to the notice of its run.
LeftOut(acc, m) ==
    IF acc # <<>> /\ Last(acc).role = "notice"
    THEN Append(Front(acc), Notice(Append(Last(acc).omitted, m)))
    ELSE Append(acc, Notice(<<m>>))

\* The messages whose groups start at `start` or later, with one notice for each
\* run left out.
Candidate(messages, start) ==
    LET upTo[i \in 0 .. Len(messages)] ==
            IF i = 0 THEN <<>>
            ELSE IF Required(messages, i) \/ GroupOf(messages, i) >= start
                 THEN Append(upTo[i - 1], messages[i])
                 ELSE LeftOut(upTo[i - 1], messages[i])
    IN  upTo[Len(messages)]

\* Where the part that is kept may start: at the second group or later, or nowhere.
Starts(messages) == (Heads(messages) \ {1}) \cup {Len(messages) + 1}

Fitting(messages, limit) ==
    {s \in Starts(messages) : Len(Candidate(messages, s)) <= limit}

Small(messages, limit) == Len(messages) <= limit

\* Otherwise NativeBootstrapTooLarge.
Fits(messages, limit) == Small(messages, limit) \/ Fitting(messages, limit) # {}

\* As much as fits.
Bounded(messages, limit) ==
    IF Small(messages, limit) THEN messages
    ELSE Candidate(messages,
                   CHOOSE s \in Fitting(messages, limit) :
                       \A t \in Fitting(messages, limit) : s <= t)
============================================================================
