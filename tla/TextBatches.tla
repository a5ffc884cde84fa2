---------------------------- MODULE TextBatches ----------------------------
(***************************************************************************)
(* The text of one native request (streaming.py) and the end of its        *)
(* exchange (native.py): display hooks, each a process of its own, append  *)
(* one line per batch of assistant text to a journal; the exchange thread  *)
(* drains the journal, streams the batches to Hermes, and, once Claude     *)
(* stopped or called `respond`, reconciles what was streamed with the      *)
(* answer.                                                                 *)
(*                                                                         *)
(* Nothing orders the hooks of two batches, a hook may be in the middle of *)
(* its line when the reader arrives, and the answer travels on a path of   *)
(* its own and may overtake every batch.                                   *)
(***************************************************************************)
EXTENDS Naturals, FiniteSets, SequencesExt

CONSTANTS
    Deltas,      \* texts of a batch
    Script,      \* what Claude says: for each message its sequence of deltas
    Strays,      \* lines Claude should not cause: conflicting, late, foreign
    Answers,     \* how the turn may end: stop, tool_calls or final
    MaxBatches,  \* MAX_BATCHES
    MaxLines,    \* bound: lines the hooks append in this request
    None

Messages == 1 .. Len(Script)

Batch(m, i) == [message |-> m, index |-> i, delta |-> Script[m][i + 1],
                final |-> i + 1 = Len(Script[m])]

BatchesOf(m) == {Batch(m, i) : i \in 0 .. Len(Script[m]) - 1}

Lines == (UNION {BatchesOf(m) : m \in Messages}) \cup Strays

\* Whatever a line may call a message.
Names == Messages \cup {b.message : b \in Strays}

ASSUME TextAssumption ==
    /\ Script \in Seq(Seq(Deltas)) /\ \A m \in Messages : Script[m] # <<>>
    /\ \A b \in Strays :
         b \in [message : Nat, index : Nat, delta : Deltas, final : BOOLEAN]
    /\ \A a \in Answers :
         /\ a.kind \in {"stop", "tool_calls", "final"}
         /\ a.text \in Seq(Deltas) /\ a.text # None
    /\ MaxBatches \in Nat /\ MaxLines \in Nat
    /\ None \notin {"batch", "finish"}

VARIABLES
    journal,   \* lines the reader has not consumed yet
    torn,      \* a hook has written part of its line
    lines,     \* how many lines the hooks appended
    said,      \* ghost: the lines appended so far
    honest,    \* ghost: hooks of a message ran after those of earlier messages
    heard,     \* TextBatches.messages: its keys, in order of their first line
    released,  \* ... and the batches of each message that have no gap before them
    pending,   \* batches that wait for a predecessor
    parts,     \* batches released to Hermes, in order
    phase,     \* of the exchange: watching, settling, returned, failed
    answer,    \* what ended the turn
    caught,    \* the last drain reached the end of the journal
    partial,   \* ... where it found an unfinished line
    error,     \* why the exchange failed
    returned   \* the text of the completion

hooks  == <<journal, torn, lines, said, honest>>
reader == <<heard, released, pending, parts, caught, partial>>
vars   == <<hooks, reader, phase, answer, error, returned>>

Init ==
    /\ journal = <<>> /\ torn = FALSE /\ lines = 0
    /\ said = {} /\ honest = TRUE
    /\ heard = <<>> /\ released = [m \in Names |-> <<>>] /\ pending = {} /\ parts = <<>>
    /\ caught = FALSE /\ partial = FALSE
    /\ phase = "watching" /\ answer = None
    /\ error = None /\ returned = None

Running == phase \in {"watching", "settling"}
----------------------------------------------------------------------------
(* The hooks: _capture_display_locked appends under the runtime lock *)

BeginLine ==
    /\ Running
    /\ ~torn /\ lines < MaxLines
    /\ torn' = TRUE
    /\ lines' = lines + 1
    /\ UNCHANGED <<journal, said, honest, reader, phase, answer, error, returned>>

\* A repeated line, or one of a message that follows whole messages.
Expected(b) ==
    \/ b \in said
    \/ /\ b \notin Strays
       /\ \A m \in Messages : m < b.message => BatchesOf(m) \subseteq said
       /\ \A c \in said : c.message <= b.message

EndLine(b) ==
    /\ Running
    /\ torn
    /\ torn' = FALSE
    /\ journal' = Append(journal, b)
    /\ said' = said \cup {b}
    /\ honest' = (honest /\ Expected(b))
    /\ UNCHANGED <<lines, reader, phase, answer, error, returned>>
----------------------------------------------------------------------------
(* TextBatches.add *)

Pending(m) == {b \in pending : b.message = m}

Ended(m) == released[m] # <<>> /\ Last(released[m]).final

Text(batches) == [i \in 1 .. Len(batches) |-> batches[i].delta]

\* Already released or held: a duplicate if it is the same, else a conflict.
Known(b) ==
    \/ b.index < Len(released[b.message])
    \/ \E p \in Pending(b.message) : p.index = b.index

Repeated(b) ==
    IF b.index < Len(released[b.message]) THEN released[b.message][b.index + 1] = b
                                          ELSE b \in pending

\* Another message has begun and is not complete.
Overlaps(m) ==
    \E i \in 1 .. Len(heard) :
        /\ heard[i] # m
        /\ \/ released[heard[i]] # <<>> /\ ~Ended(heard[i])
           \/ Pending(heard[i]) # {}

\* Mutant: a final batch that overtook its predecessors is refused.
OutOfPlaceFinal(b) ==
    \/ b.index >= MaxBatches
    \/ Ended(b.message)
    \/ b.final /\ b.index > Len(released[b.message])
    \/ \E p \in Pending(b.message) : p.final /\ (b.index > p.index \/ b.final)

OutOfPlace(b) ==
    \/ b.index >= MaxBatches
    \/ Ended(b.message)
    \/ \E p \in Pending(b.message) : p.final /\ (b.index > p.index \/ b.final)
    \/ b.final /\ \E p \in Pending(b.message) : p.index > b.index

BadBatch(b) ==
    \/ b.message \notin Messages                    \* uncorrelated or stale
    \/ Known(b) /\ ~Repeated(b)
    \/ /\ ~Known(b)
       /\ \/ OutOfPlace(b)
          \/ Overlaps(b.message)
          \/ Len(parts) + Cardinality(pending) >= MaxBatches

\* Mutant: whatever is held is released, gap or not.
RunWithGaps(m, held) == SetToSortSeq(held, LAMBDA p, q : p.index < q.index)

\* How many batches of `held` follow the first n without a gap.
Ready(n, held) ==
    LET Has(i) == \E p \in held : p.index = i
    IN  CHOOSE k \in 0 .. Cardinality(held) :
            ~Has(n + k) /\ \A i \in n .. n + k - 1 : Has(i)

\* The batches of `held` that continue message m.
Run(m, held) ==
    LET n == Len(released[m])
    IN  [j \in 1 .. Ready(n, held) |-> CHOOSE p \in held : p.index = n + j - 1]

Hear(m) == IF Contains(heard, m) THEN heard ELSE Append(heard, m)

\* One line of TextBatches.drain.
Read ==
    /\ Running /\ ~caught
    /\ journal # <<>>
    /\ LET b == Head(journal)
           run == Run(b.message, Pending(b.message) \cup {b})
       IN  \/ /\ BadBatch(b)
              /\ phase' = "failed" /\ error' = "batch"
              /\ UNCHANGED <<journal, heard, released, pending, parts>>
           \/ /\ ~BadBatch(b) /\ Known(b)
              /\ journal' = Tail(journal)
              /\ UNCHANGED <<heard, released, pending, parts, phase, error>>
           \/ /\ ~BadBatch(b) /\ ~Known(b)
              /\ journal' = Tail(journal)
              /\ heard' = Hear(b.message)
              /\ released' = [released EXCEPT ![b.message] = @ \o run]
              /\ parts' = parts \o run
              /\ pending' = (pending \cup {b}) \ ToSet(run)
              /\ UNCHANGED <<phase, error>>
    /\ UNCHANGED <<torn, lines, said, honest, caught, partial, answer, returned>>

\* The drain after the answer finds no further complete line.
EndOfJournal ==
    /\ phase = "settling" /\ ~caught
    /\ journal = <<>>
    /\ caught' = TRUE
    /\ partial' = torn
    /\ UNCHANGED <<hooks, heard, released, pending, parts, phase, answer, error, returned>>
----------------------------------------------------------------------------
(* NativeSession.exchange: the answer, the grace and TextBatches.finish *)

\* The stop hook's file or a decision of the channel is seen.
AnswerArrives(a) ==
    /\ phase = "watching"
    /\ answer' = a
    /\ phase' = "settling"
    /\ UNCHANGED <<hooks, reader, error, returned>>

\* A message whose first line is held has no batch yet and is not ended.
AwaitingFinal ==
    partial \/ pending # {} \/ \E i \in 1 .. Len(heard) : ~Ended(heard[i])

AwaitingFirstBatch == parts = <<>>

\* _settle_text_batches: what is missing may yet arrive; drain once more.
Poll ==
    /\ phase = "settling" /\ caught
    /\ AwaitingFinal \/ (answer.kind # "stop" /\ AwaitingFirstBatch)
    /\ caught' = FALSE
    /\ UNCHANGED <<hooks, heard, released, pending, parts, partial, phase, answer, error, returned>>

\* Nothing reached Hermes and the end of one message is held: its stop text
\* is authoritative if it ends like that.
HeldSuffix(text) ==
    /\ text # None /\ parts = <<>>
    /\ \E m \in Messages :
         /\ pending = Pending(m)
         /\ LET held == SetToSortSeq(pending, LAMBDA p, q : p.index < q.index)
            IN  /\ held[1].index > 0
                /\ \A i \in 1 .. Len(held) : held[i].index = held[1].index + i - 1
                /\ Last(held).final
                /\ IsSuffix(Text(held), text)

\* TextBatches.finish returns.
Finishes(text) ==
    /\ ~partial
    /\ pending # {} => HeldSuffix(text)
    /\ pending = {} =>
         /\ \A i \in 1 .. Len(heard) : Ended(heard[i])
         /\ text # None /\ heard # <<>> =>
              text \in {Text(parts), Text(released[Last(heard)])}

\* Mutant: the stop text replaces what was streamed.
FinishedByStop(text) == IF text # None THEN text ELSE Text(parts)

\* What it returns.
Finished(text) ==
    IF pending # {} \/ (text # None /\ heard = <<>>) THEN text ELSE Text(parts)

\* A legacy structured final is reconciled only when text was captured.
Reconciled ==
    CASE answer.kind = "stop" -> answer.text
      [] answer.kind = "final" /\ Finished(None) # <<>> -> answer.text
      [] OTHER -> None

Finish ==
    /\ phase = "settling" /\ caught
    /\ IF /\ answer.kind # "stop" => Finishes(None)
          /\ Finishes(Reconciled)
       THEN /\ phase' = "returned"
            /\ returned' = IF answer.kind = "final" /\ Reconciled = None
                           THEN answer.text ELSE Finished(Reconciled)
            /\ UNCHANGED error
       ELSE /\ phase' = "failed" /\ error' = "finish"
            /\ UNCHANGED returned
    /\ UNCHANGED <<hooks, reader, answer>>

\* Cancelled, stalled, out of time, or the callback raised.
Interrupt ==
    /\ Running
    /\ phase' = "failed" /\ error' = "interrupted"
    /\ UNCHANGED <<hooks, reader, answer, returned>>

Next ==
    \/ BeginLine
    \/ \E b \in Lines : EndLine(b)
    \/ Read
    \/ EndOfJournal
    \/ \E a \in Answers : AnswerArrives(a)
    \/ Poll
    \/ Finish
    \/ Interrupt

Spec == Init /\ [][Next]_vars
----------------------------------------------------------------------------
(* Properties *)

\* However the hooks are ordered, repeated or contradicted, Hermes receives the
\* batches of a message in order without a gap, and no batch of another message
\* before the message has ended.
StreamedInOrder ==
    \A i \in 1 .. Len(parts) :
        /\ parts[i].index =
             Cardinality({j \in 1 .. i - 1 : parts[j].message = parts[i].message})
        /\ \A j \in 1 .. i - 1 :
             parts[j].message # parts[i].message =>
                \E l \in j .. i - 1 : parts[l].message = parts[j].message /\ parts[l].final

\* What was streamed is a prefix of the completion, so the API never has to
\* take text back (api.py:1432), and tool calls are only dispatched with
\* complete messages before them.
FinishSound ==
    phase = "returned" =>
        /\ IsPrefix(Text(parts), returned)
        /\ answer.kind = "tool_calls" => \A i \in 1 .. Len(heard) : Ended(heard[i])

\* The stop text reports the last message, or all of them.
TrueAnswer ==
    answer.kind = "tool_calls" \/
    LET spoken == {b.message : b \in said}
        last == CHOOSE m \in spoken : \A n \in spoken : n <= m
    IN  spoken = {} \/
        answer.text \in {Script[last], FlattenSeq(SubSeq(Script, 1, last))}

\* Reordered hooks of one message and repeated lines never fail a request: as
\* long as messages follow one another, no batch is refused, and a true answer
\* is reconciled once every line is read.
HonestAccepted ==
    honest =>
        /\ error # "batch"
        /\ error = "finish" =>
             \/ journal # <<>> \/ partial
             \/ \E b \in said : ~(BatchesOf(b.message) \subseteq said)
             \/ ~TrueAnswer
=============================================================================
