------------------------ MODULE TextBatches_proofs -------------------------
(***************************************************************************)
(* What Hermes may rely on when text is streamed, for every script, every  *)
(* set of stray lines and every bound.                                     *)
(*                                                                         *)
(* A line that is accepted may release several batches at once.  The       *)
(* invariant therefore speaks of the batches of a message that were        *)
(* released (Filed), of those that wait (Held), and of where the former    *)
(* are in the stream of all messages (Placed).                             *)
(***************************************************************************)
EXTENDS TextBatches, FiniteSetTheorems, SequenceTheorems, TLAPS

----------------------------------------------------------------------------
(* Natural numbers *)

\* The induction principle of this module.
LEMMA LeastNat ==
  ASSUME NEW T \in SUBSET Nat, T # {}
  PROVE  \E x \in T : \A y \in T : x <= y
<1>1. PICK n \in T : TRUE
  OBVIOUS
<1>. DEFINE D == {k \in 0 .. n : \A j \in 0 .. k : j \notin T}
            c == Cardinality(D)
<1>2. n \in Nat /\ D \in SUBSET (0 .. n) /\ IsFiniteSet(0 .. n)
  BY FS_Interval
<1>3. IsFiniteSet(D) /\ c \in Nat
  BY <1>2, FS_Subset, FS_CardinalityType
<1>4. \A k \in D : 0 .. k \subseteq D
  BY <1>2
<1>. HIDE DEF c
<1>5. c \notin D
  <2>. SUFFICES ASSUME c \in D PROVE FALSE
    OBVIOUS
  <2>1. (0 .. c) \in SUBSET D
    BY <1>4
  <2>2. Cardinality(0 .. c) = c + 1
    BY <1>3, FS_Interval
  <2>3. Cardinality(0 .. c) <= Cardinality(D)
    BY <1>3, <2>1, FS_Subset
  <2>. QED BY <1>3, <2>2, <2>3 DEF c
<1>6. D = 0 .. c - 1
  <2>1. \A k \in D : k < c
    BY <1>2, <1>3, <1>4, <1>5
  <2>2. D \in SUBSET (0 .. c - 1)
    BY <1>2, <1>3, <2>1
  <2>3. IsFiniteSet(0 .. c - 1) /\ Cardinality(0 .. c - 1) = c
    BY <1>3, FS_Interval
  <2>. QED BY <2>2, <2>3, FS_Subset DEF c
<1>7. c <= n
  <2>1. n \notin D
    BY <1>1, <1>2
  <2>. HIDE DEF D
  <2>. QED BY <1>2, <1>3, <1>6, <2>1
<1>8. ASSUME NEW y \in T PROVE c <= y
  <2>1. \A k \in 0 .. c - 1 : y \notin 0 .. k
    BY <1>6
  <2>. HIDE DEF D
  <2>2. y \in Nat
    OBVIOUS
  <2>. QED BY <1>3, <2>1, <2>2
<1>9. c \in T
  <2>. SUFFICES ASSUME c \notin T PROVE FALSE
    OBVIOUS
  <2>1. \A j \in 0 .. c : j \notin T
    BY <1>3, <1>6
  <2>. QED BY <1>3, <1>5, <1>7, <2>1
<1>. QED BY <1>8, <1>9

\* "while cursor in pending" stops at the first gap.
LEMMA ReadyStops ==
  ASSUME NEW held, IsFiniteSet(held), NEW n \in Nat
  PROVE  LET k == Ready(n, held)
         IN  /\ k \in Nat
             /\ ~\E p \in held : p.index = n + k
             /\ \A i \in n .. n + k - 1 : \E p \in held : p.index = i
<1>. DEFINE Has(i) == \E p \in held : p.index = i
            c == Cardinality(held)
            T == {k \in 0 .. c : ~Has(n + k)}
<1>1. c \in Nat
  BY FS_CardinalityType
<1>2. T # {}
  <2>. SUFFICES ASSUME \A k \in 0 .. c : Has(n + k) PROVE FALSE
    OBVIOUS
  <2>. DEFINE f == [k \in 0 .. c |-> CHOOSE p \in held : p.index = n + k]
  <2>1. \A k \in 0 .. c : f[k] \in held /\ f[k].index = n + k
    OBVIOUS
  <2>2. f \in [0 .. c -> held]
    BY <2>1
  <2>. HIDE DEF f
  <2>3. f \in Injection(0 .. c, held)
    BY <1>1, <2>1, <2>2 DEF Injection, IsInjective
  <2>4. Cardinality(0 .. c) = c + 1 /\ Cardinality(0 .. c) <= c
    BY <1>1, <2>3, FS_Interval, FS_Injection
  <2>. QED BY <1>1, <2>4
<1>3. PICK k \in T : \A y \in T : k <= y
  <2>1. T \in SUBSET Nat
    BY <1>1
  <2>. HIDE DEF T
  <2>. QED BY <1>2, <2>1, LeastNat
<1>4. k \in 0 .. c /\ ~Has(n + k) /\ \A i \in n .. n + k - 1 : Has(i)
  <2>1. ASSUME NEW i \in n .. n + k - 1 PROVE Has(i)
    <3>1. i - n \in 0 .. c /\ ~(k <= i - n) /\ n + (i - n) = i
      BY <1>1, <1>3
    <3>. QED BY <1>3, <3>1
  <2>. QED BY <1>3, <2>1
<1>. DEFINE r == CHOOSE j \in 0 .. c : ~Has(n + j) /\ \A i \in n .. n + j - 1 : Has(i)
<1>5. r \in 0 .. c /\ ~Has(n + r) /\ \A i \in n .. n + r - 1 : Has(i)
  BY <1>4
<1>6. Ready(n, held) = r
  BY DEF Ready
<1>. HIDE DEF r
<1>. QED BY <1>1, <1>5, <1>6
----------------------------------------------------------------------------
(* The invariant *)

LineRecord == [message : Nat, index : Nat, delta : Deltas, final : BOOLEAN]

TextType ==
    /\ journal \in Seq(Lines)
    /\ heard \in Seq(Messages)
    /\ released \in [Names -> Seq(Lines)]
    /\ pending \in SUBSET Lines /\ IsFiniteSet(pending)
    /\ parts \in Seq(Lines)

\* The batches of a message are released in order, and nothing follows the final one.
Filed ==
    \A m \in Messages : \A k \in 1 .. Len(released[m]) :
        LET b == released[m][k]
        IN  b.message = m /\ b.index = k - 1 /\ (b.final => k = Len(released[m]))

\* What waits lies behind a gap, and not behind a final batch.
Held ==
    /\ \A p \in pending :
         /\ p.message \in Messages /\ Contains(heard, p.message)
         /\ p.index > Len(released[p.message]) /\ ~Ended(p.message)
    /\ \A p, q \in pending :
         p.message = q.message =>
            /\ p.index = q.index => p = q
            /\ p.final => q.index <= p.index

\* How many of the first n batches of a stream belong to message m.
Count(stream, m, n) == Cardinality({j \in 1 .. n : stream[j].message = m})

\* The stream holds the batches of each message once, the last one last.
Placed ==
    /\ \A j \in 1 .. Len(parts) :
         LET b == parts[j]
         IN  /\ b.message \in Messages /\ Contains(heard, b.message)
             /\ b.index < Len(released[b.message])
             /\ released[b.message][b.index + 1] = b
    /\ \A m \in Messages :
         /\ Len(released[m]) = Count(parts, m, Len(parts))
         /\ released[m] # <<>> =>
              \E l \in 1 .. Len(parts) :
                 /\ parts[l] = Last(released[m])
                 /\ \A j \in 1 .. Len(parts) : parts[j].message = m => j <= l

IInv == TextType /\ Filed /\ Held /\ Placed /\ StreamedInOrder

\* What a line is.
LEMMA LineType == /\ Lines \subseteq LineRecord
                  /\ Messages \subseteq Nat /\ Messages \subseteq Names
                  /\ \A m \in Messages : Script[m] \in Seq(Deltas) /\ Script[m] # <<>>
<1>1. Messages = 1 .. Len(Script) /\ Len(Script) \in Nat
  BY TextAssumption DEF Messages
<1>2. ASSUME NEW m \in Messages
      PROVE  Script[m] \in Seq(Deltas) /\ Script[m] # <<>> /\ Len(Script[m]) \in Nat
  <2>1. Script[m] \in Seq(Deltas)
    BY <1>1, TextAssumption, ElementOfSeq DEF Messages
  <2>. QED BY <2>1, TextAssumption
<1>3. ASSUME NEW m \in Messages, NEW i \in 0 .. Len(Script[m]) - 1
      PROVE  Batch(m, i) \in LineRecord
  <2>1. i + 1 \in 1 .. Len(Script[m]) /\ i \in Nat /\ m \in Nat
    BY <1>1, <1>2
  <2>2. Script[m][i + 1] \in Deltas
    BY <1>2, <2>1, ElementOfSeq
  <2>. QED BY <2>1, <2>2 DEF Batch, LineRecord
<1>4. Strays \subseteq LineRecord
  BY TextAssumption DEF LineRecord
<1>5. Lines \subseteq LineRecord
  <2>. SUFFICES ASSUME NEW b \in Lines, b \notin Strays PROVE b \in LineRecord
    BY <1>4
  <2>1. PICK m \in Messages : b \in BatchesOf(m)
    BY Zenon DEF Lines
  <2>. QED BY <1>3, <2>1 DEF BatchesOf
<1>. QED BY <1>1, <1>2, <1>5 DEF Names

\* The batches `run` continue the message of b, and `kept` still waits behind a gap.
Continues(b, run, kept) ==
    LET m == b.message
        n == Len(released[m])
    IN  /\ m \in Messages /\ n \in Nat
        /\ run \in Seq(Lines)
        /\ \A j \in 1 .. Len(run) :
             /\ run[j] \in pending \cup {b}
             /\ run[j].message = m /\ run[j].index = n + j - 1
             /\ run[j].final => j = Len(run)
        /\ kept \in SUBSET Lines /\ IsFiniteSet(kept)
        /\ \A p \in kept : p.message = m => p.index > n + Len(run)
        /\ run # <<>> /\ Last(run).final => \A p \in kept : p.message # m
        /\ \A p, q \in kept :
             p.message = q.message =>
                /\ p.index = q.index => p = q
                /\ p.final => q.index <= p.index

\* What a line that is accepted releases.
LEMMA RunReleases ==
  ASSUME TextType, Filed, Held, NEW b \in Lines, ~BadBatch(b), ~Known(b)
  PROVE  LET run == Run(b.message, Pending(b.message) \cup {b})
         IN  Continues(b, run, (pending \cup {b}) \ ToSet(run))
<1>. DEFINE m == b.message
            n == Len(released[m])
            held == Pending(m) \cup {b}
            run == Run(m, held)
            k == Ready(n, held)
            kept == (pending \cup {b}) \ ToSet(run)
<1>1. m \in Messages /\ released[m] \in Seq(Lines) /\ n \in Nat
  <2>1. m \in Messages /\ m \in Names
    BY LineType DEF BadBatch
  <2>. QED BY <2>1 DEF TextType
<1>2. /\ b \in LineRecord /\ pending \in SUBSET LineRecord
      /\ held \in SUBSET Lines /\ held \in SUBSET LineRecord
      /\ \A p \in held : p.message = m /\ p.index \in Nat
  BY LineType DEF TextType, LineRecord, Pending
<1>3. IsFiniteSet(held)
  <2>1. IsFiniteSet(Pending(m))
    BY FS_Subset DEF TextType, Pending
  <2>. QED BY <2>1, FS_AddElement
<1>4. /\ b.index >= n /\ \A p \in Pending(m) : p.index # b.index
      /\ \A p \in Pending(m) : p.index > n /\ ~Ended(m)
  BY <1>1, <1>2 DEF Known, Held, Pending
<1>5. /\ ~Ended(m)
      /\ \A p \in Pending(m) : p.final => b.index <= p.index /\ ~b.final
      /\ \A p \in Pending(m) : b.final => p.index <= b.index
  BY <1>2 DEF BadBatch, OutOfPlace, Pending, LineRecord
<1>6. /\ \A p \in held : p.index >= n
      /\ \A p, q \in held : p.index = q.index => p = q
      /\ \A p, q \in held : p.final => q.index <= p.index
  <2>1. \A p, q \in Pending(m) : /\ p.index = q.index => p = q
                                 /\ p.final => q.index <= p.index
    BY DEF Held, Pending
  <2>. QED BY <1>1, <1>2, <1>4, <1>5, <2>1
<1>7. /\ k \in Nat /\ (\A p \in held : p.index # n + k)
      /\ \A i \in n .. n + k - 1 : \E p \in held : p.index = i
  BY <1>1, <1>3, ReadyStops
<1>8. run = [j \in 1 .. k |-> CHOOSE p \in held : p.index = n + j - 1]
  BY DEF Run
<1>. HIDE DEF held, k
<1>9. ASSUME NEW j \in 1 .. k PROVE run[j] \in held /\ run[j].index = n + j - 1
  <2>1. n + j - 1 \in n .. n + k - 1
    BY <1>1, <1>7
  <2>. QED BY <1>7, <1>8, <2>1
<1>10. run \in Seq(Lines) /\ Len(run) = k /\ DOMAIN run = 1 .. k
  <2>1. run \in [1 .. k -> Lines]
    BY <1>2, <1>8, <1>9
  <2>. QED BY <1>7, <2>1
<1>. HIDE DEF run
<1>11. ASSUME NEW j \in 1 .. k, run[j].final PROVE j = k
  <2>1. k \in 1 .. k
    BY <1>7
  <2>2. run[k].index <= run[j].index
    BY <1>6, <1>9, <1>11, <2>1
  <2>. QED BY <1>1, <1>7, <1>9, <2>1, <2>2
<1>12. kept \in SUBSET Lines /\ IsFiniteSet(kept)
  BY FS_AddElement, FS_Difference DEF TextType
<1>13. ASSUME NEW p \in kept, p.message = m PROVE p \in held /\ p.index > n + k
  <2>1. p \in held
    BY <1>13 DEF held, Pending
  <2>2. ASSUME p.index < n + k PROVE FALSE
    <3>1. p.index - n + 1 \in 1 .. k /\ n + (p.index - n + 1) - 1 = p.index
      BY <1>1, <1>2, <1>6, <1>7, <2>1, <2>2
    <3>2. run[p.index - n + 1] = p
      BY <1>6, <1>9, <2>1, <3>1
    <3>. QED BY <1>10, <3>1, <3>2 DEF ToSet
  <2>. QED BY <1>1, <1>2, <1>7, <2>1, <2>2
<1>14. ASSUME run # <<>>, Last(run).final, NEW p \in kept, p.message = m PROVE FALSE
  <2>1. k \in 1 .. k /\ run[k].final
    BY <1>7, <1>10, <1>14 DEF Last
  <2>2. p \in held /\ p.index > n + k /\ p.index <= run[k].index
    BY <1>6, <1>9, <1>13, <1>14, <2>1
  <2>. QED BY <1>1, <1>2, <1>7, <1>9, <2>1, <2>2
<1>15. ASSUME NEW p \in kept, NEW q \in kept, p.message = q.message
       PROVE  /\ p.index = q.index => p = q
              /\ p.final => q.index <= p.index
  <2>1. CASE p.message = m
    BY <1>6, <1>13, <1>15, <2>1
  <2>2. CASE p.message # m
    BY <1>15, <2>2 DEF Held
  <2>. QED BY <2>1, <2>2
<1>16. \A p \in held : p.message = m /\ p \in pending \cup {b}
  BY <1>2 DEF held, Pending
<1>. HIDE DEF m, n, kept
<1>17. /\ m \in Messages /\ n \in Nat
       /\ run \in Seq(Lines)
       /\ \A j \in 1 .. Len(run) :
            /\ run[j] \in pending \cup {b}
            /\ run[j].message = m /\ run[j].index = n + j - 1
            /\ run[j].final => j = Len(run)
       /\ kept \in SUBSET Lines /\ IsFiniteSet(kept)
       /\ \A p \in kept : p.message = m => p.index > n + Len(run)
       /\ run # <<>> /\ Last(run).final => \A p \in kept : p.message # m
       /\ \A p, q \in kept :
            p.message = q.message =>
               /\ p.index = q.index => p = q
               /\ p.final => q.index <= p.index
  BY <1>1, <1>9, <1>10, <1>11, <1>12, <1>13, <1>14, <1>15, <1>16
<1>18. Continues(b, run, kept)
  BY <1>17 DEF Continues, m, n
<1>. QED BY <1>18 DEF kept, run, held, m

\* Counting the batches of a message while others are appended.
LEMMA CountAppended ==
  ASSUME NEW s \in Seq(Lines), NEW run \in Seq(Lines), NEW x, NEW n \in Nat,
         Len(s) <= n, n <= Len(s) + Len(run)
  PROVE  /\ (\A j \in 1 .. Len(run) : run[j].message = x)
              => Count(s \o run, x, n) = Count(s, x, Len(s)) + (n - Len(s))
         /\ (\A j \in 1 .. Len(run) : run[j].message # x)
              => Count(s \o run, x, n) = Count(s, x, Len(s))
<1>. DEFINE t == s \o run
            l == Len(s)
            A == {j \in 1 .. l : s[j].message = x}
            B == l + 1 .. n
            C == {j \in 1 .. n : t[j].message = x}
<1>1. /\ l \in Nat /\ Len(run) \in Nat
      /\ \A j \in 1 .. l + Len(run) : t[j] = IF j <= l THEN s[j] ELSE run[j - l]
  BY ConcatProperties
<1>2. l <= n /\ n <= l + Len(run)
  OBVIOUS
<1>3. Count(s \o run, x, n) = Cardinality(C) /\ Count(s, x, Len(s)) = Cardinality(A)
  BY DEF Count
<1>. HIDE DEF t, l
<1>4. \A j \in 1 .. n : \/ j \in 1 .. l /\ t[j] = s[j]
                        \/ j \in B /\ j - l \in 1 .. Len(run) /\ t[j] = run[j - l]
  <2>1. ASSUME NEW j \in 1 .. n
        PROVE  /\ j \in 1 .. l + Len(run)
               /\ \/ j \in 1 .. l /\ j <= l
                  \/ j \in B /\ j - l \in 1 .. Len(run) /\ ~(j <= l)
    BY <1>1, <1>2
  <2>. HIDE DEF B
  <2>. QED BY <1>1, <2>1
<1>5. A \subseteq 1 .. n /\ B \subseteq 1 .. n /\ A \cap B = {}
  <2>1. \A j \in 1 .. l : j \in 1 .. n /\ j \notin B
    BY <1>1, <1>2
  <2>2. B \subseteq 1 .. n
    BY <1>1, <1>2
  <2>. QED BY <2>1, <2>2
<1>6. IsFiniteSet(A) /\ Cardinality(A) \in Nat
  <2>1. IsFiniteSet(1 .. l)
    BY <1>1, FS_Interval
  <2>2. A \in SUBSET (1 .. l)
    OBVIOUS
  <2>. QED BY <2>1, <2>2, FS_Subset, FS_CardinalityType
<1>7. IsFiniteSet(B) /\ Cardinality(B) = n - l
  <2>1. l + 1 \in Int /\ n \in Int
    BY <1>1
  <2>2. IsFiniteSet(B) /\ Cardinality(B) = IF l + 1 > n THEN 0 ELSE n - (l + 1) + 1
    BY <2>1, FS_Interval
  <2>. QED BY <1>1, <1>2, <2>2
<1>8. ASSUME \A j \in 1 .. Len(run) : run[j].message = x
      PROVE  Cardinality(C) = Cardinality(A) + (n - l)
  <2>1. C = A \cup B
    <3>1. \A j \in 1 .. n : j \in C <=> j \in A \cup B
      BY <1>1, <1>4, <1>8
    <3>. QED BY <1>5, <3>1
  <2>. HIDE DEF A, B, C
  <2>2. Cardinality(A \cup B) = Cardinality(A) + Cardinality(B) - Cardinality(A \cap B)
    BY <1>6, <1>7, FS_Union
  <2>3. Cardinality(A \cap B) = 0
    BY <1>5, FS_EmptySet
  <2>. QED BY <1>1, <1>6, <1>7, <2>1, <2>2, <2>3
<1>9. ASSUME \A j \in 1 .. Len(run) : run[j].message # x
      PROVE  C = A
  <2>1. ASSUME NEW j \in 1 .. n
        PROVE  t[j].message = x <=> j \in 1 .. l /\ s[j].message = x
    <3>1. CASE j \in 1 .. l /\ t[j] = s[j]
      BY <3>1
    <3>2. CASE j \in B /\ j - l \in 1 .. Len(run) /\ t[j] = run[j - l]
      <4>1. t[j].message # x
        BY <1>9, <3>2
      <4>2. j \notin 1 .. l
        BY <1>1, <3>2
      <4>. QED BY <4>1, <4>2
    <3>. QED BY <1>4, <3>1, <3>2
  <2>. QED BY <1>5, <2>1
<1>. QED BY <1>3, <1>8, <1>9 DEF l

\* What becomes of the state when the accepted line is new.
Accepts(b) ==
    LET run == Run(b.message, Pending(b.message) \cup {b})
    IN  /\ ~BadBatch(b) /\ ~Known(b)
        /\ heard' = Hear(b.message)
        /\ released' = [released EXCEPT ![b.message] = @ \o run]
        /\ parts' = parts \o run
        /\ pending' = (pending \cup {b}) \ ToSet(run)

LEMMA HearKeeps ==
  ASSUME TextType, NEW m \in Messages
  PROVE  /\ Hear(m) \in Seq(Messages) /\ Contains(Hear(m), m)
         /\ \A x : Contains(heard, x) => Contains(Hear(m), x)
<1>1. CASE Contains(heard, m)
  BY <1>1 DEF Hear, TextType
<1>2. CASE ~Contains(heard, m)
  <2>. DEFINE h == Append(heard, m)
  <2>1. /\ h \in Seq(Messages) /\ Len(h) = Len(heard) + 1 /\ Len(heard) \in Nat
        /\ h[Len(heard) + 1] = m /\ \A i \in 1 .. Len(heard) : h[i] = heard[i]
    BY AppendProperties DEF TextType
  <2>2. Hear(m) = h
    BY <1>2 DEF Hear
  <2>. HIDE DEF h
  <2>. QED BY <2>1, <2>2 DEF Contains
<1>. QED BY <1>1, <1>2

\* An accepted line keeps the invariant: what it releases continues its message,
\* and every other message that has begun has ended.
LEMMA AcceptsKeeps ==
  ASSUME IInv, NEW b \in Lines, Accepts(b), journal' \in Seq(Lines)
  PROVE  IInv'
<1>. DEFINE m == b.message
            n == Len(released[m])
            held == Pending(m) \cup {b}
            run == Run(m, held)
            l == Len(parts)
            k == Len(run)
<1>1. Continues(b, run, pending')
  <2>1. pending' = (pending \cup {b}) \ ToSet(run)
    BY DEF Accepts
  <2>2. TextType /\ Filed /\ Held /\ ~BadBatch(b) /\ ~Known(b)
    BY DEF IInv, Accepts
  <2>. QED BY <2>1, <2>2, RunReleases
<1>2. /\ heard' = Hear(m) /\ released' = [released EXCEPT ![m] = @ \o run]
      /\ parts' = parts \o run /\ \A p \in pending' : p \in pending \/ p = b
  BY DEF Accepts
<1>3. ~Ended(m) /\ ~Overlaps(m)
  <2>1. m \in Messages
    BY <1>1 DEF Continues
  <2>. QED BY <2>1 DEF Accepts, BadBatch, OutOfPlace
<1>. HIDE DEF run
<1>0. /\ m \in Messages /\ n \in Nat /\ run \in Seq(Lines)
      /\ pending' \in SUBSET Lines /\ IsFiniteSet(pending')
  BY <1>1 DEF Continues
<1>4. /\ k \in Nat /\ l \in Nat /\ DOMAIN run = 1 .. k
      /\ m \in Names /\ released[m] \in Seq(Lines) /\ parts \in Seq(Lines)
      /\ Messages \subseteq Names /\ Messages \subseteq Nat
      /\ \A x \in Names : released[x] \in Seq(Lines)
  <2>1. k \in Nat /\ DOMAIN run = 1 .. k
    BY <1>0, LenProperties
  <2>2. m \in Messages /\ parts \in Seq(Lines) /\ released \in [Names -> Seq(Lines)]
    BY <1>0 DEF IInv, TextType
  <2>. QED BY <2>1, <2>2, LineType, LenProperties
<1>5. /\ parts' \in Seq(Lines) /\ Len(parts') = l + k
      /\ \A j \in 1 .. l : parts'[j] = parts[j]
      /\ \A j \in l + 1 .. l + k : parts'[j] = run[j - l]
  <2>1. /\ parts' \in Seq(Lines) /\ Len(parts') = l + k
        /\ \A j \in 1 .. l + k : parts'[j] = IF j <= l THEN parts[j] ELSE run[j - l]
    <3>1. run \in Seq(Lines) /\ parts \in Seq(Lines) /\ parts' = parts \o run
      BY <1>0, <1>2, <1>4
    <3>. QED BY <3>1, ConcatProperties
  <2>. QED BY <1>4, <2>1
<1>6. /\ released'[m] \in Seq(Lines) /\ Len(released'[m]) = n + k
      /\ \A j \in 1 .. n : released'[m][j] = released[m][j]
      /\ \A j \in n + 1 .. n + k : released'[m][j] = run[j - n]
      /\ \A x \in Names \ {m} : released'[x] = released[x]
      /\ released' \in [Names -> Seq(Lines)]
  <2>1. released'[m] = released[m] \o run
    BY <1>2, <1>4 DEF IInv, TextType
  <2>2. /\ released'[m] \in Seq(Lines) /\ Len(released'[m]) = n + k
        /\ \A j \in 1 .. n + k :
             released'[m][j] = IF j <= n THEN released[m][j] ELSE run[j - n]
    <3>1. run \in Seq(Lines) /\ released[m] \in Seq(Lines)
      BY <1>0, <1>4
    <3>. QED BY <2>1, <3>1, ConcatProperties
  <2>3. \A x \in Names \ {m} : released'[x] = released[x]
    BY <1>2, <1>4 DEF IInv, TextType
  <2>4. released' \in [Names -> Seq(Lines)]
    <3>1. released \in [Names -> Seq(Lines)]
      BY DEF IInv, TextType
    <3>. QED BY <1>2, <1>4, <2>1, <2>2, <3>1
  <2>. HIDE DEF m, n, k
  <2>5. n \in Nat
    BY <1>0
  <2>. QED BY <1>4, <2>2, <2>3, <2>4, <2>5
<1>7. /\ heard' \in Seq(Messages) /\ Contains(heard', m)
      /\ \A x : Contains(heard, x) => Contains(heard', x)
  BY <1>0, <1>2, HearKeeps DEF IInv
<1>. HIDE DEF n, l, k, held
<1>8. TextType'
  BY <1>0, <1>5, <1>6, <1>7 DEF TextType
<1>9. /\ \A j \in 1 .. k : /\ run[j].message = m /\ run[j].index = n + j - 1
                           /\ run[j].final => j = k
      /\ \A p \in pending' : p.message = m => p.index > n + k
      /\ run # <<>> /\ Last(run).final => \A p \in pending' : p.message # m
      /\ \A p, q \in pending' :
           p.message = q.message =>
              /\ p.index = q.index => p = q
              /\ p.final => q.index <= p.index
  BY <1>1 DEF Continues, n, k
<1>10. \A j \in 1 .. n : /\ released[m][j].message = m /\ released[m][j].index = j - 1
                         /\ ~released[m][j].final
  <2>1. n \in Nat /\ Len(released[m]) = n /\ m \in Messages
    BY <1>0 DEF n
  <2>2. \A j \in 1 .. n : /\ released[m][j].message = m /\ released[m][j].index = j - 1
                          /\ released[m][j].final => j = n
    BY <2>1 DEF IInv, Filed
  <2>3. n # 0 => ~released[m][n].final
    <3>1. n # 0 => released[m] # <<>> /\ Last(released[m]) = released[m][n]
      BY <1>4, <2>1 DEF Last
    <3>. QED BY <1>3, <3>1 DEF Ended
  <2>4. ASSUME NEW j \in 1 .. n PROVE ~released[m][j].final
    <3>1. n # 0
      BY <2>1
    <3>. QED BY <2>2, <2>3, <3>1, Zenon
  <2>. QED BY <2>2, <2>4, Zenon
<1>. HIDE DEF m
<1>11. n \in Nat /\ l \in Nat /\ k \in Nat /\ m \in Messages
  BY <1>0, <1>4
<1>12. \A j \in 1 .. k : /\ run[j].message = m /\ run[j].index = n + j - 1
                         /\ run[j].final => j = k
  BY <1>9
<1>13. Len(parts') = l + k
  BY <1>5
<1>14. \A j \in 1 .. l + k : \/ j \in 1 .. l /\ parts'[j] = parts[j]
                             \/ /\ j > l /\ j - l \in 1 .. k
                                /\ parts'[j] = run[j - l]
  <2>1. \A j \in 1 .. l + k : j \in 1 .. l \/ (j > l /\ j - l \in 1 .. k /\ j \in l + 1 .. l + k)
    BY <1>11
  <2>2. /\ \A j \in 1 .. l : parts'[j] = parts[j]
        /\ \A j \in l + 1 .. l + k : parts'[j] = run[j - l]
    BY <1>5
  <2>. QED BY <2>1, <2>2
<1>15. Len(released'[m]) = n + k
  BY <1>6
<1>16. \A j \in 1 .. n + k : \/ j \in 1 .. n /\ released'[m][j] = released[m][j]
                             \/ /\ j > n /\ j - n \in 1 .. k
                                /\ released'[m][j] = run[j - n]
  <2>1. \A j \in 1 .. n + k : j \in 1 .. n \/ (j > n /\ j - n \in 1 .. k /\ j \in n + 1 .. n + k)
    BY <1>11
  <2>2. /\ \A j \in 1 .. n : released'[m][j] = released[m][j]
        /\ \A j \in n + 1 .. n + k : released'[m][j] = run[j - n]
    BY <1>6
  <2>. QED BY <2>1, <2>2
<1>17. \A x \in Messages : x # m => released'[x] = released[x]
  BY <1>4, <1>6
<1>18. /\ released'[m] # <<>> <=> n + k # 0
       /\ run # <<>> <=> k # 0
       /\ k # 0 => Last(run) = run[k]
       /\ Last(released'[m]) = released'[m][n + k]
       /\ Last(released[m]) = released[m][n]
  <2>1. released'[m] # <<>> <=> Len(released'[m]) # 0
    BY <1>6
  <2>2. run # <<>> <=> Len(run) # 0
    BY <1>0
  <2>. QED BY <1>15, <2>1, <2>2 DEF Last, k, n
<1>19. Filed'
  <2>1. ASSUME NEW x \in Messages, NEW i \in 1 .. Len(released'[x])
        PROVE  /\ released'[x][i].message = x /\ released'[x][i].index = i - 1
               /\ released'[x][i].final => i = Len(released'[x])
    <3>1. CASE x # m
      <4>1. released'[x] = released[x]
        BY <1>17, <3>1
      <4>. QED BY <4>1 DEF IInv, Filed
    <3>2. CASE x = m
      <4>1. i \in 1 .. n + k
        BY <1>15, <3>2
      <4>2. CASE i \in 1 .. n /\ released'[m][i] = released[m][i]
        BY <1>10, <3>2, <4>2
      <4>3. CASE i - n \in 1 .. k /\ released'[m][i] = run[i - n]
        <5>1. /\ run[i - n].message = m /\ run[i - n].index = n + (i - n) - 1
              /\ run[i - n].final => i - n = k
          BY <1>12, <4>3
        <5>. QED BY <1>11, <1>15, <3>2, <4>1, <4>3, <5>1
      <4>. QED BY <1>16, <4>1, <4>2, <4>3
    <3>. QED BY <3>1, <3>2
  <2>. QED BY <2>1 DEF Filed
<1>20. released'[m] # <<>> /\ Last(released'[m]).final => k # 0 /\ run[k].final
  <2>1. CASE k = 0
    <3>1. n # 0 => n \in 1 .. n /\ n + k = n /\ n + k \in 1 .. n + k /\ ~(n > n)
      BY <1>11, <2>1
    <3>2. n # 0 => ~released'[m][n + k].final
      BY <1>10, <1>16, <3>1
    <3>. QED BY <1>11, <1>18, <2>1, <3>2
  <2>2. CASE k # 0
    <3>1. n + k \in 1 .. n + k /\ n + k > n /\ (n + k) - n = k /\ ~(n + k \in 1 .. n)
      BY <1>11, <2>2
    <3>2. released'[m][n + k] = run[k]
      BY <1>16, <3>1
    <3>. QED BY <1>18, <2>2, <3>2
  <2>. QED BY <2>1, <2>2
<1>21. ASSUME NEW x, NEW c \in Nat, l <= c, c <= l + k
       PROVE  /\ x = m => Count(parts', x, c) = Count(parts, x, l) + (c - l)
              /\ x # m => Count(parts', x, c) = Count(parts, x, l)
  <2>1. run \in Seq(Lines) /\ parts \in Seq(Lines) /\ \A j \in 1 .. Len(run) : run[j].message = m
    BY <1>0, <1>4, <1>12 DEF k
  <2>2. Len(parts) <= c /\ c <= Len(parts) + Len(run)
    BY <1>21 DEF l, k
  <2>3. x = m => Count(parts \o run, x, c) = Count(parts, x, Len(parts)) + (c - Len(parts))
    BY <2>1, <2>2, CountAppended
  <2>4. x # m => Count(parts \o run, x, c) = Count(parts, x, Len(parts))
    BY <2>1, <2>2, CountAppended
  <2>. QED BY <1>2, <2>3, <2>4 DEF l
<1>22. Held'
  <2>1. ASSUME NEW p \in pending'
        PROVE  /\ p.message \in Messages /\ Contains(heard', p.message)
               /\ p.index > Len(released'[p.message]) /\ ~Ended(p.message)'
    <3>1. CASE p.message # m
      <4>1. p \in pending
        BY <1>2, <3>1 DEF m
      <4>2. /\ p.message \in Messages /\ Contains(heard, p.message)
            /\ p.index > Len(released[p.message]) /\ ~Ended(p.message)
        BY <4>1 DEF IInv, Held
      <4>3. released'[p.message] = released[p.message]
        BY <1>17, <3>1, <4>2
      <4>. QED BY <1>7, <4>2, <4>3 DEF Ended
    <3>2. CASE p.message = m
      <4>1. p.index > n + k /\ ~(run # <<>> /\ Last(run).final)
        BY <1>9, <3>2
      <4>2. ~(released'[m] # <<>> /\ Last(released'[m]).final)
        BY <1>18, <1>20, <4>1
      <4>. QED BY <1>7, <1>11, <1>15, <3>2, <4>1, <4>2 DEF Ended
    <3>. QED BY <3>1, <3>2
  <2>2. \A p, q \in pending' :
          p.message = q.message =>
             /\ p.index = q.index => p = q
             /\ p.final => q.index <= p.index
    BY <1>9
  <2>. QED BY <2>1, <2>2 DEF Held
<1>23. Placed'
  <2>1. ASSUME NEW j \in 1 .. Len(parts')
        PROVE  LET d == parts'[j]
               IN  /\ d.message \in Messages /\ Contains(heard', d.message)
                   /\ d.index < Len(released'[d.message])
                   /\ released'[d.message][d.index + 1] = d
    <3>1. CASE j \in 1 .. l /\ parts'[j] = parts[j]
      <4>. DEFINE d == parts[j]
      <4>1. j \in 1 .. Len(parts) /\ parts'[j] = d
        BY <3>1 DEF l
      <4>2. /\ d.message \in Messages /\ Contains(heard, d.message)
            /\ d.index < Len(released[d.message])
            /\ released[d.message][d.index + 1] = d
        BY <4>1 DEF IInv, Placed
      <4>3. d.index \in Nat
        BY <1>4, <4>1, LineType DEF LineRecord
      <4>. HIDE DEF d
      <4>4. CASE d.message # m
        <5>1. released'[d.message] = released[d.message]
          BY <1>17, <4>2, <4>4
        <5>. QED BY <1>7, <4>1, <4>2, <5>1
      <4>5. CASE d.message = m
        <5>1. d.index < n
          BY <4>2, <4>5 DEF n
        <5>2. /\ d.index + 1 \in 1 .. n + k /\ d.index < n + k
              /\ d.index + 1 \in 1 .. n /\ ~(d.index + 1 > n)
          BY <1>11, <4>3, <5>1
        <5>3. released'[m][d.index + 1] = released[m][d.index + 1]
          BY <1>16, <5>2
        <5>. QED BY <1>7, <1>15, <4>1, <4>2, <4>5, <5>2, <5>3
      <4>. QED BY <4>4, <4>5
    <3>2. CASE j > l /\ j - l \in 1 .. k /\ parts'[j] = run[j - l]
      <4>. DEFINE d == parts'[j]
      <4>1. d.message = m /\ d.index = n + (j - l) - 1 /\ d = run[j - l]
        BY <1>12, <3>2
      <4>. HIDE DEF d
      <4>2. /\ d.index < n + k /\ d.index + 1 \in 1 .. n + k
            /\ (d.index + 1) - n = j - l /\ ~(d.index + 1 \in 1 .. n)
        BY <1>11, <1>13, <3>2, <4>1
      <4>3. released'[m][d.index + 1] = d
        BY <1>16, <4>1, <4>2
      <4>. QED BY <1>7, <1>11, <1>15, <4>1, <4>2, <4>3 DEF d
    <3>. QED BY <1>13, <1>14, <3>1, <3>2
  <2>2. ASSUME NEW x \in Messages
        PROVE  Len(released'[x]) = Count(parts', x, Len(parts'))
    <3>1. /\ x = m => Count(parts', x, Len(parts')) = Count(parts, x, l) + k
          /\ x # m => Count(parts', x, Len(parts')) = Count(parts, x, l)
      <4>1. l + k \in Nat /\ l <= l + k /\ l + k <= l + k /\ (l + k) - l = k
        BY <1>11
      <4>. QED BY <1>11, <1>13, <1>21, <4>1
    <3>2. Len(released[x]) = Count(parts, x, l) /\ Len(released[x]) \in Nat
      BY <1>4 DEF IInv, Placed, l
    <3>3. Len(released'[x]) = Len(released[x]) + (IF x = m THEN k ELSE 0)
      <4>1. CASE x = m
        BY <1>15, <4>1 DEF n
      <4>2. CASE x # m
        BY <1>17, <3>2, <4>2
      <4>. QED BY <4>1, <4>2
    <3>. QED BY <3>1, <3>2, <3>3
  <2>3. ASSUME NEW x \in Messages, released'[x] # <<>>
        PROVE  \E i \in 1 .. Len(parts') :
                  /\ parts'[i] = Last(released'[x])
                  /\ \A j \in 1 .. Len(parts') : parts'[j].message = x => j <= i
    <3>1. CASE x = m /\ k # 0
      <4>1. /\ n + k \in 1 .. n + k /\ (n + k) - n = k /\ ~(n + k \in 1 .. n)
            /\ l + k \in 1 .. l + k /\ (l + k) - l = k /\ ~(l + k \in 1 .. l)
            /\ \A j \in 1 .. l + k : j <= l + k
        BY <1>11, <3>1
      <4>2. parts'[l + k] = run[k]
        BY <1>14, <4>1
      <4>3. released'[m][n + k] = run[k]
        BY <1>16, <4>1
      <4>. QED BY <1>13, <1>18, <3>1, <4>1, <4>2, <4>3
    <3>2. CASE x # m \/ k = 0
      <4>1. released[x] # <<>> /\ Last(released'[x]) = Last(released[x])
        <5>1. CASE x # m
          BY <1>17, <2>3, <5>1
        <5>2. CASE x = m /\ k = 0
          <6>1. n + k = n /\ n # 0 /\ n \in 1 .. n + k /\ ~(n > n)
            BY <1>11, <1>18, <2>3, <5>2
          <6>2. released'[m][n] = released[m][n]
            BY <1>16, <6>1
          <6>3. released[m] # <<>>
            BY <1>4, <6>1 DEF n
          <6>. QED BY <1>18, <5>2, <6>1, <6>2, <6>3
        <5>. QED BY <3>2, <5>1, <5>2
      <4>2. PICK i \in 1 .. l : /\ parts[i] = Last(released[x])
                                /\ \A j \in 1 .. l : parts[j].message = x => j <= i
        BY <4>1 DEF IInv, Placed, l
      <4>3. ASSUME NEW j \in 1 .. Len(parts'), parts'[j].message = x PROVE j <= i
        <5>1. CASE j \in 1 .. l /\ parts'[j] = parts[j]
          BY <4>2, <4>3, <5>1
        <5>2. CASE j - l \in 1 .. k /\ parts'[j] = run[j - l]
          <6>1. run[j - l].message = m
            BY <1>12, <5>2
          <6>2. k # 0
            BY <1>11, <5>2
          <6>. QED BY <3>2, <4>3, <5>2, <6>1, <6>2
        <5>. QED BY <1>13, <1>14, <5>1, <5>2
      <4>4. i \in 1 .. l + k /\ ~(i > l)
        BY <1>11
      <4>5. parts'[i] = parts[i]
        BY <1>14, <4>4
      <4>. QED BY <1>13, <4>1, <4>2, <4>3, <4>4, <4>5
    <3>. QED BY <3>1, <3>2
  <2>. QED BY <2>1, <2>2, <2>3 DEF Placed
<1>24. StreamedInOrder'
  <2>1. ASSUME NEW i \in 1 .. Len(parts'), i \in 1 .. l
        PROVE  /\ parts'[i].index = Cardinality(
                     {j \in 1 .. i - 1 : parts'[j].message = parts'[i].message})
               /\ \A j \in 1 .. i - 1 :
                    parts'[j].message # parts'[i].message =>
                       \E e \in j .. i - 1 :
                          parts'[e].message = parts'[j].message /\ parts'[e].final
    <3>1. \A j \in 1 .. i : j \in 1 .. l + k /\ ~(j > l)
      BY <1>11, <2>1
    <3>2. \A j \in 1 .. i : parts'[j] = parts[j]
      BY <1>14, <3>1
    <3>3. /\ i \in 1 .. i /\ \A j \in 1 .. i - 1 : j \in 1 .. i
          /\ \A j \in 1 .. i - 1 : \A e \in j .. i - 1 : e \in 1 .. i
      BY <2>1
    <3>4. {j \in 1 .. i - 1 : parts'[j].message = parts'[i].message}
             = {j \in 1 .. i - 1 : parts[j].message = parts[i].message}
      BY <3>2, <3>3
    <3>5. /\ parts[i].index = Cardinality(
                {j \in 1 .. i - 1 : parts[j].message = parts[i].message})
          /\ \A j \in 1 .. i - 1 :
               parts[j].message # parts[i].message =>
                  \E e \in j .. i - 1 : parts[e].message = parts[j].message /\ parts[e].final
      BY <2>1 DEF IInv, StreamedInOrder, l
    <3>. QED BY <3>2, <3>3, <3>4, <3>5
  <2>2. ASSUME NEW i \in 1 .. Len(parts'), i > l, i - l \in 1 .. k, parts'[i] = run[i - l]
        PROVE  /\ parts'[i].index = Cardinality(
                     {j \in 1 .. i - 1 : parts'[j].message = parts'[i].message})
               /\ \A j \in 1 .. i - 1 :
                    parts'[j].message # parts'[i].message =>
                       \E e \in j .. i - 1 :
                          parts'[e].message = parts'[j].message /\ parts'[e].final
    <3>1. parts'[i].message = m /\ parts'[i].index = n + (i - l) - 1
      BY <1>12, <2>2
    <3>2. Count(parts', m, i - 1) = n + (i - l - 1)
      <4>1. i - 1 \in Nat /\ l <= i - 1 /\ i - 1 <= l + k /\ (i - 1) - l = i - l - 1
        BY <1>11, <2>2
      <4>2. Count(parts', m, i - 1) = Count(parts, m, l) + (i - l - 1)
        BY <1>21, <4>1
      <4>3. n = Count(parts, m, l)
        BY <1>11 DEF IInv, Placed, l, n
      <4>. QED BY <4>2, <4>3
    <3>3. n + (i - l) - 1 = n + (i - l - 1)
      BY <1>11, <2>2
    <3>4. parts'[i].index = Cardinality(
             {j \in 1 .. i - 1 : parts'[j].message = parts'[i].message})
      BY <3>1, <3>2, <3>3 DEF Count
    <3>5. ASSUME NEW j \in 1 .. i - 1, parts'[j].message # m
          PROVE  \E e \in j .. i - 1 :
                    parts'[e].message = parts'[j].message /\ parts'[e].final
      <4>. DEFINE x == parts[j].message
      <4>1. j \in 1 .. l /\ parts'[j] = parts[j]
        <5>1. j \in 1 .. l + k
          BY <1>11, <1>13
        <5>2. ~(j - l \in 1 .. k /\ parts'[j] = run[j - l])
          BY <1>12, <3>5
        <5>. QED BY <1>14, <5>1, <5>2
      <4>2. j \in 1 .. Len(parts) /\ parts[j] \in LineRecord /\ x # m
        BY <1>4, <3>5, <4>1, LineType DEF l
      <4>3. x \in Messages /\ Contains(heard, x) /\ parts[j].index < Len(released[x])
        BY <4>2 DEF IInv, Placed
      <4>4. released[x] # <<>> /\ Len(released[x]) \in 1 .. Len(released[x])
        BY <1>4, <4>2, <4>3 DEF LineRecord
      <4>. HIDE DEF x
      <4>5. Ended(x)
        BY <1>3, <4>2, <4>3, <4>4 DEF Overlaps, Contains, m
      <4>6. PICK e \in 1 .. l : /\ parts[e] = Last(released[x])
                                /\ \A y \in 1 .. l : parts[y].message = x => y <= e
        BY <4>3, <4>4 DEF IInv, Placed, l
      <4>7. parts[e].final /\ j <= e
        BY <4>1, <4>5, <4>6 DEF Ended, x
      <4>8. parts[e].message = x
        BY <4>3, <4>4, <4>6 DEF IInv, Filed, Last
      <4>9. e \in j .. i - 1 /\ e \in 1 .. l + k /\ ~(e > l)
        BY <1>11, <2>2, <4>7
      <4>10. parts'[e] = parts[e]
        BY <1>14, <4>9
      <4>. QED BY <4>1, <4>7, <4>8, <4>9, <4>10 DEF x
    <3>. QED BY <3>1, <3>4, <3>5
  <2>. QED BY <1>13, <1>14, <2>1, <2>2 DEF StreamedInOrder
<1>. QED BY <1>8, <1>19, <1>22, <1>23, <1>24 DEF IInv
----------------------------------------------------------------------------
(* The specification keeps it *)

LEMMA InitIInv == Init => IInv
<1>. SUFFICES ASSUME Init PROVE IInv
  OBVIOUS
<1>1. /\ journal = <<>> /\ heard = <<>> /\ released = [m \in Names |-> <<>>]
      /\ pending = {} /\ parts = <<>>
  BY DEF Init
<1>2. <<>> \in Seq(Lines) /\ <<>> \in Seq(Messages) /\ IsFiniteSet({})
  BY EmptySeq, FS_EmptySet
<1>3. \A m \in Messages : released[m] = <<>>
  BY <1>1, LineType
<1>4. TextType
  BY <1>1, <1>2 DEF TextType
<1>5. Filed
  BY <1>3 DEF Filed
<1>6. Held
  BY <1>1 DEF Held
<1>7. Placed
  <2>1. \A m \in Messages : Count(parts, m, Len(parts)) = 0
    <3>1. Len(parts) = 0 /\ 1 .. 0 = {}
      BY <1>1
    <3>2. \A m \in Messages : {j \in 1 .. Len(parts) : parts[j].message = m} = {}
      BY <3>1
    <3>. QED BY <3>2, FS_EmptySet DEF Count
  <2>. QED BY <1>1, <1>3, <2>1 DEF Placed
<1>8. StreamedInOrder
  BY <1>1 DEF StreamedInOrder
<1>. QED BY <1>4, <1>5, <1>6, <1>7, <1>8 DEF IInv

LEMMA SameText ==
  ASSUME IInv, journal' \in Seq(Lines), UNCHANGED <<heard, released, pending, parts>>
  PROVE  IInv'
<1>1. TextType'
  BY DEF IInv, TextType
<1>2. Filed'
  BY DEF IInv, Filed
<1>3. Held'
  BY DEF IInv, Held, Ended
<1>4. Placed'
  BY DEF IInv, Placed, Count
<1>5. StreamedInOrder'
  BY DEF IInv, StreamedInOrder
<1>. QED BY <1>1, <1>2, <1>3, <1>4, <1>5 DEF IInv

\* A line that is read is refused, repeated or new.
ReadCases(b) ==
    \/ /\ phase' = "failed" /\ error' = "batch" /\ BadBatch(b)
       /\ UNCHANGED <<journal, heard, released, pending, parts>>
    \/ /\ ~BadBatch(b) /\ Known(b)
       /\ journal' = Tail(journal)
       /\ UNCHANGED <<heard, released, pending, parts, phase, error>>
    \/ /\ Accepts(b)
       /\ journal' = Tail(journal)
       /\ UNCHANGED <<phase, error>>

LEMMA ReadLine ==
  ASSUME TextType, Read
  PROVE  /\ Head(journal) \in Lines /\ ReadCases(Head(journal))
         /\ Tail(journal) \in Seq(Lines) /\ journal # <<>>
<1>1. journal \in Seq(Lines) /\ journal # <<>>
  BY DEF TextType, Read
<1>2. Head(journal) \in Lines /\ Tail(journal) \in Seq(Lines)
  BY <1>1, HeadTailProperties
<1>3. ReadCases(Head(journal))
  BY DEF Read, ReadCases, Accepts
<1>. QED BY <1>1, <1>2, <1>3

LEMMA NextIInv == IInv /\ [Next]_vars => IInv'
<1>. SUFFICES ASSUME IInv, [Next]_vars PROVE IInv'
  OBVIOUS
<1>1. journal \in Seq(Lines)
  BY DEF IInv, TextType
<1>2. ASSUME NEW b \in Lines, EndLine(b) PROVE IInv'
  <2>1. journal' \in Seq(Lines)
    BY <1>1, <1>2, AppendProperties DEF EndLine
  <2>. QED BY <1>2, <2>1, SameText DEF EndLine, reader
<1>3. CASE Read
  <2>. DEFINE b == Head(journal)
  <2>1. b \in Lines /\ ReadCases(b) /\ Tail(journal) \in Seq(Lines)
    BY <1>3, ReadLine DEF IInv
  <2>. HIDE DEF b
  <2>2. journal' \in Seq(Lines)
    BY <1>1, <2>1 DEF ReadCases
  <2>3. CASE Accepts(b)
    BY <2>1, <2>2, <2>3, AcceptsKeeps
  <2>4. CASE ~Accepts(b)
    <3>1. UNCHANGED <<heard, released, pending, parts>>
      BY <2>1, <2>4 DEF ReadCases
    <3>. QED BY <2>2, <3>1, SameText
  <2>. QED BY <2>3, <2>4
<1>4. CASE UNCHANGED <<journal, heard, released, pending, parts>>
  BY <1>1, <1>4, SameText
<1>5. \/ BeginLine \/ EndOfJournal \/ (\E a \in Answers : AnswerArrives(a))
      \/ Poll \/ Finish \/ Interrupt \/ UNCHANGED vars
      => UNCHANGED <<journal, heard, released, pending, parts>>
  BY DEF BeginLine, EndOfJournal, AnswerArrives, Poll, Finish, Interrupt, vars, hooks, reader
<1>. QED BY <1>2, <1>3, <1>4, <1>5 DEF Next

LEMMA IInvAlways == Spec => []IInv
BY InitIInv, NextIInv, PTL DEF Spec

\* Whatever the hooks do, Hermes receives the batches of a message in order and
\* without a gap, and no message begins before the one in progress has ended.
THEOREM StreamedInOrderAlways == Spec => []StreamedInOrder
<1>1. IInv => StreamedInOrder
  BY DEF IInv
<1>. QED BY <1>1, IInvAlways, PTL
----------------------------------------------------------------------------
(* The end of the exchange *)

LEMMA PrefixFacts ==
  /\ \A t \in Seq(Deltas) : IsPrefix(t, t) /\ IsPrefix(<<>>, t)
  /\ Text(<<>>) = <<>>
  /\ \A s \in Seq(Lines) : Text(s) \in Seq(Deltas)
<1>1. ASSUME NEW t \in Seq(Deltas) PROVE IsPrefix(t, t) /\ IsPrefix(<<>>, t)
  <2>1. Len(t) \in Nat /\ IsPrefix(t, t)
    BY LenProperties DEF IsPrefix
  <2>2. SubSeq(<<>>, 1, 0) = SubSeq(t, 1, 0)
    BY <2>1
  <2>. QED BY <2>1, <2>2 DEF IsPrefix
<1>2. Text(<<>>) = <<>>
  BY DEF Text
<1>3. ASSUME NEW s \in Seq(Lines) PROVE Text(s) \in Seq(Deltas)
  <2>1. Len(s) \in Nat /\ \A i \in 1 .. Len(s) : s[i] \in Lines
    BY LenProperties, ElementOfSeq
  <2>2. \A i \in 1 .. Len(s) : s[i].delta \in Deltas
    BY <2>1, LineType DEF LineRecord
  <2>. QED BY <2>1, <2>2 DEF Text
<1>. QED BY <1>1, <1>2, <1>3

AnswerKnown == phase \in {"settling", "returned"} => answer \in Answers

FInv == IInv /\ AnswerKnown /\ FinishSound

LEMMA InitFInv == Init => FInv
BY InitIInv DEF Init, FInv, AnswerKnown, FinishSound

\* The completion begins with what was streamed, whichever text ends the turn.
LEMMA FinishReturns ==
  ASSUME IInv, AnswerKnown, Finish, phase' = "returned"
  PROVE  /\ IsPrefix(Text(parts), returned')
         /\ answer.kind = "tool_calls" => \A i \in 1 .. Len(heard) : Ended(heard[i])
<1>. DEFINE text == Reconciled
<1>1. /\ parts \in Seq(Lines) /\ Text(parts) \in Seq(Deltas)
      /\ answer \in Answers /\ answer.text \in Seq(Deltas) /\ answer.text # None
  BY PrefixFacts, TextAssumption DEF IInv, TextType, AnswerKnown, Finish
<1>2. /\ answer.kind # "stop" => Finishes(None)
      /\ Finishes(text)
      /\ returned' = IF answer.kind = "final" /\ text = None
                     THEN answer.text ELSE Finished(text)
  BY DEF Finish
<1>3. /\ text \in {None, answer.text}
      /\ answer.kind = "final" /\ text = None => Finished(None) = <<>>
  BY <1>1 DEF Reconciled
<1>. HIDE DEF text
<1>4. Finishes(None) => /\ pending = {} /\ Finished(None) = Text(parts)
                        /\ \A i \in 1 .. Len(heard) : Ended(heard[i])
  BY DEF Finishes, HeldSuffix, Finished
<1>5. heard = <<>> => parts = <<>>
  <2>1. parts # <<>> => 1 \in 1 .. Len(parts)
    BY <1>1
  <2>2. parts # <<>> => Contains(heard, parts[1].message)
    BY <2>1 DEF IInv, Placed
  <2>. QED BY <2>2 DEF Contains
<1>6. CASE answer.kind = "final" /\ text = None
  <2>1. Text(parts) = <<>> /\ returned' = answer.text
    BY <1>2, <1>3, <1>4, <1>6
  <2>. QED BY <1>1, <1>6, <2>1, PrefixFacts
<1>7. CASE ~(answer.kind = "final" /\ text = None)
  <2>1. returned' = Finished(text)
    BY <1>2, <1>7
  <2>2. CASE pending # {} \/ (text # None /\ heard = <<>>)
    <3>1. parts = <<>> /\ text # None /\ returned' = text
      BY <1>2, <1>5, <2>1, <2>2 DEF Finishes, HeldSuffix, Finished
    <3>2. text \in Seq(Deltas) /\ Text(parts) = <<>>
      BY <1>1, <1>3, <3>1, PrefixFacts
    <3>3. IsPrefix(Text(parts), returned')
      BY <3>1, <3>2, PrefixFacts
    <3>. QED BY <1>2, <1>4, <3>3
  <2>3. CASE ~(pending # {} \/ (text # None /\ heard = <<>>))
    <3>1. returned' = Text(parts)
      BY <2>1, <2>3 DEF Finished
    <3>2. IsPrefix(Text(parts), returned')
      BY <1>1, <3>1, PrefixFacts
    <3>. QED BY <1>2, <1>4, <3>2
  <2>. QED BY <2>2, <2>3
<1>. QED BY <1>6, <1>7

LEMMA NextFInv == FInv /\ [Next]_vars => FInv'
<1>. SUFFICES ASSUME FInv, [Next]_vars PROVE FInv'
  OBVIOUS
<1>1. IInv'
  BY NextIInv DEF FInv
<1>2. CASE Finish
  <2>1. UNCHANGED <<parts, heard, released, answer>> /\ phase = "settling"
    BY <1>2 DEF Finish, reader
  <2>2. AnswerKnown'
    BY <2>1 DEF FInv, AnswerKnown
  <2>3. FinishSound'
    <3>1. CASE phase' = "returned"
      <4>1. /\ IsPrefix(Text(parts), returned')
            /\ answer.kind = "tool_calls" => \A i \in 1 .. Len(heard) : Ended(heard[i])
        BY <1>2, <3>1, FinishReturns DEF FInv
      <4>. QED BY <2>1, <4>1 DEF FinishSound, Ended, Text
    <3>. QED BY <3>1 DEF FinishSound
  <2>. QED BY <1>1, <2>2, <2>3 DEF FInv
<1>3. CASE UNCHANGED <<reader, phase, answer, returned>>
  BY <1>1, <1>3 DEF FInv, AnswerKnown, FinishSound, reader, Ended, Text
<1>4. CASE /\ phase' # "returned"
           /\ phase' = "settling" => answer' \in Answers
  BY <1>1, <1>4 DEF FInv, AnswerKnown, FinishSound
<1>5. CASE Read
  <2>1. phase \in {"watching", "settling"} /\ answer' = answer
    BY <1>5 DEF Read, Running
  <2>2. phase' \in {phase, "failed"}
    BY <1>5, ReadLine DEF FInv, IInv, ReadCases
  <2>. QED BY <1>4, <2>1, <2>2 DEF FInv, AnswerKnown
<1>6. CASE EndOfJournal \/ Poll
  BY <1>4, <1>6 DEF EndOfJournal, Poll, FInv, AnswerKnown
<1>7. CASE (\E a \in Answers : AnswerArrives(a)) \/ Interrupt
  BY <1>4, <1>7 DEF AnswerArrives, Interrupt
<1>8. BeginLine \/ (\E b \in Lines : EndLine(b)) \/ UNCHANGED vars
      => UNCHANGED <<reader, phase, answer, returned>>
  BY DEF BeginLine, EndLine, vars, hooks, reader
<1>. QED BY <1>2, <1>3, <1>5, <1>6, <1>7, <1>8 DEF Next

\* The text that was streamed is a prefix of the completion, and tool calls
\* leave with complete messages before them.
THEOREM FinishSoundAlways == Spec => []FinishSound
<1>1. Init => FInv
  BY InitFInv
<1>2. FInv => FinishSound
  BY DEF FInv
<1>. QED BY <1>1, <1>2, NextFInv, PTL DEF Spec
----------------------------------------------------------------------------
(* The script as one text *)

\* The recursive function that FlattenSeq is defined by.
Flattens(s, f) ==
    f = [i \in 1 .. Len(s) |-> IF i = 1 THEN s[i] ELSE f[i - 1] \o s[i]]

\* The script up to message k, as one text.
Flat(k) == FlattenSeq(SubSeq(Script, 1, k))

LEMMA FlattenExists ==
  ASSUME NEW s \in Seq(Seq(Deltas))
  PROVE  \A n \in 0 .. Len(s) : \E f : Flattens(SubSeq(s, 1, n), f)
<1>1. Len(s) \in Nat /\ \A n \in 0 .. Len(s) :
        /\ Len(SubSeq(s, 1, n)) = n
        /\ \A i \in 1 .. n : SubSeq(s, 1, n)[i] = s[i]
  <2>1. Len(s) \in Nat /\ \A i \in 1 .. Len(s) : s[i] \in Seq(Deltas)
    BY LenProperties, ElementOfSeq
  <2>2. ASSUME NEW n \in 0 .. Len(s)
        PROVE  /\ Len(SubSeq(s, 1, n)) = n
               /\ \A i \in 1 .. n : SubSeq(s, 1, n)[i] = s[i]
    <3>1. n \in Int /\ 1 \in Int /\ \A i \in 1 .. n : s[i] \in Seq(Deltas)
      BY <2>1
    <3>. QED BY <3>1, SubSeqProperties
  <2>. QED BY <2>1, <2>2
<1>. DEFINE T == {n \in 0 .. Len(s) : ~\E f : Flattens(SubSeq(s, 1, n), f)}
<1>2. T = {}
  <2>. SUFFICES ASSUME T # {} PROVE FALSE
    OBVIOUS
  <2>1. PICK n \in T : \A y \in T : n <= y
    <3>1. T \in SUBSET Nat
      BY <1>1
    <3>. HIDE DEF T
    <3>. QED BY <3>1, LeastNat
  <2>2. n \in 0 .. Len(s) /\ ~\E f : Flattens(SubSeq(s, 1, n), f)
    OBVIOUS
  <2>3. n # 0
    <3>1. SubSeq(s, 1, 0) = <<>>
      BY SubSeqEmpty
    <3>2. Flattens(<<>>, <<>>)
      BY DEF Flattens
    <3>. QED BY <2>2, <3>1, <3>2
  <2>4. PICK f : Flattens(SubSeq(s, 1, n - 1), f)
    <3>1. n - 1 \in 0 .. Len(s) /\ ~(n <= n - 1)
      BY <1>1, <2>2, <2>3
    <3>2. n - 1 \notin T
      BY <2>1, <3>1
    <3>. QED BY <3>1, <3>2
  <2>. HIDE DEF T
  <2>. DEFINE g == [i \in 1 .. n |-> IF i < n THEN f[i]
                                     ELSE IF i = 1 THEN s[i] ELSE f[i - 1] \o s[i]]
  <2>5. \A i \in 1 .. n - 1 : f[i] = IF i = 1 THEN s[i] ELSE f[i - 1] \o s[i]
    <3>1. n - 1 \in 0 .. Len(s)
      BY <1>1, <2>2, <2>3
    <3>2. f = [i \in 1 .. n - 1 |-> IF i = 1 THEN SubSeq(s, 1, n - 1)[i]
                                    ELSE f[i - 1] \o SubSeq(s, 1, n - 1)[i]]
      BY <1>1, <2>4, <3>1 DEF Flattens
    <3>. QED BY <1>1, <3>1, <3>2
  <2>6. g = [i \in 1 .. n |-> IF i = 1 THEN s[i] ELSE g[i - 1] \o s[i]]
    <3>1. ASSUME NEW i \in 1 .. n
          PROVE  g[i] = IF i = 1 THEN s[i] ELSE g[i - 1] \o s[i]
      <4>1. n \in Nat /\ i \in Nat /\ (i # 1 => i - 1 \in 1 .. n /\ i - 1 < n)
        BY <1>1, <2>2
      <4>2. i # 1 => g[i - 1] = f[i - 1]
        BY <4>1
      <4>3. i < n => g[i] = f[i] /\ i \in 1 .. n - 1
        BY <4>1
      <4>4. ~(i < n) => g[i] = IF i = 1 THEN s[i] ELSE f[i - 1] \o s[i]
        BY <4>1
      <4>. QED BY <2>5, <4>2, <4>3, <4>4
    <3>. QED BY <3>1
  <2>7. Flattens(SubSeq(s, 1, n), g)
    <3>. HIDE DEF g
    <3>1. [i \in 1 .. n |-> IF i = 1 THEN s[i] ELSE g[i - 1] \o s[i]]
            = [i \in 1 .. Len(SubSeq(s, 1, n)) |->
                 IF i = 1 THEN SubSeq(s, 1, n)[i] ELSE g[i - 1] \o SubSeq(s, 1, n)[i]]
      BY <1>1, <2>2
    <3>. QED BY <2>6, <3>1 DEF Flattens
  <2>. QED BY <2>2, <2>7
<1>. QED BY <1>2

LEMMA FlattenSame ==
  ASSUME NEW n \in Nat, NEW s, NEW f, Flattens(s, f), n <= Len(s), Len(s) \in Nat,
         NEW t, NEW g, Flattens(t, g), n <= Len(t), Len(t) \in Nat,
         \A i \in 1 .. n : s[i] = t[i]
  PROVE  \A i \in 1 .. n : f[i] = g[i]
<1>. DEFINE T == {i \in 1 .. n : f[i] # g[i]}
<1>. SUFFICES ASSUME T # {} PROVE FALSE
  OBVIOUS
<1>1. PICK i \in T : \A y \in T : i <= y
  <2>1. T \in SUBSET Nat
    OBVIOUS
  <2>. HIDE DEF T
  <2>. QED BY <2>1, LeastNat
<1>2. i \in 1 .. n /\ f[i] # g[i] /\ i \in 1 .. Len(s) /\ i \in 1 .. Len(t)
  OBVIOUS
<1>3. i # 1 => f[i - 1] = g[i - 1]
  <2>1. i # 1 => i - 1 \in 1 .. n /\ ~(i <= i - 1)
    BY <1>2
  <2>. QED BY <1>1, <2>1
<1>. HIDE DEF T
<1>4. f[i] = IF i = 1 THEN s[i] ELSE f[i - 1] \o s[i]
  BY <1>2 DEF Flattens
<1>5. g[i] = IF i = 1 THEN t[i] ELSE g[i - 1] \o t[i]
  BY <1>2 DEF Flattens
<1>. QED BY <1>2, <1>3, <1>4, <1>5

\* The streamed text of the first messages, one message at a time.
LEMMA FlatStep ==
  /\ Flat(0) = <<>>
  /\ \A k \in 1 .. Len(Script) : Flat(k) = Flat(k - 1) \o Script[k]
  /\ \A k \in 0 .. Len(Script) : Flat(k) \in Seq(Deltas)
<1>0. Len(Script) \in Nat /\ \A i \in 1 .. Len(Script) : Script[i] \in Seq(Deltas)
  BY TextAssumption, LenProperties, ElementOfSeq
<1>1. \A n \in 0 .. Len(Script) :
        /\ Len(SubSeq(Script, 1, n)) = n
        /\ \A i \in 1 .. n : SubSeq(Script, 1, n)[i] = Script[i]
  <2>1. ASSUME NEW n \in 0 .. Len(Script)
        PROVE  /\ Len(SubSeq(Script, 1, n)) = n
               /\ \A i \in 1 .. n : SubSeq(Script, 1, n)[i] = Script[i]
    <3>1. n \in Int /\ 1 \in Int /\ \A i \in 1 .. n : Script[i] \in Seq(Deltas)
      BY <1>0
    <3>. QED BY <3>1, SubSeqProperties
  <2>. QED BY <2>1
<1>. DEFINE s(n) == SubSeq(Script, 1, n)
            F(n) == CHOOSE f : Flattens(s(n), f)
<1>2. ASSUME NEW n \in 0 .. Len(Script) PROVE Flattens(s(n), F(n))
  BY FlattenExists, TextAssumption
<1>3. ASSUME NEW n \in 1 .. Len(Script) PROVE Flat(n) = F(n)[n]
  <2>1. Len(SubSeq(Script, 1, n)) = n /\ n # 0
    BY <1>0, <1>1
  <2>. QED BY <2>1 DEF Flat, FlattenSeq, Flattens
<1>4. Flat(0) = <<>>
  <2>1. SubSeq(Script, 1, 0) = <<>>
    BY SubSeqEmpty
  <2>. QED BY <2>1 DEF Flat, FlattenSeq
<1>5. \A i \in 1 .. Len(Script) : F(i)[1] = Script[1]
  <2>1. ASSUME NEW i \in 1 .. Len(Script) PROVE F(i)[1] = Script[1]
    <3>1. Flattens(s(i), F(i)) /\ Len(s(i)) = i /\ s(i)[1] = Script[1] /\ 1 \in 1 .. i
      BY <1>0, <1>1, <1>2
    <3>. HIDE DEF s, F
    <3>. QED BY <3>1 DEF Flattens
  <2>. QED BY <2>1
<1>6. ASSUME NEW k \in 1 .. Len(Script) PROVE Flat(k) = Flat(k - 1) \o Script[k]
  <2>1. CASE k = 1
    <3>1. Flat(k) = Script[1] /\ Flat(k - 1) = <<>> /\ Script[1] \in Seq(Deltas)
      BY <1>0, <1>3, <1>4, <1>5, <2>1
    <3>. QED BY <2>1, <3>1, ConcatEmptySeq
  <2>2. CASE k # 1
    <3>1. k - 1 \in 1 .. Len(Script) /\ k - 1 \in 0 .. Len(Script) /\ k \in 0 .. Len(Script)
      BY <1>0, <2>2
    <3>2. /\ Flattens(s(k), F(k)) /\ Flattens(s(k - 1), F(k - 1))
          /\ Flat(k) = F(k)[k] /\ Flat(k - 1) = F(k - 1)[k - 1]
      BY <1>2, <1>3, <3>1
    <3>3. /\ Len(s(k)) = k /\ Len(s(k - 1)) = k - 1 /\ s(k)[k] = Script[k]
          /\ \A i \in 1 .. k - 1 : s(k)[i] = s(k - 1)[i]
      BY <1>0, <1>1, <3>1
    <3>. HIDE DEF s, F
    <3>4. F(k)[k] = F(k)[k - 1] \o s(k)[k]
      <4>. DEFINE t == s(k)
                  g == F(k)
      <4>1. Flattens(t, g) /\ k \in 1 .. Len(t)
        BY <3>2, <3>3
      <4>. HIDE DEF t, g
      <4>2. g[k] = IF k = 1 THEN t[k] ELSE g[k - 1] \o t[k]
        BY <4>1 DEF Flattens
      <4>3. g[k] = g[k - 1] \o t[k]
        BY <2>2, <4>2
      <4>. QED BY <4>3 DEF t, g
    <3>5. F(k)[k - 1] = F(k - 1)[k - 1]
      <4>1. /\ k - 1 \in Nat /\ k - 1 <= Len(s(k)) /\ k - 1 <= Len(s(k - 1))
            /\ Len(s(k)) \in Nat /\ Len(s(k - 1)) \in Nat /\ k - 1 \in 1 .. k - 1
        BY <1>0, <3>1, <3>3
      <4>. QED BY <3>2, <3>3, <4>1, FlattenSame
    <3>. QED BY <3>2, <3>3, <3>4, <3>5
  <2>. QED BY <2>1, <2>2
<1>. HIDE DEF s, F
<1>7. \A k \in 0 .. Len(Script) : Flat(k) \in Seq(Deltas)
  <2>. DEFINE T == {k \in 0 .. Len(Script) : Flat(k) \notin Seq(Deltas)}
  <2>. SUFFICES ASSUME T # {} PROVE FALSE
    OBVIOUS
  <2>1. PICK k \in T : \A y \in T : k <= y
    <3>1. T \in SUBSET Nat
      BY <1>0
    <3>. HIDE DEF T
    <3>. QED BY <3>1, LeastNat
  <2>2. k # 0
    BY <1>4, EmptySeq
  <2>3. k \in 1 .. Len(Script) /\ k - 1 \in 0 .. Len(Script) /\ ~(k <= k - 1)
    BY <1>0, <2>2
  <2>4. Flat(k - 1) \in Seq(Deltas)
    BY <2>1, <2>3
  <2>5. Flat(k) = Flat(k - 1) \o Script[k] /\ Script[k] \in Seq(Deltas)
    BY <1>0, <1>6, <2>3
  <2>6. Flat(k) \in Seq(Deltas)
    BY <2>4, <2>5, ConcatProperties
  <2>. QED BY <2>6
<1>. QED BY <1>4, <1>6, <1>7
----------------------------------------------------------------------------
(* What Claude says *)

AllBatches == UNION {BatchesOf(m) : m \in Messages}

LEMMA BatchFacts ==
  /\ \A m \in Messages : /\ Len(Script[m]) \in Nat /\ Len(Script[m]) # 0
                          /\ BatchesOf(m) \subseteq AllBatches
                          /\ \A i \in 0 .. Len(Script[m]) - 1 : Batch(m, i) \in BatchesOf(m)
  /\ \A m \in Messages : \A b \in BatchesOf(m) :
       /\ b.message = m /\ b.index \in 0 .. Len(Script[m]) - 1 /\ b = Batch(m, b.index)
       /\ b.delta = Script[m][b.index + 1] /\ b.final = (b.index + 1 = Len(Script[m]))
  /\ \A b \in AllBatches : /\ b.message \in Messages /\ b \in BatchesOf(b.message)
                           /\ b \in Lines
<1>1. ASSUME NEW m \in Messages
      PROVE  /\ Len(Script[m]) \in Nat /\ Len(Script[m]) # 0
             /\ BatchesOf(m) \subseteq AllBatches
             /\ \A i \in 0 .. Len(Script[m]) - 1 : Batch(m, i) \in BatchesOf(m)
  <2>1. Len(Script[m]) \in Nat /\ Len(Script[m]) # 0
    BY LineType, EmptySeq, LenProperties
  <2>2. BatchesOf(m) \subseteq AllBatches
    BY Zenon DEF AllBatches
  <2>3. \A i \in 0 .. Len(Script[m]) - 1 : Batch(m, i) \in BatchesOf(m)
    BY DEF BatchesOf
  <2>. QED BY <2>1, <2>2, <2>3
<1>2. ASSUME NEW m \in Messages, NEW b \in BatchesOf(m)
      PROVE  /\ b.message = m /\ b.index \in 0 .. Len(Script[m]) - 1 /\ b = Batch(m, b.index)
             /\ b.delta = Script[m][b.index + 1]
             /\ b.final = (b.index + 1 = Len(Script[m]))
  <2>1. PICK i \in 0 .. Len(Script[m]) - 1 : b = Batch(m, i)
    BY DEF BatchesOf
  <2>2. /\ b.message = m /\ b.index = i /\ b.delta = Script[m][i + 1]
        /\ b.final = (i + 1 = Len(Script[m]))
    BY <2>1 DEF Batch
  <2>. QED BY <2>1, <2>2
<1>3. ASSUME NEW b \in AllBatches
      PROVE  b.message \in Messages /\ b \in BatchesOf(b.message) /\ b \in Lines
  <2>1. PICK m \in Messages : b \in BatchesOf(m)
    BY Zenon DEF AllBatches
  <2>2. b \in Lines
    BY DEF AllBatches, Lines
  <2>. QED BY <1>2, <2>1, <2>2
<1>. QED BY <1>1, <1>2, <1>3

\* The batches are finitely many, and at least as many as their indices.
LEMMA BatchBound ==
  /\ IsFiniteSet(AllBatches) /\ Cardinality(AllBatches) \in Nat
  /\ \A b \in AllBatches : b.index < Cardinality(AllBatches)
<1>1. Len(Script) \in Nat /\ Messages = 1 .. Len(Script)
  BY TextAssumption, LenProperties DEF Messages
<1>2. ASSUME NEW m \in Messages
      PROVE  /\ IsFiniteSet(BatchesOf(m))
             /\ Cardinality(BatchesOf(m)) = Len(Script[m])
  <2>. DEFINE I == 0 .. Len(Script[m]) - 1
              f == [i \in I |-> Batch(m, i)]
  <2>1. Len(Script[m]) \in Nat /\ Len(Script[m]) # 0
    BY BatchFacts
  <2>2. IsFiniteSet(I) /\ Cardinality(I) = Len(Script[m])
    <3>1. 0 \in Int /\ Len(Script[m]) - 1 \in Int
      BY <2>1
    <3>2. IsFiniteSet(I) /\ Cardinality(I) = IF 0 > Len(Script[m]) - 1 THEN 0
                                             ELSE Len(Script[m]) - 1 - 0 + 1
      BY <3>1, FS_Interval
    <3>. QED BY <2>1, <3>2
  <2>3. \A i \in I : f[i] \in BatchesOf(m) /\ f[i].index = i
    <3>1. \A i \in I : Batch(m, i) \in BatchesOf(m) /\ Batch(m, i).index = i
      BY DEF BatchesOf, Batch
    <3>. QED BY <3>1
  <2>4. \A b \in BatchesOf(m) : \E i \in I : f[i] = b
    BY DEF BatchesOf
  <2>5. f \in [I -> BatchesOf(m)]
    BY <2>3
  <2>. HIDE DEF f, I
  <2>6. f \in Bijection(I, BatchesOf(m))
    BY <2>3, <2>4, <2>5 DEF Bijection, Injection, Surjection, IsInjective
  <2>7. ExistsBijection(I, BatchesOf(m))
    BY <2>6 DEF ExistsBijection
  <2>. QED BY <2>2, <2>7, FS_Bijection
<1>3. IsFiniteSet(AllBatches)
  <2>. DEFINE S == {BatchesOf(m) : m \in Messages}
              f == [m \in Messages |-> BatchesOf(m)]
  <2>1. f \in [Messages -> S] /\ \A t \in S : \E m \in Messages : f[m] = t
    OBVIOUS
  <2>2. f \in Surjection(Messages, S)
    BY <2>1 DEF Surjection
  <2>3. IsFiniteSet(Messages)
    BY <1>1, FS_Interval
  <2>4. IsFiniteSet(S)
    <3>. HIDE DEF S, f
    <3>. QED BY <2>2, <2>3, FS_Surjection
  <2>5. \A T \in S : IsFiniteSet(T)
    BY <1>2
  <2>. HIDE DEF S
  <2>6. IsFiniteSet(UNION S)
    BY <2>4, <2>5, FS_UNION
  <2>. QED BY <2>6 DEF AllBatches, S
<1>4. Cardinality(AllBatches) \in Nat
  BY <1>3, FS_CardinalityType
<1>5. ASSUME NEW b \in AllBatches PROVE b.index < Cardinality(AllBatches)
  <2>. DEFINE m == b.message
  <2>1. m \in Messages /\ b \in BatchesOf(m)
    BY BatchFacts
  <2>. HIDE DEF m
  <2>2. /\ b.index \in 0 .. Len(Script[m]) - 1 /\ Len(Script[m]) \in Nat
        /\ BatchesOf(m) \in SUBSET AllBatches
    BY <2>1, BatchFacts
  <2>3. Cardinality(BatchesOf(m)) <= Cardinality(AllBatches)
    BY <1>3, <2>2, FS_Subset
  <2>4. Cardinality(BatchesOf(m)) = Len(Script[m])
    BY <1>2, <2>1
  <2>. QED BY <1>4, <2>2, <2>3, <2>4
<1>. QED BY <1>3, <1>4, <1>5
----------------------------------------------------------------------------
(* Honest hooks *)

Consumed == pending \cup ToSet(parts)

\* What is released is streamed.
Kept == \A m \in Messages : ToSet(released[m]) \subseteq ToSet(parts)

\* The reader heard the messages one after the other.
InStep ==
    /\ Consumed \subseteq AllBatches
    /\ \A i \in 1 .. Len(heard) : heard[i] = i /\ \E p \in Consumed : p.message = i
    /\ Len(parts) + Cardinality(pending) = Cardinality(Consumed)
    /\ heard # <<>> =>
         Text(parts) = Flat(Len(heard) - 1) \o Text(released[Len(heard)])

\* A repeated line, or one that follows whole messages, after the lines of P.
Follows(b, P) ==
    \/ b \in P
    \/ /\ \A m \in Messages : m < b.message => BatchesOf(m) \subseteq P
       /\ \A c \in P : c.message <= b.message

\* What is consumed is known.
LEMMA ConsumedKnown ==
  ASSUME IInv, NEW b \in Consumed
  PROVE  /\ b \in Lines /\ b.message \in Messages /\ Contains(heard, b.message) /\ Known(b)
         /\ b \in pending => b.index > Len(released[b.message])
         /\ b \notin pending => b.index < Len(released[b.message])
<1>1. CASE b \in pending
  <2>1. /\ b.message \in Messages /\ Contains(heard, b.message)
        /\ b.index > Len(released[b.message]) /\ b \in Lines
    BY <1>1 DEF IInv, Held, TextType
  <2>2. Known(b)
    BY <1>1 DEF Known, Pending
  <2>. QED BY <1>1, <2>1, <2>2
<1>2. CASE b \notin pending
  <2>1. parts \in Seq(Lines) /\ b \in ToSet(parts)
    BY <1>2 DEF IInv, TextType, Consumed
  <2>2. PICK j \in 1 .. Len(parts) : parts[j] = b
    BY <2>1, LenProperties DEF ToSet
  <2>3. /\ b.message \in Messages /\ Contains(heard, b.message)
        /\ b.index < Len(released[b.message])
    BY <2>2 DEF IInv, Placed
  <2>4. b \in Lines
    BY <2>1, <2>2, ElementOfSeq
  <2>. QED BY <1>2, <2>3, <2>4 DEF Known
<1>. QED BY <1>1, <1>2

\* The released batches of a message are those of the script.
LEMMA ReleasedAre ==
  ASSUME IInv, Kept, Consumed \subseteq AllBatches, NEW m \in Messages
  PROVE  /\ released[m] \in Seq(Lines) /\ Len(released[m]) \in Nat
         /\ Len(released[m]) <= Len(Script[m])
         /\ \A k \in 1 .. Len(released[m]) :
              released[m][k] = Batch(m, k - 1) /\ released[m][k] \in Consumed
<1>1. released[m] \in Seq(Lines) /\ Len(released[m]) \in Nat
      /\ DOMAIN released[m] = 1 .. Len(released[m])
  <2>1. released[m] \in Seq(Lines)
    BY LineType DEF IInv, TextType
  <2>. QED BY <2>1, LenProperties
<1>2. ASSUME NEW k \in 1 .. Len(released[m])
      PROVE  /\ released[m][k] = Batch(m, k - 1) /\ released[m][k] \in Consumed
             /\ k - 1 \in 0 .. Len(Script[m]) - 1
  <2>. DEFINE b == released[m][k]
  <2>1. b.message = m /\ b.index = k - 1
    BY DEF IInv, Filed
  <2>2. b \in ToSet(released[m])
    BY <1>1 DEF ToSet
  <2>. HIDE DEF b
  <2>3. b \in Consumed
    BY <2>2 DEF Kept, Consumed
  <2>4. b \in BatchesOf(m)
    BY <2>1, <2>3, BatchFacts
  <2>5. b.index \in 0 .. Len(Script[m]) - 1 /\ b = Batch(m, b.index)
    BY <2>4, BatchFacts
  <2>. QED BY <2>1, <2>3, <2>5 DEF b
<1>3. Len(released[m]) <= Len(Script[m])
  <2>1. Len(Script[m]) \in Nat
    BY BatchFacts
  <2>2. Len(released[m]) # 0 => Len(released[m]) - 1 \in 0 .. Len(Script[m]) - 1
    BY <1>1, <1>2
  <2>. QED BY <1>1, <2>1, <2>2
<1>. QED BY <1>1, <1>2, <1>3

\* A message whose batches are all consumed is complete.
LEMMA WholeMessage ==
  ASSUME IInv, Kept, Consumed \subseteq AllBatches,
         NEW m \in Messages, BatchesOf(m) \subseteq Consumed
  PROVE  /\ Pending(m) = {} /\ Ended(m) /\ Text(released[m]) = Script[m]
         /\ Len(released[m]) = Len(Script[m])
<1>. DEFINE n == Len(released[m])
            l == Len(Script[m])
<1>1. /\ released[m] \in Seq(Lines) /\ n \in Nat /\ n <= l /\ l \in Nat /\ l # 0
      /\ \A k \in 1 .. n : released[m][k] = Batch(m, k - 1)
      /\ Script[m] \in Seq(Deltas)
  BY ReleasedAre, BatchFacts, LineType
<1>2. n = l
  <2>. SUFFICES ASSUME n < l PROVE FALSE
    BY <1>1
  <2>1. n \in 0 .. l - 1
    BY <1>1
  <2>2. Batch(m, n) \in Consumed /\ Batch(m, n).message = m /\ Batch(m, n).index = n
    BY <2>1, BatchFacts DEF Batch
  <2>3. Batch(m, n).index > n \/ Batch(m, n).index < n
    BY <2>2, ConsumedKnown
  <2>. QED BY <1>1, <2>2, <2>3
<1>3. ASSUME NEW p \in Pending(m) PROVE FALSE
  <2>1. p \in pending /\ p \in Consumed /\ p.message = m
    BY DEF Pending, Consumed
  <2>2. p.index > n /\ p \in BatchesOf(m)
    BY <2>1, ConsumedKnown, BatchFacts
  <2>3. p.index \in 0 .. l - 1
    BY <2>2, BatchFacts
  <2>. QED BY <1>1, <1>2, <2>2, <2>3
<1>4. Ended(m)
  <2>1. l \in 1 .. n /\ released[m] # <<>> /\ Last(released[m]) = released[m][l]
    BY <1>1, <1>2 DEF Last
  <2>2. released[m][l] = Batch(m, l - 1) /\ (l - 1) + 1 = l
    BY <1>1, <2>1
  <2>3. Batch(m, l - 1).final = ((l - 1) + 1 = l)
    BY DEF Batch
  <2>4. released[m][l].final
    BY <2>2, <2>3
  <2>. QED BY <2>1, <2>4 DEF Ended
<1>5. Text(released[m]) = Script[m]
  <2>. DEFINE r == released[m]
  <2>1. Text(r) \in Seq(Deltas) /\ Len(Text(r)) = n /\ \A k \in 1 .. n : Text(r)[k] = r[k].delta
    <3>1. Text(r) \in Seq(Deltas)
      BY <1>1, PrefixFacts
    <3>2. Text(r) = [k \in 1 .. n |-> r[k].delta]
      BY DEF Text
    <3>. QED BY <1>1, <3>1, <3>2
  <2>2. \A k \in 1 .. n : r[k].delta = Script[m][k]
    <3>1. ASSUME NEW k \in 1 .. n PROVE r[k].delta = Script[m][k]
      <4>1. r[k] = Batch(m, k - 1) /\ (k - 1) + 1 = k
        BY <1>1
      <4>. QED BY <4>1 DEF Batch
    <3>. QED BY <3>1
  <2>. HIDE DEF r, n
  <2>. QED BY <1>1, <1>2, <2>1, <2>2, SeqEqual DEF r
<1>. QED BY <1>2, <1>3, <1>4, <1>5

\* What is held of a message is in the script.
LEMMA PendingAre ==
  ASSUME Consumed \subseteq AllBatches, NEW m, NEW p \in Pending(m)
  PROVE  /\ m \in Messages /\ p \in pending /\ p \in Consumed
         /\ p = Batch(m, p.index) /\ p.index \in 0 .. Len(Script[m]) - 1
         /\ p.final = (p.index + 1 = Len(Script[m]))
<1>1. p \in pending /\ p \in Consumed /\ p.message = m
  BY DEF Pending, Consumed
<1>2. m \in Messages /\ p \in BatchesOf(m)
  BY <1>1, BatchFacts
<1>. QED BY <1>1, <1>2, BatchFacts

\* A batch that follows what is consumed is not refused.
LEMMA FollowerAccepted ==
  ASSUME IInv, Kept, InStep, NEW b \in AllBatches, Follows(b, Consumed),
         Cardinality(AllBatches) <= MaxBatches
  PROVE  ~BadBatch(b)
<1>. DEFINE m == b.message
            n == Len(released[m])
            l == Len(Script[m])
<1>0. Consumed \subseteq AllBatches
  BY DEF InStep
<1>1. /\ m \in Messages /\ b = Batch(m, b.index) /\ b.index \in 0 .. l - 1
      /\ b.final = (b.index + 1 = l) /\ l \in Nat
  BY BatchFacts
<1>2. /\ n \in Nat /\ n <= l /\ DOMAIN released[m] = 1 .. n
      /\ \A k \in 1 .. n : released[m][k] = Batch(m, k - 1)
  BY <1>0, <1>1, ReleasedAre, LenProperties
<1>3. ASSUME Known(b) PROVE Repeated(b)
  <2>1. CASE b.index < n
    <3>1. b.index + 1 \in 1 .. n /\ (b.index + 1) - 1 = b.index
      BY <1>1, <1>2, <2>1
    <3>2. released[m][b.index + 1] = b
      BY <1>1, <1>2, <3>1
    <3>. QED BY <2>1, <3>2 DEF Repeated
  <2>2. CASE ~(b.index < n)
    <3>1. PICK p \in Pending(m) : p.index = b.index
      BY <1>3, <2>2 DEF Known
    <3>2. p = b /\ p \in pending
      BY <1>0, <1>1, <3>1, PendingAre
    <3>. QED BY <2>2, <3>2 DEF Repeated
  <2>. QED BY <2>1, <2>2
<1>4. ASSUME ~Known(b) PROVE ~OutOfPlace(b)
  <2>1. ~(b.index < n) /\ \A p \in Pending(m) : p.index # b.index
    BY <1>4 DEF Known
  <2>2. b.index < MaxBatches
    BY <1>1, BatchBound, TextAssumption
  <2>3. ~Ended(m)
    <3>1. Ended(m) => n # 0 /\ Last(released[m]) = released[m][n] /\ Last(released[m]).final
      BY <1>2 DEF Ended, Last
    <3>2. n # 0 => n \in 1 .. n
      BY <1>2
    <3>3. n # 0 => released[m][n] = Batch(m, n - 1)
      BY <1>2, <3>2
    <3>4. Batch(m, n - 1).final = ((n - 1) + 1 = l)
      BY DEF Batch
    <3>5. Ended(m) => (n - 1) + 1 = l
      BY <3>1, <3>3, <3>4
    <3>. QED BY <1>1, <1>2, <2>1, <3>5
  <2>4. ASSUME NEW p \in Pending(m)
        PROVE  /\ ~(p.final /\ (b.index > p.index \/ b.final))
               /\ ~(b.final /\ p.index > b.index)
    <3>1. p.index \in 0 .. l - 1 /\ p.index # b.index /\ b.index \in 0 .. l - 1 /\ l \in Nat
      BY <1>0, <1>1, <2>1, PendingAre
    <3>2. (p.final => p.index + 1 = l) /\ (b.final => b.index + 1 = l)
      BY <1>0, <1>1, PendingAre
    <3>. DEFINE i == b.index
                j == p.index
    <3>3. /\ i \in Nat /\ j \in Nat /\ i # j /\ i + 1 <= l /\ j + 1 <= l
          /\ (p.final => j + 1 = l) /\ (b.final => i + 1 = l)
      BY <3>1, <3>2
    <3>. HIDE DEF l, i, j
    <3>4. p.final => ~(i > j) /\ ~b.final
      BY <1>1, <3>3
    <3>5. b.final => ~(j > i)
      BY <1>1, <3>3
    <3>. QED BY <3>4, <3>5 DEF i, j
  <2>. QED BY <2>2, <2>3, <2>4, <1>1, TextAssumption DEF OutOfPlace
<1>5. ASSUME ~Known(b) PROVE ~Overlaps(m)
  <2>1. b \notin Consumed
    BY <1>5, ConsumedKnown
  <2>2. ASSUME NEW i \in 1 .. Len(heard), heard[i] # m
        PROVE  Ended(heard[i]) /\ Pending(heard[i]) = {}
    <3>1. heard[i] = i /\ i \in Messages
      <4>1. heard \in Seq(Messages)
        BY DEF IInv, TextType
      <4>2. heard[i] \in Messages
        BY <4>1, ElementOfSeq
      <4>. QED BY <4>2 DEF InStep
    <3>2. PICK p \in Consumed : p.message = i
      BY DEF InStep
    <3>3. i <= m
      BY <2>1, <3>2 DEF Follows
    <3>4. i < m
      BY <1>1, <2>2, <3>1, <3>3, LineType
    <3>5. BatchesOf(i) \subseteq Consumed
      BY <2>1, <3>1, <3>4 DEF Follows
    <3>. QED BY <1>0, <3>1, <3>5, WholeMessage
  <2>3. ASSUME Overlaps(m) PROVE FALSE
    <3>1. PICK i \in 1 .. Len(heard) :
             /\ heard[i] # m
             /\ \/ released[heard[i]] # <<>> /\ ~Ended(heard[i])
                \/ Pending(heard[i]) # {}
      BY <2>3 DEF Overlaps
    <3>. QED BY <2>2, <3>1
  <2>. QED BY <2>3
<1>6. ASSUME ~Known(b) PROVE ~(Len(parts) + Cardinality(pending) >= MaxBatches)
  <2>1. b \notin Consumed
    BY <1>6, ConsumedKnown
  <2>2. Consumed \in SUBSET AllBatches /\ Consumed \cup {b} \in SUBSET AllBatches
    BY <1>0
  <2>3. IsFiniteSet(Consumed)
    BY <2>2, BatchBound, FS_Subset
  <2>4. Cardinality(Consumed \cup {b}) <= Cardinality(AllBatches)
    BY <2>2, BatchBound, FS_Subset
  <2>5. Cardinality(Consumed) \in Nat /\ Cardinality(Consumed \cup {b}) = Cardinality(Consumed) + 1
    BY <2>1, <2>3, FS_AddElement, FS_CardinalityType
  <2>6. Len(parts) + Cardinality(pending) = Cardinality(Consumed)
    BY DEF InStep
  <2>. QED BY <2>4, <2>5, <2>6, BatchBound, TextAssumption
<1>. QED BY <1>1, <1>3, <1>4, <1>5, <1>6 DEF BadBatch

LEMMA ToSetConcat ==
  ASSUME NEW s \in Seq(Lines), NEW t \in Seq(Lines)
  PROVE  /\ ToSet(s \o t) = ToSet(s) \cup ToSet(t)
         /\ ToSet(s) = {s[i] : i \in 1 .. Len(s)}
<1>1. Range(s \o t) = Range(s) \cup Range(t)
  BY RangeConcatenation
<1>2. ToSet(s \o t) = Range(s \o t) /\ ToSet(s) = Range(s) /\ ToSet(t) = Range(t)
  BY DEF ToSet, Range
<1>3. DOMAIN s = 1 .. Len(s)
  BY LenProperties
<1>. QED BY <1>1, <1>2, <1>3 DEF ToSet

\* A new batch is consumed once, whatever it releases.
LEMMA AcceptsConsumes ==
  ASSUME IInv, NEW b \in Lines, Accepts(b)
  PROVE  /\ Consumed' = Consumed \cup {b} /\ b \notin Consumed
         /\ Len(parts') + Cardinality(pending') = Len(parts) + Cardinality(pending) + 1
         /\ Kept => Kept'
         /\ b.message \in Messages
         /\ Run(b.message, Pending(b.message) \cup {b}) \in Seq(Lines)
<1>. DEFINE m == b.message
            run == Run(m, Pending(m) \cup {b})
            all == pending \cup {b}
<1>1. Continues(b, run, pending')
  <2>1. pending' = all \ ToSet(run)
    BY DEF Accepts
  <2>2. TextType /\ Filed /\ Held /\ ~BadBatch(b) /\ ~Known(b)
    BY DEF IInv, Accepts
  <2>. QED BY <2>1, <2>2, RunReleases
<1>2. /\ pending' = all \ ToSet(run) /\ parts' = parts \o run
      /\ released' = [released EXCEPT ![m] = @ \o run] /\ ~Known(b)
  BY DEF Accepts
<1>. HIDE DEF run
<1>3. /\ run \in Seq(Lines) /\ parts \in Seq(Lines) /\ IsFiniteSet(pending)
      /\ released \in [Names -> Seq(Lines)] /\ m \in Messages
      /\ \A j \in 1 .. Len(run) : run[j] \in all
      /\ \A j \in 1 .. Len(run) : run[j].index = Len(released[m]) + j - 1
      /\ Len(released[m]) \in Nat
  BY <1>1 DEF Continues, IInv, TextType
<1>4. ToSet(run) \subseteq all
  BY <1>3, ToSetConcat
<1>5. ToSet(parts') = ToSet(parts) \cup ToSet(run)
  BY <1>2, <1>3, ToSetConcat
<1>6. Consumed' = Consumed \cup {b}
  BY <1>2, <1>4, <1>5 DEF Consumed
<1>7. b \notin Consumed
  BY <1>2, ConsumedKnown
<1>8. Len(parts') + Cardinality(pending') = Len(parts) + Cardinality(pending) + 1
  <2>1. Cardinality(ToSet(run)) = Len(run) /\ Len(run) \in Nat
    <3>. DEFINE I == 1 .. Len(run)
    <3>1. Len(run) \in Nat /\ DOMAIN run = I /\ run \in [I -> Lines]
      BY <1>3, LenProperties
    <3>2. run \in [I -> ToSet(run)] /\ \A t \in ToSet(run) : \E j \in I : run[j] = t
      BY <3>1 DEF ToSet
    <3>3. \A i, j \in I : run[i] = run[j] => i = j
      <4>1. ASSUME NEW i \in I, NEW j \in I, run[i] = run[j] PROVE i = j
        <5>1. Len(released[m]) + i - 1 = Len(released[m]) + j - 1
          BY <1>3, <4>1
        <5>2. i \in Nat /\ j \in Nat
          BY <3>1
        <5>. HIDE DEF m
        <5>. QED BY <1>3, <5>1, <5>2
      <4>. QED BY <4>1
    <3>. HIDE DEF I
    <3>4. ExistsBijection(I, ToSet(run))
      BY <3>1, <3>2, <3>3 DEF ExistsBijection, Bijection, Injection, Surjection, IsInjective
    <3>5. IsFiniteSet(I) /\ Cardinality(I) = Len(run)
      <4>1. 1 \in Int /\ Len(run) \in Int
        BY <3>1
      <4>2. IsFiniteSet(I) /\ Cardinality(I) = IF 1 > Len(run) THEN 0 ELSE Len(run) - 1 + 1
        BY <4>1, FS_Interval DEF I
      <4>. QED BY <3>1, <4>2
    <3>. QED BY <3>1, <3>4, <3>5, FS_Bijection
  <2>2. IsFiniteSet(all) /\ Cardinality(all) = Cardinality(pending) + 1 /\ Cardinality(pending) \in Nat
    BY <1>3, <1>7, FS_AddElement, FS_CardinalityType DEF Consumed
  <2>3. all \cap ToSet(run) = ToSet(run)
    BY <1>4
  <2>. HIDE DEF all
  <2>4. Cardinality(all \ ToSet(run)) = Cardinality(all) - Cardinality(all \cap ToSet(run))
    BY <2>2, FS_Difference
  <2>5. Len(parts') = Len(parts) + Len(run) /\ Len(parts) \in Nat
    BY <1>2, <1>3, ConcatProperties, LenProperties
  <2>6. pending' = all \ ToSet(run)
    BY <1>2 DEF all
  <2>7. Cardinality(all \cap ToSet(run)) = Len(run)
    BY <2>1, <2>3
  <2>8. Cardinality(pending') = Cardinality(all) - Len(run)
    BY <2>4, <2>6, <2>7
  <2>9. Cardinality(all) = Cardinality(pending) + 1 /\ Cardinality(pending) \in Nat
    BY <2>2
  <2>10. Cardinality(pending') = Cardinality(pending) + 1 - Len(run)
    BY <2>8, <2>9
  <2>. QED BY <2>1, <2>9, <2>5, <2>10
<1>9. ASSUME Kept PROVE Kept'
  <2>1. ASSUME NEW x \in Messages PROVE ToSet(released'[x]) \subseteq ToSet(parts')
    <3>1. x \in Names /\ m \in Names /\ released[x] \in Seq(Lines)
      BY <1>3, LineType
    <3>2. ToSet(released[x]) \subseteq ToSet(parts)
      BY <1>9 DEF Kept
    <3>3. CASE x # m
      BY <1>2, <1>3, <1>5, <3>1, <3>2, <3>3
    <3>4. CASE x = m
      <4>1. released'[x] = released[x] \o run
        BY <1>2, <1>3, <3>1, <3>4
      <4>2. ToSet(released'[x]) = ToSet(released[x]) \cup ToSet(run)
        BY <1>3, <3>1, <4>1, ToSetConcat
      <4>. QED BY <1>5, <3>2, <4>2
    <3>. QED BY <3>3, <3>4
  <2>. QED BY <2>1 DEF Kept
<1>10. Run(m, Pending(m) \cup {b}) \in Seq(Lines)
  BY <1>3 DEF run
<1>11. m \in Messages /\ (Kept => Kept')
  BY <1>3, <1>9
<1>. QED BY <1>6, <1>7, <1>8, <1>10, <1>11

LEMMA TextConcat ==
  ASSUME NEW s \in Seq(Lines), NEW t \in Seq(Lines)
  PROVE  Text(s \o t) = Text(s) \o Text(t)
<1>1. /\ s \o t \in Seq(Lines) /\ Len(s \o t) = Len(s) + Len(t)
      /\ Len(s) \in Nat /\ Len(t) \in Nat
      /\ \A i \in 1 .. Len(s) + Len(t) :
           (s \o t)[i] = IF i <= Len(s) THEN s[i] ELSE t[i - Len(s)]
  BY ConcatProperties, LenProperties
<1>2. /\ Text(s) \in Seq(Deltas) /\ Text(t) \in Seq(Deltas) /\ Text(s \o t) \in Seq(Deltas)
      /\ Len(Text(s)) = Len(s) /\ \A i \in 1 .. Len(s) : Text(s)[i] = s[i].delta
      /\ Len(Text(t)) = Len(t) /\ \A i \in 1 .. Len(t) : Text(t)[i] = t[i].delta
      /\ Len(Text(s \o t)) = Len(s) + Len(t)
      /\ \A i \in 1 .. Len(s) + Len(t) : Text(s \o t)[i] = (s \o t)[i].delta
  <2>1. ASSUME NEW r \in Seq(Lines)
        PROVE  /\ Text(r) \in Seq(Deltas) /\ Len(Text(r)) = Len(r)
               /\ \A i \in 1 .. Len(r) : Text(r)[i] = r[i].delta
    <3>1. Text(r) \in Seq(Deltas) /\ Len(r) \in Nat
      BY PrefixFacts, LenProperties
    <3>2. Text(r) = [i \in 1 .. Len(r) |-> r[i].delta]
      BY DEF Text
    <3>. QED BY <3>1, <3>2
  <2>. QED BY <1>1, <2>1
<1>3. /\ Text(s) \o Text(t) \in Seq(Deltas) /\ Len(Text(s) \o Text(t)) = Len(s) + Len(t)
      /\ \A i \in 1 .. Len(s) + Len(t) :
           (Text(s) \o Text(t))[i] = IF i <= Len(s) THEN Text(s)[i] ELSE Text(t)[i - Len(s)]
  <2>. DEFINE a == Text(s)
              b == Text(t)
  <2>1. a \in Seq(Deltas) /\ b \in Seq(Deltas) /\ Len(a) = Len(s) /\ Len(b) = Len(t)
    BY <1>2
  <2>. HIDE DEF a, b
  <2>2. /\ a \o b \in Seq(Deltas) /\ Len(a \o b) = Len(a) + Len(b)
        /\ \A i \in 1 .. Len(a) + Len(b) :
             (a \o b)[i] = IF i <= Len(a) THEN a[i] ELSE b[i - Len(a)]
    BY <2>1, ConcatProperties
  <2>. QED BY <2>1, <2>2 DEF a, b
<1>4. ASSUME NEW i \in 1 .. Len(s) + Len(t) PROVE Text(s \o t)[i] = (Text(s) \o Text(t))[i]
  <2>1. CASE i <= Len(s)
    <3>1. i \in 1 .. Len(s)
      BY <1>1, <2>1
    <3>2. (s \o t)[i] = s[i] /\ (Text(s) \o Text(t))[i] = Text(s)[i]
      BY <1>1, <1>3, <2>1
    <3>. QED BY <1>2, <3>1, <3>2
  <2>2. CASE ~(i <= Len(s))
    <3>1. i - Len(s) \in 1 .. Len(t)
      BY <1>1, <2>2
    <3>2. (s \o t)[i] = t[i - Len(s)] /\ (Text(s) \o Text(t))[i] = Text(t)[i - Len(s)]
      BY <1>1, <1>3, <2>2
    <3>. QED BY <1>2, <3>1, <3>2
  <2>. QED BY <2>1, <2>2
<1>. QED BY <1>1, <1>2, <1>3, <1>4, SeqEqual

\* A batch that is accepted in its place continues the last message, or begins
\* the next one when that is complete.
LEMMA AcceptsInStep ==
  ASSUME IInv, Kept, InStep, NEW b \in AllBatches, Follows(b, Consumed), Accepts(b)
  PROVE  InStep'
<1>. DEFINE m == b.message
            c == Len(heard)
            run == Run(m, Pending(m) \cup {b})
<1>0. b \in Lines /\ m \in Messages /\ Consumed \subseteq AllBatches
  BY BatchFacts DEF InStep
<1>1. /\ Consumed' = Consumed \cup {b} /\ b \notin Consumed
      /\ Len(parts') + Cardinality(pending') = Len(parts) + Cardinality(pending) + 1
      /\ run \in Seq(Lines)
  BY <1>0, AcceptsConsumes
<1>2. /\ heard' = Hear(m) /\ released' = [released EXCEPT ![m] = @ \o run]
      /\ parts' = parts \o run
  BY DEF Accepts
<1>3. /\ parts \in Seq(Lines) /\ heard \in Seq(Messages) /\ c \in Nat
      /\ released \in [Names -> Seq(Lines)] /\ m \in Names /\ released[m] \in Seq(Lines)
  BY <1>0, LineType, LenProperties DEF IInv, TextType
<1>4. /\ \A x \in Messages : x < m => BatchesOf(x) \subseteq Consumed
      /\ \A p \in Consumed : p.message <= m
  BY <1>1 DEF Follows
<1>5. /\ \A i \in 1 .. c : heard[i] = i /\ \E p \in Consumed : p.message = i
      /\ Len(parts) + Cardinality(pending) = Cardinality(Consumed)
      /\ heard # <<>> => Text(parts) = Flat(c - 1) \o Text(released[c])
  BY DEF InStep
<1>6. \A x : Contains(heard, x) <=> x \in 1 .. c
  BY <1>5 DEF Contains
<1>7. Messages = 1 .. Len(Script) /\ Len(Script) \in Nat
  BY TextAssumption, LenProperties DEF Messages
<1>. HIDE DEF m, run, c
<1>8. m = c \/ m = c + 1
  <2>1. c <= m
    <3>1. CASE c = 0
      BY <1>0, <1>7, <3>1
    <3>2. CASE c # 0
      <4>1. c \in 1 .. c
        BY <1>3, <3>2
      <4>2. PICK p \in Consumed : p.message = c
        BY <1>5, <4>1
      <4>. QED BY <1>4, <4>2
    <3>. QED BY <3>1, <3>2
  <2>2. ASSUME m > c + 1 PROVE FALSE
    <3>1. c + 1 \in Messages /\ c + 1 < m /\ c + 1 \notin 1 .. c
      BY <1>0, <1>3, <1>7, <2>2
    <3>2. Batch(c + 1, 0) \in BatchesOf(c + 1) /\ Batch(c + 1, 0).message = c + 1
      <4>1. 0 \in 0 .. Len(Script[c + 1]) - 1
        BY <3>1, BatchFacts
      <4>. QED BY <3>1, <4>1, BatchFacts DEF Batch
    <3>3. Batch(c + 1, 0) \in Consumed
      BY <1>4, <3>1, <3>2
    <3>. QED BY <1>6, <3>1, <3>2, <3>3, ConsumedKnown
  <2>. QED BY <1>0, <1>3, <1>7, <2>1, <2>2
<1>9. /\ Consumed' \subseteq AllBatches
      /\ Len(parts') + Cardinality(pending') = Cardinality(Consumed')
  <2>1. Consumed \in SUBSET AllBatches
    BY <1>0
  <2>2. IsFiniteSet(Consumed)
    BY <2>1, BatchBound, FS_Subset
  <2>3. Cardinality(Consumed \cup {b}) = Cardinality(Consumed) + 1
    BY <1>1, <2>2, FS_AddElement
  <2>. QED BY <1>0, <1>1, <1>5, <2>3
<1>10. Text(parts') = Text(parts) \o Text(run)
  BY <1>1, <1>2, <1>3, TextConcat
<1>11. /\ Text(parts) \in Seq(Deltas) /\ Text(run) \in Seq(Deltas)
       /\ Text(released[m]) \in Seq(Deltas)
  BY <1>1, <1>3, PrefixFacts
<1>12. released'[m] = released[m] \o run /\ Text(released'[m]) = Text(released[m]) \o Text(run)
  <2>1. released'[m] = released[m] \o run
    BY <1>2, <1>3
  <2>. QED BY <1>1, <1>3, <2>1, TextConcat
<1>13. CASE m = c
  <2>1. heard' = heard /\ heard # <<>> /\ c \in 1 .. c
    <3>1. m \in 1 .. c
      BY <1>0, <1>3, <1>7, <1>13
    <3>2. heard # <<>>
      BY <3>1 DEF c
    <3>. QED BY <1>2, <1>6, <1>13, <3>1, <3>2 DEF Hear
  <2>2. Flat(c - 1) \in Seq(Deltas)
    <3>1. c - 1 \in 0 .. Len(Script)
      BY <1>0, <1>7, <1>13
    <3>. QED BY <3>1, FlatStep
  <2>3. Text(parts') = Flat(c - 1) \o (Text(released[c]) \o Text(run))
    <3>1. Text(parts) = Flat(c - 1) \o Text(released[m])
      BY <1>5, <1>13, <2>1
    <3>2. (Flat(c - 1) \o Text(released[m])) \o Text(run)
             = Flat(c - 1) \o (Text(released[m]) \o Text(run))
      BY <1>11, <2>2, ConcatAssociative
    <3>. QED BY <1>10, <1>13, <3>1, <3>2
  <2>4. Text(parts') = Flat(Len(heard') - 1) \o Text(released'[Len(heard')])
    BY <1>12, <1>13, <2>1, <2>3 DEF c
  <2>5. \A i \in 1 .. Len(heard') : heard'[i] = i /\ \E p \in Consumed' : p.message = i
    BY <1>1, <1>5, <2>1 DEF c
  <2>. QED BY <1>9, <2>4, <2>5 DEF InStep
<1>14. CASE m = c + 1
  <2>1. m \notin 1 .. c
    BY <1>3, <1>14
  <2>2. /\ heard' \in Seq(Messages) /\ Len(heard') = c + 1 /\ heard'[c + 1] = m
        /\ \A i \in 1 .. c : heard'[i] = heard[i]
    <3>1. heard' = Append(heard, m)
      BY <1>2, <1>6, <2>1 DEF Hear
    <3>. QED BY <1>0, <1>3, <3>1, AppendProperties DEF c
  <2>3. released[m] = <<>>
    <3>1. /\ Len(released[m]) \in Nat
          /\ \A k \in 1 .. Len(released[m]) :
               released[m][k] = Batch(m, k - 1) /\ released[m][k] \in Consumed
      BY <1>0, ReleasedAre
    <3>2. Len(released[m]) # 0 => 1 \in 1 .. Len(released[m])
      BY <3>1
    <3>3. Len(released[m]) # 0 => Batch(m, 1 - 1) \in Consumed /\ Batch(m, 1 - 1).message = m
      BY <3>1, <3>2 DEF Batch
    <3>4. Len(released[m]) = 0
      BY <1>6, <2>1, <3>3, ConsumedKnown
    <3>. QED BY <1>3, <3>4, EmptySeq
  <2>4. Text(released'[m]) = Text(run)
    <3>1. released'[m] = <<>> \o run /\ <<>> \o run = run
      BY <1>1, <1>12, <2>3, ConcatEmptySeq
    <3>. QED BY <3>1
  <2>5. Text(parts) = Flat(c)
    <3>1. CASE c = 0
      <4>1. parts = <<>>
        <5>1. parts # <<>> => 1 \in 1 .. Len(parts)
          BY <1>3
        <5>2. parts # <<>> => Contains(heard, parts[1].message)
          BY <5>1 DEF IInv, Placed
        <5>. QED BY <1>6, <3>1, <5>2
      <4>. QED BY <3>1, <4>1, FlatStep, PrefixFacts
    <3>2. CASE c # 0
      <4>1. c \in Messages /\ c < m /\ c \in 1 .. Len(Script) /\ heard # <<>>
        BY <1>0, <1>3, <1>7, <1>14, <3>2 DEF c
      <4>2. Text(released[c]) = Script[c]
        BY <1>0, <1>4, <4>1, WholeMessage
      <4>. QED BY <1>5, <4>1, <4>2, FlatStep
    <3>. QED BY <3>1, <3>2
  <2>6. Text(parts') = Flat(Len(heard') - 1) \o Text(released'[Len(heard')])
    <3>1. Len(heard') - 1 = c /\ Len(heard') = m
      BY <1>3, <1>14, <2>2
    <3>. QED BY <1>10, <2>4, <2>5, <3>1
  <2>7. \A i \in 1 .. Len(heard') : heard'[i] = i /\ \E p \in Consumed' : p.message = i
    <3>1. ASSUME NEW i \in 1 .. c + 1
          PROVE  heard'[i] = i /\ \E p \in Consumed' : p.message = i
      <4>1. CASE i \in 1 .. c
        BY <1>1, <1>5, <2>2, <4>1
      <4>2. CASE i = c + 1
        BY <1>1, <1>14, <2>2, <4>2 DEF m
      <4>. QED BY <1>3, <4>1, <4>2
    <3>. QED BY <2>2, <3>1
  <2>. QED BY <1>9, <2>6, <2>7 DEF InStep
<1>. QED BY <1>8, <1>13, <1>14

\* What the reader has consumed when it reaches line i of the journal.
Before(i) == Consumed \cup {journal[j] : j \in 1 .. i - 1}

\* Every line of the journal follows what is before it.
Queued ==
    /\ said = Consumed \cup ToSet(journal)
    /\ said \subseteq AllBatches
    /\ \A i \in 1 .. Len(journal) : Follows(journal[i], Before(i))

LEMMA HeadQueued ==
  ASSUME TextType, Queued, journal # <<>>
  PROVE  Head(journal) \in AllBatches /\ Follows(Head(journal), Consumed)
<1>1. /\ journal \in Seq(Lines) /\ 1 \in 1 .. Len(journal) /\ Head(journal) = journal[1]
      /\ DOMAIN journal = 1 .. Len(journal)
  BY LenProperties DEF TextType
<1>2. Before(1) = Consumed
  BY DEF Before
<1>. QED BY <1>1, <1>2 DEF Queued, ToSet

\* The reader moves on.
LEMMA TailQueued ==
  ASSUME TextType, Queued, journal # <<>>, journal' = Tail(journal), said' = said,
         Consumed' = Consumed \cup {Head(journal)}
  PROVE  Queued'
<1>. DEFINE t == Tail(journal)
<1>1. /\ journal \in Seq(Lines) /\ Len(journal) \in Nat /\ Len(journal) # 0
      /\ t \in Seq(Lines) /\ Len(t) = Len(journal) - 1
      /\ \A i \in 1 .. Len(t) : t[i] = journal[i + 1]
      /\ Head(journal) = journal[1]
  BY HeadTailProperties, LenProperties DEF TextType
<1>. HIDE DEF t
<1>2. \A i \in 0 .. Len(t) :
        {journal[1]} \cup {t[j] : j \in 1 .. i} = {journal[j] : j \in 1 .. i + 1}
  <2>1. ASSUME NEW i \in 0 .. Len(t)
        PROVE  {journal[1]} \cup {t[j] : j \in 1 .. i} = {journal[j] : j \in 1 .. i + 1}
    <3>1. ASSUME NEW j \in 1 .. i PROVE j + 1 \in 1 .. i + 1 /\ t[j] = journal[j + 1]
      BY <1>1
    <3>2. ASSUME NEW j \in 1 .. i + 1
          PROVE  j = 1 \/ (j - 1 \in 1 .. i /\ t[j - 1] = journal[j])
      <4>1. j # 1 => j - 1 \in 1 .. i /\ j - 1 \in 1 .. Len(t) /\ (j - 1) + 1 = j
        BY <1>1
      <4>. QED BY <1>1, <4>1
    <3>3. 1 \in 1 .. i + 1
      BY <1>1
    <3>4. {journal[j] : j \in 1 .. i + 1} \subseteq {journal[1]} \cup {t[j] : j \in 1 .. i}
      BY <3>2
    <3>5. {journal[1]} \cup {t[j] : j \in 1 .. i} \subseteq {journal[j] : j \in 1 .. i + 1}
      BY <3>1, <3>3
    <3>. QED BY <3>4, <3>5
  <2>. QED BY <2>1
<1>3. said = Consumed' \cup ToSet(t)
  <2>1. ToSet(t) = {t[j] : j \in 1 .. Len(t)} /\ ToSet(journal) = {journal[j] : j \in 1 .. Len(journal)}
    BY <1>1, ToSetConcat
  <2>2. Len(t) \in 0 .. Len(t) /\ Len(t) + 1 = Len(journal)
    BY <1>1
  <2>3. {journal[1]} \cup ToSet(t) = ToSet(journal)
    BY <1>2, <2>1, <2>2
  <2>. QED BY <1>1, <2>3 DEF Queued
<1>4. ASSUME NEW i \in 1 .. Len(t)
      PROVE  Follows(t[i], Consumed' \cup {t[j] : j \in 1 .. i - 1})
  <2>1. /\ i + 1 \in 1 .. Len(journal) /\ t[i] = journal[i + 1]
        /\ i - 1 \in 0 .. Len(t) /\ (i - 1) + 1 = (i + 1) - 1
    BY <1>1
  <2>2. Follows(journal[i + 1], Consumed \cup {journal[j] : j \in 1 .. (i + 1) - 1})
    BY <2>1 DEF Queued, Before
  <2>3. Consumed' \cup {t[j] : j \in 1 .. i - 1}
           = Consumed \cup {journal[j] : j \in 1 .. (i + 1) - 1}
    BY <1>1, <1>2, <2>1
  <2>. QED BY <2>1, <2>2, <2>3
<1>5. journal' = t
  BY DEF t
<1>6. said' = Consumed' \cup ToSet(journal') /\ said' \subseteq AllBatches
  BY <1>3, <1>5 DEF Queued
<1>7. ASSUME NEW i \in 1 .. Len(journal') PROVE Follows(journal[i], Before(i))'
  <2>1. Before(i)' = Consumed' \cup {t[j] : j \in 1 .. i - 1}
    BY <1>5 DEF Before
  <2>2. i \in 1 .. Len(t) /\ journal'[i] = t[i]
    BY <1>5
  <2>3. Follows(t[i], Before(i)')
    BY <1>4, <2>1, <2>2
  <2>. QED BY <2>2, <2>3 DEF Follows
<1>. QED BY <1>6, <1>7 DEF Queued

\* An honest hook appends.
LEMMA AppendQueued ==
  ASSUME TextType, Queued, NEW b \in Lines, Expected(b), journal' = Append(journal, b),
         said' = said \cup {b}, Consumed' = Consumed
  PROVE  Queued'
<1>. DEFINE t == Append(journal, b)
            n == Len(journal)
<1>1. /\ journal \in Seq(Lines) /\ n \in Nat
      /\ t \in Seq(Lines) /\ Len(t) = n + 1 /\ t[n + 1] = b
      /\ \A i \in 1 .. n : t[i] = journal[i]
  BY AppendProperties, LenProperties DEF TextType
<1>2. ToSet(journal) = {journal[j] : j \in 1 .. n} /\ ToSet(t) = {t[j] : j \in 1 .. n + 1}
  BY <1>1, ToSetConcat
<1>. HIDE DEF t, n
<1>3. \A i \in 0 .. n : {t[j] : j \in 1 .. i} = {journal[j] : j \in 1 .. i}
  <2>1. \A i \in 0 .. n : \A j \in 1 .. i : t[j] = journal[j]
    BY <1>1
  <2>. QED BY <2>1
<1>4. ToSet(t) = ToSet(journal) \cup {b}
  <2>1. \A j \in 1 .. n + 1 : j \in 1 .. n \/ j = n + 1
    BY <1>1
  <2>2. n + 1 \in 1 .. n + 1 /\ \A j \in 1 .. n : j \in 1 .. n + 1
    BY <1>1
  <2>. QED BY <1>1, <1>2, <2>1, <2>2
<1>5. said \cup {b} \subseteq AllBatches
  <2>1. b \in said \/ b \notin Strays
    BY DEF Expected
  <2>2. b \in AllBatches
    BY <2>1 DEF Queued, Lines, AllBatches
  <2>. QED BY <2>2 DEF Queued
<1>6. ASSUME NEW i \in 1 .. n + 1
      PROVE  Follows(t[i], Consumed \cup {t[j] : j \in 1 .. i - 1})
  <2>1. i - 1 \in 0 .. n
    BY <1>1
  <2>2. CASE i \in 1 .. n
    <3>1. Follows(journal[i], Consumed \cup {journal[j] : j \in 1 .. i - 1})
      BY <2>2 DEF Queued, Before, n
    <3>. QED BY <1>1, <1>3, <2>1, <2>2, <3>1
  <2>3. CASE i = n + 1
    <3>1. i - 1 = n
      BY <1>1, <2>3
    <3>2. Consumed \cup {t[j] : j \in 1 .. i - 1} = said
      BY <1>2, <1>3, <2>1, <3>1 DEF Queued
    <3>3. Follows(b, said)
      BY DEF Expected, Follows
    <3>. QED BY <1>1, <2>3, <3>2, <3>3
  <2>. QED BY <1>1, <2>2, <2>3
<1>7. journal' = t
  BY DEF t
<1>8. said' = Consumed' \cup ToSet(journal')
  BY <1>4, <1>7 DEF Queued
<1>. QED BY <1>1, <1>5, <1>6, <1>7, <1>8 DEF Queued, Before, Follows

\* Once every line is read and the messages are complete, a true answer is
\* reconciled.
LEMMA FinishAccepts ==
  ASSUME IInv, Kept, InStep, Queued, Finish, journal = <<>>, ~partial,
         \A b \in said : BatchesOf(b.message) \subseteq said, TrueAnswer
  PROVE  phase' = "returned" /\ UNCHANGED error
<1>. DEFINE c == Len(heard)
            spoken == {b.message : b \in said}
            last == CHOOSE m \in spoken : \A n \in spoken : n <= m
<1>1. said = Consumed /\ Consumed \subseteq AllBatches
  <2>1. ToSet(journal) = {}
    BY DEF ToSet
  <2>. QED BY <2>1 DEF Queued
<1>2. /\ heard \in Seq(Messages) /\ c \in Nat /\ (heard = <<>> <=> c = 0)
      /\ \A i \in 1 .. c : heard[i] \in Messages
  BY LenProperties, ElementOfSeq, EmptySeq DEF IInv, TextType
<1>3. \A i \in 1 .. c : heard[i] = i /\ \E p \in Consumed : p.message = i
  BY DEF InStep
<1>4. ASSUME NEW i \in 1 .. c
      PROVE  i \in Messages /\ Ended(i) /\ Text(released[i]) = Script[i]
  <2>1. PICK p \in Consumed : p.message = i
    BY <1>3
  <2>2. i \in Messages /\ BatchesOf(i) \subseteq Consumed
    BY <1>1, <1>2, <1>3, <2>1
  <2>. QED BY <1>1, <2>2, WholeMessage
<1>5. pending = {}
  <2>. SUFFICES ASSUME NEW p \in pending PROVE FALSE
    OBVIOUS
  <2>1. p \in Consumed /\ p \in Pending(p.message)
    BY DEF Consumed, Pending
  <2>2. p.message \in Messages /\ BatchesOf(p.message) \subseteq Consumed
    BY <1>1, <2>1, ConsumedKnown
  <2>. QED BY <1>1, <2>1, <2>2, WholeMessage
<1>6. \A i \in 1 .. Len(heard) : Ended(heard[i])
  BY <1>3, <1>4
<1>7. Finishes(None)
  BY <1>5, <1>6 DEF Finishes
<1>8. spoken = 1 .. c
  <2>1. \A p \in Consumed : p.message \in 1 .. c
    <3>1. ASSUME NEW p \in Consumed PROVE p.message \in 1 .. c
      <4>1. PICK i \in 1 .. c : heard[i] = p.message
        BY ConsumedKnown DEF Contains
      <4>. QED BY <1>3, <4>1
    <3>. QED BY <3>1
  <2>. QED BY <1>1, <1>3, <2>1
<1>9. ASSUME heard # <<>> PROVE last = c /\ spoken # {}
  <2>1. c \in spoken /\ \A n \in spoken : n <= c
    BY <1>2, <1>8, <1>9
  <2>2. ASSUME NEW m \in spoken, \A n \in spoken : n <= m PROVE m = c
    <3>1. c <= m
      BY <2>1, <2>2
    <3>2. m \in 1 .. c
      BY <1>8
    <3>. QED BY <1>2, <3>1, <3>2
  <2>. HIDE DEF spoken
  <2>. QED BY <2>1, <2>2
<1>10. ASSUME heard # <<>>, answer.kind # "tool_calls"
       PROVE  answer.text \in {Text(parts), Text(released[Last(heard)])}
  <2>1. answer.text \in {Script[c], Flat(c)}
    <3>1. answer.text \in {Script[last], FlattenSeq(SubSeq(Script, 1, last))}
      BY <1>9, <1>10 DEF TrueAnswer
    <3>. QED BY <1>9, <1>10, <3>1 DEF Flat
  <2>2. c \in 1 .. c /\ Last(heard) = c
    <3>1. c \in 1 .. c
      BY <1>2, <1>10
    <3>. QED BY <1>3, <3>1 DEF Last
  <2>3. c \in 1 .. Len(Script) /\ Text(released[c]) = Script[c]
    BY <1>4, <2>2 DEF Messages
  <2>4. Text(parts) = Flat(c - 1) \o Text(released[c])
    BY <1>10 DEF InStep
  <2>5. Text(parts) = Flat(c)
    BY <2>3, <2>4, FlatStep
  <2>. QED BY <2>1, <2>2, <2>3, <2>5
<1>11. answer.kind # "tool_calls" => Finishes(answer.text)
  BY <1>5, <1>6, <1>10 DEF Finishes
<1>12. Reconciled = None \/ (Reconciled = answer.text /\ answer.kind # "tool_calls")
  BY DEF Reconciled
<1>13. Finishes(Reconciled)
  BY <1>7, <1>11, <1>12
<1>. QED BY <1>7, <1>13 DEF Finish

\* What is repeated is consumed.
LEMMA RepeatedConsumed ==
  ASSUME IInv, Kept, NEW b \in Lines, b.message \in Messages, Repeated(b)
  PROVE  b \in Consumed
<1>1. released[b.message] \in Seq(Lines) /\ b.index \in Nat
  BY LineType DEF IInv, TextType, LineRecord, Names
<1>2. CASE b.index < Len(released[b.message])
  <2>1. /\ b.index + 1 \in 1 .. Len(released[b.message])
        /\ released[b.message][b.index + 1] = b
    BY <1>1, <1>2 DEF Repeated
  <2>2. b \in ToSet(released[b.message])
    BY <1>1, <2>1 DEF ToSet
  <2>. QED BY <2>2 DEF Kept, Consumed
<1>3. CASE ~(b.index < Len(released[b.message]))
  BY <1>3 DEF Repeated, Consumed
<1>. QED BY <1>2, <1>3

HInv == /\ FInv /\ Kept
        /\ honest => InStep /\ Queued
        /\ error \in {"batch", "finish"} => phase = "failed"
        /\ HonestAccepted

LEMMA InitHInv == Init => HInv
<1>. SUFFICES ASSUME Init PROVE HInv
  OBVIOUS
<1>1. /\ journal = <<>> /\ heard = <<>> /\ released = [m \in Names |-> <<>>]
      /\ pending = {} /\ parts = <<>> /\ said = {} /\ error = None
  BY DEF Init
<1>2. Consumed = {} /\ ToSet(journal) = {} /\ Cardinality({}) = 0
  BY <1>1, FS_EmptySet DEF Consumed, ToSet
<1>3. Kept
  BY <1>1, LineType DEF Kept, ToSet
<1>4. InStep
  BY <1>1, <1>2 DEF InStep
<1>5. Queued
  BY <1>1, <1>2 DEF Queued
<1>6. error \notin {"batch", "finish"}
  BY <1>1, TextAssumption
<1>7. HonestAccepted
  BY <1>6 DEF HonestAccepted
<1>. QED BY <1>3, <1>4, <1>5, <1>6, <1>7, InitFInv DEF HInv

\* No step of a hook, and none of the reader, refuses what honest hooks wrote.
LEMMA NextHInv ==
  ASSUME Cardinality(AllBatches) <= MaxBatches, HInv, [Next]_vars
  PROVE  HInv'
<1>0. FInv' /\ IInv /\ TextType
  BY NextFInv DEF HInv, FInv, IInv
<1>1. CASE Read
  <2>. DEFINE b == Head(journal)
  <2>1. /\ b \in Lines /\ ReadCases(b) /\ journal # <<>>
        /\ UNCHANGED <<said, honest>> /\ phase # "failed"
    BY <1>0, <1>1, ReadLine DEF Read, Running
  <2>2. error \notin {"batch", "finish"}
    BY <2>1 DEF HInv
  <2>3. honest => b \in AllBatches /\ Follows(b, Consumed)
    BY <1>0, <2>1, HeadQueued DEF HInv
  <2>4. honest => ~BadBatch(b)
    BY <1>0, <2>3, FollowerAccepted DEF HInv
  <2>. HIDE DEF b
  <2>5. CASE UNCHANGED <<journal, heard, released, pending, parts>> /\ BadBatch(b)
             /\ phase' = "failed" /\ error' = "batch"
    <3>1. Kept' /\ ~honest'
      BY <2>1, <2>4, <2>5 DEF HInv, Kept
    <3>. QED BY <1>0, <2>5, <3>1 DEF HInv, HonestAccepted
  <2>6. CASE /\ ~BadBatch(b) /\ Known(b)
             /\ journal' = Tail(journal)
             /\ UNCHANGED <<heard, released, pending, parts, phase, error>>
    <3>1. Kept' /\ error' \notin {"batch", "finish"}
      BY <2>2, <2>6 DEF HInv, Kept
    <3>2. ASSUME honest PROVE InStep' /\ Queued'
      <4>1. InStep' /\ Consumed' = Consumed
        BY <2>6, <3>2 DEF HInv, InStep, Consumed
      <4>2. b \in Consumed
        BY <1>0, <2>1, <2>3, <2>6, <3>2, RepeatedConsumed DEF HInv, BadBatch
      <4>. QED BY <1>0, <2>1, <2>6, <3>2, <4>1, <4>2, TailQueued DEF HInv, b
    <3>. QED BY <1>0, <2>1, <3>1, <3>2 DEF HInv, HonestAccepted
  <2>7. CASE Accepts(b) /\ journal' = Tail(journal) /\ UNCHANGED <<phase, error>>
    <3>1. Kept' /\ error' \notin {"batch", "finish"} /\ Consumed' = Consumed \cup {b}
      BY <1>0, <2>1, <2>2, <2>7, AcceptsConsumes DEF HInv
    <3>2. ASSUME honest PROVE InStep' /\ Queued'
      <4>1. InStep'
        BY <1>0, <2>3, <2>7, <3>2, AcceptsInStep DEF HInv
      <4>. QED BY <1>0, <2>1, <2>7, <3>1, <3>2, <4>1, TailQueued DEF HInv, b
    <3>. QED BY <1>0, <2>1, <3>1, <3>2 DEF HInv, HonestAccepted
  <2>. QED BY <2>1, <2>5, <2>6, <2>7 DEF ReadCases
<1>2. ASSUME NEW b \in Lines, EndLine(b) PROVE HInv'
  <2>1. /\ UNCHANGED <<heard, released, pending, parts, phase, error>>
        /\ phase # "failed" /\ journal' = Append(journal, b) /\ said' = said \cup {b}
        /\ honest' = (honest /\ Expected(b))
    BY <1>2 DEF EndLine, reader, Running
  <2>2. Kept' /\ Consumed' = Consumed /\ error' \notin {"batch", "finish"}
    BY <2>1 DEF HInv, Kept, Consumed
  <2>3. ASSUME honest' PROVE InStep' /\ Queued'
    <3>1. honest /\ Expected(b)
      BY <2>1, <2>3
    <3>2. InStep'
      BY <2>1, <2>2, <3>1 DEF HInv, InStep
    <3>3. Queued'
      BY <1>0, <2>1, <2>2, <3>1, AppendQueued DEF HInv
    <3>. QED BY <3>2, <3>3
  <2>. QED BY <1>0, <2>2, <2>3 DEF HInv, HonestAccepted
<1>3. ASSUME UNCHANGED <<journal, said, honest, heard, released, pending, parts>>
      PROVE  Kept' /\ (honest' => InStep' /\ Queued')
  <2>1. Kept' /\ Consumed' = Consumed
    BY <1>3 DEF HInv, Kept, Consumed
  <2>2. InStep => InStep'
    BY <1>3, <2>1 DEF InStep
  <2>3. Queued => Queued'
    BY <1>3, <2>1 DEF Queued, Before
  <2>. QED BY <1>3, <2>1, <2>2, <2>3 DEF HInv
<1>4. CASE Finish
  <2>1. /\ UNCHANGED <<journal, said, honest, heard, released, pending, parts, partial, answer>>
        /\ phase = "settling"
    BY <1>4 DEF Finish, hooks, reader
  <2>2. error \notin {"batch", "finish"}
    BY <2>1 DEF HInv
  <2>3. \/ phase' = "returned" /\ UNCHANGED error
        \/ phase' = "failed" /\ error' = "finish"
    BY <1>4 DEF Finish
  <2>4. error' \in {"batch", "finish"} => phase' = "failed" /\ error' = "finish"
    BY <2>2, <2>3
  <2>5. HonestAccepted'
    <3>1. CASE error' \notin {"batch", "finish"}
      BY <3>1 DEF HonestAccepted
    <3>2. CASE error' \in {"batch", "finish"}
      <4>1. error' = "finish" /\ phase' = "failed"
        BY <2>4, <3>2
      <4>2. ASSUME honest, journal = <<>>, ~partial,
                   \A b \in said : BatchesOf(b.message) \subseteq said, TrueAnswer
            PROVE  FALSE
        <5>1. phase' = "returned"
          BY <1>0, <1>4, <4>2, FinishAccepts DEF HInv
        <5>. QED BY <4>1, <5>1
      <4>3. TrueAnswer' = TrueAnswer
        BY <2>1 DEF TrueAnswer
      <4>. QED BY <2>1, <4>1, <4>2, <4>3 DEF HonestAccepted
    <3>. QED BY <3>1, <3>2
  <2>. QED BY <1>0, <1>3, <2>1, <2>4, <2>5 DEF HInv
<1>5. ASSUME UNCHANGED <<journal, said, honest, heard, released, pending, parts>>,
             phase # "failed", error' \notin {"batch", "finish"}
      PROVE  HInv'
  BY <1>0, <1>3, <1>5 DEF HInv, HonestAccepted
<1>6. CASE BeginLine \/ EndOfJournal \/ (\E a \in Answers : AnswerArrives(a)) \/ Poll
           \/ Interrupt
  <2>1. UNCHANGED <<journal, said, honest, heard, released, pending, parts>>
    BY <1>6 DEF BeginLine, EndOfJournal, AnswerArrives, Poll, Interrupt, hooks, reader
  <2>2. phase # "failed"
    BY <1>6 DEF BeginLine, EndOfJournal, AnswerArrives, Poll, Interrupt, Running
  <2>3. error' \in {error, "interrupted"}
    BY <1>6 DEF BeginLine, EndOfJournal, AnswerArrives, Poll, Interrupt
  <2>. QED BY <1>5, <2>1, <2>2, <2>3 DEF HInv
<1>7. CASE UNCHANGED vars
  <2>1. /\ UNCHANGED <<journal, said, honest, heard, released, pending, parts>>
        /\ UNCHANGED <<phase, error, partial, answer>>
    BY <1>7 DEF vars, hooks, reader
  <2>2. HonestAccepted'
    BY <2>1 DEF HInv, HonestAccepted, TrueAnswer
  <2>. QED BY <1>0, <1>3, <2>1, <2>2 DEF HInv
<1>. QED BY <1>1, <1>2, <1>4, <1>6, <1>7 DEF Next

\* If the script fits in MAX_BATCHES, hooks that run message by message, in any
\* order within one and with lines repeated, never fail a request.
THEOREM HonestAcceptedAlways ==
  ASSUME Cardinality(AllBatches) <= MaxBatches
  PROVE  Spec => []HonestAccepted
<1>1. HInv /\ [Next]_vars => HInv'
  BY NextHInv
<1>2. HInv => HonestAccepted
  BY DEF HInv
<1>. QED BY <1>1, <1>2, InitHInv, PTL DEF Spec
=============================================================================
