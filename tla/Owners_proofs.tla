--------------------------- MODULE Owners_proofs ---------------------------
(***************************************************************************)
(* The owner service, for every set of requests, keys, bodies and leases,  *)
(* every capacity and every number of tombstones.                          *)
(*                                                                         *)
(* First its resources: the types, and that the engines that may still own *)
(* native processes are registered, counted and within the capacity.  The  *)
(* argument is about single owners: nearly every action changes owners     *)
(* only in ways that create no processes and take no slot (Keeps); the     *)
(* start of a generation and the removal of an owner are the two actions   *)
(* that need an argument of their own.                                     *)
(*                                                                         *)
(* Then what a request and the wrappers of a conversation may rely on: an  *)
(* owner nobody references is on its way out, no engine is closed under a  *)
(* generation that was not cancelled, and, as long as no response is       *)
(* streamed, an owner runs one generation, replays its own result and      *)
(* starts no attempt again that may have reached Claude.  The last of      *)
(* these follows each attempt from its start: until its outcome is known   *)
(* to be harmless, its retry key is in the table of tombstones, or its     *)
(* client is unanswered and the busy owner that works on the attempt will  *)
(* put the key there when it fails or is released.  The table refuses an   *)
(* identical request; a busy owner refuses it as well, but only those of   *)
(* its own conversation, not one that comes with an owner of its own.      *)
(***************************************************************************)
EXTENDS Owners, FiniteSetTheorems, SequenceTheorems, TLAPS

\* What holds of each single owner: an engine that may own processes has not
\* been given up, and no proof of its end has been recorded.
Sound(w) ==
    /\ w \in OwnerRecord
    /\ w.live => /\ w.engine
                 /\ ~w.confirmed
                 /\ ~w.capacityReleased
                 /\ w.returned = "yes" => ExplicitSeam

\* v is what a step may make of the owner w without taking capacity.
Keeps(w, v) ==
    /\ Sound(v)
    /\ v.key = w.key
    /\ v.live => w.live
    /\ w.capacityReleased => v.capacityReleased

----------------------------------------------------------------------------
(* The operators on owners *)

\* A fresh owner is sound.
LEMMA NewOwnerSound ==
  ASSUME NEW k \in Keys \cup {None}
  PROVE  Sound(NewOwner(k)) /\ NewOwner(k).key = k
  BY SMTT(30) DEF NewOwner, Sound, OwnerRecord, Verdicts

\* Starting a release takes no capacity.
LEMMA ReleasedKeeps ==
  ASSUME NEW w, Sound(w)
  PROVE  Keeps(w, Released(w))
<1>1. Released(w) \in OwnerRecord
  <2>1. CASE w.release = "none"
    <3>. DEFINE a == [w EXCEPT !.removal = TRUE]
                b == [a EXCEPT !.busy = TRUE]
    <3>1. a \in OwnerRecord
      BY ZenonT(60) DEF OwnerRecord, Sound
    <3>2. Released(w) = [b EXCEPT !.release = "new"]
      BY SMTT(30), <2>1 DEF OwnerRecord, Released, Sound
    <3>. HIDE DEF a
    <3>3. b \in OwnerRecord
      BY ZenonT(60), <3>1 DEF OwnerRecord
    <3>. HIDE DEF b
    <3>. QED BY SMTT(30), <3>2, <3>3 DEF OwnerRecord
  <2>2. CASE w.release # "none"
    <3>1. Released(w) = [w EXCEPT !.removal = TRUE, !.busy = TRUE]
      BY ZenonT(60), <2>2 DEF Released, OwnerRecord, Sound
    <3>. QED BY ZenonT(60), <3>1 DEF OwnerRecord, Sound
  <2>. QED BY <2>1, <2>2
<1>2. /\ Released(w).key = w.key /\ Released(w).live = w.live
      /\ Released(w).engine = w.engine /\ Released(w).confirmed = w.confirmed
      /\ Released(w).capacityReleased = w.capacityReleased
      /\ Released(w).returned = w.returned
  BY SMTT(30) DEF OwnerRecord, Released, Sound
<1>. QED BY <1>1, <1>2 DEF Keeps, Sound

\* The start of a close confirms only where there is no engine.
LEMMA ClosingKeeps ==
  ASSUME NEW w, Sound(w)
  PROVE  Keeps(w, Closing(w))
<1>1. CASE ~w.engine
  <2>1. Closing(w) = [w EXCEPT !.confirmed = TRUE, !.capacityReleased = TRUE]
    BY <1>1 DEF Closing
  <2>2. Closing(w) \in OwnerRecord
    BY ZenonT(60), <2>1 DEF OwnerRecord, Sound
  <2>. QED BY SMTT(30), <2>1, <2>2, <1>1 DEF Keeps, Sound, OwnerRecord
<1>2. CASE w.engine
  <2>1. CASE w.closeTask = "none"
    <3>1. Closing(w) = [w EXCEPT !.closeTask = "running"]
      BY SMTT(30), <1>2, <2>1 DEF Closing, Sound, OwnerRecord
    <3>2. Closing(w) \in OwnerRecord
      BY SMTT(30), <3>1 DEF OwnerRecord, Sound
    <3>. QED BY SMTT(30), <3>1, <3>2 DEF Keeps, Sound, OwnerRecord
  <2>2. CASE w.closeTask # "none"
    BY SMTT(30), <1>2, <2>2 DEF Closing, Keeps, Sound, OwnerRecord
  <2>. QED BY <2>1, <2>2
<1>. QED BY <1>1, <1>2

\* Neither does the start of a retirement.
LEMMA FinishingKeeps ==
  ASSUME NEW w, Sound(w), NEW verdict \in Verdicts
  PROVE  Keeps(w, Finishing(w, verdict))
<1>1. CASE w.cleanup # "none"
  BY <1>1 DEF Finishing, Keeps, Sound
<1>2. CASE w.cleanup = "none"
  <2>1. Finishing(w, verdict) =
          [w EXCEPT !.cleanup = "started", !.retire = "new", !.verdict = verdict]
    BY <1>2 DEF Finishing
  <2>2. Finishing(w, verdict) \in OwnerRecord
    <3>. DEFINE a == [w EXCEPT !.cleanup = "started"]
                b == [a EXCEPT !.retire = "new"]
    <3>1. a \in OwnerRecord
      BY SMTT(30) DEF OwnerRecord, Sound
    <3>2. Finishing(w, verdict) = [b EXCEPT !.verdict = verdict]
      BY SMTT(30), <2>1 DEF OwnerRecord, Sound
    <3>. HIDE DEF a
    <3>3. b \in OwnerRecord
      BY SMTT(30), <3>1 DEF OwnerRecord
    <3>. HIDE DEF b
    <3>. QED BY SMTT(30), <3>2, <3>3 DEF OwnerRecord
  <2>. QED BY SMTT(30), <2>1, <2>2 DEF Keeps, Sound, OwnerRecord
<1>. QED BY <1>1, <1>2

\* Nor its end.
LEMMA RetireDoneKeeps ==
  ASSUME NEW w, Sound(w)
  PROVE  Keeps(w, RetireDone(w))
<1>. DEFINE a == [w EXCEPT !.busy = FALSE, !.task = None]
            b == [a EXCEPT !.verdict = "uncertain", !.cleanup = "completed"]
<1>1. RetireDone(w) \in OwnerRecord
  <2>1. a \in OwnerRecord
    BY ZenonT(60) DEF OwnerRecord, Sound
  <2>2. RetireDone(w) = [b EXCEPT !.retire = "done"]
    BY SMTT(30) DEF RetireDone, OwnerRecord, Sound
  <2>. HIDE DEF a
  <2>3. b \in OwnerRecord
    BY ZenonT(60), <2>1 DEF OwnerRecord, Verdicts
  <2>. HIDE DEF b
  <2>. QED BY SMTT(30), <2>2, <2>3 DEF OwnerRecord
<1>2. /\ RetireDone(w).key = w.key /\ RetireDone(w).live = w.live
      /\ RetireDone(w).engine = w.engine /\ RetireDone(w).confirmed = w.confirmed
      /\ RetireDone(w).capacityReleased = w.capacityReleased
      /\ RetireDone(w).returned = w.returned
  BY SMTT(30) DEF OwnerRecord, RetireDone, Sound
<1>. QED BY <1>1, <1>2 DEF Keeps, Sound

\* Forgetting an owner keeps what it knows of its processes.
LEMMA LeftSound ==
  ASSUME NEW w, Sound(w), NEW condition \in BOOLEAN, condition => ~w.live
  PROVE  /\ Sound(Left(condition, w))
         /\ Left(condition, w).key = w.key
         /\ Left(condition, w).live => w.live
<1>1. CASE Left(condition, w) = w
  BY <1>1
<1>2. CASE condition /\ w.release \in {"none", "done"}
  <2>1. NewOwner(w.key) \in OwnerRecord
    BY SMTT(30), NewOwnerSound DEF Sound, OwnerRecord
  <2>2. Left(condition, w) \in OwnerRecord
    <3>. DEFINE n == NewOwner(w.key)
                a == [n EXCEPT !.fingerprint = w.fingerprint,
                               !.conversation = w.conversation, !.engine = w.engine]
    <3>1. a \in OwnerRecord
      <4>. HIDE DEF n
      <4>. QED BY ZenonT(60), <2>1 DEF OwnerRecord, Sound, n
    <3>2. Left(condition, w) =
            [a EXCEPT !.live = w.live, !.retire = w.retire, !.cleanup = w.cleanup]
      BY <1>2 DEF Left
    <3>. HIDE DEF a
    <3>. DEFINE b == [a EXCEPT !.live = w.live]
                d == [b EXCEPT !.retire = w.retire]
    <3>3. b \in OwnerRecord
      BY SMTT(30), <3>1 DEF OwnerRecord, Sound
    <3>4. Left(condition, w) = [d EXCEPT !.cleanup = w.cleanup]
      BY SMTT(30), <3>1, <3>2 DEF OwnerRecord
    <3>. HIDE DEF b
    <3>5. d \in OwnerRecord
      BY SMTT(30), <3>3 DEF OwnerRecord, Sound
    <3>. HIDE DEF d
    <3>. QED BY SMTT(30), <3>4, <3>5 DEF OwnerRecord, Sound
  <2>3. Left(condition, w).key = w.key /\ ~Left(condition, w).live
    BY SMTT(30), <1>2, <2>1 DEF Left, NewOwner, OwnerRecord, Sound
  <2>. QED BY <2>2, <2>3 DEF Sound
<1>. QED BY <1>1, <1>2 DEF Left

\* A generation starts on a sound owner, and leaves it sound.
LEMMA RestartedSound ==
  ASSUME NEW w, Sound(w), NEW fingerprint \in Fingerprint,
         NEW conversation \in LogicalKeys \cup {None}, NEW r \in Requests
  PROVE  LET v == [Restarted(w, fingerprint, conversation) EXCEPT !.task = r]
         IN  Sound(v) /\ v.key = w.key
<1>. DEFINE v == [Restarted(w, fingerprint, conversation) EXCEPT !.task = r]
<1>1. v \in OwnerRecord
  <2>. DEFINE a == [w EXCEPT !.engine = TRUE, !.live = @ \/ ~w.engine]
              b == [a EXCEPT !.closeTask = "none", !.returned = "no"]
              c == [b EXCEPT !.confirmed = FALSE, !.capacityReleased = FALSE]
              d == [c EXCEPT !.retire = "none", !.cleanup = "none"]
              e == [d EXCEPT !.busy = TRUE, !.fingerprint = fingerprint,
                             !.conversation = conversation]
              f == [e EXCEPT !.result = None, !.failed = FALSE]
              g == [f EXCEPT !.replayable = FALSE, !.task = r]
  <2>1. v = g
    BY DEF Restarted
  <2>2. a \in OwnerRecord
    <3>1. (w.live \/ ~w.engine) \in BOOLEAN
      OBVIOUS
    <3>2. \A x \in BOOLEAN : [w EXCEPT !.engine = TRUE, !.live = x] \in OwnerRecord
      BY ZenonT(60) DEF OwnerRecord, Sound
    <3>. QED BY <3>1, <3>2
  <2>. HIDE DEF a
  <2>3. b \in OwnerRecord
    BY ZenonT(60), <2>2 DEF OwnerRecord
  <2>. HIDE DEF b
  <2>4. c \in OwnerRecord
    BY ZenonT(60), <2>3 DEF OwnerRecord
  <2>. HIDE DEF c
  <2>5. d \in OwnerRecord
    BY ZenonT(60), <2>4 DEF OwnerRecord
  <2>. HIDE DEF d
  <2>6. e \in OwnerRecord
    BY ZenonT(60), <2>5 DEF OwnerRecord
  <2>. HIDE DEF e
  <2>7. f \in OwnerRecord
    BY ZenonT(60), <2>6 DEF OwnerRecord
  <2>. HIDE DEF f
  <2>8. g \in OwnerRecord
    BY ZenonT(60), <2>7 DEF OwnerRecord
  <2>. QED BY <2>1, <2>8
<1>2. v.engine /\ ~v.confirmed /\ ~v.capacityReleased /\ v.returned = "no" /\ v.key = w.key
  BY SMTT(30) DEF Restarted, Sound, OwnerRecord
<1>. QED BY <1>1, <1>2 DEF Sound
----------------------------------------------------------------------------
(* The table of owners *)

RegisteredIn(it) == {o \in Requests : \E k \in Keys : it[k] = o}

Used(it, own) == {o \in RegisteredIn(it) : ~own[o].capacityReleased}

\* The table `it` and the owners `own` respect the capacity.
Accounted(it, own) ==
    /\ it \in [Keys -> Requests \cup {None}]
    /\ own \in [Requests -> OwnerRecord]
    /\ \A o \in Requests : Sound(own[o])
    /\ \A k \in Keys : it[k] # None => own[it[k]].key = k
    /\ \A o \in Requests : own[o].live => o \in RegisteredIn(it)
    /\ Cardinality(Used(it, own)) <= Limit

\* Slots are counted by a natural number, and fewer owners need fewer slots.
LEMMA UsedCardinality ==
  ASSUME NEW U \in SUBSET Requests, NEW T \in SUBSET U
  PROVE  /\ IsFiniteSet(T) /\ Cardinality(T) \in Nat /\ Cardinality(U) \in Nat
         /\ Cardinality(T) <= Cardinality(U)
  BY OwnersAssumption, FS_Subset, FS_CardinalityType

\* Owners that all keep their capacity stay accounted.
LEMMA KeepsAll ==
  ASSUME NEW it, NEW own, NEW new, Accounted(it, own),
         new = [o \in Requests |-> new[o]],
         \A o \in Requests : Keeps(own[o], new[o])
  PROVE  Accounted(it, new)
<1>1. new \in [Requests -> OwnerRecord] /\ \A o \in Requests : Sound(new[o])
  BY DEF Keeps, Sound
<1>2. Used(it, new) \in SUBSET Used(it, own) /\ Used(it, own) \in SUBSET Requests
  BY SMTT(30) DEF Used, Keeps, Accounted, RegisteredIn, Sound, OwnerRecord
<1>3. Cardinality(Used(it, new)) <= Limit
  BY <1>2, UsedCardinality, OwnersAssumption DEF Accounted
<1>4. \A o \in Requests : new[o].key = own[o].key /\ (new[o].live => own[o].live)
  BY DEF Keeps
<1>. QED BY <1>1, <1>3, <1>4 DEF Accounted

\* So does a table where one owner changes that way.
LEMMA KeepsOne ==
  ASSUME NEW it, NEW own, Accounted(it, own),
         NEW o \in Requests, NEW v, Keeps(own[o], v)
  PROVE  Accounted(it, [own EXCEPT ![o] = v])
<1>. DEFINE new == [own EXCEPT ![o] = v]
<1>1. new = [p \in Requests |-> new[p]]
  BY DEF Accounted
<1>2. \A p \in Requests : Keeps(own[p], new[p])
  BY DEF Accounted, Keeps
<1>. HIDE DEF new
<1>3. Accounted(it, new)
  BY <1>1, <1>2, KeepsAll
<1>. QED BY <1>3 DEF new

\* An owner leaves the table once its engine is dead; until then it keeps
\* its capacity.
LEMMA PopOne ==
  ASSUME NEW it, NEW own, Accounted(it, own),
         NEW o \in Requests, NEW v, NEW pop \in BOOLEAN,
         Sound(v), v.key = own[o].key, v.live => own[o].live,
         pop => ~v.live,
         ~pop => Keeps(own[o], v)
  PROVE  Accounted(IF pop /\ it[own[o].key] = o
                   THEN [it EXCEPT ![own[o].key] = None] ELSE it,
                   [own EXCEPT ![o] = v])
<1>1. CASE ~pop
  BY <1>1, KeepsOne
<1>2. CASE pop
  <2>. DEFINE new == [own EXCEPT ![o] = v]
              tab == IF it[own[o].key] = o THEN [it EXCEPT ![own[o].key] = None] ELSE it
  <2>1. tab \in [Keys -> Requests \cup {None}]
    BY DEF Accounted
  <2>2. new \in [Requests -> OwnerRecord] /\ \A p \in Requests : Sound(new[p])
    BY DEF Accounted, Sound
  <2>3. \A k \in Keys : tab[k] # None => tab[k] = it[k] /\ tab[k] # o
    BY OwnersAssumption DEF Accounted, Sound
  <2>4. \A k \in Keys : tab[k] # None => new[tab[k]].key = k
    BY <2>3 DEF Accounted
  <2>5. \A p \in Requests : new[p].live => p # o /\ own[p].live
    BY <1>2 DEF Accounted
  <2>6. \A p \in Requests : new[p].live => p \in RegisteredIn(tab)
    BY <2>5, OwnersAssumption DEF Accounted, RegisteredIn
  <2>7. \A p \in RegisteredIn(tab) : p # o /\ p \in RegisteredIn(it)
    BY <2>3, OwnersAssumption DEF RegisteredIn
  <2>8. Used(tab, new) \in SUBSET Used(it, own) /\ Used(it, own) \in SUBSET Requests
    BY <2>7 DEF Used, Accounted, RegisteredIn
  <2>. HIDE DEF new, tab
  <2>9. Cardinality(Used(tab, new)) <= Limit
    <3>1. Cardinality(Used(it, own)) <= Limit
      BY DEF Accounted
    <3>. QED BY <2>8, <3>1, UsedCardinality, OwnersAssumption
  <2>10. Accounted(tab, new)
    BY <2>1, <2>2, <2>4, <2>6, <2>9 DEF Accounted
  <2>. QED BY <1>2, <2>10 DEF new, tab
<1>. QED BY <1>1, <1>2

\* The start of a generation on an owner of the table takes at most one slot,
\* and only when there is one.
LEMMA StartAgain ==
  ASSUME NEW it, NEW own, Accounted(it, own),
         NEW o \in RegisteredIn(it), NEW v, Sound(v), v.key = own[o].key,
         own[o].capacityReleased => Cardinality(Used(it, own)) < Limit
  PROVE  Accounted(it, [own EXCEPT ![o] = v])
<1>. DEFINE new == [own EXCEPT ![o] = v]
<1>1. o \in Requests
  BY DEF RegisteredIn
<1>2. new \in [Requests -> OwnerRecord] /\ \A p \in Requests : Sound(new[p])
  BY <1>1 DEF Accounted, Sound
<1>3. \A p \in Requests : new[p].key = own[p].key
  BY <1>1 DEF Accounted
<1>4. \A p \in Requests : new[p].live => p \in RegisteredIn(it)
  BY <1>1 DEF Accounted
<1>5. Used(it, own) \in SUBSET Requests /\ IsFiniteSet(Used(it, own))
      /\ Cardinality(Used(it, own)) \in Nat
  BY UsedCardinality DEF Used, RegisteredIn
<1>6. Used(it, new) \in SUBSET (Used(it, own) \cup {o})
  BY <1>1 DEF Used, Accounted, RegisteredIn
<1>7. Cardinality(Used(it, new)) <= Cardinality(Used(it, own) \cup {o})
  BY <1>1, <1>5, <1>6, UsedCardinality
<1>8. Cardinality(Used(it, own) \cup {o}) <= Limit
  <2>1. CASE own[o].capacityReleased
    <3>1. Cardinality(Used(it, own) \cup {o}) =
            IF o \in Used(it, own) THEN Cardinality(Used(it, own))
                                   ELSE Cardinality(Used(it, own)) + 1
      BY <1>5, FS_AddElement
    <3>. QED BY <2>1, <3>1, <1>5, OwnersAssumption
  <2>2. CASE ~own[o].capacityReleased
    <3>1. Used(it, own) \cup {o} = Used(it, own)
      BY <2>2 DEF Used
    <3>. QED BY <3>1 DEF Accounted
  <2>. QED BY <2>1, <2>2
<1>9. Cardinality(Used(it, new)) <= Limit
  <2>1. Cardinality(Used(it, new)) \in Nat /\ Cardinality(Used(it, own) \cup {o}) \in Nat
    BY <1>1, <1>5, <1>6, UsedCardinality
  <2>. QED BY <2>1, <1>7, <1>8, OwnersAssumption
<1>. HIDE DEF new
<1>10. \A k \in Keys : it[k] # None => new[it[k]].key = k
  BY <1>3 DEF Accounted
<1>11. Accounted(it, new)
  BY <1>2, <1>4, <1>9, <1>10 DEF Accounted
<1>. QED BY <1>11 DEF new

\* A new owner may be registered under a free key while there is a slot.
LEMMA StartNew ==
  ASSUME NEW it, NEW own, Accounted(it, own),
         NEW k \in Keys, it[k] = None, NEW r \in Requests, r \notin RegisteredIn(it),
         NEW v, Sound(v), v.key = k, Cardinality(Used(it, own)) < Limit
  PROVE  Accounted([it EXCEPT ![k] = r], [own EXCEPT ![r] = v])
<1>. DEFINE new == [own EXCEPT ![r] = v]
            tab == [it EXCEPT ![k] = r]
<1>1. tab \in [Keys -> Requests \cup {None}] /\ new \in [Requests -> OwnerRecord]
      /\ \A p \in Requests : Sound(new[p])
  BY DEF Accounted, Sound
<1>2. \A j \in Keys : tab[j] # None => new[tab[j]].key = j
  BY DEF Accounted, RegisteredIn
<1>3. RegisteredIn(tab) = RegisteredIn(it) \cup {r}
  BY OwnersAssumption DEF Accounted, RegisteredIn
<1>4. \A p \in Requests : new[p].live => p \in RegisteredIn(tab)
  BY <1>3 DEF Accounted
<1>5. Used(it, own) \in SUBSET Requests /\ IsFiniteSet(Used(it, own))
      /\ Cardinality(Used(it, own)) \in Nat
  BY UsedCardinality DEF Used, RegisteredIn
<1>6. Used(tab, new) \in SUBSET (Used(it, own) \cup {r})
  BY <1>3 DEF Used, Accounted, RegisteredIn
<1>7. /\ Cardinality(Used(tab, new)) <= Cardinality(Used(it, own) \cup {r})
      /\ Cardinality(Used(tab, new)) \in Nat
  BY <1>5, <1>6, UsedCardinality
<1>8. Cardinality(Used(it, own) \cup {r}) <= Limit
      /\ Cardinality(Used(it, own) \cup {r}) \in Nat
  <2>1. Cardinality(Used(it, own) \cup {r}) =
          IF r \in Used(it, own) THEN Cardinality(Used(it, own))
                                 ELSE Cardinality(Used(it, own)) + 1
    BY <1>5, FS_AddElement
  <2>. QED BY <2>1, <1>5, OwnersAssumption
<1>9. Cardinality(Used(tab, new)) <= Limit
  BY <1>7, <1>8, OwnersAssumption
<1>. HIDE DEF new, tab
<1>10. Accounted(tab, new)
  BY <1>1, <1>2, <1>4, <1>9 DEF Accounted
<1>. QED BY <1>10 DEF new, tab
----------------------------------------------------------------------------
(* The inductive invariant *)

\* A handler that works on a request knows its key and body, and one that was
\* admitted knows its owner.
Sane(h) ==
    /\ h \in RequestRecord
    /\ h.phase \notin {"idle", "done"} => h.key \in Keys /\ h.content \in Contents
    /\ h.phase \in {"running", "joining", "closing", "rejoining"} => h.own \in Requests

Handlers(rq) ==
    /\ rq \in [Requests -> RequestRecord]
    /\ \A r \in Requests : Sane(rq[r])

\* An owner in the table was created by a request that was admitted, so the
\* next admission does not reuse its name.
Arrived ==
    \A k \in Keys : items[k] # None => req[items[k]].phase \notin {"idle", "pruning"}

Generations == [Requests -> Outcomes \cup {"none", "running"}]

Memory ==
    /\ tombstones \in Seq(RetryKey) /\ Len(tombstones) <= MaxTombstones
    /\ dirty \in SUBSET Attempts

IInv ==
    /\ Accounted(items, owner)
    /\ Handlers(req)
    /\ Arrived
    /\ gen \in Generations
    /\ Memory
    /\ down \in BOOLEAN

\* The invariant contains the types and both promises.
LEMMA IInvImplies == IInv => TypeOK /\ LiveIsAccounted /\ CapacityBound
<1>. SUFFICES ASSUME IInv PROVE TypeOK /\ LiveIsAccounted /\ CapacityBound
  OBVIOUS
<1>1. TypeOK
  BY DEF IInv, TypeOK, Accounted, Handlers, Generations, Memory
<1>2. LiveIsAccounted
  BY DEF IInv, LiveIsAccounted, Accounted, Sound, RegisteredIn, Registered
<1>3. CapacityBound
  <2>. DEFINE Live == {o \in Requests : owner[o].live}
  <2>1. Live \in SUBSET Used(items, owner) /\ Used(items, owner) \in SUBSET Requests
    BY DEF IInv, Accounted, Sound, Used, RegisteredIn
  <2>2. Cardinality(Used(items, owner)) <= Limit
    BY DEF IInv, Accounted
  <2>. HIDE DEF Live
  <2>3. Cardinality(Live) <= Limit
    BY <2>1, <2>2, UsedCardinality, OwnersAssumption
  <2>. QED BY <2>3 DEF CapacityBound, Live
<1>. QED BY <1>1, <1>2, <1>3

\* Nothing is registered, live or remembered at the start.
LEMMA InitIInv == Init => IInv
<1>. SUFFICES ASSUME Init PROVE IInv
  OBVIOUS
<1>1. Sound(NewOwner(None)) /\ ~NewOwner(None).live
  BY NewOwnerSound DEF NewOwner
<1>2. Used(items, owner) = {}
  BY OwnersAssumption DEF Init, Used, RegisteredIn
<1>3. Accounted(items, owner)
  <2>1. Cardinality(Used(items, owner)) <= Limit
    BY <1>2, FS_EmptySet, OwnersAssumption
  <2>2. \A o \in Requests : owner[o] = NewOwner(None)
    BY DEF Init
  <2>3. owner \in [Requests -> OwnerRecord]
    BY <1>1 DEF Init, Sound
  <2>4. items \in [Keys -> Requests \cup {None}] /\ \A k \in Keys : items[k] = None
    BY DEF Init
  <2>. QED BY <1>1, <2>1, <2>2, <2>3, <2>4 DEF Accounted
<1>4. Handlers(req)
  BY DEF Init, Handlers, Sane, Handled, RequestRecord, Phases, Verdicts
<1>5. Memory
  BY OwnersAssumption DEF Init, Memory
<1>. QED BY <1>3, <1>4, <1>5 DEF IInv, Arrived, Generations, Init
----------------------------------------------------------------------------
(* Memory *)

\* Removing a key leaves retry keys, and no more of them.
LEMMA WithoutType ==
  ASSUME Memory, NEW key
  PROVE  /\ Without(key) \in Seq(RetryKey)
         /\ Len(Without(key)) <= Len(tombstones)
<1>1. CASE ~Retained(key)
  <2>1. Without(key) = tombstones
    BY <1>1 DEF Without
  <2>. QED BY <2>1 DEF Memory
<1>2. CASE Retained(key)
  <2>. DEFINE i == CHOOSE i \in 1 .. Len(tombstones) : tombstones[i] = key
              a == SubSeq(tombstones, 1, i - 1)
              b == SubSeq(tombstones, i + 1, Len(tombstones))
  <2>1. i \in 1 .. Len(tombstones) /\ Len(tombstones) \in Nat
    BY <1>2 DEF Retained, Memory
  <2>2. \A j \in 1 .. Len(tombstones) : tombstones[j] \in RetryKey
    BY DEF Memory
  <2>. HIDE DEF i
  <2>3. a \in Seq(RetryKey) /\ Len(a) = i - 1
    BY <2>1, <2>2, SubSeqProperties
  <2>4. b \in Seq(RetryKey) /\ Len(b) = Len(tombstones) - i
    <3>1. Len(b) = IF i + 1 <= Len(tombstones) THEN Len(tombstones) - (i + 1) + 1 ELSE 0
      BY <2>1, <2>2, SubSeqProperties
    <3>. QED BY <3>1, <2>1, <2>2, SubSeqProperties
  <2>. HIDE DEF a, b
  <2>5. a \o b \in Seq(RetryKey) /\ Len(a \o b) = Len(a) + Len(b)
    BY <2>3, <2>4, ConcatProperties
  <2>6. Without(key) = a \o b
    BY <1>2 DEF Without, i, a, b
  <2>. QED BY <2>1, <2>3, <2>4, <2>5, <2>6
<1>. QED BY <1>1, <1>2

\* A table whose oldest entry is another key is not emptied.
LEMMA WithoutNonEmpty ==
  ASSUME Memory, NEW key, tombstones # <<>>, Head(tombstones) # key
  PROVE  Without(key) # <<>>
<1>1. CASE ~Retained(key)
  BY <1>1 DEF Without
<1>2. CASE Retained(key)
  <2>. DEFINE i == CHOOSE i \in 1 .. Len(tombstones) : tombstones[i] = key
              a == SubSeq(tombstones, 1, i - 1)
              b == SubSeq(tombstones, i + 1, Len(tombstones))
  <2>1. i \in 1 .. Len(tombstones) /\ Len(tombstones) \in Nat /\ tombstones[i] = key
    BY <1>2 DEF Retained, Memory
  <2>2. i # 1
    BY <2>1 DEF Memory
  <2>3. \A j \in 1 .. Len(tombstones) : tombstones[j] \in RetryKey
    BY DEF Memory
  <2>. HIDE DEF i
  <2>4. a \in Seq(RetryKey) /\ Len(a) = i - 1
    BY <2>1, <2>2, <2>3, SubSeqProperties
  <2>5. b \in Seq(RetryKey) /\ Len(b) \in Nat
    BY <2>1, <2>3, SubSeqProperties
  <2>. HIDE DEF a, b
  <2>6. Len(a \o b) = Len(a) + Len(b)
    BY <2>4, <2>5, ConcatProperties
  <2>7. Without(key) = a \o b
    BY <1>2 DEF Without, i, a, b
  <2>. QED BY <2>1, <2>2, <2>4, <2>5, <2>6, <2>7
<1>. QED BY <1>1, <1>2

\* Remembering a failure keeps the table within its bound.
LEMMA RememberMemory ==
  ASSUME Memory, NEW keys \in SUBSET RetryKey, Remember(keys)
  PROVE  Memory'
<1>1. CASE keys = {}
  BY <1>1 DEF Remember, Memory
<1>2. CASE keys # {}
  <2>1. PICK key \in keys :
          IF Len(tombstones) < MaxTombstones
          THEN /\ tombstones' = Append(Without(key), key)
               /\ UNCHANGED dirty
          ELSE /\ tombstones' = IF Head(tombstones) = key
                                THEN Append(Tail(tombstones), key)
                                ELSE Append(Tail(Without(key)), key)
               /\ dirty' = dirty \ AttemptsOf({Head(tombstones)} \ {key})
    BY <1>2 DEF Remember
  <2>2. dirty' \in SUBSET Attempts
    BY <2>1 DEF Memory
  <2>3. key \in RetryKey /\ Len(tombstones) \in Nat
    BY DEF Memory
  <2>4. /\ Without(key) \in Seq(RetryKey) /\ Len(Without(key)) \in Nat
        /\ Len(Without(key)) <= Len(tombstones)
    BY WithoutType
  <2>5. CASE Len(tombstones) < MaxTombstones
    <3>1. tombstones' \in Seq(RetryKey) /\ Len(tombstones') = Len(Without(key)) + 1
      BY <2>1, <2>3, <2>4, <2>5, AppendProperties
    <3>. QED BY <3>1, <2>2, <2>3, <2>4, <2>5, OwnersAssumption DEF Memory
  <2>6. CASE ~(Len(tombstones) < MaxTombstones)
    <3>1. Len(tombstones) = MaxTombstones /\ tombstones # <<>>
      BY <2>3, <2>6, OwnersAssumption DEF Memory
    <3>2. Tail(tombstones) \in Seq(RetryKey) /\ Len(Tail(tombstones)) = MaxTombstones - 1
      BY <3>1, HeadTailProperties DEF Memory
    <3>3. CASE Head(tombstones) = key
      <4>1. tombstones' \in Seq(RetryKey) /\ Len(tombstones') = MaxTombstones
        BY <2>1, <2>3, <2>6, <3>2, <3>3, AppendProperties, OwnersAssumption
      <4>. QED BY <4>1, <2>2, OwnersAssumption DEF Memory
    <3>4. CASE Head(tombstones) # key
      <4>1. Without(key) # <<>>
        BY WithoutNonEmpty, <3>1, <3>4
      <4>2. /\ Tail(Without(key)) \in Seq(RetryKey)
            /\ Len(Tail(Without(key))) = Len(Without(key)) - 1
        BY <4>1, <2>4, HeadTailProperties
      <4>3. tombstones' = Append(Tail(Without(key)), key)
        BY <2>1, <2>6, <3>4
      <4>4. tombstones' \in Seq(RetryKey) /\ Len(tombstones') = Len(Without(key))
        BY <4>2, <4>3, <2>3, <2>4, AppendProperties
      <4>. QED BY <4>4, <2>2, <2>4, <3>1, OwnersAssumption DEF Memory
    <3>. QED BY <3>3, <3>4
  <2>. QED BY <2>5, <2>6
<1>. QED BY <1>1, <1>2
----------------------------------------------------------------------------
(* What single steps change *)

\* The handler of one request moves on.
LEMMA HandlerMoves ==
  ASSUME NEW rq, Handlers(rq), NEW r \in Requests, NEW h, Sane(h)
  PROVE  Handlers([rq EXCEPT ![r] = h])
  BY DEF Handlers, Sane

\* An answered handler knows nothing any more.
LEMMA DoneSane == Sane(Handled("done"))
  BY DEF Sane, Handled, RequestRecord, Phases, Verdicts

\* Keeping is transitive: a step may change an owner in several ways.
LEMMA KeepsTwice ==
  ASSUME NEW u, NEW v, NEW w, Keeps(u, v), Keeps(v, w)
  PROVE  Keeps(u, w)
  BY DEF Keeps

\* An owner that does not change keeps its capacity.
LEMMA KeepsSame ==
  ASSUME NEW w, Sound(w)
  PROVE  Keeps(w, w)
  BY DEF Keeps

\* The program counters of the tasks do not matter for the capacity.
LEMMA KeepsRetire ==
  ASSUME NEW w, Sound(w), NEW x \in {"none", "new", "gathering", "closing", "done"}
  PROVE  Keeps(w, [w EXCEPT !.retire = x])
  BY SMTT(30) DEF Keeps, Sound, OwnerRecord

\* The same for releases.
LEMMA KeepsRelease ==
  ASSUME NEW w, Sound(w),
         NEW x \in {"none", "new", "retiring", "gathering", "closing", "done"}
  PROVE  Keeps(w, [w EXCEPT !.release = x])
  BY SMTT(30) DEF Keeps, Sound, OwnerRecord

\* Nor does the mark of an owner on its way out.
LEMMA KeepsRemoval ==
  ASSUME NEW w, Sound(w), NEW x \in BOOLEAN
  PROVE  Keeps(w, [w EXCEPT !.removal = x])
  BY SMTT(30) DEF Keeps, Sound, OwnerRecord

\* Nor the wrappers that reference it.
LEMMA KeepsLeases ==
  ASSUME NEW w, Sound(w), NEW x \in SUBSET Leases
  PROVE  Keeps(w, [w EXCEPT !.leases = x])
  BY SMTT(30) DEF Keeps, Sound, OwnerRecord

\* Nor that they are gone.
LEMMA KeepsOrphaned ==
  ASSUME NEW w, Sound(w), NEW x \in BOOLEAN
  PROVE  Keeps(w, [w EXCEPT !.orphaned = x])
  BY SMTT(30) DEF Keeps, Sound, OwnerRecord

\* A dead engine may be declared to take no capacity.
LEMMA KeepsDead ==
  ASSUME NEW w, Sound(w), ~w.live
  PROVE  Keeps(w, [w EXCEPT !.capacityReleased = TRUE])
  BY ZenonT(60) DEF Keeps, Sound, OwnerRecord

\* Nor does the loss of a result.
LEMMA KeepsFailed ==
  ASSUME NEW w, Sound(w), NEW x \in BOOLEAN
  PROVE  Keeps(w, [w EXCEPT !.failed = x])
  BY SMTT(30) DEF Keeps, Sound, OwnerRecord

\* A step that leaves the handlers alone and registers nobody keeps Arrived.
LEMMA ArrivedKept ==
  ASSUME Arrived, UNCHANGED req,
         \A k \in Keys : items'[k] \in {None, items[k]}
  PROVE  Arrived'
  BY DEF Arrived

\* Cancelling a generation is one of the ways in which it ends.
LEMMA CancelGenerations ==
  ASSUME gen \in Generations, NEW r, Cancel(r)
  PROVE  gen' \in Generations
  BY DEF Cancel, Generations, Outcomes
----------------------------------------------------------------------------
(* The tasks of an owner *)

\* A task that changes one owner, and no table or handler, keeps the invariant
\* if the owner keeps its capacity.
LEMMA TaskKeeps ==
  ASSUME IInv, NEW o \in Requests, NEW v, Keeps(owner[o], v),
         owner' = [owner EXCEPT ![o] = v],
         UNCHANGED <<items, req, down>>, gen' \in Generations, Memory'
  PROVE  IInv'
<1>1. Accounted(items, [owner EXCEPT ![o] = v])
  BY KeepsOne DEF IInv
<1>2. Arrived'
  BY DEF IInv, Arrived
<1>. QED BY <1>1, <1>2 DEF IInv

\* A task that may take one owner out of the table.
LEMMA TaskPops ==
  ASSUME IInv, NEW o \in Requests, NEW v, NEW pop \in BOOLEAN,
         Sound(v), v.key = owner[o].key, v.live => owner[o].live,
         pop => ~v.live, ~pop => Keeps(owner[o], v),
         owner' = [owner EXCEPT ![o] = v], PopIf(pop, o),
         UNCHANGED <<tombstones, req, gen, down, dirty>>
  PROVE  IInv'
<1>1. Accounted(items', owner')
  BY PopOne DEF IInv, PopIf
<1>2. Arrived'
  <2>1. \A k \in Keys : items'[k] \in {None, items[k]}
    BY DEF PopIf, IInv, Accounted
  <2>. QED BY <2>1, ArrivedKept DEF IInv
<1>3. Memory'
  BY DEF IInv, Memory
<1>. QED BY <1>1, <1>2, <1>3 DEF IInv

\* The tasks and handlers below find a sound owner.
LEMMA OwnersSound == IInv => \A o \in Requests : Sound(owner[o])
  BY DEF IInv, Accounted

\* _retire keeps the invariant.
LEMMA RetireTaskIInv ==
  ASSUME IInv, NEW o \in Requests, RetireTask(o)
  PROVE  IInv'
<1>. DEFINE w == owner[o]
<1>0. Sound(w) /\ owner \in [Requests -> OwnerRecord]
  BY OwnersSound DEF IInv, Accounted
<1>1. CASE RetireSuccess(o)
  <2>. DEFINE v == IF Ephemeral(o)
                   THEN [Closing(w) EXCEPT !.removal = TRUE, !.retire = "closing"]
                   ELSE RetireDone(w)
  <2>1. owner' = [owner EXCEPT ![o] = v] /\ UNCHANGED <<items, tombstones, req, gen, down, dirty>>
    BY <1>1, <1>0 DEF RetireSuccess
  <2>2. Keeps(w, v)
    <3>1. CASE Ephemeral(o)
      <4>. DEFINE a == Closing(w)
                  b == [a EXCEPT !.removal = TRUE]
      <4>. HIDE DEF w
      <4>1. Keeps(w, a)
        BY <1>0, ClosingKeeps
      <4>. HIDE DEF a
      <4>2. Keeps(a, b)
        BY <4>1, KeepsRemoval DEF Keeps
      <4>. HIDE DEF b
      <4>3. Keeps(b, [b EXCEPT !.retire = "closing"])
        BY <4>2, KeepsRetire DEF Keeps
      <4>4. Keeps(w, [b EXCEPT !.retire = "closing"])
        BY <4>1, <4>2, <4>3, KeepsTwice
      <4>. QED BY <3>1, <4>4 DEF b, a
    <3>2. CASE ~Ephemeral(o)
      BY <3>2, <1>0, RetireDoneKeeps
    <3>. QED BY <3>1, <3>2
  <2>. HIDE DEF v
  <2>. QED BY <2>1, <2>2, TaskKeeps DEF IInv, Memory
<1>2. CASE RetireFailure(o)
  <2>. DEFINE x == owner[o].verdict = "undelivered"
              v == [w EXCEPT !.failed = TRUE, !.result = None,
                             !.replayable = x, !.retire = "gathering"]
  <2>1. owner' = [owner EXCEPT ![o] = v] /\ UNCHANGED <<items, req, down>>
    BY <1>2 DEF RetireFailure
  <2>2. Keeps(w, v)
    <3>. DEFINE a == [w EXCEPT !.failed = TRUE, !.result = None]
                b == [a EXCEPT !.replayable = x]
    <3>. HIDE DEF w, x
    <3>0. x \in BOOLEAN
      BY DEF x
    <3>1. Keeps(w, a)
      <4>1. a \in OwnerRecord
        BY ZenonT(60), <1>0 DEF Sound, OwnerRecord
      <4>. QED BY SMTT(30), <4>1, <1>0 DEF Keeps, Sound, OwnerRecord
    <3>2. v = [b EXCEPT !.retire = "gathering"]
      OBVIOUS
    <3>. HIDE DEF a, v
    <3>3. Keeps(a, b)
      BY SMTT(30), <3>0, <3>1 DEF Keeps, Sound, OwnerRecord
    <3>. HIDE DEF b
    <3>4. Keeps(b, v)
      BY <3>2, <3>3, KeepsRetire DEF Keeps
    <3>. QED BY <3>1, <3>3, <3>4, KeepsTwice
  <2>3. Memory'
    <3>1. RetryOfOwner(w) \in SUBSET RetryKey
      BY SMTT(30), <1>0 DEF RetryOfOwner, RetryOf, RetryKey, Sound, OwnerRecord, Fingerprint
    <3>. QED BY <3>1, <1>2, RememberMemory DEF RetireFailure, IInv
  <2>4. gen' \in Generations
    BY <1>2, CancelGenerations DEF RetireFailure, IInv
  <2>. HIDE DEF v
  <2>. QED BY <2>1, <2>2, <2>3, <2>4, TaskKeeps
<1>3. CASE RetireClose(o)
  <2>. DEFINE v == [Closing(w) EXCEPT !.retire = "closing"]
  <2>1. owner' = [owner EXCEPT ![o] = v] /\ UNCHANGED <<items, tombstones, req, gen, down, dirty>>
    BY <1>3 DEF RetireClose
  <2>2. Keeps(w, v)
    <3>1. Keeps(w, Closing(w))
      BY <1>0, ClosingKeeps
    <3>. QED BY <3>1, KeepsRetire, KeepsTwice DEF Keeps
  <2>. HIDE DEF v
  <2>. QED BY <2>1, <2>2, TaskKeeps DEF IInv, Memory
<1>4. CASE RetireEnds(o)
  <2>. DEFINE a == RetireDone(w)
              y == (a.removal \/ Ephemeral(o))
              b == [a EXCEPT !.removal = y]
              pop == (Ephemeral(o) /\ a.confirmed)
              v == Left(pop, b)
  <2>1. /\ owner' = [owner EXCEPT ![o] = v]
        /\ PopIf(pop, o)
        /\ UNCHANGED <<tombstones, req, gen, down, dirty>>
    BY <1>4 DEF RetireEnds
  <2>2. Keeps(w, a)
    BY <1>0, RetireDoneKeeps
  <2>3. y \in BOOLEAN /\ pop \in BOOLEAN /\ (pop => ~a.live)
    BY SMTT(30), <2>2 DEF Keeps, Sound, OwnerRecord, Ephemeral
  <2>. HIDE DEF y
  <2>4. Keeps(a, b) /\ Keeps(w, b)
    BY <2>2, <2>3, KeepsRemoval, KeepsTwice DEF Keeps
  <2>. HIDE DEF a, b, pop
  <2>5. Sound(v) /\ v.key = b.key /\ (v.live => b.live)
    BY <2>3, <2>4, LeftSound DEF Keeps
  <2>6. pop => ~v.live
    BY <2>3, <2>4, <2>5 DEF Keeps
  <2>7. ~pop => Keeps(w, v)
    BY <2>4 DEF Left
  <2>. HIDE DEF v
  <2>. QED BY <2>1, <2>3, <2>4, <2>5, <2>6, <2>7, TaskPops DEF Keeps
<1>. QED BY <1>1, <1>2, <1>3, <1>4 DEF RetireTask

\* _release_owner keeps the invariant.
LEMMA ReleaseTaskIInv ==
  ASSUME IInv, NEW o \in Requests, ReleaseTask(o)
  PROVE  IInv'
<1>. DEFINE w == owner[o]
<1>0. Sound(w) /\ owner \in [Requests -> OwnerRecord]
  BY OwnersSound DEF IInv, Accounted
<1>1. CASE ReleaseStarts(o)
  <2>. DEFINE lost == owner[o].busy /\ owner[o].result = None
              x == (w.failed \/ lost)
              a == [w EXCEPT !.failed = x]
              v == [a EXCEPT !.release = "retiring"]
  <2>1. owner' = [owner EXCEPT ![o] = v] /\ UNCHANGED <<items, req, gen, down>>
    BY <1>1 DEF ReleaseStarts
  <2>2. Keeps(w, v)
    <3>. HIDE DEF w, lost
    <3>1. x \in BOOLEAN
      OBVIOUS
    <3>. HIDE DEF x
    <3>2. Keeps(w, a)
      BY <1>0, <3>1, KeepsFailed
    <3>. HIDE DEF a
    <3>. QED BY <3>2, KeepsRelease, KeepsTwice DEF Keeps
  <2>3. Memory'
    <3>1. RetryOfOwner(w) \in SUBSET RetryKey
      BY SMTT(30), <1>0 DEF RetryOfOwner, RetryOf, RetryKey, Sound, OwnerRecord, Fingerprint
    <3>. QED BY <3>1, <1>1, RememberMemory DEF ReleaseStarts, IInv
  <2>. HIDE DEF v
  <2>. QED BY <2>1, <2>2, <2>3, TaskKeeps DEF IInv
<1>2. CASE ReleaseCancels(o)
  <2>. DEFINE v == IF w.task = None THEN [Closing(w) EXCEPT !.release = "closing"]
                                    ELSE [w EXCEPT !.release = "gathering"]
  <2>1. owner' = [owner EXCEPT ![o] = v] /\ UNCHANGED <<items, tombstones, req, down, dirty>>
    BY <1>2 DEF ReleaseCancels
  <2>2. Keeps(w, v)
    <3>1. Keeps(w, Closing(w))
      BY <1>0, ClosingKeeps
    <3>2. Keeps(w, [Closing(w) EXCEPT !.release = "closing"])
      BY <3>1, KeepsRelease, KeepsTwice DEF Keeps
    <3>3. Keeps(w, [w EXCEPT !.release = "gathering"])
      BY <1>0, KeepsRelease
    <3>. QED BY <3>2, <3>3
  <2>3. gen' \in Generations
    BY <1>2, CancelGenerations DEF ReleaseCancels, IInv
  <2>. HIDE DEF v
  <2>. QED BY <2>1, <2>2, <2>3, TaskKeeps DEF IInv, Memory
<1>3. CASE ReleaseCloses(o)
  <2>. DEFINE v == [Closing(w) EXCEPT !.release = "closing"]
  <2>1. owner' = [owner EXCEPT ![o] = v] /\ UNCHANGED <<items, tombstones, req, gen, down, dirty>>
    BY <1>3 DEF ReleaseCloses
  <2>2. Keeps(w, v)
    <3>1. Keeps(w, Closing(w))
      BY <1>0, ClosingKeeps
    <3>. QED BY <3>1, KeepsRelease, KeepsTwice DEF Keeps
  <2>. HIDE DEF v
  <2>. QED BY <2>1, <2>2, TaskKeeps DEF IInv, Memory
<1>4. CASE ReleaseEnds(o)
  <2>. DEFINE pop == w.confirmed
              b == [w EXCEPT !.release = "done"]
              v == Left(pop, b)
  <2>1. /\ owner' = [owner EXCEPT ![o] = v]
        /\ PopIf(pop, o)
        /\ UNCHANGED <<tombstones, req, gen, down, dirty>>
    BY <1>4 DEF ReleaseEnds
  <2>2. Keeps(w, b)
    BY <1>0, KeepsRelease
  <2>3. pop \in BOOLEAN /\ (pop => ~w.live)
    BY SMTT(30), <1>0 DEF Sound, OwnerRecord
  <2>. HIDE DEF b, pop
  <2>4. Sound(v) /\ v.key = b.key /\ (v.live => b.live)
    BY <2>2, <2>3, LeftSound DEF Keeps
  <2>5. pop => ~v.live
    BY <2>2, <2>3, <2>4 DEF Keeps
  <2>6. ~pop => Keeps(w, v)
    BY <2>2 DEF Left
  <2>. HIDE DEF v
  <2>. QED BY <2>1, <2>2, <2>3, <2>4, <2>5, <2>6, TaskPops DEF Keeps
<1>. QED BY <1>1, <1>2, <1>3, <1>4 DEF ReleaseTask

\* _run_close and its thread keep the invariant.
LEMMA CloseIInv ==
  ASSUME IInv, NEW o \in Requests, CloseThread(o) \/ CloseTask(o)
  PROVE  IInv'
<1>. DEFINE w == owner[o]
<1>0. Sound(w) /\ owner \in [Requests -> OwnerRecord] /\ Memory
  BY OwnersSound DEF IInv, Accounted
<1>1. CASE EngineDies(o)
  <2>1. Keeps(w, [w EXCEPT !.live = FALSE])
    BY ZenonT(60), <1>0 DEF Keeps, Sound, OwnerRecord
  <2>. QED BY <1>1, <2>1, TaskKeeps DEF EngineDies, IInv, Memory
<1>2. ASSUME NEW how \in {"yes", "raised"}, CloseReturns(o, how)
      PROVE  IInv'
  <2>1. how = "yes" /\ w.live => ExplicitSeam
    BY <1>2 DEF CloseReturns
  <2>2. Keeps(w, [w EXCEPT !.returned = how])
    BY SMTT(30), <1>0, <2>1 DEF Keeps, Sound, OwnerRecord
  <2>. QED BY <1>2, <2>2, TaskKeeps DEF CloseReturns, IInv, Memory
<1>3. CASE CloseWatches(o)
  <2>1. Keeps(w, [w EXCEPT !.capacityReleased = TRUE])
    BY <1>0, <1>3, KeepsDead DEF CloseWatches, Proof
  <2>. QED BY <1>3, <2>1, TaskKeeps DEF CloseWatches, IInv, Memory
<1>4. CASE CloseConfirms(o)
  <2>. DEFINE a == [w EXCEPT !.closeTask = "done", !.confirmed = TRUE]
              v == [a EXCEPT !.engine = FALSE, !.capacityReleased = TRUE]
  <2>1. ~w.live
    BY <1>0, <1>4 DEF CloseConfirms, Gone, Proof, Sound
  <2>2. Keeps(w, a)
    BY ZenonT(60), <1>0, <2>1 DEF Keeps, Sound, OwnerRecord
  <2>3. ~a.live
    BY SMTT(30), <1>0, <2>1 DEF Sound, OwnerRecord
  <2>4. owner' = [owner EXCEPT ![o] = v] /\ UNCHANGED <<items, tombstones, req, gen, down, dirty>>
    BY <1>4 DEF CloseConfirms
  <2>. HIDE DEF a
  <2>5. Keeps(a, v)
    BY ZenonT(60), <2>2, <2>3 DEF Keeps, Sound, OwnerRecord
  <2>6. Keeps(w, v)
    BY <2>2, <2>5, KeepsTwice
  <2>. HIDE DEF v
  <2>. QED BY <2>4, <2>6, TaskKeeps DEF IInv, Memory
<1>5. CASE CloseGivesUp(o)
  <2>1. Keeps(w, [w EXCEPT !.closeTask = "done"])
    BY SMTT(30), <1>0 DEF Keeps, Sound, OwnerRecord
  <2>. QED BY <1>5, <2>1, TaskKeeps DEF CloseGivesUp, IInv, Memory
<1>. QED BY <1>1, <1>2, <1>3, <1>4, <1>5 DEF CloseThread, CloseTask
----------------------------------------------------------------------------
(* Handlers and generations *)

\* A handler and at most one owner move, and the owner keeps its capacity.
LEMMA HandlerKeeps ==
  ASSUME IInv, NEW r \in Requests, req[r].phase \notin {"idle", "pruning"},
         NEW h, Sane(h), h.phase \notin {"idle", "pruning"},
         req' = [req EXCEPT ![r] = h],
         NEW o \in Requests, NEW v, Keeps(owner[o], v),
         owner' = [owner EXCEPT ![o] = v],
         UNCHANGED <<items, tombstones, down>>,
         gen' \in Generations, dirty' \in SUBSET Attempts
  PROVE  IInv'
<1>1. Accounted(items, [owner EXCEPT ![o] = v])
  BY KeepsOne DEF IInv
<1>2. Handlers(req')
  BY HandlerMoves DEF IInv
<1>3. Arrived'
  BY DEF IInv, Arrived, Handlers, Accounted
<1>4. Memory'
  BY DEF IInv, Memory
<1>. QED BY <1>1, <1>2, <1>3, <1>4 DEF IInv

\* A handler that leaves its try block starts the retirement of its owner.
LEMMA FinishIInv ==
  ASSUME IInv, NEW r \in Requests, req[r].phase = "running",
         NEW verdict \in Verdicts, NEW w, Keeps(owner[req[r].own], w),
         Finish(r, verdict, w), dirty' \in SUBSET Attempts
  PROVE  IInv'
<1>. DEFINE o == req[r].own
            h == [req[r] EXCEPT !.phase = "joining", !.verdict = verdict]
            v == Finishing(w, verdict)
<1>1. o \in Requests /\ Sane(req[r]) /\ req \in [Requests -> RequestRecord]
  BY DEF IInv, Handlers, Sane
<1>2. Sane(h) /\ h.phase = "joining"
  BY <1>1 DEF Sane, RequestRecord, Phases
<1>3. Keeps(owner[o], v)
  BY FinishingKeeps, KeepsTwice DEF Keeps
<1>4. req' = [req EXCEPT ![r] = h]
  BY <1>1 DEF Finish
<1>5. owner' = [owner EXCEPT ![o] = v] /\ UNCHANGED <<items, tombstones, down>>
  BY DEF Finish
<1>6. gen' \in Generations
  BY DEF Finish, IInv, Generations, Outcomes
<1>. HIDE DEF h, v, o
<1>. QED BY <1>1, <1>2, <1>3, <1>4, <1>5, <1>6, HandlerKeeps

\* The handler after its admission keeps the invariant.
LEMMA WorkIInv ==
  ASSUME IInv, NEW r \in Requests, Succeed(r) \/ Fail(r) \/ Abandon(r)
  PROVE  IInv'
<1>0. /\ req[r].phase = "running" /\ req[r].own \in Requests
      /\ req[r].key \in Keys /\ req[r].content \in Contents /\ req[r].stream \in BOOLEAN
      /\ Sound(owner[req[r].own]) /\ dirty \in SUBSET Attempts
  BY OwnersSound DEF Succeed, Fail, Abandon, IInv, Handlers, Sane, RequestRecord, Memory
<1>. DEFINE w == owner[req[r].own]
<1>1. CASE Succeed(r)
  <2>. DEFINE f == <<req[r].content, req[r].stream>>
              v == IF req[r].cached THEN w ELSE [w EXCEPT !.result = f]
  <2>1. Keeps(w, v)
    <3>1. f \in Fingerprint
      BY <1>0 DEF Fingerprint
    <3>. HIDE DEF f, w
    <3>2. Keeps(w, [w EXCEPT !.result = f])
      BY SMTT(30), <1>0, <3>1 DEF Keeps, Sound, OwnerRecord, w
    <3>. QED BY <3>2, <1>0, KeepsSame DEF w
  <2>2. Finish(r, "success", v)
    BY <1>1 DEF Succeed
  <2>3. dirty' \in SUBSET Attempts
    BY <1>1, <1>0 DEF Succeed
  <2>. HIDE DEF v
  <2>. QED BY <1>0, <2>1, <2>2, <2>3, FinishIInv DEF Verdicts
<1>2. CASE Fail(r)
  <2>1. gen[r] \in Verdicts /\ Finish(r, gen[r], w) /\ dirty' \in SUBSET Attempts
    BY <1>2, <1>0 DEF Fail, Verdicts
  <2>. QED BY <1>0, <2>1, KeepsSame, FinishIInv
<1>3. CASE Abandon(r)
  BY <1>3, <1>0, KeepsSame, FinishIInv DEF Abandon, Verdicts
<1>. QED BY <1>1, <1>2, <1>3

\* So do its one or two cleanups.
LEMMA CleanupIInv ==
  ASSUME IInv, NEW r \in Requests, JoinEnds(r) \/ CleanUpAgain(r)
  PROVE  IInv'
<1>. DEFINE o == req[r].own
<1>0. /\ o \in Requests /\ Sane(req[r]) /\ req[r].phase \notin {"idle", "pruning"}
      /\ Sound(owner[o]) /\ req \in [Requests -> RequestRecord]
      /\ owner \in [Requests -> OwnerRecord]
      /\ dirty \in SUBSET Attempts /\ gen \in Generations
  BY OwnersSound DEF JoinEnds, CleanUpAgain, IInv, Accounted, Handlers, Sane, Memory
<1>1. CASE JoinEnds(r)
  <2>. DEFINE x == (owner[o].cleanup = "completed")
              h == IF req[r].stream /\ req[r].phase = "joining"
                   THEN [req[r] EXCEPT !.phase = "closing", !.marked = x]
                   ELSE Handled("done")
  <2>1. PICK v : Keeps(owner[o], v) /\ owner' = [owner EXCEPT ![o] = v]
    <3>1. CASE owner' = owner
      <4>1. owner' = [owner EXCEPT ![o] = owner[o]]
        BY <3>1, <1>0
      <4>. QED BY <4>1, <1>0, KeepsSame
    <3>2. CASE owner' # owner
      <4>1. /\ ~owner[o].live
            /\ owner' = [owner EXCEPT ![o] = [owner[o] EXCEPT !.capacityReleased = TRUE]]
        BY <1>1, <3>2 DEF JoinEnds, Proof
      <4>. QED BY <4>1, <1>0, KeepsDead
    <3>. QED BY <3>1, <3>2
  <2>2. Sane(h) /\ h.phase \notin {"idle", "pruning"}
    <3>1. x \in BOOLEAN
      OBVIOUS
    <3>. HIDE DEF x, o
    <3>2. CASE req[r].stream /\ req[r].phase = "joining"
      <4>1. Sane([req[r] EXCEPT !.phase = "closing", !.marked = x])
        BY <1>0, <3>1, <3>2 DEF Sane, RequestRecord, Phases
      <4>. QED BY <4>1, <3>2, <1>0 DEF Sane, RequestRecord
    <3>3. CASE ~(req[r].stream /\ req[r].phase = "joining")
      BY <3>3, DoneSane DEF Handled
    <3>. QED BY <3>2, <3>3
  <2>3. req' = [req EXCEPT ![r] = h] /\ UNCHANGED <<items, tombstones, gen, down, dirty>>
    BY <1>1, <1>0 DEF JoinEnds
  <2>. HIDE DEF h, o
  <2>. QED BY <1>0, <2>1, <2>2, <2>3, HandlerKeeps
<1>2. CASE CleanUpAgain(r) /\ req[r].marked
  <2>1. req' = [req EXCEPT ![r] = Handled("done")]
        /\ UNCHANGED <<owner, items, tombstones, gen, down, dirty>>
    BY <1>2 DEF CleanUpAgain
  <2>2. owner' = [owner EXCEPT ![o] = owner[o]]
    BY <2>1, <1>0
  <2>3. Handled("done").phase = "done"
    BY DEF Handled
  <2>. HIDE DEF o
  <2>. QED BY <2>1, <2>2, <2>3, <1>0, DoneSane, KeepsSame, HandlerKeeps
<1>3. CASE CleanUpAgain(r) /\ ~req[r].marked
  <2>. DEFINE h == [req[r] EXCEPT !.phase = "rejoining"]
              v == Finishing(owner[o], req[r].verdict)
  <2>1. /\ req' = [req EXCEPT ![r] = h] /\ owner' = [owner EXCEPT ![o] = v]
        /\ UNCHANGED <<items, tombstones, gen, down, dirty>>
    BY <1>3 DEF CleanUpAgain
  <2>2. Sane(h) /\ h.phase = "rejoining"
    <3>1. h \in RequestRecord
      BY <1>0 DEF Sane, RequestRecord, Phases
    <3>2. req[r].phase = "closing"
      BY <1>3 DEF CleanUpAgain
    <3>. QED BY <1>0, <3>1, <3>2 DEF Sane, RequestRecord
  <2>3. Keeps(owner[o], v)
    BY <1>0, FinishingKeeps DEF Sane, RequestRecord
  <2>. HIDE DEF h, v, o
  <2>. QED BY <2>1, <2>2, <2>3, <1>0, HandlerKeeps
<1>. QED BY <1>1, <1>2, <1>3

\* The end of a generation is not noticed by anybody yet.
LEMMA GenerationIInv ==
  ASSUME IInv, NEW r \in Requests, Generation(r)
  PROVE  IInv'
<1>1. PICK outcome \in Outcomes : GenerationEnds(r, outcome)
  BY DEF Generation
<1>2. gen' \in Generations
  BY <1>1 DEF GenerationEnds, IInv, Generations
<1>. QED BY <1>1, <1>2 DEF GenerationEnds, IInv, Arrived, Memory
----------------------------------------------------------------------------
(* Releases *)

\* A step that only changes owners, each of which keeps its capacity.
LEMMA OwnersKeep ==
  ASSUME IInv, \A o \in Requests : Keeps(owner[o], owner'[o]),
         owner' = [o \in Requests |-> owner'[o]],
         UNCHANGED <<items, tombstones, req, gen, dirty>>, down' \in BOOLEAN
  PROVE  IInv'
<1>1. Accounted(items, owner')
  BY KeepsAll DEF IInv
<1>. QED BY <1>1 DEF IInv, Arrived, Memory

\* prune starts releases and forgets stale orphan marks, nothing else.
LEMMA PrunedKeeps ==
  ASSUME IInv, NEW expired
  PROVE  /\ \A o \in Requests : Keeps(owner[o], Pruned(expired)[o])
         /\ Pruned(expired) = [o \in Requests |-> Pruned(expired)[o]]
<1>1. ASSUME NEW o \in Requests
      PROVE  Keeps(owner[o], Pruned(expired)[o])
  <2>. DEFINE x == (owner[o].orphaned /\ owner[o].leases = {})
              w == [owner[o] EXCEPT !.orphaned = x]
  <2>0. Sound(owner[o])
    BY OwnersSound
  <2>1. x \in BOOLEAN
    OBVIOUS
  <2>2. Pruned(expired)[o] \in {owner[o], w, Released(w)}
    <3>1. Pruned(expired)[o] =
            IF o \notin Registered \/ ~Idle(owner[o]) THEN owner[o]
            ELSE IF w.orphaned \/ o \in expired THEN Released(w) ELSE w
      BY DEF Pruned
    <3>. HIDE DEF w
    <3>. QED BY <3>1
  <2>. HIDE DEF x
  <2>3. Keeps(owner[o], w)
    BY <2>0, <2>1, KeepsOrphaned
  <2>. HIDE DEF w
  <2>4. Keeps(owner[o], Released(w))
    BY <2>3, ReleasedKeeps, KeepsTwice DEF Keeps
  <2>. QED BY <2>0, <2>2, <2>3, <2>4, KeepsSame
<1>2. Pruned(expired) = [o \in Requests |-> Pruned(expired)[o]]
  BY DEF Pruned
<1>. QED BY <1>1, <1>2

\* Closing by key, by lease or by process, the reaper and the shutdown.
LEMMA ReleasesIInv ==
  ASSUME IInv,
         \/ \E k \in Keys : CloseOwner(k)
         \/ \E lease \in Leases : CloseLease(lease)
         \/ \E dead \in SUBSET (Leases \cup Keys) : ProcessExits(dead)
         \/ Reaper
         \/ Shutdown
  PROVE  IInv'
<1>0. /\ \A o \in Requests : Sound(owner[o]) /\ owner[o].leases \in SUBSET Leases
      /\ owner \in [Requests -> OwnerRecord] /\ Memory /\ gen \in Generations
      /\ down \in BOOLEAN
  BY SMTT(30), OwnersSound DEF IInv, Accounted, Sound, OwnerRecord
<1>1. ASSUME NEW k \in Keys, CloseOwner(k)
      PROVE  IInv'
  <2>1. items[k] \in Requests
    BY <1>1 DEF CloseOwner, IInv, Accounted
  <2>2. Keeps(owner[items[k]], Released(owner[items[k]]))
    BY <2>1, <1>0, ReleasedKeeps
  <2>. QED BY <1>0, <1>1, <2>1, <2>2, TaskKeeps DEF CloseOwner, Memory
<1>2. ASSUME NEW lease \in Leases, CloseLease(lease)
      PROVE  IInv'
  <2>1. ASSUME NEW o \in Requests
        PROVE  Keeps(owner[o], owner'[o])
    <3>. DEFINE x == owner[o].leases \ {lease}
                w == [owner[o] EXCEPT !.leases = x]
    <3>1. owner'[o] \in {owner[o], w, Released(w)}
      <4>1. owner'[o] =
              IF o \notin Registered \/ lease \notin owner[o].leases THEN owner[o]
              ELSE IF w.leases = {} /\ ~w.removal THEN Released(w) ELSE w
        BY <1>2 DEF CloseLease
      <4>. HIDE DEF w
      <4>. QED BY <4>1
    <3>2. Keeps(owner[o], w)
      BY <1>0, KeepsLeases
    <3>. HIDE DEF w
    <3>3. Keeps(owner[o], Released(w))
      BY <3>2, ReleasedKeeps, KeepsTwice DEF Keeps
    <3>. QED BY <1>0, <3>1, <3>2, <3>3, KeepsSame
  <2>2. owner' = [o \in Requests |-> owner'[o]]
    BY <1>2 DEF CloseLease
  <2>. QED BY <1>0, <1>2, <2>1, <2>2, OwnersKeep DEF CloseLease
<1>3. ASSUME NEW dead \in SUBSET (Leases \cup Keys), ProcessExits(dead)
      PROVE  IInv'
  <2>1. ASSUME NEW o \in Requests
        PROVE  Keeps(owner[o], owner'[o])
    <3>. DEFINE x == IF owner[o].key \in dead THEN {} ELSE owner[o].leases \ dead
                w == [owner[o] EXCEPT !.leases = x]
                v == [w EXCEPT !.orphaned = TRUE]
    <3>1. owner'[o] \in {owner[o], w, v, Released(w)}
      BY <1>3 DEF ProcessExits
    <3>2. x \in SUBSET Leases
      BY <1>0
    <3>. HIDE DEF x
    <3>3. Keeps(owner[o], w)
      BY <1>0, <3>2, KeepsLeases
    <3>. HIDE DEF w
    <3>4. Keeps(owner[o], v)
      BY <3>3, KeepsOrphaned, KeepsTwice DEF Keeps
    <3>5. Keeps(owner[o], Released(w))
      BY <3>3, ReleasedKeeps, KeepsTwice DEF Keeps
    <3>. HIDE DEF v
    <3>. QED BY <1>0, <3>1, <3>3, <3>4, <3>5, KeepsSame
  <2>2. owner' = [o \in Requests |-> owner'[o]]
    BY <1>3 DEF ProcessExits
  <2>. QED BY <1>0, <1>3, <2>1, <2>2, OwnersKeep DEF ProcessExits
<1>4. CASE Reaper
  <2>1. PICK e \in Expired : Reap(e)
    BY <1>4 DEF Reaper
  <2>. QED BY <1>0, <2>1, PrunedKeeps, OwnersKeep DEF Reap
<1>5. CASE Shutdown
  <2>1. \A o \in Requests : Keeps(owner[o], owner'[o])
    BY <1>0, <1>5, ReleasedKeeps, KeepsSame DEF Shutdown
  <2>. QED BY <1>0, <1>5, <2>1, OwnersKeep DEF Shutdown
<1>. QED BY <1>1, <1>2, <1>3, <1>4, <1>5

\* Forgetting the oldest tombstone shortens the table.
LEMMA ForgetIInv ==
  ASSUME IInv, Forget
  PROVE  IInv'
<1>1. Memory'
  <2>1. /\ tombstones \in Seq(RetryKey) /\ tombstones # <<>>
        /\ tombstones' = Tail(tombstones) /\ dirty' \in SUBSET Attempts
        /\ Len(tombstones) \in Nat /\ Len(tombstones) <= MaxTombstones
    BY DEF IInv, Memory, Forget
  <2>2. tombstones' \in Seq(RetryKey) /\ Len(tombstones') = Len(tombstones) - 1
    BY <2>1, HeadTailProperties
  <2>. QED BY <2>1, <2>2, OwnersAssumption DEF Memory
<1>. QED BY <1>1 DEF IInv, Forget, Arrived
----------------------------------------------------------------------------
(* Admission *)

\* What a handler is told about its request: key, body and leases.
Asking(h) ==
    /\ h \in RequestRecord
    /\ h.phase = "pruning" /\ h.key \in Keys /\ h.content \in Contents

\* Every case of admit keeps the table accounted and the handlers sane.
LEMMA AdmitIInv ==
  ASSUME IInv, NEW r \in Requests, req[r].phase \in {"idle", "pruning"},
         NEW record, Asking(record),
         NEW own, Accounted(items, own),
         Admit(r, record, own), UNCHANGED <<tombstones, down>>
  PROVE  IInv'
<1>. DEFINE k == record.key
            o == items[k]
            fingerprint == <<record.content, record.stream>>
            lent == [own[o] EXCEPT !.leases = own[o].leases \cup record.leases]
            touched == [own EXCEPT ![o] = lent]
            running == [record EXCEPT !.phase = "running"]
<1>0. /\ k \in Keys /\ record.content \in Contents /\ record.stream \in BOOLEAN
      /\ record.leases \in SUBSET Leases /\ record \in RequestRecord
      /\ fingerprint \in Fingerprint /\ record.conversation \in LogicalKeys \cup {None}
      /\ {r} \X RetryOf(record.conversation, record.content) \in SUBSET Attempts
      /\ dirty \in SUBSET Attempts /\ gen \in Generations /\ items[k] \in Requests \cup {None}
  BY DEF Asking, RequestRecord, Fingerprint, RetryOf, RetryKey, Attempts, IInv, Memory,
         Accounted
<1>1. own \in [Requests -> OwnerRecord] /\ \A p \in Requests : Sound(own[p])
  BY DEF Accounted
<1>2. r \notin RegisteredIn(items)
  BY OwnersAssumption DEF IInv, Arrived, RegisteredIn
<1>3. CapacityUsed(own) = Cardinality(Used(items, own)) /\ CapacityUsed(own) \in Nat
  <2>1. CapacityUsed(own) = Cardinality(Used(items, own))
    BY DEF CapacityUsed, Used, Registered, RegisteredIn
  <2>2. Used(items, own) \in SUBSET Requests
    BY DEF Used, RegisteredIn
  <2>. QED BY <2>1, <2>2, UsedCardinality
<1>4. o # None => o \in RegisteredIn(items) /\ o \in Requests
  BY <1>0 DEF RegisteredIn
<1>5. o # None => /\ Keeps(own[o], lent)
                  /\ Accounted(items, touched)
                  /\ touched[o] = lent
                  /\ touched = [own EXCEPT ![o].leases = @ \cup record.leases]
  <2>1. ASSUME o # None
        PROVE  Keeps(own[o], lent)
    <3>1. own[o].leases \cup record.leases \in SUBSET Leases
      BY SMTT(30), <2>1, <1>0, <1>1, <1>4 DEF OwnerRecord
    <3>. QED BY <2>1, <3>1, <1>1, <1>4, KeepsLeases
  <2>. QED BY <2>1, <1>1, <1>4, KeepsOne
\* The handler is answered.
<1>6. ASSUME NEW new, Accounted(items, new), Refuse(r, new)
      PROVE  IInv'
  <2>1. Handlers(req')
    BY <1>6, HandlerMoves, DoneSane DEF Refuse, IInv
  <2>2. Arrived'
    BY <1>6 DEF Refuse, IInv, Arrived, Handlers, Handled, Accounted
  <2>. QED BY <1>6, <2>1, <2>2 DEF Refuse, IInv, Memory
\* A handler starts or replays with the owner p.
<1>7. ASSUME NEW p \in Requests, NEW c \in BOOLEAN,
             req' = [req EXCEPT ![r] = [running EXCEPT !.own = p, !.cached = c]],
             Accounted(items', owner'),
             \A j \in Keys : items'[j] \in {items[j], r},
             gen' \in Generations, dirty' \in SUBSET Attempts
      PROVE  IInv'
  <2>. DEFINE h == [running EXCEPT !.own = p, !.cached = c]
  <2>1. Sane(h) /\ h.phase = "running"
    <3>1. running \in RequestRecord
      BY <1>0 DEF RequestRecord, Phases
    <3>2. running.phase = "running" /\ running.key = k /\ running.content = record.content
      BY <1>0 DEF RequestRecord
    <3>. HIDE DEF running, k
    <3>. QED BY <3>1, <3>2, <1>0 DEF Sane, RequestRecord
  <2>. HIDE DEF h
  <2>2. Handlers(req')
    BY <1>7, <2>1, HandlerMoves DEF IInv, h
  <2>3. Arrived'
    BY <1>7, <2>1 DEF IInv, Arrived, Handlers, Accounted, h
  <2>. QED BY <1>7, <2>2, <2>3 DEF IInv, Memory
<1>. DEFINE Started(id, w) ==
              /\ owner' = [own EXCEPT ![id] =
                    [Restarted(w, fingerprint, record.conversation) EXCEPT !.task = r]]
              /\ req' = [req EXCEPT ![r] = [record EXCEPT !.phase = "running", !.own = id]]
              /\ gen' = [gen EXCEPT ![r] = "running"]
              /\ dirty' = dirty \cup ({r} \X RetryOf(record.conversation, record.content))
<1>8. ASSUME NEW id \in Requests, NEW w, Started(id, w), Accounted(items', owner'),
             \A j \in Keys : items'[j] \in {items[j], r}
      PROVE  IInv'
  <2>1. gen' \in Generations /\ dirty' \in SUBSET Attempts
    BY <1>0, <1>8 DEF Generations, Outcomes
  <2>2. [record EXCEPT !.phase = "running", !.own = id]
           = [running EXCEPT !.own = id, !.cached = record.cached]
    BY <1>0 DEF RequestRecord
  <2>3. record.cached \in BOOLEAN
    BY <1>0 DEF RequestRecord
  <2>. HIDE DEF running
  <2>. QED BY <1>8, <2>1, <2>2, <2>3, <1>7
<1>9. CASE Refuse(r, own)
  BY <1>9, <1>6
<1>10. CASE o # None /\ Refuse(r, touched)
  BY <1>10, <1>5, <1>6
<1>11. CASE /\ o = None /\ ~(CapacityUsed(own) >= Limit)
            /\ Started(r, [NewOwner(k) EXCEPT !.leases = record.leases])
            /\ items' = [items EXCEPT ![k] = r]
  <2>. DEFINE w == [NewOwner(k) EXCEPT !.leases = record.leases]
              v == [Restarted(w, fingerprint, record.conversation) EXCEPT !.task = r]
  <2>1. Sound(w) /\ w.key = k
    <3>. HIDE DEF k
    <3>1. Sound(NewOwner(k)) /\ NewOwner(k).key = k
      BY <1>0, NewOwnerSound
    <3>. QED BY <3>1, <1>0, KeepsLeases DEF Keeps
  <2>2. Sound(v) /\ v.key = k
    <3>. HIDE DEF w, k, fingerprint
    <3>. QED BY <2>1, <1>0, RestartedSound
  <2>3. Cardinality(Used(items, own)) < Limit
    BY <1>11, <1>3, OwnersAssumption
  <2>4. Accounted([items EXCEPT ![k] = r], [own EXCEPT ![r] = v])
    <3>. HIDE DEF v, k
    <3>. QED BY <2>2, <2>3, <1>11, <1>0, <1>2, StartNew DEF k
  <2>5. Accounted(items', owner') /\ \A j \in Keys : items'[j] \in {items[j], r}
    BY <2>4, <1>11 DEF IInv, Accounted
  <2>. QED BY <1>11, <2>5, <1>8
<1>12. CASE /\ o # None /\ ~(own[o].capacityReleased /\ CapacityUsed(own) >= Limit)
            /\ Started(o, touched[o])
            /\ UNCHANGED items
  <2>. DEFINE v == [Restarted(lent, fingerprint, record.conversation) EXCEPT !.task = r]
  <2>1. Sound(lent) /\ lent.key = own[o].key
    BY <1>12, <1>5 DEF Keeps
  <2>2. Sound(v) /\ v.key = own[o].key
    <3>. HIDE DEF lent, fingerprint
    <3>. QED BY <2>1, <1>0, RestartedSound
  <2>3. own[o].capacityReleased => Cardinality(Used(items, own)) < Limit
    BY <1>12, <1>3, OwnersAssumption
  <2>4. Accounted(items, [own EXCEPT ![o] = v])
    <3>. HIDE DEF v, o
    <3>. QED BY <2>2, <2>3, <1>12, <1>4, StartAgain
  <2>5. Accounted(items', owner') /\ \A j \in Keys : items'[j] \in {items[j], r}
    BY <2>4, <1>5, <1>12 DEF IInv, Accounted
  <2>. HIDE DEF Started
  <2>. QED BY <1>12, <2>5, <1>4, <1>8
<1>13. CASE /\ o # None
            /\ owner' = [touched EXCEPT ![o].retire = "none", ![o].cleanup = "none",
                                        ![o].busy = record.stream]
            /\ req' = [req EXCEPT ![r] =
                  IF record.stream
                  THEN [record EXCEPT !.phase = "running", !.own = o, !.cached = TRUE]
                  ELSE Handled("done")]
            /\ UNCHANGED <<items, gen, dirty>>
  <2>. DEFINE s == record.stream
              v == [lent EXCEPT !.retire = "none", !.cleanup = "none", !.busy = s]
  <2>1. Sound(lent) /\ Keeps(own[o], lent)
    BY <1>13, <1>5 DEF Keeps
  <2>2. Keeps(own[o], v)
    <3>. HIDE DEF lent, s
    <3>1. v \in OwnerRecord
      BY ZenonT(60), <2>1, <1>0 DEF Sound, OwnerRecord, s
    <3>2. Keeps(lent, v)
      BY SMTT(30), <2>1, <3>1 DEF Keeps, Sound, OwnerRecord
    <3>. QED BY <2>1, <3>2, KeepsTwice
  <2>3. owner' = [own EXCEPT ![o] = v]
    BY <1>13, <1>4, <1>1
  <2>4. Accounted(items, owner')
    <3>1. o \in Requests
      BY <1>13, <1>4
    <3>. HIDE DEF v, o
    <3>2. Accounted(items, [own EXCEPT ![o] = v])
      BY <2>2, <3>1, KeepsOne
    <3>. QED BY <2>3, <3>2
  <2>5. CASE ~record.stream
    BY <2>4, <2>5, <1>13, <1>6 DEF Refuse
  <2>6. CASE record.stream
    <3>1. req' = [req EXCEPT ![r] = [running EXCEPT !.own = o, !.cached = TRUE]]
      BY <1>13, <2>6
    <3>. HIDE DEF running
    <3>. QED BY <1>13, <2>4, <3>1, <1>0, <1>4, <1>7
  <2>. QED BY <2>5, <2>6
<1>. QED BY <1>9, <1>10, <1>11, <1>12, <1>13, <1>5, Zenon DEF Admit

\* A request that arrives, and one that waited for the releases of its prune.
LEMMA ArrivalIInv ==
  ASSUME IInv, NEW r \in Requests,
         \/ \E record \in Inputs, e \in Expired : Receive(r, record, e)
         \/ AdmitAfterPrune(r)
  PROVE  IInv'
<1>1. ASSUME NEW record \in Inputs, NEW e \in Expired, Receive(r, record, e)
      PROVE  IInv'
  <2>. DEFINE own == Pruned(e)
  <2>1. Asking(record)
    BY OwnersAssumption DEF Inputs, Asking, RequestRecord, Phases, Verdicts
  <2>2. Accounted(items, own)
    <3>1. \A o \in Requests : Keeps(owner[o], own[o])
      BY PrunedKeeps
    <3>2. own = [o \in Requests |-> own[o]]
      BY PrunedKeeps
    <3>. HIDE DEF own
    <3>. QED BY <3>1, <3>2, KeepsAll DEF IInv
  <2>3. req[r].phase = "idle" /\ UNCHANGED <<tombstones, down>>
    BY <1>1 DEF Receive
  <2>4. CASE Admit(r, record, own)
    <3>. HIDE DEF own
    <3>. QED BY <2>1, <2>2, <2>3, <2>4, AdmitIInv
  <2>5. CASE /\ owner' = own
             /\ req' = [req EXCEPT ![r] = record]
             /\ UNCHANGED <<items, gen, dirty>>
    <3>1. Sane(record)
      BY <2>1 DEF Asking, Sane
    <3>2. Handlers(req')
      BY <2>5, <3>1, HandlerMoves DEF IInv
    <3>3. r \notin RegisteredIn(items)
      BY <2>3, OwnersAssumption DEF IInv, Arrived, RegisteredIn
    <3>4. Arrived'
      BY <2>5, <3>3 DEF IInv, Arrived, Handlers, RegisteredIn, Accounted
    <3>. HIDE DEF own
    <3>. QED BY <2>2, <2>3, <2>5, <3>2, <3>4 DEF IInv, Memory
  <2>. QED BY <1>1, <2>4, <2>5 DEF Receive
<1>2. CASE AdmitAfterPrune(r)
  <2>1. Asking(req[r])
    BY <1>2 DEF AdmitAfterPrune, IInv, Handlers, Sane, Asking
  <2>. QED BY <1>2, <2>1, AdmitIInv DEF AdmitAfterPrune, IInv
<1>. QED BY <1>1, <1>2
----------------------------------------------------------------------------
(* The theorems *)

\* Every step keeps the invariant.
LEMMA NextIInv == IInv /\ [Next]_vars => IInv'
<1>. SUFFICES ASSUME IInv, [Next]_vars PROVE IInv'
  OBVIOUS
<1>1. CASE Clients
  <2>1. CASE \E r \in Requests, record \in Inputs, e \in Expired : Receive(r, record, e)
    BY <2>1, ArrivalIInv
  <2>2. CASE \E r \in Requests : Abandon(r)
    BY <2>2, WorkIInv
  <2>3. CASE \/ \E k \in Keys : CloseOwner(k)
             \/ \E lease \in Leases : CloseLease(lease)
    BY <2>3, ReleasesIInv
  <2>4. ASSUME NEW dead \in (SUBSET (Leases \cup (Keys \ LogicalKeys))) \ {{}},
               ProcessExits(dead)
        PROVE  IInv'
    <3>1. dead \in SUBSET (Leases \cup Keys)
      OBVIOUS
    <3>. QED BY <2>4, <3>1, ReleasesIInv
  <2>. QED BY <1>1, <2>1, <2>2, <2>3, <2>4 DEF Clients
<1>2. ASSUME NEW r \in Requests, Handler(r) PROVE IInv'
  BY <1>2, ArrivalIInv, WorkIInv, CleanupIInv DEF Handler
<1>3. ASSUME NEW r \in Requests, Generation(r) PROVE IInv'
  BY <1>3, GenerationIInv
<1>4. ASSUME NEW o \in Requests,
             RetireTask(o) \/ ReleaseTask(o) \/ CloseThread(o) \/ CloseTask(o)
      PROVE  IInv'
  BY <1>4, RetireTaskIInv, ReleaseTaskIInv, CloseIInv
<1>5. CASE Reaper \/ Shutdown
  BY <1>5, ReleasesIInv
<1>6. CASE Forget
  BY <1>6, ForgetIInv
<1>7. CASE UNCHANGED vars
  BY <1>7 DEF vars, IInv, Arrived, Memory
<1>. QED BY <1>1, <1>2, <1>3, <1>4, <1>5, <1>6, <1>7 DEF Next

\* Types, the accounting of every owner that may own processes, the sanity of
\* the handlers and the bound of the tombstones hold in every reachable state.
THEOREM OwnersInvariant == Spec => []IInv
  BY InitIInv, NextIInv, PTL DEF Spec

\* Every field keeps the values its dataclass gives it, and the tombstones of
\* _remember_failure never outgrow MAX_TOMBSTONES.
THEOREM OwnersTypeCorrect == Spec => []TypeOK
  BY OwnersInvariant, IInvImplies, PTL

\* An engine that may own native processes belongs to an owner that is still
\* registered and still counted: neither _retire nor _release_owner forgets an
\* owner, and nothing frees its slot, before its processes are proven gone.
THEOREM LiveAlwaysAccounted == Spec => []LiveIsAccounted
  BY OwnersInvariant, IInvImplies, PTL

\* Owners.admit never lets more than `limit` engines own native processes,
\* however many keys, hung closes, releases and retries there are.
THEOREM CapacityAlwaysBounded == Spec => []CapacityBound
  BY OwnersInvariant, IInvImplies, PTL
----------------------------------------------------------------------------
(* What the steps of an owner's tasks change *)

\* What a request, a lease or a result can tell of an owner.
Kept(w, v) ==
    /\ v.key = w.key /\ v.leases = w.leases /\ v.orphaned = w.orphaned
    /\ v.busy = w.busy /\ v.task = w.task
    /\ v.fingerprint = w.fingerprint /\ v.result = w.result
    /\ v.conversation = w.conversation
    /\ v.cleanup = w.cleanup /\ v.verdict = w.verdict

Change(o, v) == owner' = [owner EXCEPT ![o] = v] /\ owner'[o] = v

\* A close begins, and nothing else.
LEMMA ClosingKept ==
  ASSUME NEW w, Sound(w)
  PROVE  /\ Closing(w) \in OwnerRecord /\ Kept(w, Closing(w))
         /\ Closing(w).removal = w.removal /\ Closing(w).release = w.release
         /\ Closing(w).retire = w.retire
<1>1. Closing(w) \in OwnerRecord
  BY ClosingKeeps DEF Keeps, Sound
<1>. QED BY SMTT(30), <1>1 DEF Closing, Kept, OwnerRecord, Sound

\* The end of a retirement gives the owner back.
LEMMA RetireDoneFields ==
  ASSUME NEW w, Sound(w)
  PROVE  LET v == RetireDone(w) IN
         /\ v \in OwnerRecord
         /\ v.key = w.key /\ v.leases = w.leases /\ v.orphaned = w.orphaned
         /\ v.fingerprint = w.fingerprint /\ v.result = w.result
         /\ v.removal = w.removal /\ v.release = w.release /\ v.closeTask = w.closeTask
         /\ ~v.busy /\ v.task = None /\ v.retire = "done" /\ v.confirmed = w.confirmed
         /\ v.verdict = "uncertain"
<1>1. RetireDone(w) \in OwnerRecord
  BY RetireDoneKeeps DEF Keeps, Sound
<1>. QED BY SMTT(30), <1>1 DEF RetireDone, OwnerRecord, Sound

\* What is left of an owner that was forgotten.
LEMMA LeftFields ==
  ASSUME NEW w, Sound(w), NEW condition \in BOOLEAN
  PROVE  LET v == Left(condition, w) IN
         \/ v = w
         \/ /\ condition
            /\ v.key = w.key /\ v.fingerprint = w.fingerprint /\ v.result = None
            /\ v.retire = w.retire /\ v.cleanup = w.cleanup /\ v.release = "none"
            /\ ~v.busy /\ v.task = None /\ v.closeTask = "none" /\ v.verdict = "uncertain"
  BY SMTT(30) DEF Left, NewOwner, OwnerRecord, Sound

\* A success gives the owner back, or begins to close an ephemeral one.
LEMMA RetireSuccessFields ==
  ASSUME IInv, NEW o \in Requests, RetireSuccess(o)
  PROVE  LET w == owner[o]
             v == owner'[o]
         IN /\ w.retire = "new" /\ w.verdict = "success" /\ Change(o, v)
            /\ UNCHANGED <<items, req, gen>>
            /\ v.release = w.release
            /\ \/ Ephemeral(o) /\ Kept(w, v) /\ v.removal /\ v.retire = "closing"
               \/ /\ ~Ephemeral(o) /\ v.key = w.key /\ v.leases = w.leases
                  /\ v.orphaned = w.orphaned /\ v.removal = w.removal
                  /\ v.fingerprint = w.fingerprint /\ v.result = w.result
                  /\ ~v.busy /\ v.task = None /\ v.retire = "done"
<1>. DEFINE w == owner[o]
            u == Closing(w)
            v == IF Ephemeral(o) THEN [u EXCEPT !.removal = TRUE, !.retire = "closing"]
                                 ELSE RetireDone(w)
<1>0. Sound(w) /\ owner \in [Requests -> OwnerRecord]
  BY OwnersSound DEF IInv, Accounted
<1>1. owner' = [owner EXCEPT ![o] = v] /\ owner'[o] = v
  BY <1>0 DEF RetireSuccess
<1>2. CASE Ephemeral(o)
  <2>1. u \in OwnerRecord /\ Kept(w, u) /\ u.release = w.release
    BY <1>0, ClosingKept
  <2>2. v = [u EXCEPT !.removal = TRUE, !.retire = "closing"]
    BY <1>2
  <2>. HIDE DEF u, v
  <2>3. Kept(w, v) /\ v.removal /\ v.retire = "closing" /\ v.release = w.release
    BY SMTT(30), <2>1, <2>2 DEF Kept, OwnerRecord
  <2>. QED BY <1>1, <1>2, <2>3 DEF RetireSuccess, Change
<1>3. CASE ~Ephemeral(o)
  BY <1>0, <1>1, <1>3, RetireDoneFields DEF RetireSuccess, Change
<1>. QED BY <1>2, <1>3

\* A failure drops the result and cancels the generation.
LEMMA RetireFailureFields ==
  ASSUME IInv, NEW o \in Requests, RetireFailure(o)
  PROVE  LET w == owner[o]
             v == owner'[o]
         IN /\ w.retire = "new" /\ w.verdict # "success" /\ Change(o, v)
            /\ Cancel(w.task) /\ UNCHANGED <<items, req>>
            /\ v.key = w.key /\ v.leases = w.leases /\ v.orphaned = w.orphaned
            /\ v.removal = w.removal /\ v.release = w.release /\ v.closeTask = w.closeTask
            /\ v.busy = w.busy /\ v.task = w.task /\ v.fingerprint = w.fingerprint
            /\ v.result = None /\ v.retire = "gathering"
<1>. DEFINE w == owner[o]
            v == [w EXCEPT !.failed = TRUE, !.result = None,
                           !.replayable = w.verdict = "undelivered", !.retire = "gathering"]
<1>0. w \in OwnerRecord /\ owner \in [Requests -> OwnerRecord]
  BY DEF IInv, Accounted
<1>1. owner' = [owner EXCEPT ![o] = v] /\ owner'[o] = v
  BY <1>0 DEF RetireFailure
<1>2. /\ v.key = w.key /\ v.leases = w.leases /\ v.orphaned = w.orphaned
      /\ v.removal = w.removal /\ v.release = w.release /\ v.closeTask = w.closeTask
      /\ v.busy = w.busy /\ v.task = w.task /\ v.fingerprint = w.fingerprint
      /\ v.result = None /\ v.retire = "gathering"
  BY SMTT(30), <1>0 DEF OwnerRecord
<1>. HIDE DEF v
<1>. QED BY <1>1, <1>2 DEF RetireFailure, Change

\* After a failure the engine is closed.
LEMMA RetireCloseFields ==
  ASSUME IInv, NEW o \in Requests, RetireClose(o)
  PROVE  LET w == owner[o]
             v == owner'[o]
         IN /\ w.retire = "gathering" /\ Change(o, v) /\ Kept(w, v)
            /\ UNCHANGED <<items, req, gen>>
            /\ v.removal = w.removal /\ v.release = w.release /\ v.retire = "closing"
<1>. DEFINE w == owner[o]
            u == Closing(w)
            v == [u EXCEPT !.retire = "closing"]
<1>0. Sound(w) /\ owner \in [Requests -> OwnerRecord]
  BY OwnersSound DEF IInv, Accounted
<1>1. owner' = [owner EXCEPT ![o] = v] /\ owner'[o] = v
  BY <1>0 DEF RetireClose
<1>2. u \in OwnerRecord /\ Kept(w, u) /\ u.release = w.release /\ u.removal = w.removal
  BY <1>0, ClosingKept
<1>. HIDE DEF u
<1>3. /\ Kept(w, v) /\ v.removal = w.removal /\ v.retire = "closing"
      /\ v.release = w.release
  BY SMTT(30), <1>2 DEF Kept, OwnerRecord
<1>. HIDE DEF v
<1>. QED BY <1>1, <1>3 DEF RetireClose, Change

\* A retirement ends: the owner is free, or forgotten if it is ephemeral and gone.
LEMMA RetireEndsFields ==
  ASSUME IInv, NEW o \in Requests, RetireEnds(o)
  PROVE  LET w == owner[o]
             v == owner'[o]
         IN \E gone \in BOOLEAN :
            /\ w.retire = "closing" /\ Change(o, v) /\ PopIf(gone, o)
            /\ UNCHANGED <<req, gen>>
            /\ v.key = w.key /\ v.fingerprint = w.fingerprint
            /\ ~v.busy /\ v.task = None /\ v.retire = "done"
            /\ v.result \in {None, w.result}
            /\ \/ /\ v.leases = w.leases /\ v.orphaned = w.orphaned /\ v.release = w.release
                  /\ v.removal = (w.removal \/ Ephemeral(o))
               \/ gone /\ v.release = "none"
<1>. DEFINE w == owner[o]
            u == RetireDone(w)
            gone == Ephemeral(o) /\ u.confirmed
            t == [u EXCEPT !.removal = u.removal \/ Ephemeral(o)]
            v == Left(gone, t)
<1>0. Sound(w) /\ owner \in [Requests -> OwnerRecord]
  BY OwnersSound DEF IInv, Accounted
<1>1. /\ owner' = [owner EXCEPT ![o] = v] /\ owner'[o] = v /\ PopIf(gone, o)
      /\ w.retire = "closing" /\ UNCHANGED <<req, gen>>
  BY <1>0 DEF RetireEnds
<1>2. /\ Sound(u) /\ u \in OwnerRecord
      /\ u.key = w.key /\ u.leases = w.leases /\ u.orphaned = w.orphaned
      /\ u.fingerprint = w.fingerprint /\ u.result = w.result
      /\ u.removal = w.removal /\ u.release = w.release
      /\ ~u.busy /\ u.task = None /\ u.retire = "done"
  BY <1>0, RetireDoneFields, RetireDoneKeeps DEF Keeps
<1>3. gone \in BOOLEAN
  BY <1>2 DEF OwnerRecord, Ephemeral
<1>. HIDE DEF u
<1>4. /\ Sound(t)
      /\ t.key = w.key /\ t.leases = w.leases /\ t.orphaned = w.orphaned
      /\ t.fingerprint = w.fingerprint /\ t.result = w.result
      /\ t.removal = (w.removal \/ Ephemeral(o)) /\ t.release = w.release
      /\ ~t.busy /\ t.task = None /\ t.retire = "done"
  <2>1. Sound(t)
    <3>1. u.removal \/ Ephemeral(o) \in BOOLEAN
      BY <1>2 DEF Ephemeral
    <3>. QED BY <1>2, <3>1, KeepsRemoval DEF Keeps, Ephemeral
  <2>2. t.removal = (w.removal \/ Ephemeral(o))
    BY <1>2 DEF OwnerRecord
  <2>3. /\ t.key = u.key /\ t.leases = u.leases /\ t.orphaned = u.orphaned
        /\ t.fingerprint = u.fingerprint /\ t.result = u.result
        /\ t.release = u.release /\ t.busy = u.busy /\ t.task = u.task /\ t.retire = u.retire
    BY SMTT(30), <1>2 DEF OwnerRecord
  <2>. QED BY <1>2, <2>1, <2>2, <2>3
<1>. HIDE DEF t, gone
<1>5. \/ v = t
      \/ /\ gone
         /\ v.key = t.key /\ v.fingerprint = t.fingerprint /\ v.result = None
         /\ v.retire = t.retire /\ v.release = "none" /\ ~v.busy /\ v.task = None
  BY <1>3, <1>4, LeftFields
<1>. HIDE DEF v
<1>. QED BY <1>1, <1>3, <1>4, <1>5 DEF Change
\* A release begins to wait for the retirement.
LEMMA ReleaseStartsFields ==
  ASSUME IInv, NEW o \in Requests, ReleaseStarts(o)
  PROVE  LET w == owner[o]
             v == owner'[o]
         IN /\ w.release = "new" /\ Change(o, v) /\ Kept(w, v)
            /\ UNCHANGED <<items, req, gen>>
            /\ v.removal = w.removal /\ v.release = "retiring" /\ v.retire = w.retire
            /\ v.closeTask = w.closeTask
<1>. DEFINE w == owner[o]
            lost == w.busy /\ w.result = None
            v == [w EXCEPT !.failed = w.failed \/ lost, !.release = "retiring"]
<1>0. w \in OwnerRecord /\ owner \in [Requests -> OwnerRecord]
  BY DEF IInv, Accounted
<1>1. owner' = [owner EXCEPT ![o] = v] /\ owner'[o] = v
  BY <1>0 DEF ReleaseStarts
<1>2. /\ Kept(w, v) /\ v.removal = w.removal /\ v.release = "retiring"
      /\ v.retire = w.retire /\ v.closeTask = w.closeTask
  BY SMTT(30), <1>0 DEF Kept, OwnerRecord
<1>. HIDE DEF v
<1>. QED BY <1>1, <1>2 DEF ReleaseStarts, Change

\* A release cancels the generation, and closes at once if there is none.
LEMMA ReleaseCancelsFields ==
  ASSUME IInv, NEW o \in Requests, ReleaseCancels(o)
  PROVE  LET w == owner[o]
             v == owner'[o]
         IN /\ w.release = "retiring" /\ w.retire \in {"none", "done"}
            /\ Change(o, v) /\ Kept(w, v) /\ Cancel(w.task)
            /\ UNCHANGED <<items, req>>
            /\ v.removal = w.removal /\ v.release \in {"gathering", "closing"}
            /\ v.retire = w.retire
<1>. DEFINE w == owner[o]
            u == Closing(w)
            v == IF w.task = None THEN [u EXCEPT !.release = "closing"]
                                  ELSE [w EXCEPT !.release = "gathering"]
<1>0. Sound(w) /\ w \in OwnerRecord /\ owner \in [Requests -> OwnerRecord]
  BY OwnersSound DEF IInv, Accounted
<1>1. owner' = [owner EXCEPT ![o] = v] /\ owner'[o] = v
  BY <1>0 DEF ReleaseCancels
<1>2. u \in OwnerRecord /\ Kept(w, u) /\ u.removal = w.removal /\ u.retire = w.retire
  BY <1>0, ClosingKept
<1>. HIDE DEF u
<1>3. /\ Kept(w, v) /\ v.removal = w.removal /\ v.release \in {"gathering", "closing"}
      /\ v.retire = w.retire
  <2>1. CASE w.task = None
    BY SMTT(30), <2>1, <1>2 DEF Kept, OwnerRecord
  <2>2. CASE w.task # None
    BY SMTT(30), <2>2, <1>0 DEF Kept, OwnerRecord
  <2>. QED BY <2>1, <2>2
<1>. HIDE DEF v
<1>. QED BY <1>1, <1>3 DEF ReleaseCancels, Change

\* A release closes the engine of the generation it cancelled.
LEMMA ReleaseClosesFields ==
  ASSUME IInv, NEW o \in Requests, ReleaseCloses(o)
  PROVE  LET w == owner[o]
             v == owner'[o]
         IN /\ w.release = "gathering" /\ Change(o, v) /\ Kept(w, v)
            /\ UNCHANGED <<items, req, gen>>
            /\ v.removal = w.removal /\ v.release = "closing" /\ v.retire = w.retire
<1>. DEFINE w == owner[o]
            u == Closing(w)
            v == [u EXCEPT !.release = "closing"]
<1>0. Sound(w) /\ owner \in [Requests -> OwnerRecord]
  BY OwnersSound DEF IInv, Accounted
<1>1. owner' = [owner EXCEPT ![o] = v] /\ owner'[o] = v
  BY <1>0 DEF ReleaseCloses
<1>2. u \in OwnerRecord /\ Kept(w, u) /\ u.retire = w.retire /\ u.removal = w.removal
  BY <1>0, ClosingKept
<1>. HIDE DEF u
<1>3. Kept(w, v) /\ v.removal = w.removal /\ v.release = "closing" /\ v.retire = w.retire
  BY SMTT(30), <1>2 DEF Kept, OwnerRecord
<1>. HIDE DEF v
<1>. QED BY <1>1, <1>3 DEF ReleaseCloses, Change

\* A release ends: the owner stays as it is, or is forgotten.
LEMMA ReleaseEndsFields ==
  ASSUME IInv, NEW o \in Requests, ReleaseEnds(o)
  PROVE  LET w == owner[o]
             v == owner'[o]
         IN \E gone \in BOOLEAN :
            /\ w.release = "closing" /\ Change(o, v) /\ PopIf(gone, o)
            /\ UNCHANGED <<req, gen>>
            /\ \/ /\ Kept(w, v) /\ v.removal = w.removal /\ v.release = "done"
                  /\ v.retire = w.retire
               \/ /\ gone
                  /\ v.key = w.key /\ v.fingerprint = w.fingerprint /\ v.result = None
                  /\ v.retire = w.retire /\ v.cleanup = w.cleanup /\ v.release = "none"
                  /\ ~v.busy /\ v.task = None /\ v.verdict = "uncertain"
<1>. DEFINE w == owner[o]
            t == [w EXCEPT !.release = "done"]
            v == Left(w.confirmed, t)
<1>0. Sound(w) /\ w \in OwnerRecord /\ owner \in [Requests -> OwnerRecord]
  BY OwnersSound DEF IInv, Accounted
<1>1. owner' = [owner EXCEPT ![o] = v] /\ owner'[o] = v
  BY <1>0 DEF ReleaseEnds
<1>2. /\ Kept(w, t) /\ t.removal = w.removal /\ t.release = "done" /\ t.retire = w.retire
      /\ Sound(t)
  BY SMTT(30), <1>0 DEF Kept, OwnerRecord, Sound
<1>. HIDE DEF t
<1>3. \/ v = t
      \/ /\ w.confirmed
         /\ v.key = t.key /\ v.fingerprint = t.fingerprint /\ v.result = None
         /\ v.retire = t.retire /\ v.cleanup = t.cleanup /\ v.release = "none"
         /\ ~v.busy /\ v.task = None /\ v.verdict = "uncertain"
  <2>1. w.confirmed \in BOOLEAN
    BY <1>0 DEF OwnerRecord
  <2>. QED BY <1>2, <2>1, LeftFields
<1>. HIDE DEF v
<1>4. w.confirmed \in BOOLEAN /\ PopIf(w.confirmed, o)
  BY <1>0 DEF OwnerRecord, ReleaseEnds
<1>. QED BY <1>1, <1>2, <1>3, <1>4 DEF ReleaseEnds, Change, Kept

\* A close keeps all that requests and tasks can tell of an owner.
LEMMA CloseFields ==
  ASSUME IInv, NEW o \in Requests, CloseThread(o) \/ CloseTask(o)
  PROVE  LET w == owner[o]
             v == owner'[o]
         IN /\ Change(o, v) /\ Kept(w, v)
            /\ UNCHANGED <<items, req, gen>>
            /\ v.removal = w.removal /\ v.release = w.release /\ v.retire = w.retire
            /\ w.closeTask # "none"
<1>. DEFINE w == owner[o]
            Goal(v) == /\ Kept(w, v)
                       /\ v.removal = w.removal /\ v.release = w.release
                       /\ v.retire = w.retire
<1>0. w \in OwnerRecord /\ owner \in [Requests -> OwnerRecord]
  BY DEF IInv, Accounted
<1>1. ASSUME NEW v, Goal(v), owner' = [owner EXCEPT ![o] = v],
             UNCHANGED <<items, req, gen>>, w.closeTask # "none"
      PROVE  /\ Change(o, owner'[o]) /\ Goal(owner'[o])
             /\ UNCHANGED <<items, req, gen>> /\ w.closeTask # "none"
  <2>1. owner'[o] = v
    BY <1>0, <1>1
  <2>. HIDE DEF Goal
  <2>. QED BY <1>1, <2>1 DEF Change
<1>2. CASE EngineDies(o)
  <2>1. Goal([w EXCEPT !.live = FALSE])
    BY SMTT(30), <1>0 DEF Kept, OwnerRecord
  <2>. QED BY <1>1, <1>2, <2>1 DEF EngineDies
<1>3. ASSUME NEW how \in {"yes", "raised"}, CloseReturns(o, how)
      PROVE  /\ Change(o, owner'[o]) /\ Goal(owner'[o])
             /\ UNCHANGED <<items, req, gen>> /\ w.closeTask # "none"
  <2>1. Goal([w EXCEPT !.returned = how])
    BY SMTT(30), <1>0 DEF Kept, OwnerRecord
  <2>. QED BY <1>1, <1>3, <2>1 DEF CloseReturns
<1>4. CASE CloseWatches(o)
  <2>1. Goal([w EXCEPT !.capacityReleased = TRUE])
    BY SMTT(30), <1>0 DEF Kept, OwnerRecord
  <2>. QED BY <1>1, <1>4, <2>1 DEF CloseWatches
<1>5. CASE CloseConfirms(o)
  <2>1. Goal([w EXCEPT !.closeTask = "done", !.confirmed = TRUE,
                       !.engine = FALSE, !.capacityReleased = TRUE])
    BY SMTT(30), <1>0 DEF Kept, OwnerRecord
  <2>. QED BY <1>1, <1>5, <2>1 DEF CloseConfirms
<1>6. CASE CloseGivesUp(o)
  <2>1. Goal([w EXCEPT !.closeTask = "done"])
    BY SMTT(30), <1>0 DEF Kept, OwnerRecord
  <2>. QED BY <1>1, <1>6, <2>1 DEF CloseGivesUp
<1>. QED BY <1>2, <1>3, <1>4, <1>5, <1>6 DEF CloseThread, CloseTask
----------------------------------------------------------------------------
(* What everybody else may do to an owner at any time *)

\* Nobody references this owner, and nobody releases it.
Loose(w) == w.key \in LogicalKeys /\ w.leases = {} /\ ~w.removal /\ ~w.orphaned

\* A step that neither uses the owner nor works on its retirement: it may begin its
\* release and change who references it.
Quiet(w, v) ==
    /\ v.key = w.key /\ v.task = w.task /\ v.fingerprint = w.fingerprint
    /\ v.conversation = w.conversation
    /\ v.result = w.result /\ v.retire = w.retire /\ v.cleanup = w.cleanup
    /\ v.verdict = w.verdict /\ v.closeTask = w.closeTask
    /\ w.busy => v.busy
    /\ w.removal => v.removal
    /\ \/ v.release = w.release
       \/ w.release = "none" /\ v.release = "new" /\ v.removal
    /\ Loose(v) => Loose(w)

\* A release begins.
LEMMA ReleasedQuiet ==
  ASSUME NEW w, w \in OwnerRecord
  PROVE  Quiet(w, Released(w)) /\ ~Loose(Released(w))
  BY SMTT(30) DEF Released, OwnerRecord, Quiet, Loose

\* An owner that does not change.
LEMMA QuietSame == ASSUME NEW w, w \in OwnerRecord PROVE Quiet(w, w)
  BY DEF Quiet, OwnerRecord

\* All that requests and tasks can tell of an owner is the same.
Likewise(w, v) ==
    /\ v.key = w.key /\ v.task = w.task /\ v.fingerprint = w.fingerprint
    /\ v.conversation = w.conversation
    /\ v.result = w.result /\ v.retire = w.retire /\ v.cleanup = w.cleanup
    /\ v.verdict = w.verdict /\ v.closeTask = w.closeTask
    /\ v.busy = w.busy /\ v.removal = w.removal /\ v.release = w.release

\* Other references, and perhaps a release.
LEMMA LikewiseQuiet ==
  ASSUME NEW w, w \in OwnerRecord, NEW v, v \in OwnerRecord, Likewise(w, v)
  PROVE  /\ (Loose(v) => Loose(w)) => Quiet(w, v)
         /\ Quiet(w, Released(v))
<1>1. (Loose(v) => Loose(w)) => Quiet(w, v)
  BY DEF Likewise, Quiet
<1>2. Quiet(v, Released(v)) /\ ~Loose(Released(v))
  BY ReleasedQuiet
<1>. QED BY <1>1, <1>2 DEF Likewise, Quiet

\* The wrappers that reference an owner, and the mark that they are gone.
LEMMA LeasesLikewise ==
  ASSUME NEW w, w \in OwnerRecord, NEW x \in SUBSET Leases
  PROVE  LET v == [w EXCEPT !.leases = x] IN
         v \in OwnerRecord /\ Likewise(w, v) /\ v.leases = x /\ v.orphaned = w.orphaned
  BY SMTT(30) DEF OwnerRecord, Likewise

\* The mark that the wrappers of an owner are gone.
LEMMA OrphanedLikewise ==
  ASSUME NEW w, w \in OwnerRecord, NEW y \in BOOLEAN
  PROVE  LET v == [w EXCEPT !.orphaned = y] IN
         v \in OwnerRecord /\ Likewise(w, v) /\ v.leases = w.leases /\ v.orphaned = y
  BY SMTT(30) DEF OwnerRecord, Likewise

\* prune releases idle owners nobody references, and forgets the mark of those that
\* somebody does.
LEMMA PrunedQuiet ==
  ASSUME IInv, NEW e
  PROVE  \A o \in Requests : Quiet(owner[o], Pruned(e)[o])
<1>. SUFFICES ASSUME NEW o \in Requests
              PROVE  Quiet(owner[o], Pruned(e)[o])
  OBVIOUS
<1>. DEFINE w == owner[o]
            y == w.orphaned /\ w.leases = {}
            v == [w EXCEPT !.orphaned = y]
<1>1. w \in OwnerRecord
  BY DEF IInv, Accounted
<1>2. Pruned(e)[o] = IF o \notin Registered \/ ~Idle(w) THEN w
                     ELSE IF v.orphaned \/ o \in e THEN Released(v) ELSE v
  BY DEF Pruned
<1>3. y \in BOOLEAN
  BY <1>1 DEF OwnerRecord
<1>4. v \in OwnerRecord /\ Likewise(w, v) /\ v.leases = w.leases /\ v.orphaned = y
  <2>. HIDE DEF y
  <2>. QED BY <1>1, <1>3, OrphanedLikewise
<1>. HIDE DEF v
<1>5. (Loose(v) => Loose(w)) => Quiet(w, v)
  BY <1>1, <1>4, LikewiseQuiet
<1>6. Quiet(w, Released(v))
  BY <1>1, <1>4, LikewiseQuiet
<1>7. Loose(v) => Loose(w)
  BY <1>4, <1>1 DEF Loose, Likewise, OwnerRecord
<1>. QED BY <1>1, <1>2, <1>5, <1>6, <1>7, QuietSame

\* Whoever closes an owner or a lease, exits, or shuts the service down.
LEMMA ReleasesQuiet ==
  ASSUME IInv,
         \/ \E k \in Keys : CloseOwner(k)
         \/ \E lease \in Leases : CloseLease(lease)
         \/ \E dead \in SUBSET (Leases \cup Keys) : ProcessExits(dead)
         \/ Reaper \/ Shutdown
  PROVE  /\ UNCHANGED <<items, req, gen, dirty, tombstones>>
         /\ \A o \in Requests : Quiet(owner[o], owner'[o])
<1>0. /\ \A o \in Requests : owner[o] \in OwnerRecord
      /\ owner \in [Requests -> OwnerRecord] /\ items \in [Keys -> Requests \cup {None}]
  BY DEF IInv, Accounted
<1>1. ASSUME NEW k \in Keys, CloseOwner(k)
      PROVE  \A o \in Requests : Quiet(owner[o], owner'[o])
  <2>1. items[k] \in Requests /\ owner' = [owner EXCEPT ![items[k]] = Released(owner[items[k]])]
    BY <1>0, <1>1 DEF CloseOwner
  <2>. QED BY <1>0, <2>1, ReleasedQuiet, QuietSame
<1>2. ASSUME NEW lease \in Leases, CloseLease(lease), NEW o \in Requests
      PROVE  Quiet(owner[o], owner'[o])
  <2>. DEFINE w == owner[o]
              x == w.leases \ {lease}
              v == [w EXCEPT !.leases = x]
  <2>1. owner'[o] = IF o \notin Registered \/ lease \notin w.leases THEN w
                    ELSE IF v.leases = {} /\ ~v.removal THEN Released(v) ELSE v
    BY <1>2 DEF CloseLease
  <2>2. x \in SUBSET Leases
    BY <1>0 DEF OwnerRecord
  <2>3. v \in OwnerRecord /\ Likewise(w, v)
    <3>. HIDE DEF x
    <3>. QED BY <1>0, <2>2, LeasesLikewise
  <2>. HIDE DEF v
  <2>4. ((Loose(v) => Loose(w)) => Quiet(w, v)) /\ Quiet(w, Released(v))
    BY <1>0, <2>3, LikewiseQuiet
  <2>. QED BY <1>0, <2>1, <2>4, QuietSame DEF Loose
<1>3. ASSUME NEW dead \in SUBSET (Leases \cup Keys), ProcessExits(dead), NEW o \in Requests
      PROVE  Quiet(owner[o], owner'[o])
  <2>. DEFINE w == owner[o]
              x == IF w.key \in dead THEN {} ELSE w.leases \ dead
              v == [w EXCEPT !.leases = x]
              u == [v EXCEPT !.orphaned = TRUE]
  <2>1. \/ owner'[o] = w
        \/ v.leases # {} /\ owner'[o] = v
        \/ owner'[o] = u
        \/ owner'[o] = Released(v)
    <3>. DEFINE hit == /\ o \in Registered
                       /\ ~w.removal
                       /\ w.key \in dead \/ w.leases \cap dead # {}
    <3>1. owner'[o] = IF ~hit THEN w
                      ELSE IF v.leases # {} THEN v
                      ELSE IF v.busy THEN u
                      ELSE Released(v)
      BY <1>3 DEF ProcessExits
    <3>. HIDE DEF v, u, hit
    <3>. QED BY <3>1
  <2>2. x \in SUBSET Leases
    BY <1>0 DEF OwnerRecord
  <2>3. v \in OwnerRecord /\ Likewise(w, v)
    <3>. HIDE DEF x
    <3>. QED BY <1>0, <2>2, LeasesLikewise
  <2>. HIDE DEF v
  <2>4. u \in OwnerRecord /\ Likewise(v, u) /\ u.orphaned
    BY <2>3, OrphanedLikewise
  <2>. HIDE DEF u
  <2>5. /\ (Loose(v) => Loose(w)) => Quiet(w, v)
        /\ Quiet(w, Released(v))
        /\ (Loose(u) => Loose(w)) => Quiet(w, u)
    <3>1. Likewise(w, u)
      BY <2>3, <2>4 DEF Likewise
    <3>. QED BY <1>0, <2>3, <2>4, <3>1, LikewiseQuiet
  <2>. QED BY <1>0, <2>1, <2>4, <2>5, QuietSame DEF Loose
<1>4. CASE Reaper
  <2>1. PICK e \in Expired : Reap(e)
    BY <1>4 DEF Reaper
  <2>. QED BY <2>1, PrunedQuiet DEF Reap
<1>5. CASE Shutdown
  BY <1>0, <1>5, ReleasedQuiet, QuietSame DEF Shutdown
<1>. QED BY <1>1, <1>2, <1>3, <1>4, <1>5 DEF CloseOwner, CloseLease, ProcessExits, Reaper, Reap,
     Shutdown
----------------------------------------------------------------------------
(* What an admission changes *)

\* Owners as they are when the leases of a request are recorded; nothing else changes.
Lends(own, new, record) ==
    /\ new \in [Requests -> OwnerRecord]
    /\ \A o \in Requests :
         /\ Likewise(own[o], new[o])
         /\ new[o].orphaned = own[o].orphaned
         /\ new[o].leases \in {own[o].leases, own[o].leases \cup record.leases}

\* The generation of r begins on an owner that was w: every flag is reset.
Begins(w, v, fingerprint, conversation, r) ==
    /\ v.key = w.key /\ v.leases = w.leases /\ v.orphaned = w.orphaned
    /\ v.removal = w.removal /\ v.release = w.release /\ v.verdict = w.verdict
    /\ v.busy /\ v.task = r /\ v.fingerprint = fingerprint /\ v.result = None
    /\ v.conversation = conversation
    /\ v.retire = "none" /\ v.cleanup = "none" /\ v.closeTask = "none"

\* A restart resets every flag.
LEMMA RestartedBegins ==
  ASSUME NEW w, w \in OwnerRecord, NEW fingerprint, NEW conversation, NEW r
  PROVE  Begins(w, [Restarted(w, fingerprint, conversation) EXCEPT !.task = r],
                fingerprint, conversation, r)
  BY SMTT(30) DEF Restarted, OwnerRecord, Begins

\* The handler is answered at once.
Answered(r, new) ==
    /\ owner' = new /\ req' = [req EXCEPT ![r] = Handled("done")]
    /\ UNCHANGED <<items, gen, dirty>>

\* A finished result is replayed, as a stream if the request wants one.
Replays(r, record, own, new) ==
    LET o == items[record.key] IN
    /\ o \in Requests /\ ~Engaged(own[o])
    /\ new[o].leases = own[o].leases \cup record.leases
    /\ own[o].fingerprint = <<record.content, record.stream>> /\ own[o].result # None
    /\ owner' \in [Requests -> OwnerRecord]
    /\ \A p \in Requests \ {o} : owner'[p] = new[p]
    /\ LET v == owner'[o] IN
         /\ v.key = new[o].key /\ v.leases = new[o].leases /\ v.orphaned = new[o].orphaned
         /\ v.removal = new[o].removal /\ v.release = new[o].release
         /\ v.busy = record.stream /\ v.task = new[o].task
         /\ v.fingerprint = new[o].fingerprint /\ v.result = new[o].result
         /\ v.retire = "none" /\ v.cleanup = "none" /\ v.closeTask = new[o].closeTask
    /\ req' = [req EXCEPT ![r] =
          IF record.stream
          THEN [record EXCEPT !.phase = "running", !.own = o, !.cached = TRUE]
          ELSE Handled("done")]
    /\ UNCHANGED <<items, gen, dirty>>

\* The generation of r starts on the owner id, which was w.
Begun(r, record, own, new, id, w) ==
    /\ owner' \in [Requests -> OwnerRecord]
    /\ \A p \in Requests \ {id} : owner'[p] = new[p]
    /\ Begins(w, owner'[id], <<record.content, record.stream>>, record.conversation, r)
    /\ req' = [req EXCEPT ![r] = [record EXCEPT !.phase = "running", !.own = id]]
    /\ gen' = [gen EXCEPT ![r] = "running"]

Restarts(r, record, own, new) ==
    LET o == items[record.key] IN
    /\ o \in Requests /\ ~Engaged(own[o]) /\ UNCHANGED items
    /\ new[o].leases = own[o].leases \cup record.leases
    /\ Begun(r, record, own, new, o, new[o])

Starts(r, record, own, new) ==
    /\ items[record.key] = None
    /\ items' = [items EXCEPT ![record.key] = r]
    /\ Begun(r, record, own, new, r, [NewOwner(record.key) EXCEPT !.leases = record.leases])

\* admit() refuses, replays, or starts a generation on an owner that is free or new.
LEMMA AdmitCases ==
  ASSUME IInv, NEW r \in Requests, req[r].phase \in {"idle", "pruning"},
         NEW record, Asking(record),
         NEW own, Accounted(items, own), Admit(r, record, own)
  PROVE  \E new \in [Requests -> OwnerRecord] :
            /\ Lends(own, new, record)
            /\ \/ Answered(r, new)
               \/ Replays(r, record, own, new)
               \/ Restarts(r, record, own, new)
               \/ Starts(r, record, own, new)
<1>. DEFINE k == record.key
            o == items[k]
            fingerprint == <<record.content, record.stream>>
            x == own[o].leases \cup record.leases
            lent == [own[o] EXCEPT !.leases = x]
            touched == [own EXCEPT ![o] = lent]
            Outcome == \E new \in [Requests -> OwnerRecord] :
                          /\ Lends(own, new, record)
                          /\ \/ Answered(r, new)
                             \/ Replays(r, record, own, new)
                             \/ Restarts(r, record, own, new)
                             \/ Starts(r, record, own, new)
<1>0. /\ k \in Keys /\ record \in RequestRecord /\ record.leases \in SUBSET Leases
      /\ record.stream \in BOOLEAN /\ fingerprint \in Fingerprint
      /\ record.conversation \in LogicalKeys \cup {None}
      /\ own \in [Requests -> OwnerRecord] /\ o \in Requests \cup {None}
      /\ \A p \in Requests : Sound(own[p])
  BY DEF Asking, RequestRecord, Fingerprint, Accounted
<1>1. Lends(own, own, record)
  BY <1>0 DEF Lends, Likewise
<1>2. ASSUME o # None
      PROVE  /\ o \in Requests /\ lent \in OwnerRecord /\ Likewise(own[o], lent)
             /\ lent.leases = x /\ lent.orphaned = own[o].orphaned
             /\ touched \in [Requests -> OwnerRecord] /\ touched[o] = lent
             /\ Lends(own, touched, record)
  <2>1. o \in Requests /\ own[o] \in OwnerRecord /\ x \in SUBSET Leases
    BY <1>0, <1>2 DEF OwnerRecord
  <2>. HIDE DEF o, x
  <2>2. /\ lent \in OwnerRecord /\ Likewise(own[o], lent)
        /\ lent.leases = x /\ lent.orphaned = own[o].orphaned
    BY <2>1, LeasesLikewise
  <2>. HIDE DEF lent
  <2>3. touched \in [Requests -> OwnerRecord] /\ touched[o] = lent
    BY <1>0, <2>1, <2>2
  <2>4. \A p \in Requests : p # o => touched[p] = own[p]
    BY <1>0, <2>1
  <2>5. Lends(own, touched, record)
    <3>. HIDE DEF touched
    <3>1. \A p \in Requests : Likewise(own[p], own[p])
      BY DEF Likewise
    <3>. QED BY <2>1, <2>2, <2>3, <2>4, <3>1 DEF Lends, x
  <2>. QED BY <2>1, <2>2, <2>3, <2>5
<1>3. CASE Refuse(r, own)
  BY <1>0, <1>1, <1>3 DEF Refuse, Answered
<1>4. CASE o # None /\ Refuse(r, touched)
  <2>. HIDE DEF touched
  <2>. QED BY <1>2, <1>4 DEF Refuse, Answered
<1>5. ASSUME NEW id \in Requests, NEW w, Sound(w),
             NEW new \in [Requests -> OwnerRecord], Lends(own, new, record),
             owner' = [new EXCEPT ![id] =
                [Restarted(w, fingerprint, record.conversation) EXCEPT !.task = r]],
             req' = [req EXCEPT ![r] = [record EXCEPT !.phase = "running", !.own = id]],
             gen' = [gen EXCEPT ![r] = "running"]
      PROVE  Begun(r, record, own, new, id, w)
  <2>. DEFINE v == [Restarted(w, fingerprint, record.conversation) EXCEPT !.task = r]
  <2>1. v \in OwnerRecord
    BY <1>0, <1>5, RestartedSound DEF Sound
  <2>2. Begins(w, v, fingerprint, record.conversation, r)
    BY <1>5, RestartedBegins DEF Sound
  <2>. HIDE DEF v, fingerprint
  <2>3. owner' \in [Requests -> OwnerRecord] /\ owner'[id] = v
    BY <1>5, <2>1 DEF v
  <2>4. \A p \in Requests \ {id} : owner'[p] = new[p]
    BY <1>5
  <2>. QED BY <1>5, <2>2, <2>3, <2>4 DEF Begun, fingerprint
<1>6. CASE /\ o = None
           /\ owner' = [own EXCEPT ![r] =
                [Restarted([NewOwner(k) EXCEPT !.leases = record.leases],
                           fingerprint, record.conversation) EXCEPT !.task = r]]
           /\ req' = [req EXCEPT ![r] = [record EXCEPT !.phase = "running", !.own = r]]
           /\ gen' = [gen EXCEPT ![r] = "running"]
           /\ items' = [items EXCEPT ![k] = r]
  <2>. DEFINE w == [NewOwner(k) EXCEPT !.leases = record.leases]
  <2>1. Sound(w)
    <3>. HIDE DEF k
    <3>. QED BY <1>0, NewOwnerSound, KeepsLeases DEF Keeps
  <2>2. Begun(r, record, own, own, r, w)
    <3>. HIDE DEF w, fingerprint
    <3>. QED BY <1>0, <1>1, <1>5, <1>6, <2>1 DEF w
  <2>. QED BY <1>0, <1>1, <1>6, <2>2 DEF Starts
<1>7. CASE /\ o # None /\ ~Engaged(own[o])
           /\ owner' = [touched EXCEPT ![o] =
                [Restarted(touched[o], fingerprint, record.conversation) EXCEPT !.task = r]]
           /\ req' = [req EXCEPT ![r] = [record EXCEPT !.phase = "running", !.own = o]]
           /\ gen' = [gen EXCEPT ![r] = "running"]
           /\ UNCHANGED items
  <2>1. Sound(touched[o])
    <3>1. o \in Requests /\ own[o].leases \cup record.leases \in SUBSET Leases
      BY <1>0, <1>2, <1>7 DEF OwnerRecord
    <3>2. Sound(lent)
      <4>. HIDE DEF o
      <4>. QED BY <1>0, <3>1, KeepsLeases DEF Keeps
    <3>. QED BY <1>2, <1>7, <3>2
  <2>2. Begun(r, record, own, touched, o, touched[o])
    <3>. HIDE DEF touched, fingerprint, o
    <3>. QED BY <1>2, <1>5, <1>7, <2>1
  <2>. HIDE DEF touched
  <2>. QED BY <1>2, <1>7, <2>2 DEF Restarts
<1>8. CASE /\ o # None /\ ~Engaged(own[o])
           /\ own[o].fingerprint = fingerprint /\ own[o].result # None
           /\ owner' = [touched EXCEPT ![o].retire = "none", ![o].cleanup = "none",
                                       ![o].busy = record.stream]
           /\ req' = [req EXCEPT ![r] =
                 IF record.stream
                 THEN [record EXCEPT !.phase = "running", !.own = o, !.cached = TRUE]
                 ELSE Handled("done")]
           /\ UNCHANGED <<items, gen, dirty>>
  <2>. DEFINE s == record.stream
              v == [lent EXCEPT !.retire = "none", !.cleanup = "none", !.busy = s]
  <2>1. /\ v \in OwnerRecord
        /\ v.key = lent.key /\ v.leases = lent.leases /\ v.orphaned = lent.orphaned
        /\ v.removal = lent.removal /\ v.release = lent.release
        /\ v.busy = s /\ v.task = lent.task
        /\ v.fingerprint = lent.fingerprint /\ v.result = lent.result
        /\ v.retire = "none" /\ v.cleanup = "none" /\ v.closeTask = lent.closeTask
    <3>1. lent \in OwnerRecord /\ s \in BOOLEAN
      BY <1>0, <1>2, <1>8
    <3>. HIDE DEF lent, s
    <3>2. v \in OwnerRecord
      BY ZenonT(60), <3>1 DEF OwnerRecord
    <3>. QED BY SMTT(30), <3>1, <3>2 DEF OwnerRecord
  <2>2. owner' = [touched EXCEPT ![o] = v]
    BY <1>2, <1>8
  <2>3. /\ o \in Requests /\ touched \in [Requests -> OwnerRecord] /\ touched[o] = lent
        /\ lent.leases = x
    BY <1>2, <1>8
  <2>. HIDE DEF v, touched, lent
  <2>4. /\ owner' \in [Requests -> OwnerRecord] /\ owner'[o] = v
        /\ \A p \in Requests \ {o} : owner'[p] = touched[p]
    BY <2>1, <2>2, <2>3
  <2>5. Replays(r, record, own, touched)
    BY <1>8, <2>1, <2>3, <2>4 DEF Replays
  <2>. QED BY <1>2, <1>8, <2>5
<1>9. Outcome
  BY <1>3, <1>4, <1>6, <1>7, <1>8, Zenon DEF Admit
<1>. QED BY <1>9
----------------------------------------------------------------------------
(* What the handler of a request changes *)

\* All but the result and the retirement.
Steady(w, v) ==
    /\ v.key = w.key /\ v.leases = w.leases /\ v.orphaned = w.orphaned
    /\ v.removal = w.removal /\ v.release = w.release /\ v.closeTask = w.closeTask
    /\ v.busy = w.busy /\ v.task = w.task /\ v.fingerprint = w.fingerprint
    /\ v.conversation = w.conversation

\* Only the first cleanup of a generation retires it.
Retires(w, v, verdict) ==
    \/ /\ w.cleanup = "none"
       /\ v.retire = "new" /\ v.cleanup = "started" /\ v.verdict = verdict
    \/ v.retire = w.retire /\ v.cleanup = w.cleanup /\ v.verdict = w.verdict

\* finish retires a generation once.
LEMMA FinishingFields ==
  ASSUME NEW w, w \in OwnerRecord, NEW verdict
  PROVE  LET v == Finishing(w, verdict) IN
         /\ Steady(w, v) /\ v.result = w.result /\ Retires(w, v, verdict)
         /\ w.cleanup = "none" => v.retire = "new" /\ v.verdict = verdict
  BY SMTT(30) DEF Finishing, OwnerRecord, Steady, Retires

\* A handler leaves its try block.
LEMMA FinishFields ==
  ASSUME IInv, NEW r \in Requests, Succeed(r) \/ Fail(r) \/ Abandon(r)
  PROVE  LET o == req[r].own IN
         \E verdict \in Verdicts :
            /\ o \in Requests /\ req[r].phase = "running"
            /\ Change(o, owner'[o]) /\ Steady(owner[o], owner'[o])
            /\ Retires(owner[o], owner'[o], verdict)
            /\ owner[o].cleanup = "none" =>
                 owner'[o].retire = "new" /\ owner'[o].verdict = verdict
            /\ owner'[o].result \in {owner[o].result, <<req[r].content, req[r].stream>>}
            /\ req' = [req EXCEPT ![r].phase = "joining", ![r].verdict = verdict]
            /\ gen' = IF gen[r] \in {"none", "running"} THEN gen
                      ELSE [gen EXCEPT ![r] = "ended"]
            /\ verdict = "success" => req[r].cached \/ gen[r] = "result"
            /\ verdict # "success" => owner'[o].result = owner[o].result
            /\ dirty' \in {dirty, dirty \ Attempt(r)}
            /\ verdict # "uncertain" /\ ~req[r].cached => dirty' = dirty \ Attempt(r)
            /\ UNCHANGED <<items, tombstones>>
<1>. DEFINE o == req[r].own
            w == owner[o]
<1>0. /\ req[r].phase = "running" => o \in Requests /\ w \in OwnerRecord
      /\ owner \in [Requests -> OwnerRecord]
  BY DEF IInv, Handlers, Sane, Accounted
<1>1. ASSUME NEW verdict \in Verdicts, NEW u, u \in OwnerRecord,
             req[r].phase = "running", Steady(w, u),
             u.retire = w.retire, u.cleanup = w.cleanup, u.verdict = w.verdict,
             Finish(r, verdict, u)
      PROVE  /\ Change(o, owner'[o]) /\ Steady(w, owner'[o])
             /\ Retires(w, owner'[o], verdict) /\ owner'[o].result = u.result
             /\ w.cleanup = "none" => owner'[o].retire = "new" /\ owner'[o].verdict = verdict
             /\ req' = [req EXCEPT ![r].phase = "joining", ![r].verdict = verdict]
             /\ gen' = IF gen[r] \in {"none", "running"} THEN gen
                       ELSE [gen EXCEPT ![r] = "ended"]
             /\ UNCHANGED <<items, tombstones>>
  <2>. DEFINE v == Finishing(u, verdict)
  <2>1. owner' = [owner EXCEPT ![o] = v] /\ owner'[o] = v
    BY <1>0, <1>1 DEF Finish
  <2>2. /\ Steady(u, v) /\ v.result = u.result /\ Retires(u, v, verdict)
        /\ u.cleanup = "none" => v.retire = "new" /\ v.verdict = verdict
    BY <1>1, FinishingFields
  <2>3. /\ Steady(w, v) /\ v.result = u.result /\ Retires(w, v, verdict)
        /\ w.cleanup = "none" => v.retire = "new" /\ v.verdict = verdict
    <3>. HIDE DEF v, w
    <3>. QED BY <1>1, <2>2 DEF Steady, Retires
  <2>. HIDE DEF v
  <2>. QED BY <1>1, <2>1, <2>3 DEF Finish, Change
<1>2. req[r].phase = "running"
  BY DEF Succeed, Fail, Abandon
<1>3. Steady(w, w)
  BY DEF Steady
<1>4. CASE Succeed(r)
  <2>. DEFINE x == <<req[r].content, req[r].stream>>
              u == IF req[r].cached THEN w ELSE [w EXCEPT !.result = x]
  <2>1. /\ u \in OwnerRecord /\ Steady(w, u) /\ u.retire = w.retire /\ u.cleanup = w.cleanup
        /\ u.verdict = w.verdict /\ u.result \in {w.result, x}
    <3>1. x \in Fingerprint
      BY <1>2 DEF IInv, Handlers, Sane, RequestRecord, Fingerprint
    <3>2. w \in OwnerRecord
      BY <1>0, <1>2
    <3>. HIDE DEF x, w
    <3>. QED BY SMTT(30), <3>1, <3>2 DEF OwnerRecord, Steady
  <2>2. /\ Finish(r, "success", u) /\ (req[r].cached \/ gen[r] = "result")
        /\ dirty' = IF req[r].cached THEN dirty ELSE dirty \ Attempt(r)
    BY <1>4 DEF Succeed
  <2>3. "success" \in Verdicts
    BY DEF Verdicts
  <2>. HIDE DEF u
  <2>. QED BY <1>0, <1>1, <1>2, <2>1, <2>2, <2>3
<1>5. CASE Fail(r)
  <2>1. /\ gen[r] \in {"undelivered", "uncertain"} /\ gen[r] \in Verdicts
        /\ Finish(r, gen[r], w)
        /\ dirty' = IF gen[r] = "undelivered" THEN dirty \ Attempt(r) ELSE dirty
    BY <1>5 DEF Fail, Verdicts
  <2>. QED BY <1>0, <1>1, <1>2, <1>3, <2>1
<1>6. CASE Abandon(r)
  <2>1. "uncertain" \in Verdicts /\ Finish(r, "uncertain", w) /\ UNCHANGED dirty
    BY <1>6 DEF Abandon, Verdicts
  <2>. QED BY <1>0, <1>1, <1>2, <1>3, <2>1
<1>. QED BY <1>4, <1>5, <1>6

\* A handler stops waiting, or cleans up once more.
LEMMA CleanupFields ==
  ASSUME IInv, NEW r \in Requests, JoinEnds(r) \/ CleanUpAgain(r)
  PROVE  LET o == req[r].own IN
         /\ o \in Requests /\ UNCHANGED <<items, gen>>
         /\ Change(o, owner'[o]) /\ Steady(owner[o], owner'[o])
         /\ owner'[o].result = owner[o].result
         /\ Retires(owner[o], owner'[o], req[r].verdict)
         /\ req[r].phase # "closing" =>
              /\ owner'[o].retire = owner[o].retire /\ owner'[o].cleanup = owner[o].cleanup
              /\ owner'[o].verdict = owner[o].verdict
         /\ req[r].phase \in {"joining", "closing", "rejoining"}
         /\ \/ req' = [req EXCEPT ![r] = Handled("done")]
            \/ \E x \in {"closing", "rejoining"}, y \in BOOLEAN :
                  /\ x = "closing" => req[r].stream
                  /\ req[r].phase # "rejoining" /\ (x = "rejoining" => req[r].phase = "closing")
                  /\ req' = [req EXCEPT ![r] = [req[r] EXCEPT !.phase = x, !.marked = y]]
<1>. DEFINE o == req[r].own
            w == owner[o]
<1>0. /\ o \in Requests /\ w \in OwnerRecord /\ owner \in [Requests -> OwnerRecord]
      /\ req \in [Requests -> RequestRecord] /\ req[r] \in RequestRecord
      /\ req[r].phase \in {"joining", "closing", "rejoining"}
  BY DEF IInv, Handlers, Sane, Accounted, JoinEnds, CleanUpAgain
<1>1. Steady(w, w) /\ Retires(w, w, req[r].verdict)
  BY DEF Steady, Retires
<1>2. owner = [owner EXCEPT ![o] = w]
  BY <1>0
<1>3. CASE JoinEnds(r)
  <2>. DEFINE u == [w EXCEPT !.capacityReleased = TRUE]
              y == w.cleanup = "completed"
  <2>1. /\ Steady(w, u) /\ u.result = w.result /\ u.retire = w.retire
        /\ u.cleanup = w.cleanup /\ u.verdict = w.verdict
    <3>. HIDE DEF w
    <3>. QED BY SMTT(30), <1>0 DEF OwnerRecord, Steady
  <2>2. owner' = owner \/ owner' = [owner EXCEPT ![o] = u]
    BY <1>3 DEF JoinEnds
  <2>. HIDE DEF u
  <2>3. Change(o, owner'[o]) /\ owner'[o] \in {w, u}
    BY <1>0, <1>2, <2>2 DEF Change
  <2>4. \/ req' = [req EXCEPT ![r] = Handled("done")]
        \/ /\ req[r].stream /\ req[r].phase = "joining"
           /\ req' = [req EXCEPT ![r] = [req[r] EXCEPT !.phase = "closing", !.marked = y]]
    BY <1>0, <1>3 DEF JoinEnds
  <2>5. y \in BOOLEAN
    OBVIOUS
  <2>6. Retires(w, u, req[r].verdict)
    BY <2>1 DEF Retires
  <2>. HIDE DEF y
  <2>. QED BY <1>0, <1>1, <1>3, <2>1, <2>3, <2>4, <2>5, <2>6 DEF JoinEnds
<1>4. CASE CleanUpAgain(r)
  <2>. DEFINE u == Finishing(w, req[r].verdict)
  <2>1. Steady(w, u) /\ u.result = w.result /\ Retires(w, u, req[r].verdict)
    BY <1>0, FinishingFields
  <2>2. owner' = owner \/ owner' = [owner EXCEPT ![o] = u]
    BY <1>4 DEF CleanUpAgain
  <2>. HIDE DEF u
  <2>3. Change(o, owner'[o]) /\ owner'[o] \in {w, u}
    BY <1>0, <1>2, <2>2 DEF Change
  <2>4. \/ req' = [req EXCEPT ![r] = Handled("done")]
        \/ req' = [req EXCEPT ![r] = [req[r] EXCEPT !.phase = "rejoining",
                                                     !.marked = req[r].marked]]
    BY <1>0, <1>4 DEF CleanUpAgain, RequestRecord
  <2>5. req[r].marked \in BOOLEAN
    BY <1>0 DEF RequestRecord
  <2>. QED BY <1>0, <1>1, <1>4, <2>1, <2>3, <2>4, <2>5 DEF CleanUpAgain
<1>. QED BY <1>3, <1>4
----------------------------------------------------------------------------
(* An owner that nobody references is on its way out *)

\* A request of a logical owner that waits for its admission brings a lease.
Referenced ==
    \A r \in Requests :
        req[r].phase = "pruning" /\ req[r].key \in LogicalKeys => req[r].leases # {}

Leased == UnleasedIsLeaving /\ Referenced

\* A step that makes no owner loose and lets no request wait.
LEMMA LooseStays ==
  ASSUME Leased, Registered' \subseteq Registered,
         \A o \in Registered' : Loose(owner'[o]) => Loose(owner[o]),
         \A r \in Requests : req'[r].phase = "pruning" => req'[r] = req[r]
  PROVE  Leased'
  BY DEF Leased, UnleasedIsLeaving, Referenced, Loose

\* An owner that leaves the table is registered nowhere.
LEMMA PopUnregisters ==
  ASSUME IInv, NEW o \in Requests, NEW pop \in BOOLEAN, PopIf(pop, o)
  PROVE  /\ Registered' \subseteq Registered
         /\ pop => o \notin Registered'
  BY OwnersAssumption DEF PopIf, Registered, IInv, Accounted

\* The tasks of an owner keep its leases and mark it only for release.
LEMMA TasksLeased ==
  ASSUME IInv, Leased, NEW o \in Requests,
         RetireTask(o) \/ ReleaseTask(o) \/ CloseThread(o) \/ CloseTask(o)
  PROVE  Leased'
<1>0. owner \in [Requests -> OwnerRecord]
  BY DEF IInv, Accounted
<1>1. ASSUME NEW v, Change(o, v), UNCHANGED <<items, req>>, Loose(v) => Loose(owner[o])
      PROVE  Leased'
  BY <1>0, <1>1, LooseStays DEF Change, Registered
<1>2. ASSUME NEW v, Change(o, v), UNCHANGED req, NEW gone \in BOOLEAN, PopIf(gone, o),
             gone \/ (Loose(v) => Loose(owner[o]))
      PROVE  Leased'
  <2>1. Registered' \subseteq Registered /\ (gone => o \notin Registered')
    BY <1>2, PopUnregisters
  <2>2. \A p \in Registered' : Loose(owner'[p]) => Loose(owner[p])
    BY <1>0, <1>2, <2>1 DEF Change, Registered
  <2>. QED BY <1>2, <2>1, <2>2, LooseStays
<1>3. CASE RetireTask(o)
  <2>1. CASE RetireSuccess(o)
    BY <2>1, <1>1, RetireSuccessFields DEF Kept, Loose
  <2>2. CASE RetireFailure(o)
    BY <2>2, <1>1, RetireFailureFields DEF Loose
  <2>3. CASE RetireClose(o)
    BY <2>3, <1>1, RetireCloseFields DEF Kept, Loose
  <2>4. CASE RetireEnds(o)
    BY <2>4, <1>2, RetireEndsFields DEF Loose
  <2>. QED BY <1>3, <2>1, <2>2, <2>3, <2>4 DEF RetireTask
<1>4. CASE ReleaseTask(o)
  <2>1. CASE ReleaseStarts(o)
    BY <2>1, <1>1, ReleaseStartsFields DEF Kept, Loose
  <2>2. CASE ReleaseCancels(o)
    BY <2>2, <1>1, ReleaseCancelsFields DEF Kept, Loose
  <2>3. CASE ReleaseCloses(o)
    BY <2>3, <1>1, ReleaseClosesFields DEF Kept, Loose
  <2>4. CASE ReleaseEnds(o)
    BY <2>4, <1>2, ReleaseEndsFields DEF Kept, Loose
  <2>. QED BY <1>4, <2>1, <2>2, <2>3, <2>4 DEF ReleaseTask
<1>5. CASE CloseThread(o) \/ CloseTask(o)
  BY <1>5, <1>1, CloseFields DEF Kept, Loose
<1>. QED BY <1>3, <1>4, <1>5

\* What closes and handlers do makes no owner loose either.
LEMMA OthersLeased ==
  ASSUME IInv, Leased,
         \/ \E k \in Keys : CloseOwner(k)
         \/ \E lease \in Leases : CloseLease(lease)
         \/ \E dead \in SUBSET (Leases \cup Keys) : ProcessExits(dead)
         \/ Reaper \/ Shutdown
         \/ \E r \in Requests : Succeed(r) \/ Fail(r) \/ Abandon(r)
         \/ \E r \in Requests : JoinEnds(r) \/ CleanUpAgain(r)
         \/ \E r \in Requests : Generation(r)
         \/ Forget
  PROVE  Leased'
<1>0. owner \in [Requests -> OwnerRecord] /\ req \in [Requests -> RequestRecord]
  BY DEF IInv, Accounted, Handlers
<1>1. CASE \/ \E k \in Keys : CloseOwner(k)
           \/ \E lease \in Leases : CloseLease(lease)
           \/ \E dead \in SUBSET (Leases \cup Keys) : ProcessExits(dead)
           \/ Reaper \/ Shutdown
  <2>1. UNCHANGED <<items, req>> /\ \A o \in Requests : Quiet(owner[o], owner'[o])
    BY <1>1, ReleasesQuiet
  <2>. QED BY <2>1, LooseStays DEF Quiet, Registered
<1>2. ASSUME NEW r \in Requests, Succeed(r) \/ Fail(r) \/ Abandon(r)
      PROVE  Leased'
  <2>. DEFINE o == req[r].own
  <2>1. PICK verdict \in Verdicts :
           /\ o \in Requests /\ req[r].phase = "running"
           /\ Change(o, owner'[o]) /\ Steady(owner[o], owner'[o])
           /\ req' = [req EXCEPT ![r].phase = "joining", ![r].verdict = verdict]
           /\ UNCHANGED items
    BY <1>2, FinishFields
  <2>2. \A s \in Requests : req'[s].phase = "pruning" => req'[s] = req[s]
    <3>. DEFINE h == [req[r] EXCEPT !.phase = "joining", !.verdict = verdict]
    <3>1. req' = [req EXCEPT ![r] = h]
      BY <1>0, <2>1
    <3>2. h.phase = "joining"
      BY <1>0 DEF RequestRecord
    <3>. HIDE DEF h
    <3>. QED BY <1>0, <3>1, <3>2
  <2>3. \A p \in Requests : Loose(owner'[p]) => Loose(owner[p])
    BY <1>0, <2>1 DEF Change, Steady, Loose
  <2>. QED BY <2>1, <2>2, <2>3, LooseStays DEF Registered
<1>3. ASSUME NEW r \in Requests, JoinEnds(r) \/ CleanUpAgain(r)
      PROVE  Leased'
  <2>. DEFINE o == req[r].own
  <2>1. /\ o \in Requests /\ UNCHANGED items
        /\ Change(o, owner'[o]) /\ Steady(owner[o], owner'[o])
        /\ \/ req' = [req EXCEPT ![r] = Handled("done")]
           \/ \E x \in {"closing", "rejoining"}, y \in BOOLEAN :
                 req' = [req EXCEPT ![r] = [req[r] EXCEPT !.phase = x, !.marked = y]]
    BY <1>3, CleanupFields
  <2>2. \A s \in Requests : req'[s].phase = "pruning" => req'[s] = req[s]
    <3>1. CASE req' = [req EXCEPT ![r] = Handled("done")]
      BY <1>0, <3>1 DEF Handled
    <3>2. ASSUME NEW x \in {"closing", "rejoining"}, NEW y \in BOOLEAN,
                 req' = [req EXCEPT ![r] = [req[r] EXCEPT !.phase = x, !.marked = y]]
          PROVE  \A s \in Requests : req'[s].phase = "pruning" => req'[s] = req[s]
      <4>. DEFINE h == [req[r] EXCEPT !.phase = x, !.marked = y]
      <4>1. h.phase # "pruning"
        BY <1>0, <3>2 DEF RequestRecord
      <4>. HIDE DEF h
      <4>. QED BY <1>0, <3>2, <4>1
    <3>. QED BY <2>1, <3>1, <3>2
  <2>3. \A p \in Requests : Loose(owner'[p]) => Loose(owner[p])
    BY <1>0, <2>1 DEF Change, Steady, Loose
  <2>. QED BY <2>1, <2>2, <2>3, LooseStays DEF Registered
<1>4. CASE Forget \/ \E r \in Requests : Generation(r)
  <2>1. UNCHANGED <<items, owner, req>>
    BY <1>4 DEF Forget, Generation, GenerationEnds
  <2>. QED BY <2>1, LooseStays DEF Registered
<1>. QED BY <1>1, <1>2, <1>3, <1>4

\* An admission registers only owners it has leases for.
LEMMA AdmissionLeased ==
  ASSUME IInv, Leased, NEW r \in Requests, req[r].phase \in {"idle", "pruning"},
         NEW record, Asking(record), record.key \in LogicalKeys => record.leases # {},
         NEW own, Accounted(items, own),
         \A o \in Requests : Loose(own[o]) => Loose(owner[o]),
         Admit(r, record, own)
  PROVE  Leased'
<1>. DEFINE k == record.key
            o == items[k]
<1>0. /\ req \in [Requests -> RequestRecord] /\ own \in [Requests -> OwnerRecord]
      /\ record \in RequestRecord /\ k \in Keys /\ items \in [Keys -> Requests \cup {None}]
      /\ \A j \in Keys : items[j] # None => own[items[j]].key = j
  BY DEF IInv, Accounted, Handlers, Asking
<1>1. PICK new \in [Requests -> OwnerRecord] :
         /\ Lends(own, new, record)
         /\ \/ Answered(r, new)
            \/ Replays(r, record, own, new)
            \/ Restarts(r, record, own, new)
            \/ Starts(r, record, own, new)
  BY AdmitCases
<1>2. \A p \in Requests : Loose(new[p]) => Loose(owner[p])
  BY <1>0, <1>1 DEF Lends, Likewise, Loose
<1>3. CASE Answered(r, new)
  <2>1. \A s \in Requests : req'[s].phase = "pruning" => req'[s] = req[s]
    BY <1>0, <1>3 DEF Answered, Handled
  <2>. QED BY <1>2, <1>3, <2>1, LooseStays DEF Answered, Registered
<1>4. CASE Replays(r, record, own, new)
  <2>1. \A s \in Requests : req'[s].phase = "pruning" => req'[s] = req[s]
    BY <1>0, <1>4 DEF Replays, Handled, RequestRecord
  <2>2. \A p \in Requests : Loose(owner'[p]) => Loose(owner[p])
    BY <1>2, <1>4 DEF Replays, Loose
  <2>. QED BY <1>4, <2>1, <2>2, LooseStays DEF Replays, Registered
<1>5. CASE Restarts(r, record, own, new)
  <2>1. \A s \in Requests : req'[s].phase = "pruning" => req'[s] = req[s]
    BY <1>0, <1>5 DEF Restarts, Begun, RequestRecord
  <2>2. \A p \in Requests : Loose(owner'[p]) => Loose(owner[p])
    BY <1>2, <1>5 DEF Restarts, Begun, Begins, Loose
  <2>. QED BY <1>5, <2>1, <2>2, LooseStays DEF Restarts, Registered
<1>6. CASE Starts(r, record, own, new)
  <2>1. \A s \in Requests : req'[s].phase = "pruning" => req'[s] = req[s]
    BY <1>0, <1>6 DEF Starts, Begun, RequestRecord
  <2>2. ~Loose(owner'[r])
    <3>1. /\ owner'[r].key = k /\ owner'[r].leases = record.leases
      BY <1>6, <1>0 DEF Starts, Begun, Begins, NewOwner
    <3>. QED BY <3>1 DEF Loose
  <2>3. Registered' \subseteq Registered \cup {r}
    BY <1>0, <1>6 DEF Starts, Registered
  <2>4. \A p \in Registered' : ~Loose(owner'[p])
    BY <1>2, <1>6, <2>2, <2>3 DEF Starts, Begun, Leased, UnleasedIsLeaving, Loose, Registered
  <2>. QED BY <2>1, <2>4 DEF Leased, UnleasedIsLeaving, Referenced, Loose
<1>. QED BY <1>1, <1>3, <1>4, <1>5, <1>6

\* A request that arrives, or waits for prune, brings a lease with it.
LEMMA ArrivalLeased ==
  ASSUME IInv, Leased, NEW r \in Requests,
         \/ \E record \in Inputs, e \in Expired : Receive(r, record, e)
         \/ AdmitAfterPrune(r)
  PROVE  Leased'
<1>1. ASSUME NEW record \in Inputs, NEW e \in Expired, Receive(r, record, e)
      PROVE  Leased'
  <2>. DEFINE own == Pruned(e)
  <2>1. Asking(record) /\ (record.key \in LogicalKeys => record.leases # {})
    BY OwnersAssumption DEF Inputs, Asking, RequestRecord, Phases, Verdicts
  <2>2. Accounted(items, own)
    <3>1. \A o \in Requests : Keeps(owner[o], own[o])
      BY PrunedKeeps
    <3>2. own = [o \in Requests |-> own[o]]
      BY PrunedKeeps
    <3>. HIDE DEF own
    <3>. QED BY <3>1, <3>2, KeepsAll DEF IInv
  <2>3. \A o \in Requests : Loose(own[o]) => Loose(owner[o])
    BY PrunedQuiet DEF Quiet
  <2>4. req[r].phase = "idle"
    BY <1>1 DEF Receive
  <2>5. CASE Admit(r, record, own)
    <3>. HIDE DEF own
    <3>. QED BY <2>1, <2>2, <2>3, <2>4, <2>5, AdmissionLeased
  <2>6. CASE /\ owner' = own
             /\ req' = [req EXCEPT ![r] = record]
             /\ UNCHANGED items
    <3>. HIDE DEF own
    <3>. QED BY <2>1, <2>3, <2>6
         DEF Leased, UnleasedIsLeaving, Referenced, Loose, Registered, IInv, Handlers
  <2>. QED BY <1>1, <2>5, <2>6 DEF Receive
<1>2. CASE AdmitAfterPrune(r)
  <2>1. req[r].phase = "pruning" /\ Admit(r, req[r], owner)
    BY <1>2 DEF AdmitAfterPrune
  <2>2. Asking(req[r]) /\ (req[r].key \in LogicalKeys => req[r].leases # {})
    BY <2>1 DEF IInv, Handlers, Sane, Asking, Leased, Referenced
  <2>. QED BY <2>1, <2>2, AdmissionLeased DEF IInv
<1>. QED BY <1>1, <1>2

\* A wrapper that closes, or whose process exits, cannot leave a logical owner behind
\* that nobody references and nobody will release: close_lease releases it,
\* release_leases does or marks it for the next prune.
THEOREM UnleasedAlwaysLeaves == Spec => []UnleasedIsLeaving
<1>1. Init => Leased
  <2>. SUFFICES ASSUME Init PROVE Leased
    OBVIOUS
  <2>1. Registered = {}
    BY OwnersAssumption DEF Init, Registered
  <2>2. \A r \in Requests : req[r].phase = "idle"
    BY DEF Init, Handled
  <2>. QED BY <2>1, <2>2 DEF Leased, UnleasedIsLeaving, Referenced
<1>2. IInv /\ Leased /\ [Next]_vars => Leased'
  <2>. SUFFICES ASSUME IInv, Leased, [Next]_vars PROVE Leased'
    OBVIOUS
  <2>1. CASE Clients
    <3>1. ASSUME NEW dead \in (SUBSET (Leases \cup (Keys \ LogicalKeys))) \ {{}},
                 ProcessExits(dead)
          PROVE  Leased'
      <4>1. dead \in SUBSET (Leases \cup Keys)
        OBVIOUS
      <4>. QED BY <3>1, <4>1, OthersLeased
    <3>. QED BY <2>1, <3>1, ArrivalLeased, OthersLeased DEF Clients
  <2>2. ASSUME NEW r \in Requests, Handler(r) \/ Generation(r) PROVE Leased'
    BY <2>2, ArrivalLeased, OthersLeased DEF Handler
  <2>3. ASSUME NEW o \in Requests,
               RetireTask(o) \/ ReleaseTask(o) \/ CloseThread(o) \/ CloseTask(o)
        PROVE  Leased'
    BY <2>3, TasksLeased
  <2>4. CASE Reaper \/ Shutdown \/ Forget
    BY <2>4, OthersLeased
  <2>5. CASE UNCHANGED vars
    BY <2>5, LooseStays DEF vars, Registered
  <2>. QED BY <2>1, <2>2, <2>3, <2>4, <2>5 DEF Next
<1>3. Leased => UnleasedIsLeaving
  BY DEF Leased
<1>. QED BY <1>1, <1>2, <1>3, OwnersInvariant, PTL DEF Spec
----------------------------------------------------------------------------
(* No engine is closed under a generation that still runs *)

Early   == {"idle", "pruning"}
Working == {"running", "joining", "closing", "rejoining"}

\* What is true of an owner whose generation runs: nothing closes its engine, and
\* no retirement is about to take its generation for a finished one.
Calm(w) ==
    /\ w.closeTask = "none"
    /\ w.retire \in {"none", "new"}
    /\ w.release \in {"none", "new", "retiring"}
    /\ w.key \in EphemeralKeys /\ w.retire = "new" => w.verdict # "success"

\* An owner is worked on by requests that arrived, is released only for good, and
\* is calm while its generation runs; an ephemeral owner serves one request.
Use ==
    /\ \A r \in Requests : req[r].phase \in Early => gen[r] = "none" /\ ~req[r].cached
    /\ \A o \in Requests :
         owner[o].task # None => gen[owner[o].task] # "none" /\ req[o].phase \notin Early
    /\ \A r \in Requests : req[r].phase \in Working => req[req[r].own].phase \notin Early
    /\ \A o \in Requests : owner[o].release # "none" => owner[o].removal
    /\ \A o \in Requests :
         owner[o].task # None /\ gen[owner[o].task] = "running" => Calm(owner[o])
    /\ \A o \in Registered : Ephemeral(o) => owner[o].busy \/ owner[o].removal
    /\ \A o \in Requests : Ephemeral(o) => owner[o].task \in {o, None}
    /\ \A r \in Requests :
         req[r].phase \in Working /\ Ephemeral(req[r].own) =>
            /\ req[r].own = r /\ ~req[r].cached
            /\ req[r].phase # "running" /\ req[r].verdict = "success" => gen[r] # "running"

\* A generation begins with the admission of its request, and ends once.
Ends(r) ==
    \/ gen'[r] = gen[r]
    \/ gen[r] # "none" /\ gen'[r] \notin {"none", "running"}

Settles(r) ==
    \/ Ends(r)
    \/ gen[r] = "none" /\ gen'[r] = "running" /\ req'[r].phase \notin Early

\* An owner keeps its task until it gives it up, or begins a generation.
Tame(o) ==
    LET w == owner[o]
        v == owner'[o]
    IN /\ v.release # "none" => v.removal
       /\ v.task # None /\ gen'[v.task] = "running" => Calm(v)
       /\ \/ /\ v.key = w.key /\ v.task \in {w.task, None}
             /\ o \in Registered' => o \in Registered
             /\ o \in Registered' /\ v.key \in EphemeralKeys =>
                  (w.busy \/ w.removal => v.busy \/ v.removal)
          \/ /\ v.key = w.key \/ req[o].phase \in Early
             /\ v.busy /\ v.task \in Requests /\ gen'[v.task] # "none"
             /\ req'[o].phase \notin Early
             /\ v.key \in EphemeralKeys => v.task = o

\* A handler keeps its owner; one that is admitted finds an owner it may share.
Moves(r) ==
    LET h == req[r]
        n == req'[r]
    IN /\ h.phase \notin Early => n.phase \notin Early
       /\ n.phase \in Early => h.phase \in Early /\ ~n.cached
       /\ n.phase \in Working =>
            \/ /\ h.phase \in Working /\ n.own = h.own /\ n.cached = h.cached
               /\ /\ owner[h.own].key \in EphemeralKeys
                  /\ n.phase # "running" /\ n.verdict = "success"
                  => gen'[r] # "running"
            \/ /\ n.phase = "running" /\ n.own \in Requests /\ req'[n.own].phase \notin Early
               /\ owner'[n.own].key \in EphemeralKeys => n.own = r /\ ~n.cached

\* The invariant is kept by tame owners, and by handlers that move as they must.
LEMMA UseStays ==
  ASSUME IInv, Use, \A r \in Requests : Settles(r) /\ Moves(r),
         \A o \in Requests : Tame(o)
  PROVE  Use'
<1>0. /\ \A o \in Requests : owner[o].task \in Requests \cup {None}
      /\ \A r \in Requests : req[r].phase \in Working => req[r].own \in Requests
      /\ Registered' \subseteq Requests
  BY DEF IInv, Accounted, Handlers, Sane, OwnerRecord, Working, Registered
<1>1. \A r \in Requests :
         req'[r].phase \in Early => gen'[r] = "none" /\ ~req'[r].cached
  BY DEF Use, Ends, Settles, Moves
<1>2. ASSUME NEW o \in Requests, owner'[o].task # None
      PROVE  gen'[owner'[o].task] # "none" /\ req'[o].phase \notin Early
  BY <1>0, <1>2 DEF Use, Ends, Settles, Moves, Tame
<1>3. ASSUME NEW r \in Requests, req'[r].phase \in Working
      PROVE  req'[req'[r].own].phase \notin Early
  BY <1>0, <1>3 DEF Use, Moves
<1>4. ASSUME NEW o \in Registered', owner'[o].key \in EphemeralKeys
      PROVE  owner'[o].busy \/ owner'[o].removal
  BY <1>0, <1>4 DEF Use, Tame, Ephemeral
<1>5. ASSUME NEW o \in Requests, owner'[o].key \in EphemeralKeys
      PROVE  owner'[o].task \in {o, None}
  BY <1>0, <1>5 DEF Use, Tame, Ephemeral
<1>6. ASSUME NEW r \in Requests, req'[r].phase \in Working,
             owner'[req'[r].own].key \in EphemeralKeys
      PROVE  /\ req'[r].own = r /\ ~req'[r].cached
             /\ req'[r].phase # "running" /\ req'[r].verdict = "success" => gen'[r] # "running"
  <2>1. CASE req'[r].phase = "running" /\ req'[r].own = r /\ ~req'[r].cached
    BY <2>1
  <2>2. CASE /\ req[r].phase \in Working /\ req'[r].own = req[r].own
             /\ req'[r].cached = req[r].cached
             /\ /\ owner[req[r].own].key \in EphemeralKeys
                /\ req'[r].phase # "running" /\ req'[r].verdict = "success"
                => gen'[r] # "running"
    <3>1. req[r].own \in Requests /\ req[req[r].own].phase \notin Early
      BY <1>0, <2>2 DEF Use
    <3>2. owner'[req[r].own].key = owner[req[r].own].key
      BY <3>1 DEF Tame
    <3>. QED BY <1>6, <2>2, <3>2 DEF Use, Ephemeral
  <2>. QED BY <1>6, <2>1, <2>2 DEF Moves
<1>7. \A o \in Requests : owner'[o].release # "none" => owner'[o].removal
  BY DEF Tame
<1>8. \A o \in Requests :
         owner'[o].task # None /\ gen'[owner'[o].task] = "running" => Calm(owner'[o])
  BY DEF Tame
<1>. QED BY <1>1, <1>2, <1>3, <1>4, <1>5, <1>6, <1>7, <1>8 DEF Use, Ephemeral, Calm

\* A cancelled generation does not run.
LEMMA CancelSettles ==
  ASSUME IInv, NEW t, Cancel(t)
  PROVE  /\ \A r \in Requests : Ends(r)
         /\ t \in Requests => gen'[t] # "running"
  BY OwnersAssumption DEF IInv, Generations, Cancel, Ends

\* A handler that does nothing moves as it must.
LEMMA StillMoves ==
  ASSUME IInv, Use, NEW r \in Requests, req'[r] = req[r], Ends(r)
  PROVE  Moves(r)
  BY DEF Moves, Use, Ends, Ephemeral

\* A step that works on one owner has to be tame there.
LEMMA OneUse ==
  ASSUME IInv, Use, NEW o \in Requests, Change(o, owner'[o]), Tame(o),
         Registered' \subseteq Registered, \A r \in Requests : Ends(r) /\ Moves(r)
  PROVE  Use'
<1>0. /\ owner \in [Requests -> OwnerRecord]
      /\ \A p \in Requests : owner[p].task \in Requests \cup {None}
  BY DEF IInv, Accounted, OwnerRecord
<1>1. ASSUME NEW p \in Requests, p # o PROVE Tame(p)
  <2>1. owner'[p] = owner[p]
    BY <1>0, <1>1 DEF Change
  <2>2. owner[p].task # None /\ gen'[owner[p].task] = "running" => Calm(owner[p])
    BY <1>0 DEF Use, Ends
  <2>. QED BY <2>1, <2>2 DEF Tame, Use
<1>. QED BY <1>1, UseStays DEF Settles

\* Retirement, release and close touch no engine whose generation runs: they
\* cancel it before, or find that it has ended.
LEMMA TasksUse ==
  ASSUME IInv, Use, NEW o \in Requests,
         RetireTask(o) \/ ReleaseTask(o) \/ CloseThread(o) \/ CloseTask(o)
  PROVE  Use'
<1>. DEFINE w == owner[o]
            v == owner'[o]
<1>0. /\ w.task \in Requests \cup {None}
      /\ w.task # None /\ gen[w.task] = "running" => Calm(w)
      /\ w.release # "none" => w.removal
  BY DEF IInv, Accounted, OwnerRecord, Use
<1>1. ASSUME Change(o, v), Tame(o), UNCHANGED <<items, req>>,
             UNCHANGED gen \/ Cancel(w.task)
      PROVE  Use'
  <2>1. \A r \in Requests : Ends(r)
    BY <1>1, CancelSettles DEF Ends
  <2>2. Registered' = Registered
    BY <1>1 DEF Registered
  <2>. QED BY <1>1, <2>1, <2>2, StillMoves, OneUse
<1>2. ASSUME Change(o, v), Tame(o), NEW gone \in BOOLEAN, PopIf(gone, o), UNCHANGED <<req, gen>>
      PROVE  Use'
  <2>1. \A r \in Requests : Ends(r)
    BY <1>2 DEF Ends
  <2>2. Registered' \subseteq Registered
    BY <1>2, PopUnregisters
  <2>. QED BY <1>2, <2>1, <2>2, StillMoves, OneUse
<1>3. UNCHANGED items => Registered' = Registered
  BY DEF Registered
<1>4. Cancel(w.task) => (w.task # None => gen'[w.task] # "running")
  BY <1>0, CancelSettles
<1>5. CASE RetireSuccess(o)
  <2>1. /\ Change(o, v) /\ UNCHANGED <<items, req, gen>> /\ v.key = w.key
        /\ v.release = w.release /\ (w.removal => v.removal)
        /\ \/ v.task = None /\ v.key \notin EphemeralKeys
           \/ v.task = w.task /\ v.removal /\ (w.task # None => gen[w.task] # "running")
    BY <1>0, <1>5, RetireSuccessFields DEF Kept, Calm, Ephemeral
  <2>2. Tame(o)
    BY <1>0, <1>3, <2>1 DEF Tame
  <2>. QED BY <1>1, <2>1, <2>2
<1>6. CASE RetireFailure(o)
  <2>1. /\ Change(o, v) /\ UNCHANGED <<items, req>> /\ Cancel(w.task) /\ v.key = w.key
        /\ v.release = w.release /\ v.removal = w.removal /\ v.busy = w.busy
        /\ v.task = w.task
    BY <1>6, RetireFailureFields
  <2>2. Tame(o)
    BY <1>0, <1>3, <1>4, <2>1 DEF Tame
  <2>. QED BY <1>1, <2>1, <2>2
<1>7. CASE RetireClose(o)
  <2>1. /\ Change(o, v) /\ UNCHANGED <<items, req, gen>> /\ Kept(w, v)
        /\ v.release = w.release /\ v.removal = w.removal /\ ~Calm(w)
    BY <1>7, RetireCloseFields DEF Calm
  <2>2. Tame(o)
    BY <1>0, <1>3, <2>1 DEF Tame, Kept
  <2>. QED BY <1>1, <2>1, <2>2
<1>8. CASE RetireEnds(o)
  <2>1. PICK gone \in BOOLEAN :
           /\ Change(o, v) /\ PopIf(gone, o) /\ UNCHANGED <<req, gen>>
           /\ v.key = w.key /\ v.task = None
           /\ \/ v.release = w.release /\ v.removal = (w.removal \/ Ephemeral(o))
              \/ gone /\ v.release = "none"
    BY <1>8, RetireEndsFields
  <2>2. Registered' \subseteq Registered /\ (gone => o \notin Registered')
    BY <2>1, PopUnregisters
  <2>3. Tame(o)
    BY <1>0, <2>1, <2>2 DEF Tame, Ephemeral
  <2>. QED BY <1>2, <2>1, <2>3
<1>9. CASE ReleaseStarts(o)
  <2>1. /\ Change(o, v) /\ UNCHANGED <<items, req, gen>> /\ Kept(w, v)
        /\ w.release = "new" /\ v.release = "retiring" /\ v.removal = w.removal
        /\ v.retire = w.retire /\ v.closeTask = w.closeTask
    BY <1>9, ReleaseStartsFields
  <2>2. Tame(o)
    BY <1>0, <1>3, <2>1 DEF Tame, Kept, Calm
  <2>. QED BY <1>1, <2>1, <2>2
<1>10. CASE ReleaseCancels(o)
  <2>1. /\ Change(o, v) /\ UNCHANGED <<items, req>> /\ Kept(w, v) /\ Cancel(w.task)
        /\ w.release # "none" /\ v.removal = w.removal
    BY <1>10, ReleaseCancelsFields
  <2>2. Tame(o)
    BY <1>0, <1>3, <1>4, <2>1 DEF Tame, Kept
  <2>. QED BY <1>1, <2>1, <2>2
<1>11. CASE ReleaseCloses(o)
  <2>1. /\ Change(o, v) /\ UNCHANGED <<items, req, gen>> /\ Kept(w, v)
        /\ w.release # "none" /\ v.removal = w.removal /\ ~Calm(w)
    BY <1>11, ReleaseClosesFields DEF Calm
  <2>2. Tame(o)
    BY <1>0, <1>3, <2>1 DEF Tame, Kept
  <2>. QED BY <1>1, <2>1, <2>2
<1>12. CASE ReleaseEnds(o)
  <2>1. PICK gone \in BOOLEAN :
           /\ Change(o, v) /\ PopIf(gone, o) /\ UNCHANGED <<req, gen>>
           /\ ~Calm(w) /\ w.release # "none"
           /\ \/ Kept(w, v) /\ v.removal = w.removal
              \/ gone /\ v.key = w.key /\ v.task = None /\ v.release = "none"
    BY <1>12, ReleaseEndsFields DEF Calm
  <2>2. Registered' \subseteq Registered /\ (gone => o \notin Registered')
    BY <2>1, PopUnregisters
  <2>3. Tame(o)
    BY <1>0, <2>1, <2>2 DEF Tame, Kept
  <2>. QED BY <1>2, <2>1, <2>3
<1>13. CASE CloseThread(o) \/ CloseTask(o)
  <2>1. /\ Change(o, v) /\ UNCHANGED <<items, req, gen>> /\ Kept(w, v)
        /\ v.release = w.release /\ v.removal = w.removal /\ ~Calm(w)
    BY <1>13, CloseFields DEF Calm
  <2>2. Tame(o)
    BY <1>0, <1>3, <2>1 DEF Tame, Kept
  <2>. QED BY <1>1, <2>1, <2>2
<1>. QED BY <1>5, <1>6, <1>7, <1>8, <1>9, <1>10, <1>11, <1>12, <1>13 DEF RetireTask, ReleaseTask

\* What others do to an owner that they do not work on.
Mild(w, v) ==
    /\ v.key = w.key /\ v.task = w.task /\ v.retire = w.retire /\ v.verdict = w.verdict
    /\ v.closeTask = w.closeTask
    /\ w.busy => v.busy
    /\ w.removal => v.removal
    /\ v.release = w.release \/ (w.release = "none" /\ v.release = "new" /\ v.removal)

\* What is mild is tame.
LEMMA MildTame ==
  ASSUME IInv, Use, NEW o \in Requests, Mild(owner[o], owner'[o]),
         o \in Registered' => o \in Registered,
         \A r \in Requests : Settles(r)
  PROVE  Tame(o)
<1>1. owner[o].task \in Requests \cup {None}
  BY DEF IInv, Accounted, OwnerRecord
<1>2. /\ owner[o].task # None /\ gen'[owner[o].task] = "running" => Calm(owner[o])
      /\ owner[o].release # "none" => owner[o].removal
  BY <1>1 DEF Use, Settles, Ends
<1>. QED BY <1>2 DEF Mild, Tame, Calm

\* Handlers, generations and whoever closes owners leave them calm.
LEMMA OthersUse ==
  ASSUME IInv, Use,
         \/ \E k \in Keys : CloseOwner(k)
         \/ \E lease \in Leases : CloseLease(lease)
         \/ \E dead \in SUBSET (Leases \cup Keys) : ProcessExits(dead)
         \/ Reaper \/ Shutdown
         \/ \E r \in Requests : Succeed(r) \/ Fail(r) \/ Abandon(r)
         \/ \E r \in Requests : JoinEnds(r) \/ CleanUpAgain(r)
         \/ \E r \in Requests : Generation(r)
         \/ Forget
  PROVE  Use'
<1>0. /\ owner \in [Requests -> OwnerRecord] /\ req \in [Requests -> RequestRecord]
      /\ \A o \in Requests : owner[o].task \in Requests \cup {None}
      /\ gen \in [Requests -> Outcomes \cup {"none", "running"}]
  BY DEF IInv, Accounted, Handlers, OwnerRecord, Generations
<1>1. CASE \/ \E k \in Keys : CloseOwner(k)
           \/ \E lease \in Leases : CloseLease(lease)
           \/ \E dead \in SUBSET (Leases \cup Keys) : ProcessExits(dead)
           \/ Reaper \/ Shutdown
  <2>1. UNCHANGED <<items, req, gen>> /\ \A o \in Requests : Quiet(owner[o], owner'[o])
    BY <1>1, ReleasesQuiet
  <2>2. \A r \in Requests : Ends(r) /\ Settles(r)
    BY <2>1 DEF Ends, Settles
  <2>3. \A o \in Requests : Mild(owner[o], owner'[o])
    BY <2>1 DEF Quiet, Mild
  <2>4. \A o \in Requests : Tame(o)
    BY <2>1, <2>2, <2>3, MildTame DEF Registered
  <2>. QED BY <2>1, <2>2, <2>4, StillMoves, UseStays
<1>2. ASSUME NEW r \in Requests, Succeed(r) \/ Fail(r) \/ Abandon(r)
      PROVE  Use'
  <2>. DEFINE o == req[r].own
              w == owner[o]
              v == owner'[o]
  <2>1. PICK verdict \in Verdicts :
           /\ o \in Requests /\ req[r].phase = "running"
           /\ Change(o, v) /\ Steady(w, v) /\ Retires(w, v, verdict)
           /\ req' = [req EXCEPT ![r].phase = "joining", ![r].verdict = verdict]
           /\ gen' = IF gen[r] \in {"none", "running"} THEN gen
                     ELSE [gen EXCEPT ![r] = "ended"]
           /\ verdict = "success" => req[r].cached \/ gen[r] = "result"
           /\ UNCHANGED items
    BY <1>2, FinishFields
  <2>2. ASSUME NEW s \in Requests PROVE gen'[s] = gen[s] \/ (s = r /\ gen'[r] = "ended")
    BY <1>0, <2>1
  <2>3. \A s \in Requests : gen'[s] = "running" => gen[s] = "running"
    BY <2>2
  <2>4. /\ \A s \in Requests : gen'[s] = "none" <=> gen[s] = "none"
        /\ verdict = "success" => req[r].cached \/ gen'[r] # "running"
    BY <1>0, <2>1
  <2>5. /\ req'[r].phase = "joining" /\ req'[r].own = o /\ req'[r].cached = req[r].cached
        /\ req'[r].verdict = verdict
        /\ \A s \in Requests \ {r} : req'[s] = req[s]
    <3>. DEFINE h == [req[r] EXCEPT !.phase = "joining", !.verdict = verdict]
    <3>1. req' = [req EXCEPT ![r] = h]
      BY <1>0, <2>1
    <3>2. h.phase = "joining" /\ h.own = o /\ h.cached = req[r].cached /\ h.verdict = verdict
      BY <1>0 DEF RequestRecord
    <3>. HIDE DEF h
    <3>. QED BY <1>0, <3>1, <3>2
  <2>6. w.key \in EphemeralKeys =>
           o = r /\ ~req[r].cached /\ w.task \in {r, None}
    BY <2>1 DEF Use, Ephemeral, Working
  <2>7. Moves(r)
    BY <2>1, <2>4, <2>5, <2>6 DEF Moves, Early, Working
  <2>8. ASSUME NEW s \in Requests, s # r PROVE Moves(s)
    BY <2>2, <2>5, <2>8, StillMoves DEF Ends
  <2>9. Tame(o)
    <3>1. v.task # None /\ gen'[v.task] = "running" => Calm(w)
      BY <1>0, <2>1, <2>3 DEF Steady, Use
    <3>2. /\ w.key \in EphemeralKeys /\ v.task # None /\ gen'[v.task] = "running"
          => verdict # "success"
      BY <2>1, <2>4, <2>6 DEF Steady
    <3>3. v.task # None /\ gen'[v.task] = "running" => Calm(v)
      BY <2>1, <3>1, <3>2 DEF Calm, Steady, Retires
    <3>. QED BY <2>1, <3>3 DEF Tame, Steady, Use, Registered
  <2>10. ASSUME NEW p \in Requests, p # o PROVE Tame(p)
    <3>1. owner'[p] = owner[p]
      BY <1>0, <2>1, <2>10 DEF Change
    <3>2. owner[p].task # None /\ gen'[owner[p].task] = "running" => Calm(owner[p])
      BY <1>0, <2>3 DEF Use
    <3>. QED BY <2>1, <3>1, <3>2 DEF Tame, Use, Registered
  <2>11. ASSUME NEW s \in Requests PROVE Settles(s)
    BY <2>2, <2>4 DEF Settles, Ends
  <2>. QED BY <2>7, <2>8, <2>9, <2>10, <2>11, UseStays
<1>3. ASSUME NEW r \in Requests, JoinEnds(r) \/ CleanUpAgain(r)
      PROVE  Use'
  <2>. DEFINE o == req[r].own
              w == owner[o]
              v == owner'[o]
  <2>1. /\ o \in Requests /\ UNCHANGED <<items, gen>>
        /\ Change(o, v) /\ Steady(w, v) /\ Retires(w, v, req[r].verdict)
        /\ req[r].phase # "closing" => v.retire = w.retire /\ v.verdict = w.verdict
        /\ req[r].phase \in {"joining", "closing", "rejoining"}
        /\ \/ req' = [req EXCEPT ![r] = Handled("done")]
           \/ \E x \in {"closing", "rejoining"}, y \in BOOLEAN :
                 req' = [req EXCEPT ![r] = [req[r] EXCEPT !.phase = x, !.marked = y]]
    BY <1>3, CleanupFields
  <2>2. \A s \in Requests : Ends(s)
    BY <2>1 DEF Ends
  <2>3. /\ \A s \in Requests \ {r} : req'[s] = req[s]
        /\ \/ req'[r].phase = "done"
           \/ /\ req'[r].phase \in {"closing", "rejoining"} /\ req'[r].own = o
              /\ req'[r].cached = req[r].cached /\ req'[r].verdict = req[r].verdict
    <3>1. CASE req' = [req EXCEPT ![r] = Handled("done")]
      BY <1>0, <3>1 DEF Handled
    <3>2. ASSUME NEW x \in {"closing", "rejoining"}, NEW y \in BOOLEAN,
                 req' = [req EXCEPT ![r] = [req[r] EXCEPT !.phase = x, !.marked = y]]
          PROVE  /\ \A s \in Requests \ {r} : req'[s] = req[s]
                 /\ req'[r].phase \in {"closing", "rejoining"} /\ req'[r].own = o
                 /\ req'[r].cached = req[r].cached /\ req'[r].verdict = req[r].verdict
      <4>. DEFINE h == [req[r] EXCEPT !.phase = x, !.marked = y]
      <4>1. /\ h.phase = x /\ h.own = o /\ h.cached = req[r].cached
            /\ h.verdict = req[r].verdict
        BY <1>0 DEF RequestRecord
      <4>. HIDE DEF h
      <4>. QED BY <1>0, <3>2, <4>1
    <3>. QED BY <2>1, <3>1, <3>2
  <2>4. w.key \in EphemeralKeys =>
           /\ o = r /\ w.task \in {r, None}
           /\ req[r].verdict = "success" => gen[r] # "running"
    BY <2>1 DEF Use, Ephemeral, Working
  <2>5. Moves(r)
    BY <2>1, <2>3, <2>4 DEF Moves, Early, Working
  <2>6. ASSUME NEW s \in Requests, s # r PROVE Moves(s)
    BY <2>2, <2>3, <2>6, StillMoves
  <2>7. Tame(o)
    <3>1. v.task # None /\ gen'[v.task] = "running" => Calm(w)
      BY <1>0, <2>1 DEF Steady, Use
    <3>2. w.key \in EphemeralKeys /\ v.task # None /\ gen'[v.task] = "running"
          => req[r].verdict # "success"
      BY <2>1, <2>4 DEF Steady
    <3>3. v.task # None /\ gen'[v.task] = "running" => Calm(v)
      BY <2>1, <3>1, <3>2 DEF Calm, Steady, Retires
    <3>. QED BY <2>1, <3>3 DEF Tame, Steady, Use, Registered
  <2>8. Registered' = Registered
    BY <2>1 DEF Registered
  <2>. QED BY <2>1, <2>2, <2>5, <2>6, <2>7, <2>8, OneUse
<1>4. CASE Forget \/ \E r \in Requests : Generation(r)
  <2>1. UNCHANGED <<items, owner, req>> /\ \A s \in Requests : Ends(s)
    BY <1>0, <1>4 DEF Forget, Generation, GenerationEnds, Ends, Outcomes
  <2>2. \A s \in Requests : Settles(s) /\ Moves(s)
    BY <2>1, StillMoves DEF Settles
  <2>3. \A p \in Requests : Tame(p)
    BY <2>1, <2>2, MildTame DEF Mild, Registered
  <2>. QED BY <2>2, <2>3, UseStays
<1>. QED BY <1>1, <1>2, <1>3, <1>4

\* prune and the leases of a request leave an owner to those who work on it.
LEMMA LentMild ==
  ASSUME NEW w, NEW u, NEW v, Quiet(w, u), Likewise(u, v)
  PROVE  Mild(w, v)
  BY DEF Quiet, Likewise, Mild

\* A request is admitted to an owner that nothing tears down.
LEMMA AdmissionUse ==
  ASSUME IInv, Use, NEW r \in Requests, req[r].phase \in Early,
         NEW record, Asking(record), ~record.cached,
         NEW own, Accounted(items, own),
         \A o \in Requests : Quiet(owner[o], own[o]),
         Admit(r, record, own)
  PROVE  Use'
<1>. DEFINE k == record.key
            o == items[k]
<1>0. /\ req \in [Requests -> RequestRecord] /\ gen \in [Requests -> Outcomes \cup {"none", "running"}]
      /\ record \in RequestRecord /\ k \in Keys /\ items \in [Keys -> Requests \cup {None}]
      /\ \A p \in Requests : owner[p].task \in Requests \cup {None}
      /\ \A j \in Keys : items[j] # None => own[items[j]].key = j /\ req[items[j]].phase \notin Early
      /\ gen[r] = "none"
  BY DEF IInv, Accounted, Handlers, Asking, Arrived, Generations, OwnerRecord, Early, Use
<1>1. PICK new \in [Requests -> OwnerRecord] :
         /\ Lends(own, new, record)
         /\ \/ Answered(r, new)
            \/ Replays(r, record, own, new)
            \/ Restarts(r, record, own, new)
            \/ Starts(r, record, own, new)
  BY AdmitCases DEF Early
<1>2. \A p \in Requests : Mild(owner[p], new[p])
  BY <1>1, LentMild DEF Lends
<1>3. ASSUME o \in Requests, ~Engaged(own[o])
      PROVE  /\ owner[o].key \notin EphemeralKeys /\ owner[o].release = "none"
             /\ new[o].release = "none" /\ new[o].key = owner[o].key
             /\ req[o].phase \notin Early /\ o # r /\ o \in Registered
  <2>1. o # None /\ o \in Registered /\ req[o].phase \notin Early
    BY <1>0, <1>3, OwnersAssumption DEF Registered
  <2>2. ~own[o].busy /\ ~own[o].removal /\ Quiet(owner[o], own[o])
    BY <1>3 DEF Engaged
  <2>3. ~owner[o].busy /\ ~owner[o].removal /\ own[o].release = owner[o].release
    BY <2>2 DEF Quiet
  <2>4. owner[o].key \notin EphemeralKeys /\ owner[o].release = "none"
    BY <1>3, <2>1, <2>3 DEF Use, Ephemeral
  <2>5. new[o].release = "none" /\ new[o].key = owner[o].key
    BY <1>1, <1>2, <1>3, <2>3, <2>4 DEF Lends, Likewise, Mild
  <2>. QED BY <2>1, <2>4, <2>5
<1>4. CASE Answered(r, new)
  <2>1. /\ UNCHANGED <<items, gen>> /\ owner' = new
        /\ req'[r].phase = "done" /\ \A s \in Requests \ {r} : req'[s] = req[s]
    BY <1>0, <1>4 DEF Answered, Handled
  <2>2. \A s \in Requests : Settles(s) /\ Ends(s)
    BY <2>1 DEF Settles, Ends
  <2>3. Moves(r)
    BY <2>1 DEF Moves, Early, Working
  <2>4. \A s \in Requests : Moves(s)
    BY <2>1, <2>2, <2>3, StillMoves
  <2>5. \A p \in Requests : Tame(p)
    BY <1>2, <2>1, <2>2, MildTame DEF Registered
  <2>. QED BY <2>2, <2>4, <2>5, UseStays
<1>5. CASE Replays(r, record, own, new)
  <2>1. /\ UNCHANGED <<items, gen>> /\ o \in Requests /\ ~Engaged(own[o])
        /\ \A p \in Requests \ {o} : owner'[p] = new[p]
        /\ owner'[o].key = new[o].key /\ owner'[o].task = new[o].task
        /\ owner'[o].release = new[o].release /\ owner'[o].retire = "none"
        /\ owner'[o].closeTask = new[o].closeTask
    BY <1>5 DEF Replays
  <2>2. /\ \A s \in Requests \ {r} : req'[s] = req[s]
        /\ req'[r].phase = "done" \/ (req'[r].phase = "running" /\ req'[r].own = o)
    <3>1. CASE req' = [req EXCEPT ![r] = Handled("done")]
      BY <1>0, <3>1 DEF Handled
    <3>2. CASE req' = [req EXCEPT ![r] =
                  [record EXCEPT !.phase = "running", !.own = o, !.cached = TRUE]]
      <4>. DEFINE h == [record EXCEPT !.phase = "running", !.own = o, !.cached = TRUE]
      <4>1. h.phase = "running" /\ h.own = o
        BY <1>0 DEF RequestRecord
      <4>. HIDE DEF h
      <4>. QED BY <1>0, <3>2, <4>1
    <3>. QED BY <1>5, <3>1, <3>2 DEF Replays
  <2>3. \A s \in Requests : Settles(s) /\ Ends(s)
    BY <2>1 DEF Settles, Ends
  <2>4. Moves(r)
    BY <1>3, <2>1, <2>2 DEF Moves, Early, Working
  <2>5. \A s \in Requests : Moves(s)
    BY <2>2, <2>3, <2>4, StillMoves
  <2>6. ASSUME NEW p \in Requests, p # o PROVE Tame(p)
    BY <1>2, <2>1, <2>3, <2>6, MildTame DEF Registered
  <2>7. Tame(o)
    <3>1. owner[o].task # None /\ gen[owner[o].task] = "running" => Calm(owner[o])
      BY <2>1 DEF Use
    <3>2. Mild(owner[o], new[o])
      BY <1>2, <2>1
    <3>. QED BY <1>3, <2>1, <3>1, <3>2 DEF Tame, Calm, Mild, Registered
  <2>. QED BY <2>1, <2>3, <2>5, <2>6, <2>7, UseStays
<1>6. ASSUME NEW id \in Requests, NEW w, w.release = "none", w.key \in EphemeralKeys => id = r,
             w.key = owner[id].key \/ req[id].phase \in Early,
             id = r \/ req[id].phase \notin Early,
             Registered' \subseteq Registered \cup {id},
             Begun(r, record, own, new, id, w)
      PROVE  Use'
  <2>1. /\ \A p \in Requests \ {id} : owner'[p] = new[p]
        /\ Begins(w, owner'[id], <<record.content, record.stream>>, record.conversation, r)
        /\ gen' = [gen EXCEPT ![r] = "running"]
    BY <1>6 DEF Begun
  <2>2. /\ \A s \in Requests \ {r} : req'[s] = req[s]
        /\ req'[r].phase = "running" /\ req'[r].own = id /\ ~req'[r].cached
    <3>. DEFINE h == [record EXCEPT !.phase = "running", !.own = id]
    <3>1. h.phase = "running" /\ h.own = id /\ h.cached = record.cached
      BY <1>0 DEF RequestRecord
    <3>2. req' = [req EXCEPT ![r] = h]
      BY <1>6 DEF Begun
    <3>. HIDE DEF h
    <3>. QED BY <1>0, <3>1, <3>2
  <2>3. gen'[r] = "running" /\ \A s \in Requests \ {r} : gen'[s] = gen[s]
    BY <1>0, <2>1
  <2>4. \A s \in Requests : Settles(s)
    BY <1>0, <2>2, <2>3 DEF Settles, Ends, Early
  <2>5. Moves(r)
    BY <1>6, <2>1, <2>2 DEF Moves, Early, Working, Begins
  <2>6. ASSUME NEW s \in Requests, s # r PROVE Moves(s)
    BY <2>2, <2>3, <2>6, StillMoves DEF Ends
  <2>7. ASSUME NEW p \in Requests, p # id PROVE Tame(p)
    BY <1>2, <1>6, <2>1, <2>4, <2>7, MildTame
  <2>8. Tame(id)
    BY <1>6, <2>1, <2>2, <2>3 DEF Tame, Calm, Begins, Early
  <2>. QED BY <2>4, <2>5, <2>6, <2>7, <2>8, UseStays
<1>7. CASE Restarts(r, record, own, new)
  <2>1. o \in Requests /\ ~Engaged(own[o]) /\ Registered' = Registered
        /\ Begun(r, record, own, new, o, new[o])
    BY <1>7 DEF Restarts, Registered
  <2>. HIDE DEF o
  <2>. QED BY <1>3, <1>6, <2>1
<1>8. CASE Starts(r, record, own, new)
  <2>. DEFINE w == [NewOwner(k) EXCEPT !.leases = record.leases]
  <2>1. Begun(r, record, own, new, r, w) /\ Registered' \subseteq Registered \cup {r}
    BY <1>0, <1>8 DEF Starts, Registered
  <2>2. w.release = "none"
    BY DEF NewOwner
  <2>. HIDE DEF w
  <2>. QED BY <1>6, <2>1, <2>2
<1>. QED BY <1>1, <1>4, <1>5, <1>7, <1>8

\* A request that arrives, or waits for prune, finds the owners calm.
LEMMA ArrivalUse ==
  ASSUME IInv, Use, NEW r \in Requests,
         \/ \E record \in Inputs, e \in Expired : Receive(r, record, e)
         \/ AdmitAfterPrune(r)
  PROVE  Use'
<1>1. ASSUME NEW record \in Inputs, NEW e \in Expired, Receive(r, record, e)
      PROVE  Use'
  <2>. DEFINE own == Pruned(e)
  <2>1. Asking(record) /\ ~record.cached /\ record.phase = "pruning"
    BY OwnersAssumption DEF Inputs, Asking, RequestRecord, Phases, Verdicts
  <2>2. Accounted(items, own)
    <3>1. \A o \in Requests : Keeps(owner[o], own[o])
      BY PrunedKeeps
    <3>2. own = [o \in Requests |-> own[o]]
      BY PrunedKeeps
    <3>. HIDE DEF own
    <3>. QED BY <3>1, <3>2, KeepsAll DEF IInv
  <2>3. \A o \in Requests : Quiet(owner[o], own[o])
    BY PrunedQuiet
  <2>4. req[r].phase = "idle"
    BY <1>1 DEF Receive
  <2>5. CASE Admit(r, record, own)
    <3>. HIDE DEF own
    <3>. QED BY <2>1, <2>2, <2>3, <2>4, <2>5, AdmissionUse DEF Early
  <2>6. CASE /\ owner' = own
             /\ req' = [req EXCEPT ![r] = record]
             /\ UNCHANGED <<items, gen>>
    <3>. HIDE DEF own
    <3>1. req'[r] = record /\ \A s \in Requests \ {r} : req'[s] = req[s]
      BY <2>6 DEF IInv, Handlers
    <3>2. \A s \in Requests : Settles(s) /\ Ends(s)
      BY <2>6 DEF Settles, Ends
    <3>3. Moves(r)
      BY <2>1, <2>4, <3>1 DEF Moves, Early, Working
    <3>4. ASSUME NEW s \in Requests, s # r PROVE Moves(s)
      BY <3>1, <3>2, <3>4, StillMoves
    <3>5. \A p \in Requests : Mild(owner[p], owner'[p])
      BY <2>3, <2>6 DEF Quiet, Mild
    <3>6. \A p \in Requests : Tame(p)
      BY <2>6, <3>2, <3>5, MildTame DEF Registered
    <3>. QED BY <3>2, <3>3, <3>4, <3>6, UseStays
  <2>. QED BY <1>1, <2>5, <2>6 DEF Receive
<1>2. CASE AdmitAfterPrune(r)
  <2>1. req[r].phase = "pruning" /\ Admit(r, req[r], owner)
    BY <1>2 DEF AdmitAfterPrune
  <2>2. Asking(req[r]) /\ ~req[r].cached
    BY <2>1 DEF IInv, Handlers, Sane, Asking, Use, Early
  <2>3. \A o \in Requests : Quiet(owner[o], owner[o])
    BY QuietSame DEF IInv, Accounted
  <2>. QED BY <2>1, <2>2, <2>3, AdmissionUse DEF IInv, Early
<1>. QED BY <1>1, <1>2

\* Owners are used in turn, and calm while they are used, in every reachable state.
LEMMA UseInvariant == Spec => []Use
<1>1. Init => Use
  <2>. SUFFICES ASSUME Init PROVE Use
    OBVIOUS
  <2>1. Registered = {}
    BY OwnersAssumption DEF Init, Registered
  <2>2. \A o \in Requests :
           /\ owner[o].key = None /\ owner[o].task = None /\ owner[o].release = "none"
    BY DEF Init, NewOwner
  <2>3. \A r \in Requests : req[r].phase = "idle" /\ ~req[r].cached /\ gen[r] = "none"
    BY DEF Init, Handled
  <2>. QED BY <2>1, <2>2, <2>3 DEF Use, Early, Working
<1>2. IInv /\ Use /\ [Next]_vars => Use'
  <2>. SUFFICES ASSUME IInv, Use, [Next]_vars PROVE Use'
    OBVIOUS
  <2>1. CASE Clients
    <3>1. ASSUME NEW dead \in (SUBSET (Leases \cup (Keys \ LogicalKeys))) \ {{}},
                 ProcessExits(dead)
          PROVE  Use'
      <4>1. dead \in SUBSET (Leases \cup Keys)
        OBVIOUS
      <4>. QED BY <3>1, <4>1, OthersUse
    <3>. QED BY <2>1, <3>1, ArrivalUse, OthersUse DEF Clients
  <2>2. ASSUME NEW r \in Requests, Handler(r) \/ Generation(r) PROVE Use'
    BY <2>2, ArrivalUse, OthersUse DEF Handler
  <2>3. ASSUME NEW o \in Requests,
               RetireTask(o) \/ ReleaseTask(o) \/ CloseThread(o) \/ CloseTask(o)
        PROVE  Use'
    BY <2>3, TasksUse
  <2>4. CASE Reaper \/ Shutdown \/ Forget
    BY <2>4, OthersUse
  <2>5. CASE UNCHANGED vars
    BY <2>5 DEF vars, Use, Registered, Ephemeral, Calm
  <2>. QED BY <2>1, <2>2, <2>3, <2>4, <2>5 DEF Next
<1>. QED BY <1>1, <1>2, OwnersInvariant, PTL DEF Spec

\* No engine is closed under a generation that was not cancelled first: _retire and
\* _release_owner cancel it before they call _close, and an ephemeral owner is closed
\* after a success only when its one generation has ended.
THEOREM NeverClosedUnderGeneration == Spec => []NoCloseUnderGeneration
<1>1. Use => NoCloseUnderGeneration
  BY DEF Use, NoCloseUnderGeneration, Calm
<1>. QED BY <1>1, UseInvariant, PTL
----------------------------------------------------------------------------
(* One generation, and its own result, as long as no response is streamed *)

\* A handler that waits for its generation has the owner to itself, and a running
\* generation has a handler that waits for it or a retirement that will cancel it.
Whole ==
    /\ \A r \in Requests :
         ~req[r].stream /\ ~req[r].cached /\ req[r].phase \notin {"closing", "rejoining"}
    /\ \A r \in Requests : req[r].phase = "running" =>
         LET w == owner[req[r].own] IN
         /\ w.fingerprint = <<req[r].content, req[r].stream>>
         /\ w.cleanup = "none" /\ w.retire = "none"
         /\ req[r].own \in Registered => w.busy /\ w.task = r
    /\ \A r, s \in Requests :
         req[r].phase = "running" /\ req[s].phase = "running" /\ req[r].own = req[s].own => r = s
    /\ \A o \in Requests : owner[o].result \in {None, owner[o].fingerprint}
    /\ \A r \in Requests : gen[r] = "running" =>
         \E o \in Requests :
            /\ owner[o].busy /\ owner[o].task = r
            /\ \/ req[r].phase = "running" /\ req[r].own = o
               \/ owner[o].retire = "new" /\ owner[o].verdict # "success"

\* What a step may do to an owner under the request that waits for it.
Firm(o) ==
    LET w == owner[o]
        v == owner'[o]
    IN /\ v.fingerprint = w.fingerprint
       /\ v.result \in {None, w.result, w.fingerprint}
       /\ o \in Registered' => o \in Registered
       /\ \A r \in Requests :
            /\ req[r].phase = "running" /\ req[r].own = o /\ req'[r].phase = "running"
            /\ w.retire = "none" /\ w.cleanup = "none"
            => /\ v.retire = "none" /\ v.cleanup = "none"
               /\ o \in Registered' => (w.busy => v.busy) /\ v.task = w.task
       /\ w.busy /\ w.task \in Requests /\ gen'[w.task] = "running"
            /\ \/ req[w.task].phase = "running" /\ req[w.task].own = o
               \/ w.retire = "new" /\ w.verdict # "success"
          => /\ v.busy /\ v.task = w.task
             /\ \/ /\ v.retire = w.retire /\ v.verdict = w.verdict
                   /\ req[w.task].phase = "running" => req'[w.task] = req[w.task]
                \/ v.retire = "new" /\ v.verdict # "success"

\* A handler waits on, or is past that.
Waits(r) ==
    \/ req'[r] = req[r]
    \/ /\ req'[r].phase \notin {"running", "closing", "rejoining"}
       /\ ~req'[r].stream /\ ~req'[r].cached

\* The invariant is kept by firm owners, under handlers that wait.
LEMMA WholeStays ==
  ASSUME IInv, Whole, \A o \in Requests : Firm(o),
         \A r \in Requests : Waits(r) /\ (gen'[r] = "running" => gen[r] = "running")
  PROVE  Whole'
<1>0. \A r \in Requests : req[r].phase = "running" => req[r].own \in Requests
  BY DEF IInv, Handlers, Sane
<1>1. \A r \in Requests :
         ~req'[r].stream /\ ~req'[r].cached /\ req'[r].phase \notin {"closing", "rejoining"}
  BY DEF Whole, Waits
<1>2. \A r \in Requests : req'[r].phase = "running" => req'[r] = req[r]
  BY DEF Waits
<1>3. ASSUME NEW r \in Requests, req'[r].phase = "running"
      PROVE  LET w == owner'[req'[r].own] IN
             /\ w.fingerprint = <<req'[r].content, req'[r].stream>>
             /\ w.cleanup = "none" /\ w.retire = "none"
             /\ req'[r].own \in Registered' => w.busy /\ w.task = r
  <2>1. req'[r] = req[r] /\ req[r].own \in Requests /\ Firm(req[r].own)
    BY <1>0, <1>2, <1>3
  <2>. QED BY <1>3, <2>1 DEF Whole, Firm
<1>4. \A r, s \in Requests :
         req'[r].phase = "running" /\ req'[s].phase = "running" /\ req'[r].own = req'[s].own
         => r = s
  BY <1>2 DEF Whole
<1>5. \A o \in Requests : owner'[o].result \in {None, owner'[o].fingerprint}
  BY DEF Whole, Firm
<1>6. ASSUME NEW r \in Requests, gen'[r] = "running"
      PROVE  \E o \in Requests :
                /\ owner'[o].busy /\ owner'[o].task = r
                /\ \/ req'[r].phase = "running" /\ req'[r].own = o
                   \/ owner'[o].retire = "new" /\ owner'[o].verdict # "success"
  <2>1. PICK o \in Requests :
           /\ owner[o].busy /\ owner[o].task = r
           /\ \/ req[r].phase = "running" /\ req[r].own = o
              \/ owner[o].retire = "new" /\ owner[o].verdict # "success"
    BY <1>6 DEF Whole
  <2>2. Firm(o)
    OBVIOUS
  <2>3. /\ owner'[o].busy /\ owner'[o].task = r
        /\ \/ req'[r].phase = "running" /\ req'[r].own = o
           \/ owner'[o].retire = "new" /\ owner'[o].verdict # "success"
    BY <1>6, <2>1, <2>2 DEF Firm
  <2>. QED BY <2>3
<1>. QED BY <1>1, <1>3, <1>4, <1>5, <1>6 DEF Whole

\* A step that works on one owner has to be firm there.
LEMMA OneWhole ==
  ASSUME IInv, Whole, NEW o \in Requests, Change(o, owner'[o]), Firm(o),
         Registered' \subseteq Registered,
         \A r \in Requests : Waits(r) /\ (gen'[r] = "running" => gen[r] = "running"),
         \A r \in Requests : req'[r] # req[r] => req[r].phase # "running" \/ req[r].own = o
  PROVE  Whole'
<1>1. ASSUME NEW p \in Requests, p # o PROVE Firm(p)
  <2>1. owner'[p] = owner[p]
    BY <1>1 DEF Change, IInv, Accounted
  <2>2. owner[p].task \in Requests /\ req[owner[p].task].phase = "running"
           /\ req[owner[p].task].own = p => req'[owner[p].task] = req[owner[p].task]
    BY <1>1
  <2>. QED BY <2>1, <2>2 DEF Firm
<1>. QED BY <1>1, WholeStays

\* Retirement and release leave a generation, its owner and its result alone, or
\* cancel the generation.
LEMMA TasksWhole ==
  ASSUME IInv, Use, Whole, NEW o \in Requests,
         RetireTask(o) \/ ReleaseTask(o) \/ CloseThread(o) \/ CloseTask(o)
  PROVE  Whole'
<1>. DEFINE w == owner[o]
            v == owner'[o]
<1>0. w.task \in Requests /\ gen[w.task] = "running" => Calm(w)
  BY OwnersAssumption DEF Use
<1>1. ASSUME Change(o, v), Firm(o), UNCHANGED <<items, req>>, UNCHANGED gen \/ Cancel(w.task)
      PROVE  Whole'
  <2>1. \A r \in Requests : Waits(r) /\ (gen'[r] = "running" => gen[r] = "running")
    BY <1>1, CancelSettles DEF Ends, Waits
  <2>. QED BY <1>1, <2>1, OneWhole DEF Registered
<1>2. ASSUME Change(o, v), Firm(o), NEW gone \in BOOLEAN, PopIf(gone, o), UNCHANGED <<req, gen>>
      PROVE  Whole'
  <2>1. Registered' \subseteq Registered
    BY <1>2, PopUnregisters
  <2>. QED BY <1>2, <2>1, OneWhole DEF Waits
<1>3. UNCHANGED items => Registered' = Registered
  BY DEF Registered
<1>4. Cancel(w.task) => (w.task \in Requests => gen'[w.task] # "running")
  BY CancelSettles
<1>5. CASE RetireSuccess(o)
  <2>1. /\ Change(o, v) /\ UNCHANGED <<items, req, gen>> /\ w.retire = "new"
        /\ w.verdict = "success" /\ v.fingerprint = w.fingerprint /\ v.result = w.result
    BY <1>5, RetireSuccessFields DEF Kept
  <2>2. Firm(o)
    BY <1>3, <2>1 DEF Firm, Whole
  <2>. QED BY <1>1, <2>1, <2>2
<1>6. CASE RetireFailure(o)
  <2>1. /\ Change(o, v) /\ UNCHANGED <<items, req>> /\ Cancel(w.task) /\ w.retire = "new"
        /\ v.fingerprint = w.fingerprint /\ v.result = None
    BY <1>6, RetireFailureFields
  <2>2. Firm(o)
    BY <1>3, <1>4, <2>1 DEF Firm
  <2>. QED BY <1>1, <2>1, <2>2
<1>7. CASE RetireClose(o)
  <2>1. /\ Change(o, v) /\ UNCHANGED <<items, req, gen>> /\ Kept(w, v) /\ w.retire = "gathering"
    BY <1>7, RetireCloseFields
  <2>2. Firm(o)
    BY <1>0, <1>3, <2>1 DEF Firm, Kept, Calm
  <2>. QED BY <1>1, <2>1, <2>2
<1>8. CASE RetireEnds(o)
  <2>1. PICK gone \in BOOLEAN :
           /\ Change(o, v) /\ PopIf(gone, o) /\ UNCHANGED <<req, gen>> /\ w.retire = "closing"
           /\ v.fingerprint = w.fingerprint /\ v.result \in {None, w.result}
    BY <1>8, RetireEndsFields
  <2>2. Registered' \subseteq Registered
    BY <2>1, PopUnregisters
  <2>3. Firm(o)
    BY <1>0, <2>1, <2>2 DEF Firm, Calm
  <2>. QED BY <1>2, <2>1, <2>3
<1>9. ASSUME Change(o, v), UNCHANGED <<items, req>>, Kept(w, v),
             v.retire = w.retire, UNCHANGED gen \/ Cancel(w.task)
      PROVE  Whole'
  <2>1. Firm(o)
    BY <1>3, <1>9 DEF Firm, Kept
  <2>. QED BY <1>1, <1>9, <2>1
<1>10. CASE ReleaseStarts(o)
  BY <1>9, <1>10, ReleaseStartsFields
<1>11. CASE ReleaseCancels(o)
  BY <1>9, <1>11, ReleaseCancelsFields
<1>12. CASE ReleaseCloses(o)
  BY <1>9, <1>12, ReleaseClosesFields
<1>13. CASE CloseThread(o) \/ CloseTask(o)
  BY <1>9, <1>13, CloseFields
<1>14. CASE ReleaseEnds(o)
  <2>1. PICK gone \in BOOLEAN :
           /\ Change(o, v) /\ PopIf(gone, o) /\ UNCHANGED <<req, gen>>
           /\ w.release = "closing"
           /\ \/ Kept(w, v) /\ v.retire = w.retire
              \/ /\ gone /\ v.fingerprint = w.fingerprint /\ v.result = None
                 /\ v.retire = w.retire /\ v.cleanup = w.cleanup
    BY <1>14, ReleaseEndsFields
  <2>2. Registered' \subseteq Registered /\ (gone => o \notin Registered')
    BY <2>1, PopUnregisters
  <2>3. Firm(o)
    BY <1>0, <2>1, <2>2 DEF Firm, Kept, Calm
  <2>. QED BY <1>2, <2>1, <2>3
<1>. QED BY <1>5, <1>6, <1>7, <1>8, <1>10, <1>11, <1>12, <1>13, <1>14 DEF RetireTask, ReleaseTask

\* An owner that nobody works on in this step is firm.
LEMMA QuietFirm ==
  ASSUME IInv, NEW o \in Requests, Quiet(owner[o], owner'[o]) \/ owner'[o] = owner[o],
         o \in Registered' => o \in Registered,
         \A r \in Requests : req[r].phase = "running" => req'[r] = req[r]
  PROVE  Firm(o)
  BY DEF Quiet, Firm

\* Handlers, generations and whoever closes owners leave the result of an owner
\* to the request it answers.
LEMMA OthersWhole ==
  ASSUME IInv, Use, Whole,
         \/ \E k \in Keys : CloseOwner(k)
         \/ \E lease \in Leases : CloseLease(lease)
         \/ \E dead \in SUBSET (Leases \cup Keys) : ProcessExits(dead)
         \/ Reaper \/ Shutdown
         \/ \E r \in Requests : Succeed(r) \/ Fail(r) \/ Abandon(r)
         \/ \E r \in Requests : JoinEnds(r) \/ CleanUpAgain(r)
         \/ \E r \in Requests : Generation(r)
         \/ Forget
  PROVE  Whole'
<1>0. /\ owner \in [Requests -> OwnerRecord] /\ req \in [Requests -> RequestRecord]
      /\ gen \in [Requests -> Outcomes \cup {"none", "running"}]
  BY DEF IInv, Accounted, Handlers, Generations
<1>1. CASE \/ \E k \in Keys : CloseOwner(k)
           \/ \E lease \in Leases : CloseLease(lease)
           \/ \E dead \in SUBSET (Leases \cup Keys) : ProcessExits(dead)
           \/ Reaper \/ Shutdown
  <2>1. UNCHANGED <<items, req, gen>> /\ \A o \in Requests : Quiet(owner[o], owner'[o])
    BY <1>1, ReleasesQuiet
  <2>2. \A o \in Requests : Firm(o)
    BY <2>1, QuietFirm DEF Registered
  <2>. QED BY <2>1, <2>2, WholeStays DEF Waits
<1>2. ASSUME NEW r \in Requests, Succeed(r) \/ Fail(r) \/ Abandon(r)
      PROVE  Whole'
  <2>. DEFINE o == req[r].own
              w == owner[o]
              v == owner'[o]
  <2>1. PICK verdict \in Verdicts :
           /\ o \in Requests /\ req[r].phase = "running"
           /\ Change(o, v) /\ Steady(w, v)
           /\ w.cleanup = "none" => v.retire = "new" /\ v.verdict = verdict
           /\ v.result \in {w.result, <<req[r].content, req[r].stream>>}
           /\ req' = [req EXCEPT ![r].phase = "joining", ![r].verdict = verdict]
           /\ gen' = IF gen[r] \in {"none", "running"} THEN gen
                     ELSE [gen EXCEPT ![r] = "ended"]
           /\ verdict = "success" => req[r].cached \/ gen[r] = "result"
           /\ UNCHANGED items
    BY <1>2, FinishFields
  <2>2. \A s \in Requests : gen'[s] = "running" => gen[s] = "running"
    BY <1>0, <2>1
  <2>3. /\ req'[r].phase = "joining" /\ req'[r].stream = req[r].stream
        /\ req'[r].cached = req[r].cached
        /\ \A s \in Requests \ {r} : req'[s] = req[s]
    <3>. DEFINE h == [req[r] EXCEPT !.phase = "joining", !.verdict = verdict]
    <3>1. req' = [req EXCEPT ![r] = h]
      BY <1>0, <2>1
    <3>2. h.phase = "joining" /\ h.stream = req[r].stream /\ h.cached = req[r].cached
      BY <1>0 DEF RequestRecord
    <3>. HIDE DEF h
    <3>. QED BY <1>0, <3>1, <3>2
  <2>4. /\ w.fingerprint = <<req[r].content, req[r].stream>> /\ w.cleanup = "none"
        /\ w.retire = "none" /\ ~req[r].cached /\ ~req[r].stream
        /\ \A s \in Requests : req[s].phase = "running" /\ req[s].own = o => s = r
    BY <2>1 DEF Whole
  <2>5. /\ v.retire = "new" /\ v.verdict = verdict /\ v.fingerprint = w.fingerprint
        /\ v.result \in {w.result, w.fingerprint} /\ v.busy = w.busy /\ v.task = w.task
    BY <2>1, <2>4 DEF Steady
  <2>6. w.task \in Requests /\ gen'[w.task] = "running"
           /\ req[w.task].phase = "running" /\ req[w.task].own = o => verdict # "success"
    <3>1. verdict = "success" => gen'[r] # "running"
      BY <1>0, <2>1, <2>4
    <3>. QED BY <2>4, <3>1
  <2>7. Firm(o)
    <3>1. ASSUME w.busy, w.task \in Requests, gen'[w.task] = "running",
                 \/ req[w.task].phase = "running" /\ req[w.task].own = o
                 \/ w.retire = "new" /\ w.verdict # "success"
          PROVE  v.busy /\ v.task = w.task /\ v.retire = "new" /\ v.verdict # "success"
      BY <2>4, <2>5, <2>6, <3>1
    <3>2. Registered' = Registered
      BY <2>1 DEF Registered
    <3>. QED BY <2>3, <2>4, <2>5, <3>1, <3>2 DEF Firm
  <2>8. \A s \in Requests : Waits(s)
    BY <2>3, <2>4 DEF Waits
  <2>9. /\ \A s \in Requests : req'[s] # req[s] => req[s].phase # "running" \/ req[s].own = o
        /\ Registered' \subseteq Registered
    BY <2>1, <2>3 DEF Registered
  <2>. HIDE DEF o
  <2>. QED BY <2>1, <2>2, <2>7, <2>8, <2>9, OneWhole
<1>3. ASSUME NEW r \in Requests, JoinEnds(r) \/ CleanUpAgain(r)
      PROVE  Whole'
  <2>. DEFINE o == req[r].own
              w == owner[o]
              v == owner'[o]
  <2>0. ~req[r].stream /\ req[r].phase # "closing"
    BY DEF Whole
  <2>1. /\ o \in Requests /\ UNCHANGED <<items, gen>>
        /\ Change(o, v) /\ Steady(w, v) /\ v.result = w.result
        /\ v.retire = w.retire /\ v.cleanup = w.cleanup /\ v.verdict = w.verdict
        /\ req[r].phase \in {"joining", "closing", "rejoining"}
        /\ req' = [req EXCEPT ![r] = Handled("done")]
    BY <1>3, <2>0, CleanupFields
  <2>2. /\ req'[r].phase = "done" /\ ~req'[r].stream /\ ~req'[r].cached
        /\ \A s \in Requests \ {r} : req'[s] = req[s]
    BY <1>0, <2>1 DEF Handled
  <2>3. Firm(o)
    BY <2>1, <2>2 DEF Firm, Steady, Registered
  <2>4. \A s \in Requests : Waits(s)
    BY <2>2 DEF Waits
  <2>5. /\ \A s \in Requests : req'[s] # req[s] => req[s].phase # "running" \/ req[s].own = o
        /\ Registered' \subseteq Registered
    BY <2>1, <2>2 DEF Registered
  <2>6. \A s \in Requests : gen'[s] = "running" => gen[s] = "running"
    BY <2>1
  <2>. HIDE DEF o
  <2>. QED BY <2>1, <2>3, <2>4, <2>5, <2>6, OneWhole
<1>4. CASE Forget \/ \E r \in Requests : Generation(r)
  <2>1. /\ UNCHANGED <<items, owner, req>>
        /\ \A s \in Requests : gen'[s] = "running" => gen[s] = "running"
    BY <1>0, <1>4 DEF Forget, Generation, GenerationEnds, Outcomes
  <2>2. \A p \in Requests : Firm(p)
    BY <2>1, QuietFirm DEF Registered
  <2>. QED BY <2>1, <2>2, WholeStays DEF Waits
<1>. QED BY <1>1, <1>2, <1>3, <1>4

\* A request is admitted to an owner that no other request waits for.
LEMMA AdmissionWhole ==
  ASSUME IInv, Use, Whole, NEW r \in Requests, req[r].phase \in Early,
         NEW record, Asking(record), ~record.cached, ~record.stream,
         NEW own, Accounted(items, own),
         \A o \in Requests : Quiet(owner[o], own[o]),
         Admit(r, record, own)
  PROVE  Whole'
<1>. DEFINE k == record.key
            o == items[k]
<1>0. /\ req \in [Requests -> RequestRecord] /\ gen \in [Requests -> Outcomes \cup {"none", "running"}]
      /\ record \in RequestRecord /\ k \in Keys /\ items \in [Keys -> Requests \cup {None}]
      /\ req[r].phase # "running" /\ gen[r] = "none"
      /\ \A s \in Requests : req[s].phase = "running" => req[s].own \in Requests
  BY DEF IInv, Accounted, Handlers, Sane, Asking, Generations, Early, Use
<1>1. PICK new \in [Requests -> OwnerRecord] :
         /\ Lends(own, new, record)
         /\ \/ Answered(r, new)
            \/ Replays(r, record, own, new)
            \/ Restarts(r, record, own, new)
            \/ Starts(r, record, own, new)
  BY AdmitCases DEF Early
<1>2. ASSUME NEW p \in Requests
      PROVE  LET w == owner[p]
                 v == new[p]
             IN /\ v.task = w.task /\ v.fingerprint = w.fingerprint /\ v.result = w.result
                /\ v.retire = w.retire /\ v.cleanup = w.cleanup /\ v.verdict = w.verdict
                /\ w.busy => v.busy
  <2>1. Quiet(owner[p], own[p]) /\ Likewise(own[p], new[p])
    BY <1>1 DEF Lends
  <2>. QED BY <2>1 DEF Quiet, Likewise
<1>3. ASSUME o \in Requests, ~Engaged(own[o])
      PROVE  /\ ~owner[o].busy
             /\ \A s \in Requests : req[s].phase = "running" => req[s].own # o
  <2>1. o \in Registered
    BY <1>0, <1>3 DEF Registered
  <2>2. ~own[o].busy /\ Quiet(owner[o], own[o])
    BY <1>3 DEF Engaged
  <2>3. ~owner[o].busy
    BY <2>2 DEF Quiet
  <2>. QED BY <2>1, <2>3 DEF Whole
<1>4. CASE Answered(r, new)
  <2>1. /\ UNCHANGED <<items, gen>> /\ owner' = new
        /\ req'[r].phase = "done" /\ ~req'[r].stream /\ ~req'[r].cached
        /\ \A s \in Requests \ {r} : req'[s] = req[s]
    BY <1>0, <1>4 DEF Answered, Handled
  <2>2. ASSUME NEW p \in Requests PROVE Firm(p)
    BY <1>0, <1>2, <2>1 DEF Firm, Registered
  <2>. QED BY <2>1, <2>2, WholeStays DEF Waits
<1>5. CASE Replays(r, record, own, new)
  <2>1. /\ UNCHANGED <<items, gen>> /\ o \in Requests /\ ~Engaged(own[o])
        /\ \A p \in Requests \ {o} : owner'[p] = new[p]
        /\ owner'[o].fingerprint = new[o].fingerprint /\ owner'[o].result = new[o].result
        /\ req' = [req EXCEPT ![r] = Handled("done")]
    BY <1>5 DEF Replays
  <2>2. /\ req'[r].phase = "done" /\ ~req'[r].stream /\ ~req'[r].cached
        /\ \A s \in Requests \ {r} : req'[s] = req[s]
    BY <1>0, <2>1 DEF Handled
  <2>3. ASSUME NEW p \in Requests, p # o PROVE Firm(p)
    BY <1>0, <1>2, <2>1, <2>2, <2>3 DEF Firm, Registered
  <2>4. Firm(o)
    BY <1>2, <1>3, <2>1 DEF Firm, Registered
  <2>. QED BY <2>1, <2>2, <2>3, <2>4, WholeStays DEF Waits
<1>6. ASSUME NEW id \in Requests, NEW w,
             \A s \in Requests : req[s].phase = "running" => req[s].own # id,
             ~(owner[id].busy /\ owner[id].task \in Requests),
             Registered' \subseteq Registered \cup {id},
             Begun(r, record, own, new, id, w)
      PROVE  Whole'
  <2>1. /\ \A p \in Requests \ {id} : owner'[p] = new[p]
        /\ Begins(w, owner'[id], <<record.content, record.stream>>, record.conversation, r)
        /\ gen' = [gen EXCEPT ![r] = "running"]
    BY <1>6 DEF Begun
  <2>2. /\ \A s \in Requests \ {r} : req'[s] = req[s]
        /\ req'[r].phase = "running" /\ req'[r].own = id /\ ~req'[r].cached
        /\ ~req'[r].stream
        /\ <<req'[r].content, req'[r].stream>> = <<record.content, record.stream>>
    <3>. DEFINE h == [record EXCEPT !.phase = "running", !.own = id]
    <3>1. /\ h.phase = "running" /\ h.own = id /\ h.cached = record.cached
          /\ h.stream = record.stream /\ h.content = record.content
      BY <1>0 DEF RequestRecord
    <3>2. req' = [req EXCEPT ![r] = h]
      BY <1>6 DEF Begun
    <3>. HIDE DEF h
    <3>. QED BY <1>0, <3>1, <3>2
  <2>3. gen'[r] = "running" /\ \A s \in Requests \ {r} : gen'[s] = gen[s]
    BY <1>0, <2>1
  <2>4. \A s \in Requests :
           ~req'[s].stream /\ ~req'[s].cached /\ req'[s].phase \notin {"closing", "rejoining"}
    BY <2>2 DEF Whole
  <2>5. /\ owner'[id].fingerprint = <<req'[r].content, req'[r].stream>>
        /\ owner'[id].cleanup = "none" /\ owner'[id].retire = "none"
        /\ owner'[id].busy /\ owner'[id].task = r /\ owner'[id].result = None
    BY <2>1, <2>2 DEF Begins
  <2>6. ASSUME NEW s \in Requests, req'[s].phase = "running"
        PROVE  LET u == owner'[req'[s].own] IN
               /\ u.fingerprint = <<req'[s].content, req'[s].stream>>
               /\ u.cleanup = "none" /\ u.retire = "none"
               /\ req'[s].own \in Registered' => u.busy /\ u.task = s
    <3>1. CASE s = r
      BY <2>2, <2>5, <3>1
    <3>2. CASE s # r
      <4>. DEFINE p == req[s].own
      <4>1. req'[s] = req[s] /\ p \in Requests /\ p # id /\ owner'[p] = new[p]
        BY <1>0, <1>6, <2>1, <2>2, <2>6, <3>2
      <4>2. /\ owner[p].fingerprint = <<req[s].content, req[s].stream>>
            /\ owner[p].cleanup = "none" /\ owner[p].retire = "none"
            /\ p \in Registered => owner[p].busy /\ owner[p].task = s
        BY <2>6, <4>1 DEF Whole
      <4>3. p \in Registered' => p \in Registered
        BY <1>6, <4>1
      <4>. QED BY <1>2, <4>1, <4>2, <4>3
    <3>. QED BY <3>1, <3>2
  <2>7. ASSUME NEW s \in Requests, NEW t \in Requests,
               req'[s].phase = "running", req'[t].phase = "running", req'[s].own = req'[t].own
        PROVE  s = t
    BY <1>6, <2>2, <2>7 DEF Whole
  <2>8. ASSUME NEW p \in Requests PROVE owner'[p].result \in {None, owner'[p].fingerprint}
    BY <1>2, <2>1, <2>5 DEF Whole
  <2>9. ASSUME NEW s \in Requests, gen'[s] = "running"
        PROVE  \E p \in Requests :
                  /\ owner'[p].busy /\ owner'[p].task = s
                  /\ \/ req'[s].phase = "running" /\ req'[s].own = p
                     \/ owner'[p].retire = "new" /\ owner'[p].verdict # "success"
    <3>1. CASE s = r
      BY <2>2, <2>5, <3>1
    <3>2. CASE s # r
      <4>1. gen[s] = "running" /\ req'[s] = req[s]
        BY <2>2, <2>3, <2>9, <3>2
      <4>2. PICK p \in Requests :
               /\ owner[p].busy /\ owner[p].task = s
               /\ \/ req[s].phase = "running" /\ req[s].own = p
                  \/ owner[p].retire = "new" /\ owner[p].verdict # "success"
        BY <4>1 DEF Whole
      <4>3. p # id /\ owner'[p] = new[p]
        BY <1>6, <2>1, <4>2
      <4>. QED BY <1>2, <4>1, <4>2, <4>3
    <3>. QED BY <3>1, <3>2
  <2>. QED BY <2>4, <2>6, <2>7, <2>8, <2>9 DEF Whole
<1>7. CASE Restarts(r, record, own, new)
  <2>1. o \in Requests /\ ~Engaged(own[o]) /\ Registered' = Registered
        /\ Begun(r, record, own, new, o, new[o])
    BY <1>7 DEF Restarts, Registered
  <2>. HIDE DEF o
  <2>. QED BY <1>3, <1>6, <2>1
<1>8. CASE Starts(r, record, own, new)
  <2>. DEFINE w == [NewOwner(k) EXCEPT !.leases = record.leases]
  <2>1. Begun(r, record, own, new, r, w) /\ Registered' \subseteq Registered \cup {r}
    BY <1>0, <1>8 DEF Starts, Registered
  <2>2. /\ \A s \in Requests : req[s].phase = "running" => req[s].own # r
        /\ owner[r].task \notin Requests
    BY OwnersAssumption DEF Use, Working
  <2>. HIDE DEF w
  <2>. QED BY <1>6, <2>1, <2>2
<1>. QED BY <1>1, <1>4, <1>5, <1>7, <1>8

\* A request that arrives, or waits for prune, disturbs no other.
LEMMA ArrivalWhole ==
  ASSUME IInv, Use, Whole, Streams = {FALSE}, NEW r \in Requests,
         \/ \E record \in Inputs, e \in Expired : Receive(r, record, e)
         \/ AdmitAfterPrune(r)
  PROVE  Whole'
<1>1. ASSUME NEW record \in Inputs, NEW e \in Expired, Receive(r, record, e)
      PROVE  Whole'
  <2>. DEFINE own == Pruned(e)
  <2>1. Asking(record) /\ ~record.cached /\ record.phase = "pruning" /\ ~record.stream
    BY OwnersAssumption DEF Inputs, Asking, RequestRecord, Phases, Verdicts
  <2>2. Accounted(items, own)
    <3>1. \A o \in Requests : Keeps(owner[o], own[o])
      BY PrunedKeeps
    <3>2. own = [o \in Requests |-> own[o]]
      BY PrunedKeeps
    <3>. HIDE DEF own
    <3>. QED BY <3>1, <3>2, KeepsAll DEF IInv
  <2>3. \A o \in Requests : Quiet(owner[o], own[o])
    BY PrunedQuiet
  <2>4. req[r].phase = "idle"
    BY <1>1 DEF Receive
  <2>5. CASE Admit(r, record, own)
    <3>. HIDE DEF own
    <3>. QED BY <2>1, <2>2, <2>3, <2>4, <2>5, AdmissionWhole DEF Early
  <2>6. CASE /\ owner' = own
             /\ req' = [req EXCEPT ![r] = record]
             /\ UNCHANGED <<items, gen>>
    <3>. HIDE DEF own
    <3>1. req'[r] = record /\ \A s \in Requests \ {r} : req'[s] = req[s]
      BY <2>6 DEF IInv, Handlers
    <3>2. \A p \in Requests : Firm(p)
      BY <2>3, <2>4, <2>6, <3>1, QuietFirm DEF Registered
    <3>. QED BY <2>1, <2>6, <3>1, <3>2, WholeStays DEF Waits
  <2>. QED BY <1>1, <2>5, <2>6 DEF Receive
<1>2. CASE AdmitAfterPrune(r)
  <2>1. req[r].phase = "pruning" /\ Admit(r, req[r], owner)
    BY <1>2 DEF AdmitAfterPrune
  <2>2. Asking(req[r]) /\ ~req[r].cached /\ ~req[r].stream
    BY <2>1 DEF IInv, Handlers, Sane, Asking, Whole
  <2>3. \A o \in Requests : Quiet(owner[o], owner[o])
    BY QuietSame DEF IInv, Accounted
  <2>. QED BY <2>1, <2>2, <2>3, AdmissionWhole DEF IInv, Early
<1>. QED BY <1>1, <1>2

\* Both invariants hold together as long as no response is streamed.
LEMMA WholeInvariant == ASSUME Streams = {FALSE} PROVE Spec => []Whole
<1>1. Init => Whole
  <2>. SUFFICES ASSUME Init PROVE Whole
    OBVIOUS
  <2>1. /\ \A r \in Requests :
              req[r].phase = "idle" /\ ~req[r].cached /\ ~req[r].stream /\ gen[r] = "none"
        /\ \A o \in Requests : owner[o].result = None
    BY DEF Init, Handled, NewOwner
  <2>. QED BY <2>1 DEF Whole
<1>2. IInv /\ Use /\ Whole /\ [Next]_vars => Whole'
  <2>. SUFFICES ASSUME IInv, Use, Whole, [Next]_vars PROVE Whole'
    OBVIOUS
  <2>1. CASE Clients
    <3>1. ASSUME NEW dead \in (SUBSET (Leases \cup (Keys \ LogicalKeys))) \ {{}},
                 ProcessExits(dead)
          PROVE  Whole'
      <4>1. dead \in SUBSET (Leases \cup Keys)
        OBVIOUS
      <4>. QED BY <3>1, <4>1, OthersWhole
    <3>. QED BY <2>1, <3>1, ArrivalWhole, OthersWhole DEF Clients
  <2>2. ASSUME NEW r \in Requests, Handler(r) \/ Generation(r) PROVE Whole'
    BY <2>2, ArrivalWhole, OthersWhole DEF Handler
  <2>3. ASSUME NEW o \in Requests,
               RetireTask(o) \/ ReleaseTask(o) \/ CloseThread(o) \/ CloseTask(o)
        PROVE  Whole'
    BY <2>3, TasksWhole
  <2>4. CASE Reaper \/ Shutdown \/ Forget
    BY <2>4, OthersWhole
  <2>5. CASE UNCHANGED vars
    BY <2>5 DEF vars, Whole, Registered
  <2>. QED BY <2>1, <2>2, <2>3, <2>4, <2>5 DEF Next
<1>. QED BY <1>1, <1>2, OwnersInvariant, UseInvariant, PTL DEF Spec

\* As long as no response is streamed, a running generation is the only use of
\* its owner, whichever joins give up and whichever releases begin meanwhile.
THEOREM OneRequestAlways ==
  ASSUME Streams = {FALSE} PROVE Spec => []OneActiveRequest
<1>1. Whole => OneActiveRequest
  BY DEF Whole, OneActiveRequest
<1>. QED BY <1>1, WholeInvariant, PTL

\* As long as no response is streamed, a stored result is replayed only to the
\* request it answered.
THEOREM ResultAlwaysMatches ==
  ASSUME Streams = {FALSE} PROVE Spec => []ResultMatchesFingerprint
<1>1. Whole => ResultMatchesFingerprint
  BY DEF Whole, ResultMatchesFingerprint, Registered
<1>. QED BY <1>1, WholeInvariant, PTL
----------------------------------------------------------------------------
(* The table of tombstones *)

Contains(s, x) == \E i \in 1 .. Len(s) : s[i] = x

\* What is appended is there, and so is what was.
LEMMA ContainsAppend ==
  ASSUME NEW s \in Seq(RetryKey), NEW y \in RetryKey
  PROVE  /\ Contains(Append(s, y), y)
         /\ \A x : Contains(s, x) => Contains(Append(s, y), x)
<1>. DEFINE t == Append(s, y)
<1>1. /\ Len(t) = Len(s) + 1 /\ Len(s) \in Nat
      /\ \A i \in 1 .. Len(s) : t[i] = s[i]
      /\ t[Len(s) + 1] = y
  BY AppendProperties, LenProperties
<1>. HIDE DEF t
<1>2. Contains(t, y)
  <2>1. Len(s) + 1 \in 1 .. Len(t)
    BY <1>1
  <2>. QED BY <1>1, <2>1 DEF Contains
<1>3. ASSUME NEW x, Contains(s, x) PROVE Contains(t, x)
  <2>1. PICK i \in 1 .. Len(s) : s[i] = x
    BY <1>3 DEF Contains
  <2>2. i \in 1 .. Len(t) /\ t[i] = x
    BY <1>1, <2>1
  <2>. QED BY <2>2 DEF Contains
<1>. QED BY <1>2, <1>3 DEF t

\* Only the oldest entry is forgotten.
LEMMA ContainsTail ==
  ASSUME NEW s \in Seq(RetryKey), s # <<>>, NEW x, x # Head(s), Contains(s, x)
  PROVE  Contains(Tail(s), x)
<1>. DEFINE t == Tail(s)
<1>1. /\ Len(t) = Len(s) - 1 /\ Len(s) \in Nat
      /\ \A i \in 1 .. Len(t) : t[i] = s[i + 1]
  BY HeadTailProperties, LenProperties
<1>2. PICK i \in 1 .. Len(s) : s[i] = x
  BY DEF Contains
<1>3. i # 1
  BY <1>2
<1>. HIDE DEF t
<1>4. i - 1 \in 1 .. Len(t) /\ t[i - 1] = x
  <2>1. i - 1 \in 1 .. Len(t) /\ (i - 1) + 1 = i
    BY <1>1, <1>2, <1>3
  <2>2. t[i - 1] = s[(i - 1) + 1]
    BY <1>1, <2>1
  <2>. QED BY <1>2, <2>1, <2>2
<1>5. Contains(t, x)
  BY <1>4 DEF Contains
<1>. QED BY <1>5 DEF t

\* Removing a key leaves the others, and the oldest entry first if it is one of them.
LEMMA ContainsWithout ==
  ASSUME Memory, NEW key
  PROVE  /\ \A x : x # key /\ Contains(tombstones, x) => Contains(Without(key), x)
         /\ tombstones # <<>> /\ Head(tombstones) # key
              => Without(key) # <<>> /\ Head(Without(key)) = Head(tombstones)
<1>0. tombstones \in Seq(RetryKey)
  BY DEF Memory
<1>1. CASE ~Retained(key)
  BY <1>1 DEF Without
<1>2. CASE Retained(key)
  <2>. DEFINE i == CHOOSE i \in 1 .. Len(tombstones) : tombstones[i] = key
              a == SubSeq(tombstones, 1, i - 1)
              b == SubSeq(tombstones, i + 1, Len(tombstones))
              t == a \o b
  <2>1. i \in 1 .. Len(tombstones) /\ Len(tombstones) \in Nat /\ tombstones[i] = key
    BY <1>2 DEF Retained, Memory
  <2>2. \A j \in 1 .. Len(tombstones) : tombstones[j] \in RetryKey
    BY DEF Memory
  <2>3. Without(key) = t
    BY <1>2 DEF Without
  <2>. HIDE DEF i
  <2>4. /\ a \in Seq(RetryKey) /\ Len(a) = i - 1
        /\ \A j \in 1 .. i - 1 : a[j] = tombstones[j]
    <3>1. Len(a) = IF 1 <= i - 1 THEN (i - 1) - 1 + 1 ELSE 0
      BY <2>1, <2>2, SubSeqProperties
    <3>2. \A j \in 1 .. (i - 1) - 1 + 1 : a[j] = tombstones[1 + j - 1]
      BY <2>1, <2>2, SubSeqProperties
    <3>3. a \in Seq(RetryKey)
      BY <2>1, <2>2, SubSeqProperties
    <3>. HIDE DEF a
    <3>. QED BY <2>1, <3>1, <3>2, <3>3
  <2>5. /\ b \in Seq(RetryKey) /\ Len(b) = Len(tombstones) - i
        /\ \A j \in 1 .. Len(tombstones) - i : b[j] = tombstones[i + j]
    <3>1. Len(b) = IF i + 1 <= Len(tombstones) THEN Len(tombstones) - (i + 1) + 1 ELSE 0
      BY <2>1, <2>2, SubSeqProperties
    <3>2. \A j \in 1 .. Len(tombstones) - (i + 1) + 1 : b[j] = tombstones[i + 1 + j - 1]
      BY <2>1, <2>2, SubSeqProperties
    <3>3. b \in Seq(RetryKey)
      BY <2>1, <2>2, SubSeqProperties
    <3>. HIDE DEF b
    <3>. QED BY <2>1, <3>1, <3>2, <3>3
  <2>. HIDE DEF a, b
  <2>6. /\ Len(t) = Len(tombstones) - 1
        /\ \A j \in 1 .. Len(t) :
             t[j] = IF j <= Len(a) THEN a[j] ELSE b[j - Len(a)]
    BY <2>1, <2>4, <2>5, ConcatProperties
  <2>. HIDE DEF t
  <2>7. \A j \in 1 .. Len(t) : t[j] = IF j < i THEN tombstones[j] ELSE tombstones[j + 1]
    <3>. SUFFICES ASSUME NEW j \in 1 .. Len(t)
                  PROVE  t[j] = IF j < i THEN tombstones[j] ELSE tombstones[j + 1]
      OBVIOUS
    <3>1. CASE j < i
      BY <2>1, <2>4, <2>6, <3>1
    <3>2. CASE ~(j < i)
      <4>1. j - Len(a) \in 1 .. Len(tombstones) - i /\ i + (j - Len(a)) = j + 1 /\ ~(j <= Len(a))
        BY <2>1, <2>4, <2>6, <3>2
      <4>. QED BY <2>5, <2>6, <3>2, <4>1
    <3>. QED BY <3>1, <3>2
  <2>8. ASSUME NEW x, x # key, Contains(tombstones, x) PROVE Contains(t, x)
    <3>1. PICK j \in 1 .. Len(tombstones) : tombstones[j] = x
      BY <2>8 DEF Contains
    <3>2. CASE j < i
      <4>1. j \in 1 .. Len(t) /\ t[j] = x
        BY <2>1, <2>6, <2>7, <3>1, <3>2
      <4>. QED BY <4>1 DEF Contains
    <3>3. CASE j > i
      <4>1. j - 1 \in 1 .. Len(t) /\ ~(j - 1 < i) /\ (j - 1) + 1 = j
        BY <2>1, <2>6, <3>1, <3>3
      <4>2. t[j - 1] = x
        BY <2>7, <3>1, <4>1
      <4>. QED BY <4>1, <4>2 DEF Contains
    <3>. QED BY <2>1, <2>8, <3>1, <3>2, <3>3
  <2>9. ASSUME tombstones # <<>>, Head(tombstones) # key
        PROVE  t # <<>> /\ Head(t) = Head(tombstones)
    <3>1. t # <<>>
      BY <2>3, <2>9, WithoutNonEmpty
    <3>2. i # 1
      BY <1>0, <2>1, <2>9
    <3>3. t \in Seq(RetryKey)
      BY <2>3, WithoutType
    <3>4. Len(t) \in Nat /\ Len(t) # 0
      BY <3>1, <3>3
    <3>5. t[1] = tombstones[1]
      BY <2>1, <2>7, <3>2, <3>4
    <3>. QED BY <1>0, <2>9, <3>1, <3>3, <3>5
  <2>. QED BY <2>3, <2>8, <2>9
<1>. QED BY <1>1, <1>2

\* No step forgets a tombstone without its reason.
Fades ==
    \A s \in Requests, key \in RetryKey : <<s, key>> \in dirty' =>
        <<s, key>> \in dirty /\ (Retained(key) => Retained(key)')

\* _remember_failure remembers its key; what it pushes out of a full table no longer
\* counts as an attempt to refuse.
LEMMA RememberFades ==
  ASSUME Memory, NEW keys \in SUBSET RetryKey, Remember(keys)
  PROVE  /\ Fades
         /\ \A key : keys = {key} => Retained(key)'
<1>0. tombstones \in Seq(RetryKey) /\ Len(tombstones) \in Nat
  BY DEF Memory
<1>1. CASE keys = {}
  BY <1>1 DEF Remember, Fades, Retained
<1>2. CASE keys # {}
  <2>1. PICK key \in keys :
          IF Len(tombstones) < MaxTombstones
          THEN /\ tombstones' = Append(Without(key), key)
               /\ UNCHANGED dirty
          ELSE /\ tombstones' = IF Head(tombstones) = key
                                THEN Append(Tail(tombstones), key)
                                ELSE Append(Tail(Without(key)), key)
               /\ dirty' = dirty \ AttemptsOf({Head(tombstones)} \ {key})
    BY <1>2 DEF Remember
  <2>2. key \in RetryKey /\ Without(key) \in Seq(RetryKey)
    BY <2>1, WithoutType
  <2>3. PICK s \in Seq(RetryKey) :
          /\ tombstones' = Append(s, key)
          /\ \A p \in Requests, x \in RetryKey :
               <<p, x>> \in dirty' /\ x # key /\ Contains(tombstones, x) => Contains(s, x)
          /\ dirty' \subseteq dirty
    <3>1. CASE Len(tombstones) < MaxTombstones
      BY <2>1, <2>2, <3>1, ContainsWithout
    <3>2. CASE ~(Len(tombstones) < MaxTombstones)
      <4>1. tombstones # <<>>
        BY <1>0, <3>2, OwnersAssumption
      <4>2. CASE Head(tombstones) = key
        <5>1. Tail(tombstones) \in Seq(RetryKey)
          BY <1>0, <4>1, HeadTailProperties
        <5>2. \A x : x # key /\ Contains(tombstones, x) => Contains(Tail(tombstones), x)
          BY <1>0, <4>1, <4>2, ContainsTail
        <5>. QED BY <2>1, <3>2, <4>2, <5>1, <5>2
      <4>3. CASE Head(tombstones) # key
        <5>1. /\ Without(key) # <<>> /\ Head(Without(key)) = Head(tombstones)
              /\ \A x : x # key /\ Contains(tombstones, x) => Contains(Without(key), x)
          BY <4>1, <4>3, ContainsWithout
        <5>2. Tail(Without(key)) \in Seq(RetryKey)
          BY <2>2, <5>1, HeadTailProperties
        <5>3. \A x : x # key /\ x # Head(tombstones) /\ Contains(tombstones, x)
                 => Contains(Tail(Without(key)), x)
          BY <2>2, <5>1, ContainsTail
        <5>4. /\ dirty' = dirty \ AttemptsOf({Head(tombstones)})
              /\ tombstones' = Append(Tail(Without(key)), key)
          BY <2>1, <3>2, <4>3
        <5>5. /\ dirty' \subseteq dirty
              /\ \A p, x : <<p, x>> \in dirty' => x # Head(tombstones)
          BY <5>4 DEF AttemptsOf
        <5>. QED BY <5>2, <5>3, <5>4, <5>5
      <4>. QED BY <4>2, <4>3
    <3>. QED BY <3>1, <3>2
  <2>4. /\ Contains(tombstones', key)
        /\ \A x : Contains(s, x) => Contains(tombstones', x)
    BY <2>2, <2>3, ContainsAppend
  <2>. QED BY <2>1, <2>3, <2>4 DEF Fades, Retained, Contains
<1>. QED BY <1>1, <1>2

\* _prune_tombstones forgets the oldest entry.
LEMMA ForgetFades ==
  ASSUME Memory, Forget
  PROVE  Fades
<1>1. \A x : x # Head(tombstones) /\ Contains(tombstones, x) => Contains(Tail(tombstones), x)
  BY ContainsTail DEF Memory, Forget
<1>2. /\ dirty' \subseteq dirty /\ tombstones' = Tail(tombstones)
      /\ \A p, x : <<p, x>> \in dirty' => x # Head(tombstones)
  BY DEF Forget, AttemptsOf
<1>. QED BY <1>1, <1>2 DEF Fades, Retained, Contains

\* Most steps leave the table alone.
LEMMA SameFades ==
  ASSUME UNCHANGED tombstones, dirty' \subseteq dirty
  PROVE  Fades
  BY DEF Fades, Retained
----------------------------------------------------------------------------
(* An attempt between its start and its tombstone *)

\* The owner of request s works on its attempt with this key and will remember it: the
\* attempt still has its handler, or it failed and its retirement is about to begin.
Pending(s, key) ==
    LET h == req[s]
        w == owner[req[s].own]
    IN /\ h.phase \in {"running", "joining"} /\ h.own \in Requests
       /\ h.conversation = key[1] /\ h.content = key[2]
       /\ w.busy /\ w.task = s /\ w.result = None
       /\ w.conversation = key[1] /\ w.fingerprint = <<key[2], FALSE>>
       /\ w.release \in {"none", "new"}
       /\ h.phase = "running" \/ (w.retire = "new" /\ w.verdict = "uncertain")
       /\ h.key \in LogicalKeys => items[h.key] = h.own

\* A request that names its conversation comes for the owner of that conversation, or
\* for one of its own.
Names(h) ==
    h.conversation # None =>
        \/ h.key \in LogicalKeys /\ h.conversation = h.key
        \/ h.key \in EphemeralKeys

Addressed == \A s \in Requests : Names(req[s])

Remembered ==
    /\ Addressed
    /\ \A s \in Requests, key \in RetryKey :
         <<s, key>> \in dirty => Retained(key) \/ Pending(s, key)

\* A step that lets no attempt slip.
LEMMA RememberedStays ==
  ASSUME Remembered, Fades,
         \A s \in Requests : \/ req'[s].conversation = None
                             \/ /\ req'[s].conversation = req[s].conversation
                                /\ req'[s].key = req[s].key,
         \A s \in Requests, key \in RetryKey :
            <<s, key>> \in dirty' /\ Pending(s, key) => Retained(key)' \/ Pending(s, key)'
  PROVE  Remembered'
<1>1. Addressed'
  BY DEF Remembered, Addressed, Names
<1>2. ASSUME NEW s \in Requests, NEW key \in RetryKey, <<s, key>> \in dirty'
      PROVE  Retained(key)' \/ Pending(s, key)'
  <2>1. <<s, key>> \in dirty /\ (Retained(key) => Retained(key)')
    BY <1>2 DEF Fades
  <2>2. Retained(key) \/ Pending(s, key)
    BY <2>1 DEF Remembered
  <2>. QED BY <1>2, <2>1, <2>2
<1>. QED BY <1>1, <1>2 DEF Remembered

\* What keeps an attempt pending: its handler, its owner and its place in the table.
LEMMA PendingStays ==
  ASSUME NEW s, NEW key, Pending(s, key), req'[s] = req[s],
         req[s].key \in LogicalKeys => items'[req[s].key] = items[req[s].key],
         LET w == owner[req[s].own]
             v == owner'[req[s].own]
         IN /\ w.busy => v.busy
            /\ v.task = w.task /\ v.result = w.result
            /\ v.fingerprint = w.fingerprint /\ v.conversation = w.conversation
            /\ v.retire = w.retire /\ v.verdict = w.verdict
            /\ v.release = w.release \/ (w.release = "none" /\ v.release = "new")
  PROVE  Pending(s, key)'
  BY DEF Pending

\* The retry key of an owner.
LEMMA RetryOfOwnerType ==
  ASSUME NEW w, w \in OwnerRecord
  PROVE  /\ RetryOfOwner(w) \in SUBSET RetryKey
         /\ \A key \in RetryKey :
              w.conversation = key[1] /\ w.fingerprint = <<key[2], FALSE>> =>
                 RetryOfOwner(w) = {key}
<1>0. /\ w.fingerprint \in (Contents \X BOOLEAN) \cup {None}
      /\ w.conversation \in LogicalKeys \cup {None}
      /\ \A x \in Contents \X BOOLEAN : x[1] \in Contents
      /\ \A c \in Contents : <<c, FALSE>> \in Contents \X BOOLEAN
  BY DEF OwnerRecord, Fingerprint
<1>1. w.fingerprint # None => w.fingerprint[1] \in Contents
  BY <1>0
<1>2. RetryOfOwner(w) \in SUBSET RetryKey
  BY <1>0, <1>1 DEF RetryOfOwner, RetryOf, RetryKey
<1>3. ASSUME NEW key \in RetryKey, w.conversation = key[1], w.fingerprint = <<key[2], FALSE>>
      PROVE  RetryOfOwner(w) = {key}
  <2>1. key[1] \in LogicalKeys /\ key[2] \in Contents /\ key = <<key[1], key[2]>>
    BY DEF RetryKey
  <2>2. w.fingerprint # None /\ w.conversation # None
    BY <1>0, <1>3, <2>1, OwnersAssumption
  <2>3. w.fingerprint[1] = key[2]
    BY <1>3
  <2>. QED BY <1>3, <2>1, <2>2, <2>3 DEF RetryOfOwner, RetryOf
<1>. QED BY <1>2, <1>3

\* The attempt of a request has its key.
LEMMA AttemptOf ==
  ASSUME NEW s \in Requests, NEW key \in RetryKey,
         req[s].conversation = key[1], req[s].content = key[2]
  PROVE  <<s, key>> \in Attempt(s)
<1>1. key[1] \in LogicalKeys /\ key = <<key[1], key[2]>>
  BY DEF RetryKey
<1>2. req[s].conversation # None
  BY <1>1, OwnersAssumption
<1>. QED BY <1>1, <1>2 DEF Attempt, RetryOfRequest, RetryOf

\* A step that works on one owner and no handler, and keeps its pending attempts.
LEMMA OneRemembered ==
  ASSUME IInv, Remembered, NEW o \in Requests, Change(o, owner'[o]), UNCHANGED req, Fades,
         NEW gone \in BOOLEAN, PopIf(gone, o),
         \A s \in Requests, key \in RetryKey :
            req[s].own = o /\ Pending(s, key) /\ <<s, key>> \in dirty' =>
               Retained(key)' \/ Pending(s, key)'
  PROVE  Remembered'
<1>0. owner \in [Requests -> OwnerRecord] /\ items \in [Keys -> Requests \cup {None}]
  BY DEF IInv, Accounted
<1>1. ASSUME NEW s \in Requests, NEW key \in RetryKey, <<s, key>> \in dirty', Pending(s, key)
      PROVE  Retained(key)' \/ Pending(s, key)'
  <2>1. CASE req[s].own # o
    <3>1. /\ req[s].own \in Requests
          /\ req[s].key \in LogicalKeys => items[req[s].key] = req[s].own
      BY <1>1 DEF Pending
    <3>2. owner'[req[s].own] = owner[req[s].own]
      BY <1>0, <2>1, <3>1 DEF Change
    <3>3. req[s].key \in LogicalKeys => items'[req[s].key] = items[req[s].key]
      BY <1>0, <2>1, <3>1, OwnersAssumption DEF PopIf
    <3>. QED BY <1>1, <3>2, <3>3, PendingStays
  <2>. QED BY <1>1, <2>1
<1>. QED BY <1>1, RememberedStays

\* A retirement or a release remembers the attempt before it gives its owner back.
LEMMA TasksRemember ==
  ASSUME IInv, Whole, Remembered, NEW o \in Requests,
         RetireTask(o) \/ ReleaseTask(o) \/ CloseThread(o) \/ CloseTask(o)
  PROVE  Remembered'
<1>. DEFINE w == owner[o]
            v == owner'[o]
<1>0. w \in OwnerRecord
  BY DEF IInv, Accounted
<1>1. ASSUME Change(o, v), UNCHANGED req, UNCHANGED <<tombstones, dirty>>,
             UNCHANGED items \/ \E gone \in BOOLEAN : PopIf(gone, o),
             \A s \in Requests, key \in RetryKey : req[s].own = o => ~Pending(s, key)
      PROVE  Remembered'
  <2>1. \E gone \in BOOLEAN : PopIf(gone, o)
    BY <1>1 DEF PopIf
  <2>. QED BY <1>1, <2>1, SameFades, OneRemembered
<1>2. ASSUME Change(o, v), Kept(w, v), UNCHANGED <<items, req, tombstones, dirty>>,
             v.retire = w.retire, v.release = w.release
      PROVE  Remembered'
  <2>1. PopIf(FALSE, o)
    BY <1>2 DEF PopIf
  <2>2. ASSUME NEW s \in Requests, NEW key \in RetryKey, req[s].own = o, Pending(s, key)
        PROVE  Pending(s, key)'
    <3>. HIDE DEF v, w
    <3>1. /\ w = owner[req[s].own] /\ v = owner'[req[s].own]
      BY <2>2 DEF v, w
    <3>2. /\ w.busy => v.busy
          /\ v.task = w.task /\ v.result = w.result
          /\ v.fingerprint = w.fingerprint /\ v.conversation = w.conversation
          /\ v.retire = w.retire /\ v.verdict = w.verdict /\ v.release = w.release
      BY <1>2 DEF Kept
    <3>. QED BY <1>2, <2>2, <3>1, <3>2, PendingStays
  <2>. QED BY <1>2, <2>1, <2>2, SameFades, OneRemembered
<1>3. ASSUME Change(o, v), UNCHANGED <<items, req>>, Remember(RetryOfOwner(w))
      PROVE  Remembered'
  <2>1. PopIf(FALSE, o)
    BY <1>3 DEF PopIf
  <2>2. Fades /\ \A key : RetryOfOwner(w) = {key} => Retained(key)'
    BY <1>0, <1>3, RetryOfOwnerType, RememberFades DEF IInv
  <2>3. ASSUME NEW s \in Requests, NEW key \in RetryKey, req[s].own = o, Pending(s, key)
        PROVE  Retained(key)'
    <3>1. w.conversation = key[1] /\ w.fingerprint = <<key[2], FALSE>>
      BY <2>3 DEF Pending
    <3>2. RetryOfOwner(w) = {key}
      BY <1>0, <3>1, RetryOfOwnerType
    <3>. QED BY <2>2, <3>2
  <2>. QED BY <1>3, <2>1, <2>2, <2>3, OneRemembered
<1>4. ASSUME NEW s \in Requests, NEW key \in RetryKey, req[s].own = o, Pending(s, key)
      PROVE  /\ w.busy /\ w.result = None /\ w.release \in {"none", "new"}
             /\ w.retire = "none" \/ (w.retire = "new" /\ w.verdict = "uncertain")
  BY <1>4 DEF Pending, Whole
<1>5. CASE RetireSuccess(o)
  <2>1. /\ w.retire = "new" /\ w.verdict = "success" /\ Change(o, v)
        /\ UNCHANGED <<items, req>>
    BY <1>5, RetireSuccessFields
  <2>2. UNCHANGED <<tombstones, dirty>>
    BY <1>5 DEF RetireSuccess
  <2>. QED BY <1>1, <1>4, <2>1, <2>2
<1>6. CASE RetireFailure(o)
  <2>1. Change(o, v) /\ UNCHANGED <<items, req>>
    BY <1>6, RetireFailureFields
  <2>2. Remember(IF w.verdict = "uncertain" THEN RetryOfOwner(w) ELSE {}) /\ w.retire = "new"
    BY <1>6 DEF RetireFailure
  <2>3. CASE w.verdict = "uncertain"
    BY <1>3, <2>1, <2>2, <2>3
  <2>4. CASE w.verdict # "uncertain"
    <3>1. UNCHANGED <<tombstones, dirty>>
      BY <2>2, <2>4 DEF Remember
    <3>. QED BY <1>1, <1>4, <2>1, <2>2, <2>4, <3>1
  <2>. QED BY <2>3, <2>4
<1>7. CASE RetireClose(o)
  <2>1. w.retire = "gathering" /\ Change(o, v) /\ UNCHANGED <<items, req>>
    BY <1>7, RetireCloseFields
  <2>2. UNCHANGED <<tombstones, dirty>>
    BY <1>7 DEF RetireClose
  <2>. QED BY <1>1, <1>4, <2>1, <2>2
<1>8. CASE RetireEnds(o)
  <2>1. /\ w.retire = "closing" /\ Change(o, v) /\ UNCHANGED req
        /\ \E gone \in BOOLEAN : PopIf(gone, o)
    BY <1>8, RetireEndsFields
  <2>2. UNCHANGED <<tombstones, dirty>>
    BY <1>8 DEF RetireEnds
  <2>. QED BY <1>1, <1>4, <2>1, <2>2
<1>9. CASE ReleaseStarts(o)
  <2>1. w.release = "new" /\ Change(o, v) /\ UNCHANGED <<items, req>>
    BY <1>9, ReleaseStartsFields
  <2>2. Remember(IF w.busy /\ w.result = None THEN RetryOfOwner(w) ELSE {})
    BY <1>9 DEF ReleaseStarts
  <2>3. CASE w.busy /\ w.result = None
    BY <1>3, <2>1, <2>2, <2>3
  <2>4. CASE ~(w.busy /\ w.result = None)
    <3>1. UNCHANGED <<tombstones, dirty>>
      BY <2>2, <2>4 DEF Remember
    <3>. QED BY <1>1, <1>4, <2>1, <2>4, <3>1
  <2>. QED BY <2>3, <2>4
<1>10. CASE ReleaseCancels(o)
  <2>1. w.release = "retiring" /\ Change(o, v) /\ UNCHANGED <<items, req>>
    BY <1>10, ReleaseCancelsFields
  <2>2. UNCHANGED <<tombstones, dirty>>
    BY <1>10 DEF ReleaseCancels
  <2>. QED BY <1>1, <1>4, <2>1, <2>2
<1>11. CASE ReleaseCloses(o)
  <2>1. w.release = "gathering" /\ Change(o, v) /\ UNCHANGED <<items, req>>
    BY <1>11, ReleaseClosesFields
  <2>2. UNCHANGED <<tombstones, dirty>>
    BY <1>11 DEF ReleaseCloses
  <2>. QED BY <1>1, <1>4, <2>1, <2>2
<1>12. CASE ReleaseEnds(o)
  <2>1. /\ w.release = "closing" /\ Change(o, v) /\ UNCHANGED req
        /\ \E gone \in BOOLEAN : PopIf(gone, o)
    BY <1>12, ReleaseEndsFields
  <2>2. UNCHANGED <<tombstones, dirty>>
    BY <1>12 DEF ReleaseEnds
  <2>. QED BY <1>1, <1>4, <2>1, <2>2
<1>13. CASE CloseThread(o) \/ CloseTask(o)
  <2>1. /\ Change(o, v) /\ Kept(w, v) /\ UNCHANGED <<items, req>>
        /\ v.retire = w.retire /\ v.release = w.release
    BY <1>13, CloseFields
  <2>2. UNCHANGED <<tombstones, dirty>>
    BY <1>13 DEF CloseThread, CloseTask, EngineDies, CloseReturns, CloseWatches, CloseConfirms,
       CloseGivesUp
  <2>. QED BY <1>2, <2>1, <2>2
<1>. QED BY <1>5, <1>6, <1>7, <1>8, <1>9, <1>10, <1>11, <1>12, <1>13 DEF RetireTask, ReleaseTask

\* Releases only set an owner on its way, and a handler leaves its attempt with a
\* verdict: the attempt counts no more, or its retirement is told to remember it, and
\* the handler waits until that began.
LEMMA OthersRemember ==
  ASSUME IInv, Use, Whole, Remembered,
         \/ \E k \in Keys : CloseOwner(k)
         \/ \E lease \in Leases : CloseLease(lease)
         \/ \E dead \in SUBSET (Leases \cup Keys) : ProcessExits(dead)
         \/ Reaper \/ Shutdown
         \/ \E r \in Requests : Succeed(r) \/ Fail(r) \/ Abandon(r)
         \/ \E r \in Requests : JoinEnds(r) \/ CleanUpAgain(r)
         \/ \E r \in Requests : Generation(r)
         \/ Forget
  PROVE  Remembered'
<1>0. owner \in [Requests -> OwnerRecord] /\ req \in [Requests -> RequestRecord]
  BY DEF IInv, Accounted, Handlers
<1>1. CASE \/ \E k \in Keys : CloseOwner(k)
           \/ \E lease \in Leases : CloseLease(lease)
           \/ \E dead \in SUBSET (Leases \cup Keys) : ProcessExits(dead)
           \/ Reaper \/ Shutdown
  <2>1. /\ UNCHANGED <<items, req, dirty, tombstones>>
        /\ \A o \in Requests : Quiet(owner[o], owner'[o])
    BY <1>1, ReleasesQuiet
  <2>2. ASSUME NEW s \in Requests, NEW key \in RetryKey, Pending(s, key)
        PROVE  Pending(s, key)'
    <3>1. Quiet(owner[req[s].own], owner'[req[s].own])
      BY <2>1, <2>2 DEF Pending
    <3>. QED BY <2>1, <2>2, <3>1, PendingStays DEF Quiet
  <2>. QED BY <2>1, <2>2, SameFades, RememberedStays
<1>2. ASSUME NEW r \in Requests, Succeed(r) \/ Fail(r) \/ Abandon(r)
      PROVE  Remembered'
  <2>. DEFINE o == req[r].own
              w == owner[o]
              v == owner'[o]
  <2>1. PICK verdict \in Verdicts :
           /\ o \in Requests /\ req[r].phase = "running"
           /\ Change(o, v) /\ Steady(w, v)
           /\ w.cleanup = "none" => v.retire = "new" /\ v.verdict = verdict
           /\ req' = [req EXCEPT ![r].phase = "joining", ![r].verdict = verdict]
           /\ verdict # "success" => v.result = w.result
           /\ dirty' \in {dirty, dirty \ Attempt(r)}
           /\ verdict # "uncertain" /\ ~req[r].cached => dirty' = dirty \ Attempt(r)
           /\ UNCHANGED <<items, tombstones>>
    BY <1>2, FinishFields
  <2>2. /\ req'[r].phase = "joining" /\ req'[r].own = o
        /\ req'[r].key = req[r].key /\ req'[r].content = req[r].content
        /\ req'[r].conversation = req[r].conversation
        /\ \A s \in Requests \ {r} : req'[s] = req[s]
    <3>. DEFINE h == [req[r] EXCEPT !.phase = "joining", !.verdict = verdict]
    <3>1. req' = [req EXCEPT ![r] = h]
      BY <1>0, <2>1
    <3>2. /\ h.phase = "joining" /\ h.own = req[r].own
          /\ h.key = req[r].key /\ h.content = req[r].content
          /\ h.conversation = req[r].conversation
      BY <1>0 DEF RequestRecord
    <3>. HIDE DEF h
    <3>. QED BY <1>0, <3>1, <3>2
  <2>3. w.cleanup = "none" /\ w.retire = "none" /\ ~req[r].cached
    BY <2>1 DEF Whole
  <2>4. Fades
    BY <2>1, SameFades
  <2>5. ASSUME NEW s \in Requests, NEW key \in RetryKey, <<s, key>> \in dirty', Pending(s, key)
        PROVE  Pending(s, key)'
    <3>1. CASE s # r
      <4>1. req[s].own # o
        BY <2>1, <2>3, <2>5, <3>1 DEF Pending, Whole
      <4>2. owner'[req[s].own] = owner[req[s].own]
        BY <1>0, <2>1, <2>5, <4>1 DEF Change, Pending
      <4>. QED BY <2>1, <2>2, <2>5, <3>1, <4>2, PendingStays
    <3>2. CASE s = r
      <4>1. <<r, key>> \in Attempt(r)
        BY <2>5, <3>2, AttemptOf DEF Pending
      <4>2. verdict = "uncertain"
        BY <2>1, <2>3, <2>5, <3>2, <4>1
      <4>3. /\ v.busy /\ v.task = r /\ v.result = None
            /\ v.conversation = key[1] /\ v.fingerprint = <<key[2], FALSE>>
            /\ v.release \in {"none", "new"} /\ v.retire = "new" /\ v.verdict = "uncertain"
        BY <2>1, <2>3, <2>5, <3>2, <4>2 DEF Steady, Pending
      <4>4. /\ req[r].conversation = key[1] /\ req[r].content = key[2]
            /\ req[r].key \in LogicalKeys => items[req[r].key] = o
        BY <2>5, <3>2 DEF Pending
      <4>5. v = owner'[req'[r].own] /\ o \in Requests /\ UNCHANGED items
        BY <2>1, <2>2
      <4>6. /\ req'[r].conversation = key[1] /\ req'[r].content = key[2]
            /\ req'[r].key \in LogicalKeys => items'[req'[r].key] = req'[r].own
        BY <2>2, <4>4, <4>5
      <4>. HIDE DEF v, w, o
      <4>. QED BY <2>2, <3>2, <4>3, <4>5, <4>6 DEF Pending
    <3>. QED BY <3>1, <3>2
  <2>6. \A s \in Requests :
           req'[s].conversation = req[s].conversation /\ req'[s].key = req[s].key
    BY <2>2
  <2>. QED BY <2>4, <2>5, <2>6, RememberedStays
<1>3. ASSUME NEW r \in Requests, JoinEnds(r) \/ CleanUpAgain(r)
      PROVE  Remembered'
  <2>. DEFINE o == req[r].own
              w == owner[o]
              v == owner'[o]
  <2>0. ~req[r].stream /\ req[r].phase # "closing"
    BY DEF Whole
  <2>1. /\ o \in Requests /\ UNCHANGED <<items, gen>>
        /\ Change(o, v) /\ Steady(w, v) /\ v.result = w.result
        /\ v.retire = w.retire /\ v.verdict = w.verdict
        /\ req[r].phase \in {"joining", "closing", "rejoining"}
        /\ req' = [req EXCEPT ![r] = Handled("done")]
    BY <1>3, <2>0, CleanupFields
  <2>2. req'[r].conversation = None /\ \A s \in Requests \ {r} : req'[s] = req[s]
    BY <1>0, <2>1 DEF Handled
  <2>3. UNCHANGED <<tombstones, dirty>> /\ (w.task = r => w.retire # "new")
    BY <1>3, <2>0 DEF JoinEnds, CleanUpAgain
  <2>4. ASSUME NEW p \in Requests
        PROVE  /\ owner[p].busy => owner'[p].busy
               /\ owner'[p].task = owner[p].task
               /\ owner'[p].result = owner[p].result
               /\ owner'[p].fingerprint = owner[p].fingerprint
               /\ owner'[p].conversation = owner[p].conversation
               /\ owner'[p].retire = owner[p].retire /\ owner'[p].verdict = owner[p].verdict
               /\ owner'[p].release = owner[p].release
    BY <1>0, <2>1 DEF Change, Steady
  <2>5. ASSUME NEW s \in Requests, NEW key \in RetryKey, Pending(s, key)
        PROVE  Pending(s, key)'
    <3>1. s # r
      BY <2>1, <2>3, <2>5 DEF Pending
    <3>2. req[s].own \in Requests
      BY <2>5 DEF Pending
    <3>. QED BY <2>1, <2>2, <2>4, <2>5, <3>1, <3>2, PendingStays
  <2>. QED BY <2>2, <2>3, <2>5, SameFades, RememberedStays
<1>4. CASE Forget \/ \E r \in Requests : Generation(r)
  <2>1. UNCHANGED <<items, owner, req>>
    BY <1>4 DEF Forget, Generation, GenerationEnds
  <2>2. Fades
    <3>1. (\E r \in Requests : Generation(r)) => UNCHANGED <<tombstones, dirty>>
      BY DEF Generation, GenerationEnds
    <3>. QED BY <1>4, <3>1, SameFades, ForgetFades DEF IInv
  <2>3. ASSUME NEW s \in Requests, NEW key \in RetryKey, Pending(s, key)
        PROVE  Pending(s, key)'
    BY <2>1, <2>3, PendingStays
  <2>. QED BY <2>1, <2>2, <2>3, RememberedStays
<1>. QED BY <1>1, <1>2, <1>3, <1>4
----------------------------------------------------------------------------
(* Admission *)

\* Only a start makes an attempt, and never one whose key has a tombstone.
LEMMA AdmitDirty ==
  ASSUME NEW r, NEW record, NEW own, Admit(r, record, own)
  PROVE  \/ UNCHANGED <<gen, dirty>>
         \/ /\ dirty' = dirty \cup ({r} \X RetryOf(record.conversation, record.content))
            /\ \A key \in RetryOf(record.conversation, record.content) : ~Retained(key)
  BY DEF Admit, Refuse

\* A started attempt differs from the attempts to refuse, but for those that still run
\* while one of the two has an owner of its own.
Fresh ==
    \A r \in Requests :
        gen[r] = "none" /\ gen'[r] = "running" =>
           \A a \in dirty :
              a[2] \in RetryOf(req'[r].conversation, req'[r].content) =>
                 /\ req[a[1]].phase \in {"running", "joining"}
                 /\ \E s \in {a[1], r} : req'[s].key \in EphemeralKeys

\* admit() starts nothing for a pending attempt with the same owner, which is busy, and
\* hands the attempt that it starts to an owner that will remember it.
LEMMA AdmissionRemembers ==
  ASSUME IInv, Use, Whole, Remembered, NEW r \in Requests, req[r].phase \in Early,
         NEW record, Asking(record), Names(record), ~record.cached, ~record.stream,
         NEW own, Accounted(items, own),
         \A o \in Requests : Quiet(owner[o], own[o]),
         Admit(r, record, own), UNCHANGED tombstones
  PROVE  Remembered' /\ Fresh
<1>. DEFINE k == record.key
            o == items[k]
            c == record.content
            conversation == record.conversation
<1>0. /\ req \in [Requests -> RequestRecord] /\ gen \in [Requests -> Outcomes \cup {"none", "running"}]
      /\ record \in RequestRecord /\ k \in Keys /\ items \in [Keys -> Requests \cup {None}]
      /\ \A j \in Keys : items[j] # None => own[items[j]].key = j /\ req[items[j]].phase \notin Early
      /\ req[r].phase \notin Working /\ gen[r] = "none"
      /\ c \in Contents
  BY DEF IInv, Accounted, Handlers, Asking, Arrived, Generations, Early, Use, Working
<1>1. PICK new \in [Requests -> OwnerRecord] :
         /\ Lends(own, new, record)
         /\ \/ Answered(r, new)
            \/ Replays(r, record, own, new)
            \/ Restarts(r, record, own, new)
            \/ Starts(r, record, own, new)
  BY AdmitCases DEF Early
<1>2. ASSUME NEW p \in Requests
      PROVE  LET w == owner[p]
                 v == new[p]
             IN /\ v.task = w.task /\ v.fingerprint = w.fingerprint /\ v.result = w.result
                /\ v.conversation = w.conversation
                /\ v.retire = w.retire /\ v.verdict = w.verdict
                /\ w.busy => v.busy
                /\ v.release = w.release \/ (w.release = "none" /\ v.release = "new")
  <2>1. Quiet(owner[p], own[p]) /\ Likewise(own[p], new[p])
    BY <1>1 DEF Lends
  <2>. QED BY <2>1 DEF Quiet, Likewise
<1>3. ASSUME o \in Requests, ~Engaged(own[o])
      PROVE  ~owner[o].busy /\ new[o].release = "none"
  <2>1. /\ ~own[o].busy /\ ~own[o].removal /\ Quiet(owner[o], own[o])
        /\ Likewise(own[o], new[o])
    BY <1>1, <1>3 DEF Engaged, Lends
  <2>2. ~owner[o].busy /\ ~owner[o].removal /\ own[o].release = owner[o].release
    BY <2>1 DEF Quiet
  <2>3. owner[o].release = "none"
    BY <1>3, <2>2 DEF Use
  <2>. QED BY <2>1, <2>2, <2>3 DEF Likewise
<1>4. ASSUME NEW s \in Requests, NEW key, Pending(s, key),
             owner'[req[s].own] = new[req[s].own], req'[s] = req[s],
             req[s].key \in LogicalKeys => items'[req[s].key] = items[req[s].key]
      PROVE  Pending(s, key)'
  <2>1. req[s].own \in Requests
    BY <1>4 DEF Pending
  <2>. QED BY <1>2, <1>4, <2>1, PendingStays
<1>5. ASSUME NEW s \in Requests, NEW key, Pending(s, key)
      PROVE  s # r /\ req[s].own \in Requests /\ owner[req[s].own].busy
  BY <1>0, <1>5 DEF Pending, Working
<1>6. ASSUME UNCHANGED <<items, gen, dirty>>, req' = [req EXCEPT ![r] = Handled("done")],
             \A p \in Requests : owner'[p] = new[p] \/ ~owner[p].busy
      PROVE  Remembered' /\ Fresh
  <2>1. req'[r].conversation = None /\ \A s \in Requests \ {r} : req'[s] = req[s]
    BY <1>0, <1>6 DEF Handled
  <2>2. ASSUME NEW s \in Requests, NEW key \in RetryKey, Pending(s, key)
        PROVE  Pending(s, key)'
    <3>1. s # r /\ req[s].own \in Requests /\ owner[req[s].own].busy
      BY <1>5, <2>2
    <3>2. owner'[req[s].own] = new[req[s].own]
      BY <1>6, <3>1
    <3>. QED BY <1>4, <1>6, <2>1, <2>2, <3>1, <3>2
  <2>3. Fades
    BY <1>6, SameFades
  <2>4. Remembered'
    BY <2>1, <2>2, <2>3, RememberedStays
  <2>. QED BY <1>6, <2>4 DEF Fresh
<1>7. CASE Answered(r, new)
  BY <1>6, <1>7 DEF Answered
<1>8. CASE Replays(r, record, own, new)
  <2>1. /\ UNCHANGED <<items, gen, dirty>> /\ o \in Requests /\ ~Engaged(own[o])
        /\ \A p \in Requests \ {o} : owner'[p] = new[p]
        /\ req' = [req EXCEPT ![r] = Handled("done")]
    BY <1>8 DEF Replays
  <2>2. \A p \in Requests : owner'[p] = new[p] \/ ~owner[p].busy
    BY <1>3, <2>1
  <2>. QED BY <1>6, <2>1, <2>2
<1>9. ASSUME NEW id \in Requests, NEW w, w.release = "none",
             \A s \in Requests :
                req[s].phase \in Working /\ owner[req[s].own].busy => req[s].own # id,
             items'[k] = id,
             items[k] # None => ~owner[items[k]].busy,
             \A j \in Keys : items[j] # None => items'[j] = items[j],
             Begun(r, record, own, new, id, w)
      PROVE  Remembered' /\ Fresh
  <2>1. /\ \A p \in Requests \ {id} : owner'[p] = new[p]
        /\ Begins(w, owner'[id], <<c, record.stream>>, conversation, r)
        /\ gen' = [gen EXCEPT ![r] = "running"]
    BY <1>9 DEF Begun
  <2>2. /\ \A s \in Requests \ {r} : req'[s] = req[s]
        /\ req'[r].phase = "running" /\ req'[r].own = id
        /\ req'[r].key = k /\ req'[r].content = c /\ req'[r].conversation = conversation
    <3>. DEFINE h == [record EXCEPT !.phase = "running", !.own = id]
    <3>1. /\ h.phase = "running" /\ h.own = id /\ h.key = k /\ h.content = c
          /\ h.conversation = conversation
      BY <1>0 DEF RequestRecord
    <3>2. req' = [req EXCEPT ![r] = h]
      BY <1>9 DEF Begun
    <3>. HIDE DEF h
    <3>. QED BY <1>0, <3>1, <3>2
  <2>3. gen'[r] = "running" /\ \A s \in Requests \ {r} : gen'[s] = gen[s]
    BY <1>0, <2>1
  <2>4. /\ dirty' = dirty \cup ({r} \X RetryOf(conversation, c))
        /\ \A key \in RetryOf(conversation, c) : ~Retained(key)
    BY <1>0, <2>3, AdmitDirty
  <2>5. ASSUME NEW s \in Requests, NEW key, Pending(s, key)
        PROVE  Pending(s, key)'
    <3>1. s # r /\ req[s].own \in Requests /\ owner[req[s].own].busy
      BY <1>5, <2>5
    <3>2. req[s].own # id
      BY <1>9, <2>5, <3>1 DEF Pending, Working
    <3>3. owner'[req[s].own] = new[req[s].own] /\ req'[s] = req[s]
      BY <2>1, <2>2, <3>1, <3>2
    <3>4. req[s].key \in LogicalKeys => items'[req[s].key] = items[req[s].key]
      <4>1. req[s].key \in LogicalKeys => items[req[s].key] = req[s].own
        BY <2>5 DEF Pending
      <4>2. req[s].own # None
        BY <3>1, OwnersAssumption
      <4>. QED BY <1>9, <4>1, <4>2, OwnersAssumption
    <3>. QED BY <1>4, <2>5, <3>3, <3>4
  <2>6. ASSUME NEW key \in RetryOf(conversation, c) PROVE Pending(r, key)'
    <3>1. key[1] = conversation /\ key[2] = c
      BY <2>6 DEF RetryOf
    <3>. DEFINE v == owner'[id]
    <3>2. v.busy /\ v.task = r /\ v.result = None /\ v.conversation = key[1]
          /\ v.fingerprint = <<key[2], FALSE>> /\ v.release = "none"
      <4>1. <<c, record.stream>> = <<c, FALSE>>
        BY <1>0 DEF RequestRecord
      <4>. QED BY <1>9, <2>1, <3>1, <4>1 DEF Begins
    <3>3. v = owner'[req'[r].own]
      BY <2>2
    <3>. HIDE DEF v
    <3>. QED BY <1>9, <2>2, <3>1, <3>2, <3>3 DEF Pending
  <2>7. Addressed'
    BY <2>2 DEF Remembered, Addressed, Names
  <2>8. ASSUME NEW s \in Requests, NEW key \in RetryKey, <<s, key>> \in dirty'
        PROVE  Retained(key)' \/ Pending(s, key)'
    <3>1. CASE <<s, key>> \in dirty
      <4>1. Retained(key) => Retained(key)'
        BY DEF Retained
      <4>. QED BY <2>5, <3>1, <4>1 DEF Remembered
    <3>2. CASE <<s, key>> \notin dirty
      <4>1. s = r /\ key \in RetryOf(conversation, c)
        BY <2>4, <2>8, <3>2
      <4>. QED BY <2>6, <4>1
    <3>. QED BY <3>1, <3>2
  <2>9. Fresh
    <3>1. ASSUME NEW a \in dirty, a[2] \in RetryOf(conversation, c)
          PROVE  /\ req[a[1]].phase \in {"running", "joining"}
                 /\ \E s \in {a[1], r} : req'[s].key \in EphemeralKeys
      <4>. DEFINE p == a[1]
                  key == a[2]
      <4>1. p \in Requests /\ key \in RetryKey /\ <<p, key>> \in dirty
        BY DEF IInv, Memory, Attempts
      <4>2. key[1] = conversation /\ conversation # None
        BY <3>1 DEF RetryOf
      <4>3. ~Retained(key)
        BY <2>4, <3>1
      <4>4. Pending(p, key)
        BY <4>1, <4>3 DEF Remembered
      <4>5. p # r /\ req[p].own \in Requests /\ owner[req[p].own].busy /\ req'[p] = req[p]
        BY <1>5, <2>2, <4>1, <4>4
      <4>6. req[p].phase \in {"running", "joining"} /\ req[p].conversation = conversation
        BY <4>2, <4>4 DEF Pending
      <4>7. req[p].key \in EphemeralKeys \/ k \in EphemeralKeys
        <5>1. SUFFICES ASSUME req[p].key \notin EphemeralKeys, k \notin EphemeralKeys
                       PROVE  FALSE
          OBVIOUS
        <5>2. k \in LogicalKeys /\ req[p].key = k
          BY <4>1, <4>2, <4>6, <5>1 DEF Remembered, Addressed, Names
        <5>3. items[k] = req[p].own
          BY <4>4, <5>2 DEF Pending
        <5>. QED BY <1>9, <4>5, <5>3, OwnersAssumption
      <4>. HIDE DEF p, key
      <4>8. req'[p].key \in EphemeralKeys \/ req'[r].key \in EphemeralKeys
        BY <2>2, <4>5, <4>7
      <4>. QED BY <4>6, <4>8 DEF p
    <3>2. ASSUME NEW s \in Requests, gen[s] = "none", gen'[s] = "running" PROVE s = r
      BY <2>3, <3>2
    <3>. QED BY <2>2, <3>1, <3>2 DEF Fresh
  <2>. QED BY <2>7, <2>8, <2>9 DEF Remembered
<1>10. CASE Restarts(r, record, own, new)
  <2>1. o \in Requests /\ ~Engaged(own[o]) /\ UNCHANGED items
        /\ Begun(r, record, own, new, o, new[o])
    BY <1>10 DEF Restarts
  <2>. HIDE DEF o
  <2>2. ~owner[o].busy /\ new[o].release = "none"
    BY <1>3, <2>1
  <2>3. items'[k] = o /\ items[k] = o
    BY <2>1 DEF o
  <2>4. \A s \in Requests :
           req[s].phase \in Working /\ owner[req[s].own].busy => req[s].own # o
    BY <2>2
  <2>. HIDE DEF k
  <2>. QED BY <1>9, <2>1, <2>2, <2>3, <2>4
<1>11. CASE Starts(r, record, own, new)
  <2>. DEFINE w == [NewOwner(k) EXCEPT !.leases = record.leases]
  <2>1. Begun(r, record, own, new, r, w) /\ items' = [items EXCEPT ![k] = r] /\ items[k] = None
    BY <1>11 DEF Starts
  <2>2. \A s \in Requests : req[s].phase \in Working => req[s].own # r
    BY DEF Use
  <2>3. w.release = "none"
    BY DEF NewOwner
  <2>4. items'[k] = r /\ \A j \in Keys : items[j] # None => items'[j] = items[j]
    BY <1>0, <2>1
  <2>. HIDE DEF w, k
  <2>. QED BY <1>9, <2>1, <2>2, <2>3, <2>4
<1>. QED BY <1>1, <1>7, <1>8, <1>10, <1>11

\* A request that arrives, or waits for prune, disturbs no pending attempt.
LEMMA ArrivalRemembers ==
  ASSUME IInv, Use, Whole, Remembered, Streams = {FALSE}, NEW r \in Requests,
         \/ \E record \in Inputs, e \in Expired : Receive(r, record, e)
         \/ AdmitAfterPrune(r)
  PROVE  Remembered' /\ Fresh
<1>1. ASSUME NEW record \in Inputs, NEW e \in Expired, Receive(r, record, e)
      PROVE  Remembered' /\ Fresh
  <2>. DEFINE own == Pruned(e)
  <2>1. Asking(record) /\ ~record.cached /\ record.phase = "pruning" /\ ~record.stream
    BY OwnersAssumption DEF Inputs, Asking, RequestRecord, Phases, Verdicts
  <2>2. Names(record)
    BY DEF Inputs, Names
  <2>3. Accounted(items, own)
    <3>1. \A o \in Requests : Keeps(owner[o], own[o])
      BY PrunedKeeps
    <3>2. own = [o \in Requests |-> own[o]]
      BY PrunedKeeps
    <3>. HIDE DEF own
    <3>. QED BY <3>1, <3>2, KeepsAll DEF IInv
  <2>4. \A o \in Requests : Quiet(owner[o], own[o])
    BY PrunedQuiet
  <2>5. req[r].phase = "idle" /\ UNCHANGED tombstones
    BY <1>1 DEF Receive
  <2>6. CASE Admit(r, record, own)
    <3>. HIDE DEF own
    <3>. QED BY <2>1, <2>2, <2>3, <2>4, <2>5, <2>6, AdmissionRemembers DEF Early
  <2>7. CASE /\ owner' = own
             /\ req' = [req EXCEPT ![r] = record]
             /\ UNCHANGED <<items, gen, dirty>>
    <3>. HIDE DEF own
    <3>1. req'[r] = record /\ \A s \in Requests \ {r} : req'[s] = req[s]
      BY <2>7 DEF IInv, Handlers
    <3>2. ASSUME NEW s \in Requests, NEW key, Pending(s, key)
          PROVE  Pending(s, key)'
      <4>1. Quiet(owner[req[s].own], owner'[req[s].own])
        BY <2>4, <2>7, <3>2 DEF Pending
      <4>2. s # r
        BY <2>5, <3>2 DEF Pending
      <4>. QED BY <2>7, <3>1, <3>2, <4>1, <4>2, PendingStays DEF Quiet
    <3>3. Addressed'
      BY <2>2, <3>1 DEF Remembered, Addressed, Names
    <3>4. \A key : Retained(key) => Retained(key)'
      BY <2>5 DEF Retained
    <3>5. Remembered'
      BY <2>7, <3>2, <3>3, <3>4 DEF Remembered
    <3>. QED BY <2>7, <3>5 DEF Fresh
  <2>. QED BY <1>1, <2>6, <2>7 DEF Receive
<1>2. CASE AdmitAfterPrune(r)
  <2>1. req[r].phase = "pruning" /\ Admit(r, req[r], owner) /\ UNCHANGED tombstones
    BY <1>2 DEF AdmitAfterPrune
  <2>2. Asking(req[r]) /\ ~req[r].cached /\ ~req[r].stream
    BY <2>1 DEF IInv, Handlers, Sane, Asking, Whole
  <2>3. \A o \in Requests : Quiet(owner[o], owner[o])
    BY QuietSame DEF IInv, Accounted
  <2>4. Names(req[r])
    BY DEF Remembered, Addressed
  <2>. QED BY <2>1, <2>2, <2>3, <2>4, AdmissionRemembers DEF IInv, Early
<1>. QED BY <1>1, <1>2
----------------------------------------------------------------------------
(* The invariant and the theorem *)

\* Whoever does not admit a request starts no generation.
LEMMA OthersStartNothing ==
  ASSUME IInv,
         \/ \E o \in Requests :
               RetireTask(o) \/ ReleaseTask(o) \/ CloseThread(o) \/ CloseTask(o)
         \/ \E k \in Keys : CloseOwner(k)
         \/ \E lease \in Leases : CloseLease(lease)
         \/ \E dead \in SUBSET (Leases \cup Keys) : ProcessExits(dead)
         \/ Reaper \/ Shutdown
         \/ \E r \in Requests : Succeed(r) \/ Fail(r) \/ Abandon(r)
         \/ \E r \in Requests : JoinEnds(r) \/ CleanUpAgain(r)
         \/ \E r \in Requests : Generation(r)
         \/ Forget
  PROVE  Fresh
<1>1. CASE UNCHANGED gen
  BY <1>1 DEF Fresh
<1>2. ASSUME NEW t, Cancel(t) PROVE Fresh
  BY <1>2 DEF IInv, Generations, Cancel, Fresh
<1>3. ASSUME NEW o \in Requests,
             RetireTask(o) \/ ReleaseTask(o) \/ CloseThread(o) \/ CloseTask(o)
      PROVE  Fresh
  <2>1. CASE RetireTask(o)
    <3>1. UNCHANGED gen \/ \E t : Cancel(t)
      BY <2>1 DEF RetireTask, RetireSuccess, RetireFailure, RetireClose, RetireEnds
    <3>. QED BY <1>1, <1>2, <3>1
  <2>2. CASE ReleaseTask(o)
    <3>1. UNCHANGED gen \/ \E t : Cancel(t)
      BY <2>2 DEF ReleaseTask, ReleaseStarts, ReleaseCancels, ReleaseCloses, ReleaseEnds
    <3>. QED BY <1>1, <1>2, <3>1
  <2>3. CASE CloseThread(o) \/ CloseTask(o)
    <3>1. UNCHANGED gen
      BY <2>3 DEF CloseThread, CloseTask, EngineDies, CloseReturns, CloseWatches,
         CloseConfirms, CloseGivesUp
    <3>. QED BY <1>1, <3>1
  <2>. QED BY <1>3, <2>1, <2>2, <2>3
<1>4. CASE \/ \E k \in Keys : CloseOwner(k)
           \/ \E lease \in Leases : CloseLease(lease)
           \/ \E dead \in SUBSET (Leases \cup Keys) : ProcessExits(dead)
           \/ Reaper \/ Shutdown
  BY <1>1, <1>4, ReleasesQuiet
<1>5. ASSUME NEW r \in Requests, Succeed(r) \/ Fail(r) \/ Abandon(r) PROVE Fresh
  <2>1. gen' = IF gen[r] \in {"none", "running"} THEN gen ELSE [gen EXCEPT ![r] = "ended"]
    BY <1>5, FinishFields
  <2>. QED BY <2>1 DEF IInv, Generations, Fresh
<1>6. ASSUME NEW r \in Requests, JoinEnds(r) \/ CleanUpAgain(r) PROVE Fresh
  BY <1>1, <1>6, CleanupFields
<1>7. ASSUME NEW r \in Requests, Generation(r) PROVE Fresh
  BY <1>7 DEF IInv, Generations, Generation, GenerationEnds, Fresh
<1>8. CASE Forget
  BY <1>1, <1>8 DEF Forget
<1>. QED BY <1>3, <1>4, <1>5, <1>6, <1>7, <1>8

\* Every step keeps the invariant and starts only what is fresh.
LEMMA NextRemembers ==
  ASSUME IInv, Use, Whole, Remembered, Streams = {FALSE}, Next
  PROVE  Remembered' /\ Fresh
<1>1. CASE Clients
  <2>1. ASSUME NEW dead \in (SUBSET (Leases \cup (Keys \ LogicalKeys))) \ {{}},
               ProcessExits(dead)
        PROVE  Remembered' /\ Fresh
    <3>1. dead \in SUBSET (Leases \cup Keys)
      OBVIOUS
    <3>. QED BY <2>1, <3>1, OthersRemember, OthersStartNothing
  <2>. QED BY <1>1, <2>1, ArrivalRemembers, OthersRemember, OthersStartNothing DEF Clients
<1>2. ASSUME NEW r \in Requests, Handler(r) \/ Generation(r)
      PROVE  Remembered' /\ Fresh
  BY <1>2, ArrivalRemembers, OthersRemember, OthersStartNothing DEF Handler
<1>3. ASSUME NEW o \in Requests,
             RetireTask(o) \/ ReleaseTask(o) \/ CloseThread(o) \/ CloseTask(o)
      PROVE  Remembered' /\ Fresh
  BY <1>3, TasksRemember, OthersStartNothing
<1>4. CASE Reaper \/ Shutdown \/ Forget
  BY <1>4, OthersRemember, OthersStartNothing
<1>. QED BY <1>1, <1>2, <1>3, <1>4 DEF Next

\* As long as no response is streamed, an attempt that may have reached Claude has
\* its tombstone, or an owner that is about to remember it.
LEMMA RememberedInvariant == ASSUME Streams = {FALSE} PROVE Spec => []Remembered
<1>1. Init => Remembered
  <2>. SUFFICES ASSUME Init PROVE Remembered
    OBVIOUS
  <2>1. dirty = {} /\ \A s \in Requests : req[s].conversation = None
    BY DEF Init, Handled
  <2>. QED BY <2>1 DEF Remembered, Addressed, Names
<1>2. IInv /\ Use /\ Whole /\ Remembered /\ [Next]_vars => Remembered'
  <2>. SUFFICES ASSUME IInv, Use, Whole, Remembered, [Next]_vars PROVE Remembered'
    OBVIOUS
  <2>1. CASE Next
    BY <2>1, NextRemembers
  <2>2. CASE UNCHANGED vars
    <3>1. UNCHANGED <<items, owner, req, tombstones, dirty>>
      BY <2>2 DEF vars
    <3>2. \A s \in Requests, key \in RetryKey : Pending(s, key) => Pending(s, key)'
      BY <3>1, PendingStays
    <3>3. Fades
      BY <3>1, SameFades
    <3>. QED BY <3>1, <3>2, <3>3, RememberedStays
  <2>. QED BY <2>1, <2>2
<1>. QED BY <1>1, <1>2, OwnersInvariant, UseInvariant, WholeInvariant, PTL DEF Spec

\* As long as no response is streamed, an attempt that may have reached Claude and
\* gave no result is not started again once its client was answered, while its
\* tombstone is kept; before that only a request with an owner of its own can be.
THEOREM NeverReplayedAlways == ASSUME Streams = {FALSE} PROVE Spec => NeverReplayed
<1>1. IInv /\ Use /\ Whole /\ Remembered /\ [Next]_vars => [Fresh]_vars
  BY NextRemembers
<1>2. [Fresh]_vars => [\A r \in Requests :
         gen[r] = "none" /\ gen'[r] = "running" =>
            \A a \in dirty :
               a[2] \in RetryOf(req'[r].conversation, req'[r].content) =>
                  /\ req[a[1]].phase \in {"running", "joining"}
                  /\ \E s \in {a[1], r} : req'[s].key \in EphemeralKeys]_vars
  BY DEF Fresh
<1>. QED BY <1>1, <1>2, OwnersInvariant, UseInvariant, WholeInvariant, RememberedInvariant,
            PTL DEF Spec, NeverReplayed
=============================================================================
