---------------------------- MODULE WakeupProofs ----------------------------
(***************************************************************************)
(* The controller does not go to sleep with work left, for every value of  *)
(* the constants of which no watch is lost: whenever nothing is left to    *)
(* happen by itself, the status tells the truth, and the pods are as the   *)
(* user asked.                                                             *)
(*                                                                         *)
(* Awaited is the half of WakeupInvariant about what will wake the         *)
(* controller up, PassIsCurrent the half about what a pass that will not   *)
(* be repeated has found.                                                  *)
(***************************************************************************)
EXTENDS ReconcilerProofs

\* The strategy lets the controller replace a pod: the API server's defaults do.
StrategyMoves == MaxSurge.value > 0 \/ MaxUnavailable.value > 0

\* The informers see every version of every pod.
NoVersionIsMissed == "relist" \notin Disturbances

-----------------------------------------------------------------------------
(* Where there is nothing to do, all is done.                               *)

\* Both percentages round to nothing only where there are no replicas.
LEMMA SomethingMoves ==
    ASSUME StrategyMoves, NEW replicas \in Nat, replicas > 0, Surge(replicas) = 0
    PROVE  Unavailable(replicas) > 0
<1>1. /\ MaxSurge.value \in Nat /\ MaxSurge.percent \in BOOLEAN
      /\ MaxUnavailable.value \in Nat /\ MaxUnavailable.percent \in BOOLEAN
  BY StrategyAssumption DEF IntOrPercent
<1>2. ASSUME NEW v \in Nat, v > 0 PROVE (v * replicas + 99) \div 100 > 0
  <2>1. v * replicas \in Nat /\ v * replicas >= 1
    BY <1>2
  <2> QED
    BY <2>1
<1>3. MaxSurge.value = 0
  <2>1. CASE MaxSurge.percent
    <3>1. (MaxSurge.value * replicas + 99) \div 100 = 0
      BY <2>1 DEF Surge, GetValue
    <3>2. ~(MaxSurge.value > 0)
      BY <1>1, <1>2, <3>1
    <3> QED
      BY <1>1, <3>2
  <2>2. CASE ~MaxSurge.percent
    BY <1>1, <2>2 DEF Surge, GetValue
  <2> QED
    BY <1>1, <2>1, <2>2
<1>4. MaxUnavailable.value > 0
  BY <1>1, <1>3 DEF StrategyMoves
<1>5. CASE MaxUnavailable.percent
  BY <1>1, <1>2, <1>4, <1>5 DEF Unavailable, GetValue
<1>6. CASE ~MaxUnavailable.percent
  BY <1>1, <1>4, <1>6 DEF Unavailable, GetValue
<1> QED
  BY <1>1, <1>5, <1>6

\* Of pods that are all available, one is updated as soon as one may be down.
LEMMA AnyUpdateIsAllowed ==
    ASSUME NEW view, NEW rev, NEW d, \A n \in Members(view) : IsPodAvailable(view[n]),
           NEW n \in Members(view), view[n].rev # rev,
           d.updateNum \in Int, d.updateMaxUnavailable \in Int,
           d.updateNum >= 1, d.updateMaxUnavailable >= 1
    PROVE  {} \notin UpdateChoices(view, rev, d)
<1> DEFINE W == Waiting(view, rev)
           targetDown == Cardinality(NotRunning(view) \cap Updated(view, rev))
           allDown == Cardinality(NotRunning(view))
           Allowed == {S \in SUBSET W :
                        /\ Prefix(S, W, view)
                        /\ Cardinality(S) <= d.updateNum
                        /\ S # {} => targetDown + Cardinality(S) <= d.updateMaxUnavailable
                        /\ Running(S, view) # {} =>
                             allDown + Cardinality(Running(S, view)) <= d.updateMaxUnavailable}
<1>1. NotRunning(view) = {} /\ NotRunning(view) \cap Updated(view, rev) = {}
  BY DEF NotRunning, IsPodAvailable
<1>2. targetDown = 0 /\ allDown = 0
  BY <1>1, FS_EmptySet
<1>3. n \in W
  BY DEF Waiting, IsPodAvailable, IsRunning
<1>4. Cardinality({n}) = 1 /\ Cardinality({}) = 0
  BY FS_Singleton, FS_EmptySet
<1>5. Running({n}, view) = {n}
  BY DEF Running, IsPodAvailable
<1>6. Prefix({n}, W, view)
  <2>1. \A w \in W : Rank(view[w]) = Rank(view[n])
    BY DEF Waiting, Rank, IsPodAvailable
  <2>2. Rank(view[n]) \in Int
    BY DEF Rank, IsPodAvailable
  <2> QED
    BY <1>3, <2>1, <2>2 DEF Prefix
<1>7. {n} \in Allowed
  BY <1>2, <1>3, <1>4, <1>5, <1>6
<1>8. UpdateChoices(view, rev, d) = {S \in Allowed : \A X \in Allowed : Cardinality(X) <= Cardinality(S)}
  BY DEF UpdateChoices
<1> HIDE DEF Allowed
<1> QED
  BY <1>4, <1>7, <1>8

\* A subset whose size is that of a smaller limit, as the choices of a pass take.
LEMMA EmptyWithinLimit ==
    ASSUME NEW S, S \subseteq Names, NEW limit \in Nat, Smaller(limit, Cardinality(S)) = 0
    PROVE  limit = 0 \/ S = {}
BY CountIsNat, FS_EmptySet DEF Smaller

\* With all pods available, a pass that finds nothing to call has converged.
LEMMA RestIsConverged ==
    ASSUME StrategyMoves, NEW obj \in Inplaceu, NEW view,
           \A n \in Members(view) : IsPodAvailable(view[n]),
           ScaleRests(obj, view), UpdateRests(obj, view)
    PROVE  /\ Cardinality(Members(view)) = obj.replicas
           /\ \A n \in Members(view) : view[n].rev = obj.rev
           /\ SpecifiedDelete(view) = {}
<1> DEFINE M   == Members(view)
           K   == SpecifiedDelete(view)
           U   == Updated(view, obj.rev)
           O   == (M \ U) \ K
           R   == obj.replicas
           a   == Cardinality(M)
           m   == Cardinality(K)
           o   == Cardinality(O)
           u   == Unavailable(R)
           us  == UseSurge(R, m, o)
           d   == Diffs(R, view, obj.rev)
           scaleDown == Larger((a - (R + us)) - m, 0)
<1>1. /\ M \subseteq Names /\ K \subseteq M /\ U \subseteq M /\ O \subseteq M
      /\ K \subseteq Names /\ U \subseteq Names /\ O \subseteq Names
  BY DEF Members, SpecifiedDelete, Updated
<1>2. R \in Nat /\ obj.rev \in Revs
  BY DEF Inplaceu
<1>3. a \in Nat /\ m \in Nat /\ o \in Nat
  BY <1>1, CountIsNat
<1>4. us \in Nat /\ u \in Nat /\ Surge(R) \in Nat
  BY <1>2, <1>3, UseSurgeBound, UnavailableType, StrategyAssumption, GetValueType DEF Surge
<1>5. Cardinality(NotRunning(view) \ K) = 0
  <2>1. NotRunning(view) \ K = {}
    BY DEF NotRunning, IsPodAvailable
  <2> QED
    BY <2>1, FS_EmptySet
<1>6. /\ d.scaleUpNum = Larger(-(a - (R + us)), 0)
      /\ d.scaleDownNum = scaleDown
      /\ d.deleteReadyLimit = IF m > 0 \/ scaleDown > 0 THEN DeleteReadyLimit(R, a, 0) ELSE 0
      /\ d.updateNum = o
      /\ d.updateMaxUnavailable = IF o > 0 THEN u + a - R ELSE 0
  BY <1>5 DEF Diffs
<1>7. /\ d.scaleUpNum = 0
      /\ {} \in SpecifiedDeleteChoices(view, d)
      /\ d.scaleDownNum = 0 \/ {} \in ScaleInChoices(view, obj.rev, d)
  BY DEF ScaleRests
<1>8. d.deleteReadyLimit \in Nat
  BY <1>2, DiffsLimitType
<1>9. us = IF Surge(R) > 0 THEN Smaller(Larger(m, o), Surge(R)) ELSE 0
  BY DEF UseSurge
<1>10. DeleteReadyLimit(R, a, 0) = Larger(u + (a - R) - 0, 0)
  BY DEF DeleteReadyLimit
<1>11. \A n \in M : IsRunning(view[n])
  BY DEF IsPodAvailable
<1>12. \A n \in O : n \in M /\ view[n].rev # obj.rev
  BY DEF Updated
<1>13. K = {} => {} \in UpdateChoices(view, obj.rev, d)
  BY DEF UpdateRests
<1>14. \A n \in K : IsPodAvailable(view[n])
  BY <1>1
<1>15. \A n \in M \ U : view[n].rev # obj.rev
  BY DEF Updated
<1>16. \A n \in U : view[n].rev = obj.rev
  BY DEF Updated
<1> HIDE DEF M, K, U, O, R, a, m, o, u, us, d, scaleDown
<1>20. a >= R + us
  BY <1>2, <1>3, <1>4, <1>6, <1>7 DEF Larger
<1>21. K = {}
  <2> SUFFICES ASSUME K # {} PROVE FALSE
    OBVIOUS
  <2>1. m > 0
    BY <1>1, <1>3, CountIsNat, FS_EmptySet DEF m
  <2>2. Smaller(d.deleteReadyLimit, m) = 0
    <3> DEFINE ready == {n \in K : IsPodAvailable(view[n])}
    <3>1. ready = K
      BY <1>14
    <3>2. PICK X \in SUBSET ready :
            Cardinality(X) = Smaller(d.deleteReadyLimit, Cardinality(ready)) /\ {} = (K \ ready) \cup X
      BY <1>7 DEF SpecifiedDeleteChoices, K
    <3>3. X = {}
      BY <3>2
    <3> QED
      BY <3>1, <3>2, <3>3, FS_EmptySet DEF m
  <2>3. d.deleteReadyLimit = 0
    BY <1>3, <1>8, <2>1, <2>2 DEF Smaller
  <2>4. u + (a - R) <= 0
    BY <1>2, <1>3, <1>4, <1>6, <1>10, <2>1, <2>3 DEF Larger
  <2>5. u = 0 /\ a = R /\ us = 0
    BY <1>2, <1>3, <1>4, <1>20, <2>4
  <2>6. Surge(R) = 0
    BY <1>3, <1>4, <1>9, <2>1, <2>5 DEF Smaller, Larger
  <2>7. a >= m
    BY <1>1, LargerSetCounts DEF a, m
  <2>8. R > 0
    BY <1>2, <1>3, <2>1, <2>5, <2>7
  <2> QED
    BY <1>2, <2>5, <2>6, <2>8, SomethingMoves DEF u
<1>22. m = 0
  BY <1>21, FS_EmptySet DEF m
<1>23. ASSUME o > 0, u + a - R >= 1 PROVE FALSE
  <2>1. PICK n \in O : TRUE
    BY <1>23, FS_EmptySet DEF o
  <2>2. d.updateNum \in Int /\ d.updateNum >= 1
    BY <1>3, <1>6, <1>23
  <2>3. d.updateMaxUnavailable \in Int /\ d.updateMaxUnavailable >= 1
    BY <1>2, <1>3, <1>4, <1>6, <1>23
  <2> QED
    BY <1>12, <1>13, <1>21, <2>1, <2>2, <2>3, AnyUpdateIsAllowed DEF M
<1>24. a = R + us
  <2> SUFFICES ASSUME a > R + us PROVE FALSE
    BY <1>2, <1>3, <1>4, <1>20
  <2>1. scaleDown > 0 /\ scaleDown \in Nat
    BY <1>2, <1>3, <1>4, <1>22 DEF scaleDown, Larger
  <2>2. d.deleteReadyLimit > 0
    BY <1>2, <1>3, <1>4, <1>6, <1>10, <2>1 DEF Larger
  <2>3. PICK C \in PodsPreparingToDelete(view, obj.rev, d) :
          \E X \in RunningWithinLimit(C, view, obj.rev, d) : {} = (C \ Running(C, view)) \cup X
    BY <1>6, <1>7, <2>1 DEF ScaleInChoices
  <2>4. PICK X \in RunningWithinLimit(C, view, obj.rev, d) : {} = (C \ Running(C, view)) \cup X
    BY <2>3
  <2>5. C \subseteq U /\ Cardinality(C) = Smaller(scaleDown, Cardinality(U))
    BY <1>6, <2>3 DEF PodsPreparingToDelete, Prefixes, Prefix, U
  <2>6. Running(C, view) = C
    BY <1>1, <1>11, <2>5 DEF Running
  <2>7. X = {} /\ Cardinality(X) = Smaller(d.deleteReadyLimit, Cardinality(C))
    BY <2>4, <2>6 DEF RunningWithinLimit, Prefixes
  <2>8. Smaller(d.deleteReadyLimit, Cardinality(C)) = 0 /\ C \subseteq Names
    BY <1>1, <2>5, <2>7, FS_EmptySet
  <2>9. C = {}
    BY <1>8, <2>2, <2>8, EmptyWithinLimit
  <2>10. Smaller(scaleDown, Cardinality(U)) = 0
    BY <2>5, <2>9, FS_EmptySet
  <2>11. U = {}
    BY <1>1, <2>1, <2>10, EmptyWithinLimit
  <2>12. O = M
    BY <1>21, <2>11 DEF O
  <2>13. o > 0 /\ u + a - R >= 1
    BY <1>2, <1>3, <1>4, <2>12 DEF o, a
  <2> QED
    BY <1>23, <2>13
<1>25. o = 0
  <2> SUFFICES ASSUME o > 0 PROVE FALSE
    BY <1>3
  <2>1. a >= o
    BY <1>1, LargerSetCounts DEF a, o
  <2>2. CASE Surge(R) > 0
    <3>1. us > 0
      BY <1>3, <1>4, <1>9, <1>22, <2>2 DEF Smaller, Larger
    <3> QED
      BY <1>2, <1>3, <1>4, <1>23, <1>24, <3>1
  <2>3. CASE Surge(R) = 0
    <3>1. us = 0 /\ R > 0
      BY <1>2, <1>3, <1>4, <1>9, <1>24, <2>1, <2>3
    <3>2. u > 0
      BY <1>2, <2>3, <3>1, SomethingMoves DEF u
    <3> QED
      BY <1>2, <1>3, <1>4, <1>23, <1>24, <3>2
  <2> QED
    BY <1>4, <2>2, <2>3
<1>26. us = 0
  BY <1>4, <1>9, <1>22, <1>25 DEF Smaller, Larger
<1>27. O = {}
  BY <1>1, <1>25, CountIsNat, FS_EmptySet DEF o
<1>28. \A n \in M : view[n].rev = obj.rev
  BY <1>16, <1>21, <1>27 DEF O
<1>29. a = R
  BY <1>2, <1>3, <1>24, <1>26
<1> QED
  BY <1>21, <1>28, <1>29 DEF M, K, a, R

-----------------------------------------------------------------------------
(* What is awaited.                                                         *)

Awaited == CreateAwaited /\ DeleteAwaited

\* What a queue keeps when its head is taken, or an element added.
LEMMA TailOf ==
    ASSUME NEW X, NEW s \in Seq(X), s # <<>>
    PROVE  /\ 1 \in DOMAIN s /\ Head(s) = s[1]
           /\ \A i \in DOMAIN s : i # 1 => i - 1 \in DOMAIN Tail(s) /\ Tail(s)[i - 1] = s[i]
<1>1. Len(s) \in Nat /\ DOMAIN s = 1 .. Len(s) /\ Len(s) >= 1
  OBVIOUS
<1>2. /\ DOMAIN Tail(s) = 1 .. (Len(s) - 1)
      /\ \A j \in 1 .. (Len(s) - 1) : Tail(s)[j] = s[j + 1]
  BY <1>1
<1>3. ASSUME NEW i \in DOMAIN s, i # 1 PROVE i - 1 \in 1 .. (Len(s) - 1) /\ (i - 1) + 1 = i
  BY <1>1, <1>3
<1> QED
  BY <1>1, <1>2, <1>3

LEMMA AppendOf ==
    ASSUME NEW X, NEW s \in Seq(X), NEW x \in X
    PROVE  /\ \A i \in DOMAIN s : i \in DOMAIN Append(s, x) /\ Append(s, x)[i] = s[i]
           /\ Len(s) + 1 \in DOMAIN Append(s, x) /\ Append(s, x)[Len(s) + 1] = x
OBVIOUS

\* A write of a pod, which brings back none that is going.
LEMMA NewsOfWrite ==
    ASSUME TypeOK, NEW n \in Names, NEW p \in Pod \cup {None}, Publish(n, p),
           pods[n] # None /\ pods[n].term => p = None \/ p.term,
           UNCHANGED <<cache, notes>>
    PROVE  /\ \A m \in Names : CreationNews(m) => CreationNews(m)'
           /\ \A m \in Names : DeletionNews(m) => DeletionNews(m)'
           /\ p = None \/ p.term => DeletionNews(n)'
<1>1. /\ pods'[n] = p
      /\ DOMAIN watch'[n] = 1 .. (Len(watch[n]) + 1)
      /\ \A i \in 1 .. Len(watch[n]) : watch'[n][i] = watch[n][i]
      /\ watch'[n][Len(watch[n]) + 1] = p
      /\ \A m \in Names \ {n} : pods'[m] = pods[m] /\ watch'[m] = watch[m]
  BY PublishedVersion
<1>2. /\ Len(watch[n]) \in Nat /\ DOMAIN watch[n] = 1 .. Len(watch[n])
      /\ watch[n] # <<>> => 1 \in DOMAIN watch[n]
  BY VersionTypes
<1>3. Len(watch[n]) + 1 \in DOMAIN watch'[n] /\ DOMAIN watch[n] \subseteq DOMAIN watch'[n]
  BY <1>1, <1>2
<1>4. watch'[n] # <<>>
  BY <1>3
<1>5. p = None \/ p.term => DeletionNews(n)'
  BY <1>1, <1>3 DEF DeletionNews
<1>6. ASSUME NEW m \in Names, CreationNews(m) PROVE CreationNews(m)'
  <2>1. CASE m # n
    BY <1>1, <1>6, <2>1 DEF CreationNews
  <2>2. CASE m = n
    BY <1>1, <1>2, <1>4, <1>6, <2>2 DEF CreationNews
  <2> QED
    BY <2>1, <2>2
<1>7. ASSUME NEW m \in Names, DeletionNews(m) PROVE DeletionNews(m)'
  <2>1. CASE m # n
    BY <1>1, <1>7, <2>1 DEF DeletionNews
  <2>2. CASE m = n
    BY <1>1, <1>2, <1>3, <1>5, <1>7, <2>2 DEF DeletionNews
  <2> QED
    BY <2>1, <2>2
<1> QED
  BY <1>5, <1>6, <1>7

\* What the cache gets, the handler is told.
LEMMA NewsOfInformer ==
    ASSUME TypeOK, NEW n \in Names, InformerStep(n)
    PROVE  \A m \in Names : /\ CreationNews(m) => CreationNews(m)'
                            /\ DeletionNews(m) => DeletionNews(m)'
<1>1. /\ pods' = pods /\ watch[n] # <<>>
      /\ cache' = [cache EXCEPT ![n] = Head(watch[n])]
      /\ watch' = [watch EXCEPT ![n] = Tail(watch[n])]
      /\ notes' = [notes EXCEPT ![n] = Append(notes[n], EventKind(cache[n], Head(watch[n])))]
  BY DEF InformerStep, CacheApply
<1>2. /\ 1 \in DOMAIN watch[n] /\ Head(watch[n]) = watch[n][1]
      /\ \A i \in DOMAIN watch[n] : i # 1 => /\ i - 1 \in DOMAIN watch'[n]
                                            /\ watch'[n][i - 1] = watch[n][i]
      /\ \A i \in DOMAIN notes[n] : i \in DOMAIN notes'[n] /\ notes'[n][i] = notes[n][i]
      /\ \E i \in DOMAIN notes'[n] : notes'[n][i] = EventKind(cache[n], watch[n][1])
      /\ \A m \in Names \ {n} : /\ cache'[m] = cache[m] /\ watch'[m] = watch[m]
                                /\ notes'[m] = notes[m]
  <2>1. /\ watch[n] \in Seq(Pod \cup {None}) /\ notes[n] \in Seq(EventKinds)
        /\ EventKind(cache[n], Head(watch[n])) \in EventKinds
    BY VersionTypes, EventKindType
  <2>2. /\ watch'[n] = Tail(watch[n]) /\ notes'[n] = Append(notes[n], EventKind(cache[n], Head(watch[n])))
        /\ \A m \in Names \ {n} : /\ cache'[m] = cache[m] /\ watch'[m] = watch[m]
                                  /\ notes'[m] = notes[m]
    BY <1>1, VersionTypes
  <2>3. /\ 1 \in DOMAIN watch[n] /\ Head(watch[n]) = watch[n][1]
        /\ \A i \in DOMAIN watch[n] : i # 1 => /\ i - 1 \in DOMAIN watch'[n]
                                               /\ watch'[n][i - 1] = watch[n][i]
    <3>1. watch[n] # <<>>
      BY <1>1
    <3>2. /\ 1 \in DOMAIN watch[n] /\ Head(watch[n]) = watch[n][1]
          /\ \A i \in DOMAIN watch[n] : i # 1 => /\ i - 1 \in DOMAIN Tail(watch[n])
                                                 /\ Tail(watch[n])[i - 1] = watch[n][i]
      BY <2>1, <3>1, TailOf
    <3> QED
      BY <2>2, <3>2
  <2> DEFINE x == EventKind(cache[n], Head(watch[n]))
  <2>4. /\ \A i \in DOMAIN notes[n] : /\ i \in DOMAIN Append(notes[n], x)
                                      /\ Append(notes[n], x)[i] = notes[n][i]
        /\ Len(notes[n]) + 1 \in DOMAIN Append(notes[n], x)
        /\ Append(notes[n], x)[Len(notes[n]) + 1] = x
    BY <2>1, AppendOf
  <2> QED
    BY <2>2, <2>3, <2>4
<1>3. ASSUME NEW m \in Names, CreationNews(m) PROVE CreationNews(m)'
  <2>1. CASE m # n
    BY <1>2, <1>3, <2>1 DEF CreationNews
  <2>2. CASE m = n
    BY <1>2, <1>3, <2>2 DEF CreationNews, EventKind
  <2> QED
    BY <2>1, <2>2
<1>4. ASSUME NEW m \in Names, DeletionNews(m) PROVE DeletionNews(m)'
  <2>1. CASE m # n
    BY <1>1, <1>2, <1>4, <2>1 DEF DeletionNews
  <2>2. CASE m = n
    <3>1. CASE \E i \in DOMAIN notes[n] : notes[n][i] = "gone"
      BY <1>2, <2>2, <3>1 DEF DeletionNews
    <3>2. CASE pods[n] # None /\ pods[n].term
      BY <1>1, <2>2, <3>2 DEF DeletionNews
    <3>3. ASSUME NEW i \in DOMAIN watch[n], watch[n][i] = None \/ watch[n][i].term
          PROVE  DeletionNews(n)'
      <4>1. CASE i = 1
        <5>1. EventKind(cache[n], watch[n][1]) = "gone"
          BY <3>3, <4>1 DEF EventKind
        <5> QED
          BY <1>2, <5>1 DEF DeletionNews
      <4>2. CASE i # 1
        BY <1>2, <3>3, <4>2 DEF DeletionNews
      <4> QED
        BY <4>1, <4>2
    <3> QED
      BY <1>4, <2>2, <3>1, <3>2, <3>3 DEF DeletionNews
  <2> QED
    BY <2>1, <2>2
<1> QED
  BY <1>3, <1>4

\* What the handler is told is no longer expected.
LEMMA NewsOfHandler ==
    ASSUME TypeOK, NEW n \in Names, HandleNote(n)
    PROVE  \A m \in Names : /\ m \in exp'.create => m \in exp.create
                            /\ m \in exp'.delete => m \in exp.delete
                            /\ m \in exp'.create /\ CreationNews(m) => CreationNews(m)'
                            /\ m \in exp'.delete /\ DeletionNews(m) => DeletionNews(m)'
<1>1. /\ UNCHANGED <<pods, watch, cache>>
      /\ notes[n] # <<>>
      /\ notes' = [notes EXCEPT ![n] = Tail(notes[n])]
      /\ exp' = CASE Head(notes[n]) = "created" -> [exp EXCEPT !.create = exp.create \ {n}]
                  [] Head(notes[n]) = "gone"    -> [exp EXCEPT !.delete = exp.delete \ {n}]
                  [] OTHER                      -> exp
  BY DEF HandleNote
<1>2. /\ exp \in [create : SUBSET Names, delete : SUBSET Names]
      /\ notes \in [Names -> Seq(EventKinds)]
  BY VersionTypes DEF TypeOK
<1>3. /\ exp'.create \subseteq exp.create /\ exp'.delete \subseteq exp.delete
      /\ Head(notes[n]) = "created" => n \notin exp'.create
      /\ Head(notes[n]) = "gone" => n \notin exp'.delete
  BY <1>1, <1>2
<1>4. /\ Head(notes[n]) = notes[n][1]
      /\ \A i \in DOMAIN notes[n] : i # 1 => /\ i - 1 \in DOMAIN notes'[n]
                                            /\ notes'[n][i - 1] = notes[n][i]
      /\ \A m \in Names \ {n} : notes'[m] = notes[m]
  BY <1>1, <1>2, TailOf
<1>5. ASSUME NEW m \in Names, m \in exp'.create, CreationNews(m) PROVE CreationNews(m)'
  <2>1. CASE m # n
    BY <1>1, <1>4, <1>5, <2>1 DEF CreationNews
  <2>2. CASE m = n
    <3>1. ASSUME NEW i \in DOMAIN notes[n], notes[n][i] = "created" PROVE CreationNews(n)'
      <4>1. i # 1
        BY <1>3, <1>4, <1>5, <2>2, <3>1
      <4> QED
        BY <1>4, <3>1, <4>1 DEF CreationNews
    <3> QED
      BY <1>1, <1>5, <2>2, <3>1 DEF CreationNews
  <2> QED
    BY <2>1, <2>2
<1>6. ASSUME NEW m \in Names, m \in exp'.delete, DeletionNews(m) PROVE DeletionNews(m)'
  <2>1. CASE m # n
    BY <1>1, <1>4, <1>6, <2>1 DEF DeletionNews
  <2>2. CASE m = n
    <3>1. ASSUME NEW i \in DOMAIN notes[n], notes[n][i] = "gone" PROVE DeletionNews(n)'
      <4>1. i # 1
        BY <1>3, <1>4, <1>6, <2>2, <3>1
      <4> QED
        BY <1>4, <3>1, <4>1 DEF DeletionNews
    <3> QED
      BY <1>1, <1>6, <2>2, <3>1 DEF DeletionNews
  <2> QED
    BY <2>1, <2>2
<1> QED
  BY <1>3, <1>5, <1>6

\* A step of anybody else than the worker.
LEMMA AwaitedKept ==
    ASSUME Awaited, UNCHANGED <<pc, job>>,
           \A m \in exp'.create : m \in exp.create /\ (CreationNews(m) => CreationNews(m)'),
           \A m \in exp'.delete : m \in exp.delete /\ (DeletionNews(m) => DeletionNews(m)')
    PROVE  Awaited'
BY DEF Awaited, CreateAwaited, DeleteAwaited, ToCreate, ToDelete

LEMMA NewsQuiet ==
    ASSUME UNCHANGED <<pods, watch, cache, notes>>
    PROVE  \A m \in Names : CreationNews(m)' = CreationNews(m) /\ DeletionNews(m)' = DeletionNews(m)
BY DEF CreationNews, DeletionNews

\* A pass that calls nobody.
LEMMA AwaitedQuiet ==
    ASSUME TypeOK, Awaited, UNCHANGED <<pods, watch, cache, notes, exp>>,
           pc \notin {"create", "delete"} \/ (pc = "delete" /\ job.batch = {})
    PROVE  Awaited'
<1>1. /\ exp.create \subseteq Names /\ exp.delete \subseteq Names
      /\ \A m \in Names : ~ToCreate(m) /\ ~ToDelete(m)
  BY DEF TypeOK, ToCreate, ToDelete
<1> QED
  BY <1>1, NewsQuiet DEF Awaited, CreateAwaited, DeleteAwaited

LEMMA AwaitedInformer ==
    ASSUME TypeOK, Awaited, NoVersionIsMissed, Informer
    PROVE  Awaited'
<1>1. exp.create \subseteq Names /\ exp.delete \subseteq Names
  BY DEF TypeOK
<1>2. CASE InplaceuEvent \/ Resync
  <2>1. UNCHANGED <<pods, watch, cache, notes, exp, pc, job>>
    BY <1>2 DEF InplaceuEvent, Resync, clusterVars
  <2> QED
    BY <1>1, <2>1, NewsQuiet, AwaitedKept
<1>3. CASE InformerRelists
  BY <1>3 DEF InformerRelists, Relist, Disturb, NoVersionIsMissed
<1>4. ASSUME NEW n \in Names, InformerStep(n) PROVE Awaited'
  <2>1. UNCHANGED <<exp, pc, job>>
    BY <1>4 DEF InformerStep
  <2> QED
    BY <1>1, <1>4, <2>1, NewsOfInformer, AwaitedKept
<1>5. ASSUME NEW n \in Names, HandleNote(n) PROVE Awaited'
  <2>1. UNCHANGED <<pc, job>>
    BY <1>5 DEF HandleNote
  <2>2. \A m \in Names : /\ m \in exp'.create => m \in exp.create
                         /\ m \in exp'.delete => m \in exp.delete
                         /\ m \in exp'.create /\ CreationNews(m) => CreationNews(m)'
                         /\ m \in exp'.delete /\ DeletionNews(m) => DeletionNews(m)'
    BY <1>5, NewsOfHandler
  <2>3. exp'.create \subseteq Names /\ exp'.delete \subseteq Names
    BY InformerTypeOK DEF TypeOK
  <2> QED
    BY <2>1, <2>2, <2>3, AwaitedKept
<1> QED
  BY <1>2, <1>3, <1>4, <1>5 DEF Informer

\* Users and kubelets: a pod that is going only goes.
LEMMA AwaitedEnvironment ==
    ASSUME TypeOK, Awaited, EnvironmentStep
    PROVE  Awaited'
<1>1. exp.create \subseteq Names /\ exp.delete \subseteq Names /\ UNCHANGED <<exp, pc, job>>
  BY DEF TypeOK, EnvironmentStep, controllerVars
<1>2. pods \in [Names -> Pod \cup {None}]
  BY VersionTypes
<1>3. ASSUME NEW n \in Names, NEW p \in Pod \cup {None}, KubeletWrites(n, p),
             pods[n] # None /\ pods[n].term => p = None
      PROVE  Awaited'
  <2>1. Publish(n, p) /\ UNCHANGED <<cache, notes>>
    BY <1>3 DEF KubeletWrites
  <2> QED
    BY <1>1, <1>3, <2>1, NewsOfWrite, AwaitedKept
<1>4. ASSUME NEW n \in Names,
             \/ PodRuns(n) \/ PodReady(n) \/ PodUnready(n)
             \/ UserMarksDelete(n) \/ PodFails(n) \/ Evict(n)
      PROVE  Awaited'
  <2>1. IsActive(pods[n]) /\ pods[n] \in Pod /\ ~pods[n].term
    BY <1>2, <1>4 DEF PodRuns, PodReady, PodUnready, UserMarksDelete, PodFails, Evict, IsActive
  <2>2. \E p \in Pod \cup {None} : KubeletWrites(n, p)
    <3>1. /\ [pods[n] EXCEPT !.phase = "Running"] \in Pod
          /\ [pods[n] EXCEPT !.ready = TRUE] \in Pod
          /\ [pods[n] EXCEPT !.ready = FALSE] \in Pod
          /\ [pods[n] EXCEPT !.sdel = TRUE] \in Pod
          /\ [pods[n] EXCEPT !.phase = "Failed", !.ready = FALSE] \in Pod
      BY <2>1 DEF Pod
    <3>2. Deleted(pods[n]) \subseteq Pod \cup {None}
      BY <2>1, DeletedType
    <3> QED
      BY <1>4, <3>1, <3>2 DEF PodRuns, PodReady, PodUnready, UserMarksDelete, PodFails, Evict
  <2> QED
    BY <1>3, <2>1, <2>2
<1>5. ASSUME NEW n \in Names, PodGone(n) PROVE Awaited'
  BY <1>3, <1>5 DEF PodGone
<1>6. ASSUME \/ \E r \in ReplicaChoices : UserScales(r)
             \/ \E rev \in Revs : UserChangesTemplate(rev)
      PROVE  Awaited'
  <2>1. UNCHANGED <<pods, watch, cache, notes>>
    BY <1>6 DEF UserScales, UserChangesTemplate
  <2> QED
    BY <1>1, <2>1, NewsQuiet, AwaitedKept
<1> QED
  BY <1>4, <1>5, <1>6 DEF EnvironmentStep, Environment

\* createPods: what is expected before the calls is made or rolled back.
LEMMA AwaitedCreates ==
    ASSUME TypeOK, Listing, CallsInOrder, Awaited,
           \/ ScaleOut \/ StartBatch \/ EndCreate
           \/ \E n \in Names : CreateOne(n) \/ CreateFails(n) \/ CreateTimesOut(n)
    PROVE  Awaited'
<1>1. /\ exp \in [create : SUBSET Names, delete : SUBSET Names] /\ job \in Job
      /\ exp.create \subseteq Names /\ exp.delete \subseteq Names
  BY DEF TypeOK, ScaleOut, StartBatch, EndCreate, CreateOne, CreateFails, CreateTimesOut
<1>2. CASE ScaleOut
  <2>1. PICK S \in SUBSET Fresh :
          /\ exp' = [exp EXCEPT !.create = exp.create \cup S]
          /\ job' = [job EXCEPT !.plan = S, !.todo = S, !.size = 1]
    BY <1>2 DEF ScaleOut
  <2>2. /\ pc = "sync" /\ pc' = "create" /\ UNCHANGED <<pods, watch, cache, notes>>
        /\ job.made = {}
    BY <1>2 DEF ScaleOut, clusterVars, CallsInOrder
  <2>3. /\ exp'.create = exp.create \cup S /\ exp'.delete = exp.delete
        /\ job'.plan = S /\ job'.made = {}
    BY <1>1, <2>1, <2>2 DEF Job
  <2>4. \A m \in Names : ~ToCreate(m) /\ ~ToDelete(m)
    BY <2>2 DEF ToCreate, ToDelete
  <2>5. \A m \in S : ToCreate(m)'
    BY <2>2, <2>3 DEF ToCreate
  <2> QED
    BY <1>1, <2>2, <2>3, <2>4, <2>5, NewsQuiet DEF Awaited, CreateAwaited, DeleteAwaited
<1>3. ASSUME pc = "create", pc' = "create", exp' = exp, job'.plan = job.plan,
             \A m \in exp.create : \/ m \in job.made \/ m \notin job.plan
                                   \/ m \notin job'.made \/ CreationNews(m)',
             \A m \in Names : /\ CreationNews(m) => CreationNews(m)'
                              /\ DeletionNews(m) => DeletionNews(m)'
      PROVE  Awaited'
  <2>1. \A m \in exp.create : ToCreate(m) => ToCreate(m)' \/ CreationNews(m)'
    BY <1>3 DEF ToCreate
  <2>2. \A m \in exp.delete : ~ToDelete(m)
    BY <1>3 DEF ToDelete
  <2> QED
    BY <1>1, <1>3, <2>1, <2>2 DEF Awaited, CreateAwaited, DeleteAwaited
<1>4. ASSUME NEW n \in Names, CreateOne(n) \/ CreateTimesOut(n) PROVE Awaited'
  <2>1. /\ pc = "create" /\ n \in job.batch /\ pc' = "create" /\ exp' = exp
        /\ Publish(n, NewPod(job.iu.rev)) /\ UNCHANGED <<cache, notes>>
    BY <1>4 DEF CreateOne, CreateTimesOut
  <2>2. job'.plan = job.plan /\ job'.made \subseteq job.made \cup {n}
    BY <1>1, <1>4 DEF CreateOne, CreateTimesOut, Job
  <2>3. n \in Unused
    BY <2>1 DEF Listing, Untried
  <2>4. NewPod(job.iu.rev) \in Pod /\ ~NewPod(job.iu.rev).term
    BY <1>1 DEF NewPod, Pod, Job, Inplaceu
  <2>5. \A m \in Names : /\ CreationNews(m) => CreationNews(m)'
                         /\ DeletionNews(m) => DeletionNews(m)'
    BY <2>1, <2>3, <2>4, NewsOfWrite DEF Unused
  <2>6. CreationNews(n)'
    <3>1. watch'[n] = Append(<<>>, NewPod(job.iu.rev)) /\ cache'[n] = None
      BY <2>1, <2>3, VersionTypes DEF Publish, Unused
    <3>2. watch'[n] # <<>> /\ watch'[n][1] = NewPod(job.iu.rev)
      BY <2>4, <3>1
    <3> QED
      BY <2>4, <3>1, <3>2, NoneAssumption DEF CreationNews
  <2> QED
    BY <1>3, <2>1, <2>2, <2>5, <2>6
<1>5. CASE StartBatch \/ \E n \in Names : CreateFails(n)
  <2>1. /\ pc = "create" /\ pc' = "create" /\ exp' = exp
        /\ UNCHANGED <<pods, watch, cache, notes>>
    BY <1>5 DEF StartBatch, CreateFails, clusterVars
  <2>2. job'.plan = job.plan /\ job'.made = job.made
    BY <1>1, <1>5 DEF StartBatch, CreateFails, Job
  <2> QED
    BY <1>3, <2>1, <2>2, NewsQuiet
<1>6. CASE EndCreate
  <2>1. /\ exp'.create = exp.create \ (job.plan \ job.made) /\ exp'.delete = exp.delete
        /\ pc = "create" /\ UNCHANGED <<pods, watch, cache, notes>>
    BY <1>1, <1>6 DEF EndCreate, clusterVars
  <2>2. \A m \in exp'.create : ~ToCreate(m)
    BY <2>1 DEF ToCreate
  <2>3. \A m \in exp.delete : ~ToDelete(m)
    BY <2>1 DEF ToDelete
  <2> QED
    BY <1>1, <2>1, <2>2, <2>3, NewsQuiet DEF Awaited, CreateAwaited, DeleteAwaited
<1> QED
  BY <1>2, <1>4, <1>5, <1>6

\* deletePods: a call that was accepted makes the pod go, of one that failed the
\* expectation is taken back.
LEMMA AwaitedDeletes ==
    ASSUME TypeOK, CallsInOrder, Awaited,
           \E n \in Names : \/ ExpectDelete(n) \/ DeleteOne(n)
                            \/ DeleteFails(n) \/ DeleteTimesOut(n)
    PROVE  Awaited'
<1>1. /\ exp \in [create : SUBSET Names, delete : SUBSET Names] /\ job \in Job
      /\ exp.create \subseteq Names /\ exp.delete \subseteq Names
      /\ pc = "delete" /\ \A m, n \in job.batch : m = n
  BY DEF TypeOK, ExpectDelete, DeleteOne, DeleteFails, DeleteTimesOut, CallsInOrder
<1>2. ASSUME NEW n \in Names, ExpectDelete(n) PROVE Awaited'
  <2>1. /\ exp'.create = exp.create /\ exp'.delete = exp.delete \cup {n}
        /\ job.batch = {} /\ job'.batch = {n} /\ pc' = "delete"
        /\ UNCHANGED <<pods, watch, cache, notes>>
    BY <1>1, <1>2 DEF ExpectDelete, clusterVars, Job
  <2>2. ToDelete(n)' /\ \A m \in Names : ~ToCreate(m) /\ ~ToDelete(m)
    BY <1>1, <2>1 DEF ToDelete, ToCreate
  <2> QED
    BY <1>1, <2>1, <2>2, NewsQuiet DEF Awaited, CreateAwaited, DeleteAwaited
<1>3. ASSUME NEW n \in Names, n \in job.batch, exp'.create = exp.create,
             \A m \in Names : /\ CreationNews(m) => CreationNews(m)'
                              /\ DeletionNews(m) => DeletionNews(m)',
             \/ exp'.delete = exp.delete \ {n}
             \/ exp'.delete = exp.delete /\ DeletionNews(n)'
      PROVE  Awaited'
  <2>1. \A m \in Names \ {n} : ~ToDelete(m)
    BY <1>1, <1>3 DEF ToDelete
  <2>2. \A m \in Names : ~ToCreate(m)
    BY <1>1 DEF ToCreate
  <2>3. CreateAwaited'
    BY <1>1, <1>3, <2>2 DEF Awaited, CreateAwaited
  <2>4. DeleteAwaited'
    BY <1>1, <1>3, <2>1 DEF Awaited, DeleteAwaited
  <2> QED
    BY <2>3, <2>4 DEF Awaited
<1>4. ASSUME NEW n \in Names, NEW p \in Deleted(pods[n]), pods[n] # None, Publish(n, p),
             UNCHANGED <<cache, notes>>
      PROVE  /\ \A m \in Names : /\ CreationNews(m) => CreationNews(m)'
                                 /\ DeletionNews(m) => DeletionNews(m)'
             /\ DeletionNews(n)'
  <2>1. p \in Pod \cup {None} /\ (p = None \/ p.term)
    BY <1>4, VersionTypes, DeletedType DEF Deleted, Pod
  <2> QED
    BY <1>4, <2>1, NewsOfWrite
<1>5. ASSUME NEW n \in Names, DeleteOne(n) PROVE Awaited'
  <2>1. n \in job.batch /\ exp' = exp /\ pods[n] # None /\ UNCHANGED <<cache, notes>>
    BY <1>5 DEF DeleteOne
  <2>2. CASE pods[n].term /\ UNCHANGED <<pods, watch>>
    <3>1. DeletionNews(n)
      BY <2>1, <2>2 DEF DeletionNews
    <3> QED
      BY <1>3, <2>1, <2>2, <3>1, NewsQuiet
  <2>3. CASE \E p \in Deleted(pods[n]) : Publish(n, p)
    BY <1>3, <1>4, <2>1, <2>3
  <2> QED
    BY <1>5, <2>2, <2>3 DEF DeleteOne
<1>6. ASSUME NEW n \in Names, DeleteFails(n) \/ DeleteTimesOut(n) PROVE Awaited'
  <2>1. /\ n \in job.batch /\ exp'.create = exp.create /\ exp'.delete = exp.delete \ {n}
        /\ UNCHANGED <<cache, notes>>
    BY <1>1, <1>6 DEF DeleteFails, DeleteTimesOut, DeleteStops
  <2>2. \/ UNCHANGED <<pods, watch, cache, notes>>
        \/ pods[n] # None /\ \E p \in Deleted(pods[n]) : Publish(n, p)
    BY <1>6 DEF DeleteFails, DeleteTimesOut, IsActive
  <2> QED
    BY <1>3, <1>4, <2>1, <2>2, NewsQuiet
<1> QED
  BY <1>2, <1>5, <1>6

\* The writes of Update.
LEMMA AwaitedUpdates ==
    ASSUME TypeOK, Awaited, NEW n \in Names,
           UpdateInPlace(n) \/ UpdateByRecreate(n) \/ UpdateTimesOut(n)
    PROVE  Awaited'
<1>1. /\ exp.create \subseteq Names /\ exp.delete \subseteq Names /\ job \in Job
      /\ pc = "updating" /\ exp' = exp /\ UNCHANGED <<cache, notes>>
  BY DEF TypeOK, UpdateInPlace, UpdateByRecreate, UpdateTimesOut
<1>2. \A m \in Names : ~ToCreate(m) /\ ~ToDelete(m)
  BY <1>1 DEF ToCreate, ToDelete
<1>3. ASSUME NEW p \in Pod, pods[n] # None, p.term = pods[n].term, Publish(n, p)
      PROVE  \A m \in Names : /\ CreationNews(m) => CreationNews(m)'
                              /\ DeletionNews(m) => DeletionNews(m)'
  BY <1>1, <1>3, NewsOfWrite
<1>4. \/ UNCHANGED <<pods, watch>>
      \/ pods[n] # None /\ Publish(n, [pods[n] EXCEPT !.rev = job.iu.rev])
      \/ pods[n] # None /\ Publish(n, [pods[n] EXCEPT !.sdel = TRUE])
  BY DEF UpdateInPlace, UpdateByRecreate, UpdateTimesOut
<1>5. pods[n] # None =>
        /\ [pods[n] EXCEPT !.rev = job.iu.rev] \in Pod
        /\ [pods[n] EXCEPT !.rev = job.iu.rev].term = pods[n].term
        /\ [pods[n] EXCEPT !.sdel = TRUE] \in Pod
        /\ [pods[n] EXCEPT !.sdel = TRUE].term = pods[n].term
  <2>1. job.iu.rev \in Revs
    BY <1>1 DEF Job, Inplaceu
  <2>2. pods[n] # None => pods[n] \in Pod
    BY VersionTypes
  <2> QED
    BY <2>1, <2>2 DEF Pod
<1>6. \A m \in Names : /\ CreationNews(m) => CreationNews(m)'
                       /\ DeletionNews(m) => DeletionNews(m)'
  BY <1>1, <1>3, <1>4, <1>5, NewsQuiet
<1> QED
  BY <1>1, <1>2, <1>6 DEF Awaited, CreateAwaited, DeleteAwaited

LEMMA AwaitedStep ==
    ASSUME TypeOK, Listing, CallsInOrder, Awaited, NoVersionIsMissed, [Next]_vars
    PROVE  Awaited'
<1>1. CASE \/ Take \/ PassScaleGate \/ WaitForScale
           \/ ListPods \/ PassVersionGate \/ WaitForVersions \/ ReconcileFails
           \/ DeleteSpecified \/ ScaleIn \/ NothingToScale \/ EndDelete \/ ChooseUpdates
           \/ StatusIsConsistent \/ UpdateStatus \/ UpdateStatusFails \/ UpdateStatusTimesOut
           \/ \E n \in Names : UpdateFails(n)
  <2>1. UNCHANGED <<pods, watch, cache, notes, exp>>
    BY <1>1 DEF Take, PassScaleGate, WaitForScale, ListPods, PassVersionGate, WaitForVersions,
       ReconcileFails, DeleteSpecified, ScaleIn, NothingToScale, DeleteNext, EndDelete,
       ChooseUpdates, StatusIsConsistent, UpdateStatus, UpdateStatusFails, UpdateStatusTimesOut,
       UpdateFails, clusterVars
  <2>2. pc \notin {"create", "delete"} \/ (pc = "delete" /\ job.batch = {})
    BY <1>1 DEF Take, PassScaleGate, WaitForScale, ListPods, PassVersionGate, WaitForVersions,
       ReconcileFails, DeleteSpecified, ScaleIn, NothingToScale, EndDelete,
       ChooseUpdates, StatusIsConsistent, UpdateStatus, UpdateStatusFails, UpdateStatusTimesOut,
       UpdateFails
  <2> QED
    BY <2>1, <2>2, AwaitedQuiet
<1>2. CASE Crash
  BY <1>2 DEF Crash, Awaited, CreateAwaited, DeleteAwaited
<1>3. CASE UNCHANGED vars
  <2>1. UNCHANGED <<pods, watch, cache, notes, exp, pc, job>>
    BY <1>3 DEF vars, clusterVars, controllerVars
  <2> QED
    BY <2>1, NewsQuiet, AwaitedKept DEF TypeOK
<1>4. CASE Worker
  BY <1>1, <1>4, AwaitedCreates, AwaitedDeletes, AwaitedUpdates DEF Worker
<1>5. CASE WorkerFault
  BY <1>1, <1>5, AwaitedCreates, AwaitedDeletes, AwaitedUpdates DEF WorkerFault
<1> QED
  BY <1>2, <1>3, <1>4, <1>5, AwaitedInformer, AwaitedEnvironment DEF Next

-----------------------------------------------------------------------------
(* The order of the calls, and of the generations.                          *)

LEMMA CallsStayInOrder ==
    ASSUME TypeOK, Listing, CallsInOrder, [Next]_vars
    PROVE  CallsInOrder'
<1>1. CASE UNCHANGED <<pc, job>>
  BY <1>1 DEF CallsInOrder
<1>2. CASE pc' \notin {"check", "list", "versions", "sync", "delete"}
  BY <1>2 DEF CallsInOrder
<1>3. CASE Take
  BY <1>3 DEF Take, NewJob, CallsInOrder
<1>4. CASE PassScaleGate \/ ListPods \/ PassVersionGate
  <2>1. /\ pc \in {"check", "list", "versions"} /\ job \in Job
        /\ pc' \in {"list", "versions", "sync"}
    BY <1>4 DEF PassScaleGate, ListPods, PassVersionGate, TypeOK
  <2>2. job'.made = job.made /\ job'.err = job.err
    BY <1>4, <2>1 DEF PassScaleGate, ListPods, PassVersionGate, Job
  <2> QED
    BY <2>1, <2>2 DEF CallsInOrder
<1>5. CASE DeleteSpecified \/ ScaleIn \/ NothingToScale
  <2>1. PICK S : job' = [job EXCEPT !.todo = S] /\ pc' \in {"update", "delete"}
    BY <1>5 DEF DeleteSpecified, ScaleIn, NothingToScale, DeleteNext
  <2>2. job \in Job /\ job.batch = {}
    BY <1>5 DEF DeleteSpecified, ScaleIn, NothingToScale, TypeOK, Listing, ListedRevisions
  <2>3. job'.batch = {}
    BY <2>1, <2>2 DEF Job
  <2> QED
    BY <2>1, <2>3 DEF CallsInOrder
<1>6. ASSUME NEW n \in Names, \/ ExpectDelete(n) \/ DeleteOne(n)
                              \/ DeleteFails(n) \/ DeleteTimesOut(n)
      PROVE  CallsInOrder'
  <2>1. job'.batch \in {{}, {n}} /\ pc' \in {"delete", "status", "update"}
    BY <1>6 DEF ExpectDelete, DeleteOne, DeleteFails, DeleteTimesOut, DeleteStops, TypeOK, Job
  <2> QED
    BY <2>1 DEF CallsInOrder
<1>7. CASE EnvironmentStep \/ Informer
  BY <1>1, <1>7 DEF EnvironmentStep, controllerVars, Informer, InplaceuEvent, InformerRelists, Resync,
     InformerStep, HandleNote
<1>8. CASE \/ WaitForScale \/ WaitForVersions \/ ReconcileFails \/ Crash
           \/ ScaleOut \/ StartBatch \/ EndCreate \/ EndDelete \/ ChooseUpdates
           \/ StatusIsConsistent \/ UpdateStatus \/ UpdateStatusFails \/ UpdateStatusTimesOut
           \/ \E n \in Names : \/ CreateOne(n) \/ CreateFails(n) \/ CreateTimesOut(n)
                               \/ UpdateInPlace(n) \/ UpdateByRecreate(n)
                               \/ UpdateFails(n) \/ UpdateTimesOut(n)
  <2>1. CASE \/ WaitForScale \/ WaitForVersions \/ ReconcileFails \/ Crash
             \/ StatusIsConsistent \/ UpdateStatus \/ UpdateStatusFails \/ UpdateStatusTimesOut
    BY <1>2, <2>1 DEF WaitForScale, WaitForVersions, ReconcileFails, Crash, Return,
       StatusIsConsistent, UpdateStatus, UpdateStatusFails, UpdateStatusTimesOut
  <2>2. CASE \/ ScaleOut \/ StartBatch \/ EndCreate
             \/ \E n \in Names : CreateOne(n) \/ CreateFails(n) \/ CreateTimesOut(n)
    <3>1. pc' \in {"create", "update", "status"}
      BY <2>2 DEF ScaleOut, StartBatch, EndCreate, CreateOne, CreateFails, CreateTimesOut
    <3> QED
      BY <1>2, <3>1
  <2>3. CASE \/ EndDelete \/ ChooseUpdates
             \/ \E n \in Names : \/ UpdateInPlace(n) \/ UpdateByRecreate(n)
                                 \/ UpdateFails(n) \/ UpdateTimesOut(n)
    <3>1. pc' \in {"updating", "status"}
      BY <2>3 DEF EndDelete, ChooseUpdates, UpdateInPlace, UpdateByRecreate, UpdateFails,
         UpdateTimesOut, UpdateStops, UpdateNext
    <3> QED
      BY <1>2, <3>1
  <2> QED
    BY <1>8, <2>1, <2>2, <2>3
<1>9. CASE Worker
  BY <1>3, <1>4, <1>5, <1>6, <1>8, <1>9 DEF Worker
<1>10. CASE WorkerFault
  BY <1>6, <1>8, <1>10 DEF WorkerFault
<1>11. CASE UNCHANGED vars
  BY <1>1, <1>11 DEF vars, controllerVars
<1> QED
  BY <1>7, <1>8, <1>9, <1>10, <1>11 DEF Next

\* A pass keeps the Inplaceu that it started with.
LEMMA PassKeepsObject ==
    ASSUME TypeOK, Worker \/ WorkerFault, ~Take
    PROVE  /\ pc # "idle" /\ iuCache' = iuCache
           /\ pc' = "idle" \/ job'.iu = job.iu
           /\ iu' = iu \/ UpdateStatus \/ UpdateStatusTimesOut
<1>1. CASE \/ PassScaleGate \/ WaitForScale \/ ListPods \/ PassVersionGate
           \/ WaitForVersions \/ ReconcileFails
           \/ StatusIsConsistent \/ UpdateStatus \/ UpdateStatusFails \/ UpdateStatusTimesOut
  BY <1>1 DEF PassScaleGate, WaitForScale, ListPods, PassVersionGate, WaitForVersions,
     ReconcileFails, StatusIsConsistent, UpdateStatus, UpdateStatusFails, UpdateStatusTimesOut,
     Return, clusterVars, TypeOK, Job
<1>2. CASE ScaleOut \/ DeleteSpecified \/ ScaleIn \/ NothingToScale \/ ChooseUpdates \/ EndDelete
  <2>1. pc \in {"sync", "update", "delete"} /\ job \in Job
    BY <1>2 DEF ScaleOut, DeleteSpecified, ScaleIn, NothingToScale, ChooseUpdates, EndDelete, TypeOK
  <2>2. job'.iu = job.iu /\ UNCHANGED clusterVars
    BY <1>2, <2>1 DEF ScaleOut, DeleteSpecified, ScaleIn, NothingToScale, DeleteNext,
       ChooseUpdates, EndDelete, Job
  <2> QED
    BY <2>1, <2>2 DEF clusterVars
<1>3. CASE StartBatch \/ EndCreate
           \/ \E n \in Names : CreateOne(n) \/ CreateFails(n) \/ CreateTimesOut(n)
  <2>1. pc = "create" /\ job \in Job /\ iuCache' = iuCache /\ iu' = iu
    BY <1>3 DEF StartBatch, EndCreate, CreateOne, CreateFails, CreateTimesOut, clusterVars, TypeOK
  <2>2. job'.iu = job.iu
    BY <1>3, <2>1 DEF StartBatch, EndCreate, CreateOne, CreateFails, CreateTimesOut, Job
  <2> QED
    BY <2>1, <2>2
<1>4. CASE \E n \in Names : ExpectDelete(n) \/ DeleteOne(n) \/ DeleteFails(n) \/ DeleteTimesOut(n)
  <2>1. pc = "delete" /\ job \in Job /\ iuCache' = iuCache /\ iu' = iu
    BY <1>4 DEF ExpectDelete, DeleteOne, DeleteFails, DeleteTimesOut, clusterVars, TypeOK
  <2>2. job'.iu = job.iu
    BY <1>4, <2>1 DEF ExpectDelete, DeleteOne, DeleteFails, DeleteTimesOut, DeleteStops, Job
  <2> QED
    BY <2>1, <2>2
<1>5. CASE \E n \in Names : \/ UpdateInPlace(n) \/ UpdateByRecreate(n)
                            \/ UpdateFails(n) \/ UpdateTimesOut(n)
  <2>1. pc = "updating" /\ job \in Job /\ iuCache' = iuCache /\ iu' = iu
    BY <1>5 DEF UpdateInPlace, UpdateByRecreate, UpdateFails, UpdateTimesOut, TypeOK
  <2>2. job'.iu = job.iu
    BY <1>5, <2>1 DEF UpdateInPlace, UpdateByRecreate, UpdateFails, UpdateTimesOut,
       UpdateStops, UpdateNext, Job
  <2> QED
    BY <2>1, <2>2
<1> QED
  BY <1>1, <1>2, <1>3, <1>4, <1>5 DEF Worker, WorkerFault

LEMMA GenerationsStep ==
    ASSUME TypeOK, GenerationsObserved, [Next]_vars
    PROVE  GenerationsObserved'
<1>1. /\ iu.gen \in Nat /\ iu.status.observed \in Nat
      /\ iuCache.gen \in Nat /\ iuCache.status.observed \in Nat
  BY DEF TypeOK, ClusterTypeOK, Inplaceu, Status
<1>2. pc # "idle" => job.iu.gen \in Nat /\ job.iu.status.observed \in Nat
  BY DEF TypeOK, Job, Inplaceu, Status
<1>3. CASE UNCHANGED <<iu, iuCache, pc, job>>
  BY <1>3 DEF GenerationsObserved
<1>4. CASE Take
  BY <1>4 DEF Take, NewJob, clusterVars, GenerationsObserved
<1>5. CASE UpdateStatus \/ UpdateStatusTimesOut
  <2>1. /\ iu' = [iu EXCEPT !.status = NewStatus] /\ iuCache' = iuCache /\ pc' = "idle"
        /\ NewStatus.observed = job.iu.gen /\ job.iu.gen <= iu.gen
    BY <1>5 DEF UpdateStatus, UpdateStatusTimesOut, Return, NewStatus, CalculateStatus,
       GenerationsObserved
  <2>2. iu'.gen = iu.gen /\ iu'.status.observed = job.iu.gen
    BY <2>1 DEF TypeOK, ClusterTypeOK, Inplaceu
  <2> QED
    BY <2>1, <2>2 DEF GenerationsObserved
<1>6. CASE (Worker \/ WorkerFault) /\ ~Take /\ ~UpdateStatus /\ ~UpdateStatusTimesOut
  BY <1>6, PassKeepsObject DEF GenerationsObserved
<1>7. CASE InplaceuEvent
  BY <1>1, <1>7 DEF InplaceuEvent, GenerationsObserved
<1>8. CASE Crash
  BY <1>1, <1>8 DEF Crash, Reload, GenerationsObserved
<1>9. CASE /\ UNCHANGED <<iuCache, pc, job>>
           /\ \/ \E r \in ReplicaChoices : UserScales(r)
              \/ \E rev \in Revs : UserChangesTemplate(rev)
  <2>1. iu'.gen = iu.gen + 1 /\ iu'.status = iu.status
    BY <1>9 DEF UserScales, UserChangesTemplate, TypeOK, ClusterTypeOK, Inplaceu
  <2>2. \A i \in Nat : i <= iu.gen => i <= iu.gen + 1
    BY <1>1
  <2> QED
    BY <1>1, <1>2, <1>9, <2>1, <2>2 DEF GenerationsObserved
<1>10. CASE Informer
  <2>1. InplaceuEvent \/ UNCHANGED <<iu, iuCache, pc, job>>
    BY <1>10 DEF Informer, InformerRelists, Relist, Resync, InformerStep, CacheApply, HandleNote, clusterVars
  <2> QED
    BY <1>3, <1>7, <2>1
<1>11. CASE EnvironmentStep
  <2>1. \/ UNCHANGED <<iu, iuCache, pc, job>>
        \/ /\ UNCHANGED <<iuCache, pc, job>>
           /\ \/ \E r \in ReplicaChoices : UserScales(r)
              \/ \E rev \in Revs : UserChangesTemplate(rev)
    BY <1>11 DEF EnvironmentStep, controllerVars, Environment, PodRuns, PodReady, PodGone, PodFails,
       PodUnready, Evict, UserMarksDelete, KubeletWrites, UserScales, UserChangesTemplate
  <2> QED
    BY <1>3, <1>9, <2>1
<1>12. CASE UNCHANGED vars
  BY <1>3, <1>12 DEF vars, clusterVars, controllerVars
<1> QED
  BY <1>4, <1>5, <1>6, <1>8, <1>10, <1>11, <1>12 DEF Next

-----------------------------------------------------------------------------
(* Only a pass that starts takes the wakeup away.                           *)

LEMMA WriteWakes ==
    ASSUME TypeOK, NEW n \in Names, NEW p, Publish(n, p)
    PROVE  WakeupDue'
<1>1. watch'[n] = Append(watch[n], p) /\ watch[n] \in Seq(Pod \cup {None})
  BY VersionTypes DEF Publish
<1>2. watch'[n] # <<>>
  <2>1. Len(Append(watch[n], p)) = Len(watch[n]) + 1 /\ Len(watch[n]) \in Nat
    BY <1>1
  <2>2. Len(<<>>) = 0
    OBVIOUS
  <2> QED
    BY <1>1, <2>1, <2>2
<1> QED
  BY <1>2 DEF WakeupDue, Synced

\* The versions that are on their way stay on their way, and the queue is not emptied.
LEMMA WakeupStays ==
    ASSUME TypeOK, GenerationsObserved, NoVersionIsMissed, WakeupDue, [Next]_vars, ~Take
    PROVE  WakeupDue'
<1>1. CASE Crash
  BY <1>1 DEF Crash, WakeupDue
<1>2. CASE Informer
  <2>1. CASE InplaceuEvent \/ Resync \/ \E n \in Names : HandleNote(n)
    BY <2>1 DEF InplaceuEvent, Resync, HandleNote, WakeupDue
  <2>2. ASSUME NEW n \in Names, InformerStep(n) PROVE WakeupDue'
    <3>1. /\ notes' = [notes EXCEPT ![n] = Append(notes[n], EventKind(cache[n], Head(watch[n])))]
          /\ notes \in [Names -> Seq(EventKinds)]
      BY <2>2, VersionTypes DEF InformerStep, CacheApply
    <3>2. notes'[n] # <<>>
      BY <3>1, EventKindType
    <3> QED
      BY <3>2 DEF WakeupDue, Synced
  <2>3. CASE InformerRelists
    BY <2>3 DEF InformerRelists, Relist, Disturb, NoVersionIsMissed
  <2> QED
    BY <1>2, <2>1, <2>2, <2>3 DEF Informer
<1>3. ASSUME NEW n \in Names, NEW p, Publish(n, p) PROVE WakeupDue'
  BY <1>3, WriteWakes
<1>4. CASE UNCHANGED <<iu, iuCache, watch, notes>> /\ (queued => queued')
  BY <1>4 DEF WakeupDue, Synced
<1>5. CASE /\ UNCHANGED <<iuCache, watch, notes, queued>>
           /\ \/ \E r \in ReplicaChoices : UserScales(r)
              \/ \E rev \in Revs : UserChangesTemplate(rev)
  <2>1. iu'.gen = iu.gen + 1 /\ iu.gen \in Nat /\ iuCache.gen \in Nat
    BY <1>5 DEF UserScales, UserChangesTemplate, TypeOK, ClusterTypeOK, Inplaceu
  <2>2. iuCache' # iu'
    BY <1>5, <2>1 DEF GenerationsObserved
  <2> QED
    BY <2>2 DEF WakeupDue, Synced
<1>6. CASE UpdateStatus \/ UpdateStatusTimesOut
  BY <1>6 DEF UpdateStatus, UpdateStatusTimesOut, Return, WakeupDue, Synced
<1>7. CASE EnvironmentStep
  <2>1. Environment /\ UNCHANGED queued
    BY <1>7 DEF EnvironmentStep, controllerVars
  <2>2. ASSUME NEW n \in Names, NEW p, KubeletWrites(n, p) PROVE WakeupDue'
    BY <1>3, <2>2 DEF KubeletWrites
  <2>3. ASSUME NEW n \in Names, \/ PodRuns(n) \/ PodReady(n) \/ PodGone(n) \/ PodFails(n)
                                \/ PodUnready(n) \/ Evict(n) \/ UserMarksDelete(n)
        PROVE  WakeupDue'
    <3>1. \E p : KubeletWrites(n, p)
      BY <2>3 DEF PodRuns, PodReady, PodGone, PodFails, PodUnready, Evict, UserMarksDelete
    <3> QED
      BY <2>2, <3>1
  <2>4. ASSUME \/ \E r \in ReplicaChoices : UserScales(r)
               \/ \E rev \in Revs : UserChangesTemplate(rev)
        PROVE  WakeupDue'
    <3>1. UNCHANGED <<iuCache, watch, notes, queued>>
      BY <2>1, <2>4 DEF UserScales, UserChangesTemplate
    <3> QED
      BY <1>5, <2>4, <3>1
  <2> QED
    BY <2>1, <2>3, <2>4 DEF Environment
<1>8. CASE UNCHANGED vars
  BY <1>4, <1>8 DEF vars, clusterVars, controllerVars
<1>9. CASE (Worker \/ WorkerFault) /\ ~UpdateStatus /\ ~UpdateStatusTimesOut
  <2>1. \/ UNCHANGED <<iu, iuCache, watch, notes>> /\ (queued => queued')
        \/ \E n \in Names : \E p : Publish(n, p)
    <3>1. CASE \/ PassScaleGate \/ WaitForScale \/ ListPods \/ PassVersionGate
               \/ WaitForVersions \/ ReconcileFails \/ StatusIsConsistent \/ UpdateStatusFails
      BY <3>1 DEF PassScaleGate, WaitForScale, ListPods, PassVersionGate, WaitForVersions,
         ReconcileFails, StatusIsConsistent, UpdateStatusFails, Return, clusterVars
    <3>2. CASE \/ ScaleOut \/ DeleteSpecified \/ ScaleIn \/ NothingToScale
               \/ StartBatch \/ EndCreate \/ ChooseUpdates \/ EndDelete
      BY <3>2 DEF ScaleOut, DeleteSpecified, ScaleIn, NothingToScale, DeleteNext, StartBatch, EndCreate,
         ChooseUpdates, EndDelete, clusterVars
    <3>3. CASE \E n \in Names : CreateOne(n) \/ CreateFails(n) \/ CreateTimesOut(n)
      BY <3>3 DEF CreateOne, CreateFails, CreateTimesOut
    <3>4. CASE \E n \in Names : \/ ExpectDelete(n) \/ DeleteOne(n)
                                \/ DeleteFails(n) \/ DeleteTimesOut(n)
      BY <3>4 DEF ExpectDelete, DeleteOne, DeleteFails, DeleteTimesOut, clusterVars
    <3>5. CASE \E n \in Names : \/ UpdateInPlace(n) \/ UpdateByRecreate(n)
                                \/ UpdateFails(n) \/ UpdateTimesOut(n)
      BY <3>5 DEF UpdateInPlace, UpdateByRecreate, UpdateFails, UpdateTimesOut
    <3> QED
      BY <1>9, <3>1, <3>2, <3>3, <3>4, <3>5 DEF Worker, WorkerFault
  <2> QED
    BY <1>3, <1>4, <2>1
<1> QED
  BY <1>1, <1>2, <1>6, <1>7, <1>8, <1>9 DEF Next

-----------------------------------------------------------------------------
(* A pass that will not be repeated.                                        *)

\* Where nothing is on its way, the cache shows the pods as they are.
LEMMA NothingOnItsWay ==
    ASSUME TypeOK, Versions, ~WakeupDue
    PROVE  /\ ~queued /\ iuCache = iu
           /\ \A n \in Names : watch[n] = <<>> /\ notes[n] = <<>> /\ rvExp[n] <= 0
           /\ ActivePods(cache) = ActivePods(pods)
<1>1. /\ ~queued /\ iuCache = iu
      /\ \A n \in Names : watch[n] = <<>> /\ notes[n] = <<>> /\ Len(watch[n]) = 0
  BY DEF WakeupDue, Synced
<1>2. \A n \in Names : cache[n] = pods[n]
  BY <1>1 DEF Versions, LastVersionIsStored, Version
<1>3. \A n \in Names : rvExp[n] <= 0
  BY <1>1 DEF Versions, RevisionAwaited
<1>4. ActivePods(cache) = ActivePods(pods)
  BY <1>2 DEF ActivePods
<1> QED
  BY <1>1, <1>3, <1>4

\* Whoever is listed where nothing is on its way is active.
LEMMA ListedIsActive ==
    ASSUME NEW view, view = ActivePods(pods), NEW n \in Members(view)
    PROVE  n \in Names /\ view[n] = pods[n] /\ IsActive(pods[n])
BY DEF Members, ActivePods

LEMMA MissedNothingReading ==
    ASSUME TypeOK, Versions, NothingMissed, ~WakeupDue, ~WakeupDue',
           \/ PassScaleGate \/ WaitForScale \/ ListPods
           \/ PassVersionGate \/ WaitForVersions \/ ReconcileFails
    PROVE  NothingMissed'
<1>1. pc # "idle" /\ job \in Job /\ job.iu = iu
  BY DEF PassScaleGate, WaitForScale, ListPods, PassVersionGate, WaitForVersions, ReconcileFails,
     TypeOK, NothingMissed
<1>2. CASE PassScaleGate
  BY <1>1, <1>2 DEF PassScaleGate, clusterVars, NothingMissed, ListingSteps
<1>3. CASE WaitForScale
  BY <1>3 DEF WaitForScale, Return, Satisfied, NothingMissed, ListingSteps
<1>4. CASE ListPods
  <2>1. /\ job'.iu = job.iu /\ job'.view = ActivePods(cache)
        /\ job'.behind = {n \in Names : IsActive(cache[n]) /\ rvExp[n] > 0}
        /\ pc' = "versions" /\ iu' = iu /\ pods' = pods
    BY <1>1, <1>4 DEF ListPods, clusterVars, Job
  <2>2. \A n \in Names : ~(rvExp[n] > 0)
    BY NothingOnItsWay, VersionTypes
  <2>3. job'.behind = {} /\ job'.view = ActivePods(pods)
    BY <2>1, <2>2, NothingOnItsWay
  <2> QED
    BY <1>1, <2>1, <2>3 DEF NothingMissed, ListingSteps, ActivePods
<1>5. CASE PassVersionGate
  <2>1. pc = "versions" /\ pc' = "sync" /\ UNCHANGED <<iu, pods, job>>
    BY <1>5 DEF PassVersionGate, clusterVars
  <2> QED
    BY <1>1, <2>1 DEF NothingMissed, ListingSteps, ActivePods
<1>6. CASE WaitForVersions
  BY <1>6 DEF WaitForVersions, Stale, NothingMissed
<1>7. CASE ReconcileFails
  BY <1>7 DEF ReconcileFails, Return, WakeupDue
<1> QED
  BY <1>2, <1>3, <1>4, <1>5, <1>6, <1>7

\* Scale calls somebody, or has nothing to call.
LEMMA MissedNothingScaling ==
    ASSUME TypeOK, Listing, CallsInOrder, NothingMissed,
           ScaleOut \/ DeleteSpecified \/ ScaleIn \/ NothingToScale
    PROVE  NothingMissed'
<1>1. /\ pc = "sync" /\ job \in Job /\ job.iu = iu /\ job.view = ActivePods(pods)
      /\ job.batch = {} /\ job.made = {} /\ UNCHANGED <<iu, pods>>
  BY DEF ScaleOut, DeleteSpecified, ScaleIn, NothingToScale, DeleteNext, TypeOK, NothingMissed,
     ListingSteps, Listing, ListedRevisions, CallsInOrder, clusterVars
<1>2. CASE ScaleOut
  <2>1. PICK S \in SUBSET Fresh :
          /\ Cardinality(S) = PassDiffs.scaleUpNum
          /\ job' = [job EXCEPT !.plan = S, !.todo = S, !.size = 1]
    BY <1>2 DEF ScaleOut
  <2>2. PassDiffs.scaleUpNum > 0 /\ pc' = "create"
    BY <1>2 DEF ScaleOut
  <2>3. S # {}
    BY <2>1, <2>2, FS_EmptySet
  <2>4. job'.iu = job.iu /\ job'.view = job.view /\ job'.made = {} /\ job'.todo = S
    BY <1>1, <2>1 DEF Job
  <2> QED
    BY <1>1, <2>2, <2>3, <2>4 DEF NothingMissed, ListingSteps, Chosen, ActivePods
<1>3. ASSUME NEW S, S \subseteq Members(job.view), DeleteNext(S),
             S = {} => ScaleRests(job.iu, job.view)
      PROVE  NothingMissed'
  <2>1. /\ job' = [job EXCEPT !.todo = S]
        /\ pc' = IF S = {} THEN "update" ELSE "delete"
    BY <1>3 DEF DeleteNext
  <2>2. job'.iu = job.iu /\ job'.view = job.view /\ job'.todo = S /\ job'.batch = {}
    BY <1>1, <2>1 DEF Job
  <2> QED
    BY <1>1, <1>3, <2>1, <2>2 DEF NothingMissed, ListingSteps, Chosen, ActivePods
<1>4. CASE DeleteSpecified
  <2>1. PICK S \in SpecifiedDeleteChoices(job.view, PassDiffs) : S # {} /\ DeleteNext(S)
    BY <1>4 DEF DeleteSpecified
  <2>2. S \subseteq Members(job.view)
    BY <2>1 DEF SpecifiedDeleteChoices, SpecifiedDelete
  <2> QED
    BY <1>3, <2>1, <2>2
<1>5. CASE ScaleIn
  <2>1. PICK S \in ScaleInChoices(job.view, job.iu.rev, PassDiffs) : DeleteNext(S)
    BY <1>5 DEF ScaleIn
  <2>2. S \subseteq Members(job.view)
    BY <2>1 DEF ScaleInChoices, Updated
  <2>3. S = {} => ScaleRests(job.iu, job.view)
    BY <1>5, <2>1 DEF ScaleIn, ScaleRests, PassDiffs
  <2> QED
    BY <1>3, <2>1, <2>2, <2>3
<1>6. CASE NothingToScale
  <2>1. DeleteNext({}) /\ ScaleRests(job.iu, job.view)
    BY <1>6 DEF NothingToScale, ScaleRests, PassDiffs
  <2> QED
    BY <1>3, <2>1
<1> QED
  BY <1>2, <1>4, <1>5, <1>6

\* createPods: a call that is accepted wakes the controller up.
LEMMA MissedNothingCreating ==
    ASSUME TypeOK, NothingMissed, ~WakeupDue',
           \/ StartBatch \/ EndCreate
           \/ \E n \in Names : CreateOne(n) \/ CreateFails(n) \/ CreateTimesOut(n)
    PROVE  NothingMissed'
<1>1. /\ pc = "create" /\ job \in Job /\ job.iu = iu /\ job.view = ActivePods(pods)
      /\ job.made = {} /\ (job.err \/ Chosen # {})
  BY DEF StartBatch, EndCreate, CreateOne, CreateFails, CreateTimesOut, TypeOK, NothingMissed,
     ListingSteps
<1>2. CASE StartBatch
  <2>1. PICK B \in SUBSET job.todo :
          job' = [job EXCEPT !.batch = B, !.todo = job.todo \ B, !.size = 2 * job.size]
    BY <1>2 DEF StartBatch
  <2>2. pc' = "create" /\ job.todo # {} /\ UNCHANGED <<iu, pods>>
    BY <1>1, <1>2 DEF StartBatch, clusterVars
  <2>3. /\ job'.iu = job.iu /\ job'.view = job.view /\ job'.made = {}
        /\ job'.batch = B /\ job'.todo = job.todo \ B
    BY <1>1, <2>1 DEF Job
  <2> QED
    BY <1>1, <2>2, <2>3 DEF NothingMissed, ListingSteps, Chosen, ActivePods
<1>3. CASE EndCreate
  <2>1. /\ job.batch = {} /\ (job.todo = {} \/ job.err) /\ UNCHANGED <<iu, pods>>
        /\ pc' = "update"
    BY <1>1, <1>3 DEF EndCreate, clusterVars
  <2>2. job'.iu = job.iu /\ job'.view = job.view /\ job'.err = job.err
    BY <1>1, <1>3 DEF EndCreate, Job
  <2>3. job.err
    BY <1>1, <2>1 DEF Chosen
  <2> QED
    BY <1>1, <2>1, <2>2, <2>3 DEF NothingMissed, ListingSteps, ActivePods
<1>4. ASSUME NEW n \in Names, CreateFails(n) PROVE NothingMissed'
  <2>1. pc' = "create" /\ UNCHANGED <<iu, pods>>
    BY <1>1, <1>4 DEF CreateFails
  <2>2. job'.iu = job.iu /\ job'.view = job.view /\ job'.made = job.made /\ job'.err
    BY <1>1, <1>4 DEF CreateFails, Job
  <2> QED
    BY <1>1, <2>1, <2>2 DEF NothingMissed, ListingSteps, ActivePods
<1>5. ASSUME NEW n \in Names, CreateOne(n) \/ CreateTimesOut(n) PROVE FALSE
  BY <1>5, WriteWakes DEF CreateOne, CreateTimesOut
<1> QED
  BY <1>2, <1>3, <1>4, <1>5

\* deletePods: what the pass chose is there to be deleted, and to wake it up.
LEMMA MissedNothingDeleting ==
    ASSUME TypeOK, NothingMissed, ~WakeupDue',
           \/ EndDelete
           \/ \E n \in Names : \/ ExpectDelete(n) \/ DeleteOne(n)
                               \/ DeleteFails(n) \/ DeleteTimesOut(n)
    PROVE  NothingMissed'
<1>1. /\ pc = "delete" /\ job \in Job /\ job.iu = iu /\ job.view = ActivePods(pods)
      /\ Chosen # {} /\ Chosen \subseteq Members(job.view)
  BY DEF EndDelete, ExpectDelete, DeleteOne, DeleteFails, DeleteTimesOut, TypeOK, NothingMissed,
     ListingSteps
<1>2. CASE EndDelete
  BY <1>1, <1>2 DEF EndDelete, Chosen
<1>3. ASSUME NEW n \in Names, ExpectDelete(n) PROVE NothingMissed'
  <2>1. pc' = "delete" /\ n \in job.todo /\ job.batch = {} /\ UNCHANGED <<iu, pods>>
    BY <1>1, <1>3 DEF ExpectDelete, clusterVars
  <2>2. /\ job'.iu = job.iu /\ job'.view = job.view
        /\ job'.batch = {n} /\ job'.todo = job.todo \ {n}
    BY <1>1, <1>3 DEF ExpectDelete, Job
  <2>3. Chosen' = Chosen
    BY <2>1, <2>2 DEF Chosen
  <2> QED
    BY <1>1, <2>1, <2>2, <2>3 DEF NothingMissed, ListingSteps, ActivePods, Members
<1>4. ASSUME NEW n \in Names, DeleteOne(n) PROVE FALSE
  <2>1. n \in Members(job.view)
    BY <1>1, <1>4 DEF DeleteOne, Chosen
  <2>2. ~pods[n].term
    BY <1>1, <2>1, ListedIsActive DEF IsActive
  <2> QED
    BY <1>4, <2>2, WriteWakes DEF DeleteOne
<1>5. ASSUME NEW n \in Names, DeleteFails(n) PROVE NothingMissed'
  <2>1. UNCHANGED <<iu, pods>> /\ pc' \in {"status", "update"}
    BY <1>5 DEF DeleteFails, DeleteStops
  <2>2. job'.iu = job.iu /\ job'.view = job.view /\ job'.err
    BY <1>1, <1>5 DEF DeleteFails, DeleteStops, Job
  <2> QED
    BY <1>1, <2>1, <2>2 DEF NothingMissed, ListingSteps, ActivePods
<1>6. ASSUME NEW n \in Names, DeleteTimesOut(n) PROVE FALSE
  BY <1>6, WriteWakes DEF DeleteTimesOut
<1> QED
  BY <1>2, <1>3, <1>4, <1>5, <1>6

\* Update: a pod it passes over is marked for deletion.
LEMMA MissedNothingUpdating ==
    ASSUME TypeOK, NothingMissed, ~WakeupDue',
           \/ ChooseUpdates
           \/ \E n \in Names : \/ UpdateInPlace(n) \/ UpdateByRecreate(n)
                               \/ UpdateFails(n) \/ UpdateTimesOut(n)
    PROVE  NothingMissed'
<1>1. /\ pc \in {"update", "updating"} /\ job \in Job /\ job.iu = iu
      /\ job.view = ActivePods(pods)
      /\ job.err \/ ScaleRests(job.iu, job.view)
  BY DEF ChooseUpdates, UpdateInPlace, UpdateByRecreate, UpdateFails, UpdateTimesOut,
     TypeOK, NothingMissed, ListingSteps
<1>2. CASE ChooseUpdates
  <2>1. PICK S \in UpdateChoices(job.view, job.iu.rev, PassDiffs) :
          /\ job' = [job EXCEPT !.todo = S]
          /\ pc' = IF S = {} THEN "status" ELSE "updating"
    BY <1>2 DEF ChooseUpdates
  <2>2. S \subseteq Members(job.view)
    BY <2>1 DEF UpdateChoices, Waiting
  <2>3. S = {} => UpdateRests(job.iu, job.view)
    BY <2>1 DEF UpdateRests, PassDiffs
  <2>4. job'.iu = job.iu /\ job'.view = job.view /\ job'.todo = S /\ job'.err = job.err
    BY <1>1, <2>1 DEF Job
  <2>5. UNCHANGED <<iu, pods>>
    BY <1>2 DEF ChooseUpdates, clusterVars
  <2> QED
    BY <1>1, <2>1, <2>2, <2>3, <2>4, <2>5 DEF NothingMissed, ListingSteps, ActivePods
<1>3. ASSUME NEW n \in Names, UpdateInPlace(n) PROVE FALSE
  BY <1>3, WriteWakes DEF UpdateInPlace
<1>4. ASSUME NEW n \in Names, UpdateByRecreate(n) PROVE NothingMissed'
  <2>1. /\ pc = "updating" /\ n \in job.todo /\ job.todo \subseteq Members(job.view)
        /\ iu' = iu
    BY <1>1, <1>4 DEF UpdateByRecreate, NextInOrder, NothingMissed
  <2>2. job.view[n] = pods[n]
    BY <1>1, <2>1, ListedIsActive
  <2>3. ~Publish(n, [pods[n] EXCEPT !.sdel = TRUE])
    BY WriteWakes
  <2>4. job.view[n].sdel /\ UpdateNext(n, job.view) /\ pods' = pods
    BY <1>4, <2>2, <2>3 DEF UpdateByRecreate
  <2>5. n \in SpecifiedDelete(job.view)
    BY <2>1, <2>4 DEF SpecifiedDelete
  <2>6. UpdateRests(job.iu, job.view)
    BY <2>5 DEF UpdateRests
  <2>7. /\ job'.iu = job.iu /\ job'.view = job.view /\ job'.err = job.err
        /\ job'.todo = job.todo \ {n} /\ pc' \in {"status", "updating"}
    BY <1>1, <2>4 DEF UpdateNext, Job
  <2> QED
    BY <1>1, <2>1, <2>4, <2>6, <2>7 DEF NothingMissed, ListingSteps, ActivePods
<1>5. ASSUME NEW n \in Names, UpdateFails(n) PROVE NothingMissed'
  <2>1. UNCHANGED <<iu, pods>> /\ pc' = "status"
    BY <1>5 DEF UpdateFails, UpdateStops
  <2>2. job'.iu = job.iu /\ job'.view = job.view /\ job'.err
    BY <1>1, <1>5 DEF UpdateFails, UpdateStops, Job
  <2> QED
    BY <1>1, <2>1, <2>2 DEF NothingMissed, ListingSteps, ActivePods
<1>6. ASSUME NEW n \in Names, UpdateTimesOut(n) PROVE FALSE
  BY <1>6, WriteWakes DEF UpdateTimesOut
<1> QED
  BY <1>2, <1>3, <1>4, <1>5, <1>6

\* Two statuses of which the later has nothing new are the same.
LEMMA ConsistentStatus ==
    ASSUME NEW old \in Status, NEW new \in Status, ~InconsistentStatus(old, new),
           old.observed <= new.observed
    PROVE  old = new
<1>1. /\ old.observed = new.observed
      /\ old.replicas = new.replicas /\ old.ready = new.ready
      /\ old.available = new.available /\ old.updated = new.updated
      /\ old.update = new.update /\ old.current = new.current
  BY DEF InconsistentStatus, Status
<1> QED
  BY <1>1 DEF Status

\* The status is written, which wakes the controller up, or is true already.
LEMMA MissedNothingReporting ==
    ASSUME TypeOK, GenerationsObserved, NothingMissed, ~WakeupDue, ~WakeupDue',
           \/ StatusIsConsistent \/ UpdateStatus
           \/ UpdateStatusFails \/ UpdateStatusTimesOut
    PROVE  NothingMissed'
<1>1. /\ pc = "status" /\ job \in Job /\ job.iu = iu /\ job.view = ActivePods(pods)
      /\ iu \in Inplaceu /\ NewStatus = CalculateStatus(iu, ActivePods(pods))
      /\ job.err \/ (ScaleRests(iu, job.view) /\ UpdateRests(iu, job.view))
  BY DEF StatusIsConsistent, UpdateStatus, UpdateStatusFails, UpdateStatusTimesOut, TypeOK,
     ClusterTypeOK, NothingMissed, ListingSteps, NewStatus
<1>2. NewStatus \in Status /\ iu.status \in Status /\ NewStatus.observed = iu.gen
  BY <1>1, CalculateStatusType DEF CalculateStatus, Inplaceu
<1>3. CASE StatusIsConsistent
  <2>1. ~job.err /\ pc' = "idle" /\ UNCHANGED <<iu, pods>>
    BY <1>3 DEF StatusIsConsistent, Return, WakeupDue, clusterVars
  <2>2. iu.status = NewStatus
    BY <1>1, <1>2, <1>3, ConsistentStatus DEF StatusIsConsistent, GenerationsObserved
  <2> QED
    BY <1>1, <2>1, <2>2 DEF NothingMissed, ListingSteps, ActivePods
<1>4. CASE UpdateStatus
  <2>1. /\ iu' = [iu EXCEPT !.status = NewStatus] /\ iuCache' = iu
        /\ InconsistentStatus(iu.status, NewStatus)
    BY <1>1, <1>4 DEF UpdateStatus
  <2>2. iu.status # NewStatus
    BY <1>2, <2>1 DEF InconsistentStatus, Status
  <2>3. iu'.status = NewStatus
    BY <1>1, <2>1 DEF Inplaceu
  <2> QED
    BY <2>1, <2>2, <2>3 DEF WakeupDue, Synced
<1>5. CASE UpdateStatusFails \/ UpdateStatusTimesOut
  BY <1>5 DEF UpdateStatusFails, UpdateStatusTimesOut, Return, WakeupDue
<1> QED
  BY <1>3, <1>4, <1>5

\* While the controller may go to sleep, nobody else has changed anything.
LEMMA PassIsCurrentStep ==
    ASSUME TypeOK, Versions, Listing, CallsInOrder, GenerationsObserved, PassIsCurrent,
           NoVersionIsMissed, [Next]_vars
    PROVE  PassIsCurrent'
<1> SUFFICES ASSUME ~WakeupDue' PROVE NothingMissed'
  BY DEF PassIsCurrent
<1>1. CASE Take
  <2>1. iuCache' = iu' /\ job'.iu = iuCache /\ pc' = "check" /\ iuCache' = iuCache
    BY <1>1 DEF Take, NewJob, clusterVars, WakeupDue, Synced
  <2> QED
    BY <2>1 DEF NothingMissed, ListingSteps
<1>2. CASE ~Take
  <2>1. ~WakeupDue /\ NothingMissed
    BY <1>2, WakeupStays DEF PassIsCurrent
  <2>2. CASE Worker
    BY <1>2, <2>1, <2>2, MissedNothingReading, MissedNothingScaling, MissedNothingCreating,
       MissedNothingDeleting, MissedNothingUpdating, MissedNothingReporting
    DEF Worker
  <2>3. CASE WorkerFault
    BY <2>1, <2>3, MissedNothingReading, MissedNothingCreating, MissedNothingDeleting,
       MissedNothingUpdating, MissedNothingReporting
    DEF WorkerFault
  <2>4. CASE Informer
    <3>1. iuCache = iu /\ \A n \in Names : watch[n] = <<>> /\ notes[n] = <<>>
      BY <2>1, NothingOnItsWay
    <3>2. ~InplaceuEvent /\ \A n \in Names : ~InformerStep(n) /\ ~HandleNote(n)
      BY <3>1 DEF InplaceuEvent, InformerStep, CacheApply, HandleNote
    <3>3. ~Resync /\ ~InformerRelists
      BY DEF Resync, WakeupDue, InformerRelists, Relist, Disturb, NoVersionIsMissed
    <3> QED
      BY <2>4, <3>2, <3>3 DEF Informer
  <2>5. CASE Crash
    BY <2>5 DEF Crash, WakeupDue
  <2>6. CASE EnvironmentStep
    <3>1. ASSUME NEW n \in Names, NEW p PROVE ~KubeletWrites(n, p)
      BY WriteWakes DEF KubeletWrites
    <3>2. ASSUME \/ \E r \in ReplicaChoices : UserScales(r)
                 \/ \E rev \in Revs : UserChangesTemplate(rev)
          PROVE  FALSE
      <4>1. iuCache' = iuCache /\ iu'.gen = iu.gen + 1 /\ iu.gen \in Nat
        BY <3>2 DEF UserScales, UserChangesTemplate, TypeOK, ClusterTypeOK, Inplaceu
      <4>2. iuCache = iu
        BY <2>1, NothingOnItsWay
      <4>3. iu' # iuCache'
        BY <4>1, <4>2
      <4> QED
        BY <4>3 DEF WakeupDue, Synced
    <3> QED
      BY <2>6, <3>1, <3>2 DEF EnvironmentStep, Environment, PodRuns, PodReady, PodGone, PodFails,
         PodUnready, Evict, UserMarksDelete
  <2>7. CASE UNCHANGED vars
    BY <2>1, <2>7 DEF vars, clusterVars, controllerVars, NothingMissed, ListingSteps, Chosen,
       Satisfied, ActivePods
  <2> QED
    BY <2>2, <2>3, <2>4, <2>5, <2>6, <2>7 DEF Next
<1> QED
  BY <1>1, <1>2

LEMMA WakeupInit == Init => WakeupInvariant
<1> SUFFICES ASSUME Init PROVE WakeupInvariant
  OBVIOUS
<1>1. exp.create = {} /\ exp.delete = {} /\ queued /\ pc = "idle" /\ iuCache = iu
  BY DEF Init
<1>2. iu.gen = 1 /\ iu.status.observed \in {0, 1}
  <2> DEFINE new == [replicas |-> InitReplicas, rev |-> InitRev, gen |-> 1, status |-> EmptyStatus]
  <2>1. CalculateStatus(new, pods).observed = 1 /\ new.status.observed = 0
    BY DEF CalculateStatus, EmptyStatus
  <2>2. iu = IF InitCount = 0 THEN new ELSE [new EXCEPT !.status = CalculateStatus(new, pods)]
    BY DEF Init, InitObject
  <2> QED
    BY <2>1, <2>2
<1>3. CreateAwaited /\ DeleteAwaited
  BY <1>1 DEF CreateAwaited, DeleteAwaited
<1>4. CallsInOrder /\ GenerationsObserved
  BY <1>1, <1>2 DEF CallsInOrder, GenerationsObserved
<1>5. PassIsCurrent
  BY <1>1 DEF PassIsCurrent, WakeupDue
<1> QED
  BY <1>3, <1>4, <1>5 DEF WakeupInvariant

-----------------------------------------------------------------------------
(* What follows where nothing is left to happen.                            *)

\* The inductive invariant: whatever is expected will be taken back, and a pass that
\* will not be repeated has left nothing to do, whatever calls fail, pods get lost and
\* processes die.
THEOREM WakeupSafe == NoVersionIsMissed => (Spec => []WakeupInvariant)
<1> SUFFICES ASSUME NoVersionIsMissed PROVE Spec => []WakeupInvariant
  OBVIOUS
<1> DEFINE Inv == TypeOK /\ Versions /\ Listing /\ WakeupInvariant
<1>1. Init => Inv
  BY InitTypeOK, ListingInit, WakeupInit
<1>2. Inv /\ [Next]_vars => Inv'
  <2> SUFFICES ASSUME Inv, [Next]_vars PROVE Inv'
    OBVIOUS
  <2>1. TypeOK' /\ Versions' /\ Listing'
    BY NextTypeOK, ListingStep
  <2>2. Awaited'
    BY AwaitedStep DEF Awaited, WakeupInvariant
  <2>3. CallsInOrder' /\ GenerationsObserved'
    BY CallsStayInOrder, GenerationsStep DEF WakeupInvariant
  <2>4. PassIsCurrent'
    BY PassIsCurrentStep DEF WakeupInvariant
  <2> QED
    BY <2>1, <2>2, <2>3, <2>4 DEF WakeupInvariant, Awaited
<1>3. Inv => WakeupInvariant
  OBVIOUS
<1> HIDE DEF Inv
<1> QED
  BY <1>1, <1>2, <1>3, PTL DEF Spec

\* Where nothing is left to happen, no expectation is left, and the last pass was current.
LEMMA SettledFacts ==
    ASSUME TypeOK, WakeupInvariant, Settled
    PROVE  /\ Satisfied
           /\ ScaleRests(iu, ActivePods(pods)) /\ UpdateRests(iu, ActivePods(pods))
           /\ iu.status = CalculateStatus(iu, ActivePods(pods))
<1>1. /\ pc = "idle" /\ ~WakeupDue
      /\ \A n \in Names : watch[n] = <<>> /\ notes[n] = <<>>
      /\ \A n \in Names : pods[n] # None => ~pods[n].term
  BY DEF Settled, Quiescent, Synced, WakeupDue
<1>2. \A n \in Names : ~CreationNews(n) /\ ~DeletionNews(n) /\ ~ToCreate(n) /\ ~ToDelete(n)
  BY <1>1 DEF CreationNews, DeletionNews, ToCreate, ToDelete
<1>3. Satisfied
  BY <1>2 DEF TypeOK, WakeupInvariant, CreateAwaited, DeleteAwaited, Satisfied
<1> QED
  BY <1>1, <1>3 DEF WakeupInvariant, PassIsCurrent, NothingMissed

\* When nothing is left to happen by itself, the status is that of the pods there are and
\* of the generation the user wrote last.
THEOREM StatusIsAccurate == NoVersionIsMissed => (Spec => []StatusAccurate)
<1>1. TypeOK /\ WakeupInvariant => StatusAccurate
  BY SettledFacts DEF StatusAccurate
<1> QED
  BY <1>1, WakeupSafe, TypeCorrect, PTL

\* When nothing is left to happen by itself, there are as many pods as the user asked for,
\* of the revision asked for, and nothing is awaited that will not come.
THEOREM NoWakeupIsLost == NoVersionIsMissed /\ StrategyMoves => (Spec => []NoLostWakeup)
<1> SUFFICES ASSUME NoVersionIsMissed, StrategyMoves PROVE Spec => []NoLostWakeup
  OBVIOUS
<1>1. TypeOK /\ WakeupInvariant => NoLostWakeup
  <2> SUFFICES ASSUME TypeOK, WakeupInvariant, Settled PROVE Converged /\ Satisfied
    BY DEF NoLostWakeup
  <2> DEFINE view == ActivePods(pods)
  <2>1. Satisfied /\ ScaleRests(iu, view) /\ UpdateRests(iu, view)
    BY SettledFacts
  <2>2. Members(view) = Active /\ \A n \in Active : n \in Names /\ view[n] = pods[n]
    BY DEF Members, ActivePods, Active, IsActive
  <2>3. \A n \in Members(view) : IsPodAvailable(view[n])
    BY <2>2 DEF Settled, Active, IsActive
  <2>4. iu \in Inplaceu
    BY DEF TypeOK, ClusterTypeOK
  <2> HIDE DEF view
  <2>5. /\ Cardinality(Members(view)) = iu.replicas
        /\ \A n \in Members(view) : view[n].rev = iu.rev
        /\ SpecifiedDelete(view) = {}
    BY <2>1, <2>3, <2>4, RestIsConverged
  <2>6. Converged
    BY <2>2, <2>5 DEF Converged, SpecifiedDelete
  <2> QED
    BY <2>1, <2>6
<1> QED
  BY <1>1, WakeupSafe, TypeCorrect, PTL
=============================================================================
