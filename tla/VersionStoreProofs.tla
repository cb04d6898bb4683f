------------------------- MODULE VersionStoreProofs -------------------------
(***************************************************************************)
(* For every set of objects and versions: no copy older than any expected  *)
(* one ends a wait, and the time of a wait is its own.  The invariant says *)
(* of each object what both need: the version of its entry is the newest   *)
(* number expected since the entry was made.                               *)
(***************************************************************************)
EXTENDS VersionExpectations, TLAPS

\* The version of an entry, as far as numbers were expected of it.
HoldsNewest ==
    \A o \in Objects : wanted[o] # {} =>
        /\ objectVersions[o] # None
        /\ objectVersions[o].version \in Numbers
        /\ \A w \in wanted[o] : objectVersions[o].version >= w

BegunBefore == \A o \in Objects : begun[o] <= now

Invariant == TypeOK /\ HoldsNewest /\ BegunBefore /\ WaitsOwnTime

\* What the store compares is a total order of the numbers.
LEMMA NewerNumbers ==
    ASSUME NEW u \in Numbers, NEW v \in Versions
    PROVE  IsNewer(u, v) <=> v \in Numbers /\ v >= u
  BY VersionsAssumption DEF IsNewer, Versions

\* An entry takes a number, unless it has a larger one.
LEMMA TakesNewer ==
    ASSUME NEW u \in Versions, NEW v \in Numbers, ~IsNewer(u, v)
    PROVE  u \in Numbers /\ u >= v
  BY VersionsAssumption DEF IsNewer, Versions

LEMMA NumbersTransitive ==
    ASSUME NEW a \in Numbers, NEW b \in Numbers, NEW c \in Numbers, a >= b, b >= c
    PROVE  a >= c
<1>1. a \in Nat /\ b \in Nat /\ c \in Nat
  BY VersionsAssumption
<1> QED BY <1>1

\* An entry is a record, and not None.
LEMMA EntryIsNotNone == \A e \in Entry : e # None
  BY VersionsAssumption DEF Entry

LEMMA Initially == Init => Invariant
  BY DEF Init, Invariant, TypeOK, HoldsNewest, BegunBefore, WaitsOwnTime

LEMMA ExpectKeeps ==
    ASSUME Invariant, NEW o \in Objects, NEW v \in Versions, Expect(o, v)
    PROVE  Invariant'
<1> USE DEF Invariant
<1> DEFINE old == objectVersions[o]
           new == IF old = None THEN [version |-> v, first |-> 0]
                  ELSE IF IsNewer(old.version, v) THEN [old EXCEPT !.version = v] ELSE old
<1>1. /\ objectVersions' = [objectVersions EXCEPT ![o] = new]
      /\ wanted' = [wanted EXCEPT ![o] = @ \cup ({v} \cap Numbers)]
      /\ begun' = IF old = None THEN [begun EXCEPT ![o] = now] ELSE begun
      /\ now' = now /\ answer' = answer
  BY DEF Expect
<1>2. old = None \/ old \in Entry
  BY DEF TypeOK
<1>3. /\ new \in Entry
      /\ old = None => new.version = v /\ new.first = 0
      /\ old # None => /\ new.first = old.first
                       /\ IsNewer(old.version, v) => new.version = v
                       /\ ~IsNewer(old.version, v) => new.version = old.version
  BY <1>2 DEF Entry
<1>4. TypeOK'
  BY <1>1, <1>3 DEF TypeOK
<1>5. /\ objectVersions'[o] = new
      /\ \A q \in Objects \ {o} : objectVersions'[q] = objectVersions[q]
      /\ wanted'[o] = wanted[o] \cup ({v} \cap Numbers)
      /\ \A q \in Objects \ {o} : wanted'[q] = wanted[q]
  BY <1>1 DEF TypeOK
<1>6. HoldsNewest'
  <2> SUFFICES ASSUME wanted'[o] # {}
               PROVE  /\ new # None /\ new.version \in Numbers
                      /\ \A w \in wanted'[o] : new.version >= w
    BY <1>5 DEF HoldsNewest
  <2>1. new # None
    BY <1>3, EntryIsNotNone
  <2>2. CASE v \in Numbers
    <3>1. CASE old = None
      BY <1>3, <1>5, <2>1, <2>2, <3>1, VersionsAssumption DEF HoldsNewest
    <3>2. CASE old # None
      <4>1. old.version \in Versions
        BY <1>2, <3>2 DEF Entry
      <4>2. CASE IsNewer(old.version, v)
        <5>1. \A w \in wanted[o] : v >= w
          <6> SUFFICES ASSUME NEW w \in wanted[o] PROVE v >= w
            OBVIOUS
          <6>1. /\ old.version \in Numbers /\ old.version >= w
                /\ w \in Numbers
            BY DEF HoldsNewest, TypeOK
          <6>2. v >= old.version
            BY <6>1, <4>2, NewerNumbers, <2>2
          <6> QED BY <6>1, <6>2, <2>2, NumbersTransitive
        <5> QED BY <1>3, <1>5, <2>1, <2>2, <3>2, <4>2, <5>1, VersionsAssumption
      <4>3. CASE ~IsNewer(old.version, v)
        <5>1. old.version \in Numbers /\ old.version >= v
          BY <4>1, <4>3, <2>2, TakesNewer
        <5> QED BY <1>3, <1>5, <2>1, <3>2, <4>3, <5>1 DEF HoldsNewest
      <4> QED BY <4>2, <4>3
    <3> QED BY <3>1, <3>2
  <2>3. CASE v \notin Numbers
    <3>1. wanted[o] # {} /\ wanted'[o] = wanted[o]
      BY <1>5, <2>3
    <3>2. old # None /\ old.version \in Numbers
      BY <3>1 DEF HoldsNewest
    <3>3. ~IsNewer(old.version, v)
      BY <3>2, <2>3, NewerNumbers
    <3> QED BY <1>3, <2>1, <3>1, <3>2, <3>3 DEF HoldsNewest
  <2> QED BY <2>2, <2>3
<1>7. BegunBefore'
  BY <1>1 DEF BegunBefore, TypeOK
<1>8. WaitsOwnTime'
  <2> SUFFICES ASSUME NEW q \in Objects, objectVersions'[q] # None
               PROVE  objectVersions'[q].first = 0 \/ objectVersions'[q].first \in begun'[q] .. now'
    BY DEF WaitsOwnTime
  <2>1. CASE q = o
    BY <1>1, <1>3, <1>5, <2>1 DEF WaitsOwnTime, TypeOK
  <2>2. CASE q # o
    BY <1>1, <1>5, <2>2 DEF WaitsOwnTime, TypeOK
  <2> QED BY <2>1, <2>2
<1> QED BY <1>4, <1>6, <1>7, <1>8

LEMMA ForgetKeeps ==
    ASSUME Invariant, NEW o \in Objects, Forget(o), now' = now,
           answer' \in [ok : BOOLEAN, for : Nat]
    PROVE  Invariant'
<1>1. /\ objectVersions'[o] = None /\ wanted'[o] = {}
      /\ \A q \in Objects \ {o} : objectVersions'[q] = objectVersions[q] /\ wanted'[q] = wanted[q]
      /\ begun' = begun
  BY DEF Forget, Invariant, TypeOK
<1>2. TypeOK'
  BY DEF Forget, Invariant, TypeOK
<1>3. HoldsNewest'
  BY <1>1 DEF Invariant, HoldsNewest
<1>4. BegunBefore' /\ WaitsOwnTime'
  BY <1>1 DEF Invariant, BegunBefore, WaitsOwnTime
<1> QED BY <1>2, <1>3, <1>4 DEF Invariant

LEMMA UnsatisfiedKeeps ==
    ASSUME Invariant, NEW o \in Objects, NEW v \in Versions, Unsatisfied(o, v)
    PROVE  Invariant'
<1> DEFINE first == IF objectVersions[o].first = 0 THEN now ELSE objectVersions[o].first
           new == [objectVersions[o] EXCEPT !.first = first]
<1>1. /\ objectVersions[o] # None
      /\ objectVersions' = [objectVersions EXCEPT ![o] = new]
      /\ answer' = [ok |-> FALSE, for |-> now - first]
      /\ now' = now /\ wanted' = wanted /\ begun' = begun
  BY DEF Unsatisfied
<1>2. objectVersions[o] \in Entry /\ now \in Nat \ {0} /\ begun[o] \in Nat
  BY <1>1 DEF Invariant, TypeOK
<1>3. first \in begun[o] .. now /\ first \in Nat
  BY <1>1, <1>2 DEF Invariant, WaitsOwnTime, BegunBefore, Entry
<1>4. new \in Entry /\ new.version = objectVersions[o].version /\ new.first = first
  BY <1>2, <1>3 DEF Entry
<1>5. /\ objectVersions'[o] = new
      /\ \A q \in Objects \ {o} : objectVersions'[q] = objectVersions[q]
  BY <1>1 DEF Invariant, TypeOK
<1>6. now - first \in Nat
  BY <1>2, <1>3
<1>7. TypeOK'
  BY <1>1, <1>4, <1>6 DEF Invariant, TypeOK
<1>8. HoldsNewest'
  <2>1. new # None
    BY <1>4, EntryIsNotNone
  <2> QED BY <1>1, <1>4, <1>5, <2>1 DEF Invariant, HoldsNewest
<1>9. BegunBefore'
  BY <1>1 DEF Invariant, BegunBefore
<1>10. WaitsOwnTime'
  BY <1>1, <1>3, <1>4, <1>5 DEF Invariant, WaitsOwnTime
<1> QED BY <1>7, <1>8, <1>9, <1>10 DEF Invariant

LEMMA TickKeeps ==
    ASSUME Invariant, Tick
    PROVE  Invariant'
  BY DEF Tick, Invariant, TypeOK, HoldsNewest, BegunBefore, WaitsOwnTime, Entry

LEMMA Step == Invariant /\ [Next]_vars => Invariant'
<1> SUFFICES ASSUME Invariant, [Next]_vars PROVE Invariant'
  OBVIOUS
<1>1. CASE UNCHANGED vars
  BY <1>1 DEF vars, Invariant, TypeOK, HoldsNewest, BegunBefore, WaitsOwnTime
<1>2. ASSUME NEW o \in Objects, NEW v \in Versions, Expect(o, v) PROVE Invariant'
  BY <1>2, ExpectKeeps
<1>3. ASSUME NEW o \in Objects, NEW v \in Versions, Observe(o, v) PROVE Invariant'
  BY <1>3, ForgetKeeps DEF Observe, Invariant, TypeOK
<1>4. ASSUME NEW o \in Objects, NEW v \in Versions, Satisfied(o, v) PROVE Invariant'
  BY <1>4, ForgetKeeps DEF Satisfied
<1>5. ASSUME NEW o \in Objects, NEW v \in Versions, Unsatisfied(o, v) PROVE Invariant'
  BY <1>5, UnsatisfiedKeeps
<1>6. ASSUME NEW o \in Objects, Delete(o) PROVE Invariant'
  BY <1>6, ForgetKeeps DEF Delete, Invariant, TypeOK
<1>7. CASE Tick
  BY <1>7, TickKeeps
<1> QED BY <1>1, <1>2, <1>3, <1>4, <1>5, <1>6, <1>7 DEF Next, IsSatisfied

THEOREM InvariantHolds == Spec => []Invariant
  BY Initially, Step, PTL DEF Spec

\* The entries are versions and times, and the answers never count backwards.
THEOREM TypeCorrect == Spec => []TypeOK
<1>1. Invariant => TypeOK
  BY DEF Invariant
<1> QED BY InvariantHolds, <1>1, PTL

LEMMA NewestFollows == Invariant => NewestIsAwaited
<1> SUFFICES ASSUME Invariant, NEW o \in Objects, wanted[o] # {}
             PROVE  /\ objectVersions[o] # None
                    /\ \A v \in Versions, w \in wanted[o] : Meets(o, v) => v \in Numbers /\ v >= w
  BY DEF NewestIsAwaited
<1>1. /\ objectVersions[o] # None
      /\ objectVersions[o].version \in Numbers
      /\ \A w \in wanted[o] : objectVersions[o].version >= w
  BY DEF Invariant, HoldsNewest
<1>2. ASSUME NEW v \in Versions, NEW w \in wanted[o], Meets(o, v)
      PROVE  v \in Numbers /\ v >= w
  <2>1. v \in Numbers /\ v >= objectVersions[o].version
    BY <1>1, <1>2, NewerNumbers DEF Meets
  <2>2. w \in Numbers
    BY DEF Invariant, TypeOK
  <2> QED BY <1>1, <2>1, <2>2, NumbersTransitive
<1> QED BY <1>1, <1>2

\* No copy older than an expected one ends the wait for it (IsSatisfied).
THEOREM NewestAwaited == Spec => []NewestIsAwaited
  BY InvariantHolds, NewestFollows, PTL

\* A wait is given up by its own time only.
THEOREM OwnTime == Spec => [](TypeOK /\ WaitsOwnTime)
<1>1. Invariant => TypeOK /\ WaitsOwnTime
  BY DEF Invariant
<1> QED BY InvariantHolds, <1>1, PTL
=============================================================================
