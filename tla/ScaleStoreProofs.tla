-------------------------- MODULE ScaleStoreProofs --------------------------
(***************************************************************************)
(* ScaleExpectations implements Waits, for every set of workloads, actions *)
(* and names: each method takes the step of Waits it stands for, or none.  *)
(* That takes the invariant that an entry outlives no name of its own:     *)
(* otherwise the time of an empty entry would be inherited.                *)
(***************************************************************************)
EXTENDS ScaleExpectations, TLAPS

Invariant == TypeOK /\ EntriesWait

\* What Waits sees of an entry.
NamesIn(e) == IF e = None THEN NewEntry.objs ELSE e.objs
FirstIn(e) == IF e = None THEN 0 ELSE e.first

\* Entries are records, and not None.
LEMMA EntryIsNotNone == \A e \in Entry : e # None
  BY ExpectationsAssumption DEF Entry

LEMMA NewEntryIsEmpty ==
    /\ NewEntry \in Entry
    /\ NewEntry.objs = [a \in Actions |-> {}]
    /\ NewEntry.first = 0
  BY DEF NewEntry, Entry

\* Waiting for nothing is having the empty entry.
LEMMA FilledOrEmpty ==
    ASSUME NEW objs \in [Actions -> SUBSET Names]
    PROVE  Filled(objs) = {} <=> objs = [a \in Actions |-> {}]
<1>1. ASSUME Filled(objs) = {} PROVE objs = [a \in Actions |-> {}]
  BY <1>1 DEF Filled
<1>2. ASSUME objs = [a \in Actions |-> {}] PROVE Filled(objs) = {}
  BY <1>2 DEF Filled
<1> QED BY <1>1, <1>2

LEMMA NamesInType ==
    ASSUME TypeOK, NEW k \in Keys
    PROVE  /\ NamesIn(controllerCache[k]) \in [Actions -> SUBSET Names]
           /\ NamesOf(k) = NamesIn(controllerCache[k])
           /\ FirstIn(controllerCache[k]) \in Nat
           /\ FirstIn(controllerCache[k]) <= now
  BY NewEntryIsEmpty DEF NamesIn, FirstIn, NamesOf, TypeOK, Entry

\* An entry waits for something, so no entry is one that waits for nothing.
LEMMA NoneWaitsForNothing ==
    ASSUME Invariant, NEW k \in Keys
    PROVE  Filled(NamesIn(controllerCache[k])) = {} <=> controllerCache[k] = None
<1>1. Filled([a \in Actions |-> {}]) = {}
  BY DEF Filled
<1> QED BY <1>1, NewEntryIsEmpty DEF Invariant, EntriesWait, NamesIn

-----------------------------------------------------------------------------
(* The invariant. *)

LEMMA Initially == Init => Invariant
  BY DEF Init, Invariant, TypeOK, EntriesWait

LEMMA ExpectKeeps ==
    ASSUME Invariant, NEW k \in Keys, NEW a \in Actions, NEW n \in Names, ExpectScale(k, a, n)
    PROVE  Invariant'
<1> DEFINE old == IF controllerCache[k] = None THEN NewEntry ELSE controllerCache[k]
           new == [old EXCEPT !.objs[a] = @ \cup {n}]
<1>1. controllerCache' = [controllerCache EXCEPT ![k] = new] /\ now' = now /\ answer' = answer
  BY DEF ExpectScale
<1>2. old \in Entry /\ old.first <= now
  BY NewEntryIsEmpty DEF Invariant, TypeOK
<1>3. new \in Entry /\ new.first = old.first /\ new.objs = [old.objs EXCEPT ![a] = @ \cup {n}]
  BY <1>2 DEF Entry
<1>4. a \in Filled(new.objs)
  BY <1>2, <1>3 DEF Filled, Entry
<1> QED BY <1>1, <1>2, <1>3, <1>4 DEF Invariant, TypeOK, EntriesWait

LEMMA ObserveKeeps ==
    ASSUME Invariant, NEW k \in Keys, NEW a \in Actions, NEW n \in Names, ObserveScale(k, a, n)
    PROVE  Invariant'
<1> DEFINE old == controllerCache[k]
           objs == [old.objs EXCEPT ![a] = @ \ {n}]
           new == IF Filled(objs) = {} THEN None ELSE [old EXCEPT !.objs = objs]
<1>1. /\ old # None
      /\ controllerCache' = [controllerCache EXCEPT ![k] = new] /\ now' = now /\ answer' = answer
  BY DEF ObserveScale
<1>2. old \in Entry /\ old.first <= now
  BY <1>1 DEF Invariant, TypeOK
<1>3. objs \in [Actions -> SUBSET Names]
  BY <1>2 DEF Entry
<1>4. new \in Entry \cup {None} /\ (new # None => Filled(new.objs) # {} /\ new.first = old.first)
  BY <1>2, <1>3 DEF Entry
<1> QED BY <1>1, <1>2, <1>4 DEF Invariant, TypeOK, EntriesWait

LEMMA UnsatisfiedKeeps ==
    ASSUME Invariant, NEW k \in Keys, Unsatisfied(k)
    PROVE  Invariant'
<1> DEFINE old == controllerCache[k]
           first == IF old.first = 0 THEN now ELSE old.first
           new == [old EXCEPT !.first = first]
<1>1. /\ controllerCache' = [controllerCache EXCEPT ![k] = new]
      /\ now' = now /\ answer' = [ok |-> FALSE, for |-> now - first]
  BY DEF Unsatisfied
<1>2. old # None
  <2>1. Filled(NamesIn(old)) # {}
    BY NamesInType DEF Unsatisfied, Invariant
  <2> QED BY <2>1, NoneWaitsForNothing
<1>3. old \in Entry /\ old.first <= now /\ now \in Nat \ {0} /\ Filled(old.objs) # {}
  BY <1>2 DEF Invariant, TypeOK, EntriesWait
<1>4. first \in Nat /\ first <= now /\ now - first \in Nat
  BY <1>3 DEF Entry
<1>5. new \in Entry /\ new.first = first /\ new.objs = old.objs
  BY <1>3, <1>4 DEF Entry
<1> QED BY <1>1, <1>3, <1>4, <1>5 DEF Invariant, TypeOK, EntriesWait

LEMMA DropKeeps ==
    ASSUME Invariant, NEW k \in Keys,
           controllerCache' = [controllerCache EXCEPT ![k] = None], now' = now,
           answer' \in [ok : BOOLEAN, for : Nat]
    PROVE  Invariant'
  BY DEF Invariant, TypeOK, EntriesWait

LEMMA Step == Invariant /\ [Next]_vars => Invariant'
<1> SUFFICES ASSUME Invariant, [Next]_vars PROVE Invariant'
  OBVIOUS
<1>1. CASE UNCHANGED vars
  BY <1>1 DEF vars, Invariant, TypeOK, EntriesWait
<1>2. ASSUME NEW k \in Keys, NEW a \in Actions, NEW n \in Names,
             ExpectScale(k, a, n) \/ ObserveScale(k, a, n)
      PROVE  Invariant'
  BY <1>2, ExpectKeeps, ObserveKeeps
<1>3. ASSUME NEW k \in Keys, SatisfiedExpectations(k) PROVE Invariant'
  <2>1. CASE Satisfied(k)
    BY <2>1, DropKeeps DEF Satisfied
  <2> QED BY <1>3, <2>1, UnsatisfiedKeeps DEF SatisfiedExpectations
<1>4. ASSUME NEW k \in Keys, DeleteExpectations(k) PROVE Invariant'
  BY <1>4, DropKeeps DEF DeleteExpectations, Invariant, TypeOK
<1>5. CASE Tick
  BY <1>5 DEF Tick, Invariant, TypeOK, EntriesWait, Entry
<1> QED BY <1>1, <1>2, <1>3, <1>4, <1>5 DEF Next

\* An entry never outlives its last name (ObserveScale, SatisfiedExpectations).
THEOREM EntriesWaitAlways == Spec => [](TypeOK /\ EntriesWait)
<1>1. Invariant <=> TypeOK /\ EntriesWait
  BY DEF Invariant
<1> QED BY Initially, Step, <1>1, PTL DEF Spec

\* The entries are records of names and times, and no time of a first check is in the
\* future: what Reconcile computes its requeue from is never negative.
THEOREM TypeCorrect == Spec => []TypeOK
  BY EntriesWaitAlways, PTL

-----------------------------------------------------------------------------
(* The refinement.  awaited and since are what the INSTANCE in             *)
(* ScaleExpectations gives Waits for its variables of these names.         *)

awaited == [k \in Keys |-> NamesOf(k)]
since == [k \in Keys |-> IF controllerCache[k] = None THEN 0 ELSE controllerCache[k].first]

LEMMA Mapping ==
    ASSUME TypeOK, NEW k \in Keys
    PROVE  awaited[k] = NamesIn(controllerCache[k]) /\ since[k] = FirstIn(controllerCache[k])
  BY DEF awaited, since, NamesOf, NamesIn, FirstIn

\* A step that changes the entry of one workload changes the mapping there only.
LEMMA MappingChanges ==
    ASSUME TypeOK, NEW k \in Keys, NEW e,
           controllerCache' = [controllerCache EXCEPT ![k] = e]
    PROVE  /\ awaited' = [awaited EXCEPT ![k] = NamesIn(e)]
           /\ since' = [since EXCEPT ![k] = FirstIn(e)]
  BY DEF awaited, since, NamesOf, NamesIn, FirstIn, TypeOK

LEMMA InitRefines == Init => Abstract!Init
  BY NewEntryIsEmpty DEF Init, Abstract!Init, Abstract!Nothing, NamesOf

LEMMA ExpectRefines ==
    ASSUME Invariant, NEW k \in Keys, NEW a \in Actions, NEW n \in Names, ExpectScale(k, a, n)
    PROVE  Abstract!Expect(k, a, n)
<1> DEFINE old == IF controllerCache[k] = None THEN NewEntry ELSE controllerCache[k]
           new == [old EXCEPT !.objs[a] = @ \cup {n}]
<1>1. controllerCache' = [controllerCache EXCEPT ![k] = new] /\ now' = now /\ answer' = answer
  BY DEF ExpectScale
<1>2. /\ old \in Entry
      /\ old.objs = NamesIn(controllerCache[k]) /\ old.first = FirstIn(controllerCache[k])
  BY NewEntryIsEmpty DEF Invariant, TypeOK, NamesIn, FirstIn
<1>3. new \in Entry /\ new.first = old.first /\ new.objs = [old.objs EXCEPT ![a] = @ \cup {n}]
  BY <1>2 DEF Entry
<1>4. NamesIn(new) = new.objs /\ FirstIn(new) = new.first
  BY <1>3, EntryIsNotNone DEF NamesIn, FirstIn
<1>5. /\ awaited' = [awaited EXCEPT ![k] = new.objs]
      /\ since' = [since EXCEPT ![k] = old.first]
  <2> HIDE DEF new
  <2>1. /\ awaited' = [awaited EXCEPT ![k] = NamesIn(new)]
        /\ since' = [since EXCEPT ![k] = FirstIn(new)]
    BY <1>1, MappingChanges DEF Invariant
  <2> QED BY <1>3, <1>4, <2>1
<1>6. old.objs = awaited[k] /\ old.first = since[k]
  BY <1>2, Mapping DEF Invariant
<1>7. /\ awaited' = [awaited EXCEPT ![k][a] = @ \cup {n}]
      /\ since' = since
  <2> HIDE DEF new, old
  <2> QED BY <1>3, <1>5, <1>6 DEF awaited, since
<1> QED BY <1>1, <1>7 DEF Abstract!Expect, awaited, since

LEMMA DropRefines ==
    ASSUME Invariant, NEW k \in Keys,
           controllerCache' = [controllerCache EXCEPT ![k] = None]
    PROVE  /\ awaited' = [awaited EXCEPT ![k] = [a \in Actions |-> {}]]
           /\ since' = [since EXCEPT ![k] = 0]
  BY MappingChanges, NewEntryIsEmpty DEF Invariant, NamesIn, FirstIn

\* Observing a name of a workload without an entry, or asking for it, changes
\* nothing in Waits: those are the steps the store does not take.
LEMMA ObserveRefines ==
    ASSUME Invariant, NEW k \in Keys, NEW a \in Actions, NEW n \in Names, ObserveScale(k, a, n)
    PROVE  Abstract!Observe(k, a, n)
<1> DEFINE old == controllerCache[k]
           objs == [old.objs EXCEPT ![a] = @ \ {n}]
           new == IF Filled(objs) = {} THEN None ELSE [old EXCEPT !.objs = objs]
           nothing == [b \in Actions |-> {}]
<1>1. /\ old # None
      /\ controllerCache' = [controllerCache EXCEPT ![k] = new] /\ now' = now /\ answer' = answer
  BY DEF ObserveScale
<1>2. old \in Entry /\ old.objs = awaited[k] /\ old.first = since[k]
  BY <1>1, Mapping DEF Invariant, TypeOK, NamesIn, FirstIn
<1>3. objs \in [Actions -> SUBSET Names] /\ (Filled(objs) = {} <=> objs = nothing)
  BY <1>2, FilledOrEmpty DEF Entry
<1>4. /\ new \in Entry \cup {None}
      /\ NamesIn(new) = objs
      /\ FirstIn(new) = IF objs = nothing THEN 0 ELSE old.first
  <2>1. CASE objs = nothing
    BY <1>3, <2>1, NewEntryIsEmpty DEF NamesIn, FirstIn
  <2>2. CASE objs # nothing
    <3>1. /\ new = [old EXCEPT !.objs = objs] /\ new \in Entry
          /\ new.objs = objs /\ new.first = old.first
      BY <1>2, <1>3, <2>2 DEF Entry
    <3> HIDE DEF new, objs, old
    <3> QED BY <2>2, <3>1, EntryIsNotNone DEF NamesIn, FirstIn
  <2> QED BY <2>1, <2>2
<1>5. /\ awaited' = [awaited EXCEPT ![k] = objs]
      /\ since' = [since EXCEPT ![k] = IF objs = nothing THEN 0 ELSE old.first]
  <2> HIDE DEF new, objs
  <2>1. /\ awaited' = [awaited EXCEPT ![k] = NamesIn(new)]
        /\ since' = [since EXCEPT ![k] = FirstIn(new)]
    BY <1>1, MappingChanges DEF Invariant
  <2> QED BY <1>4, <2>1
<1>6. /\ awaited' = [awaited EXCEPT ![k][a] = @ \ {n}]
      /\ awaited'[k] = objs
  BY <1>2, <1>5 DEF awaited
<1>7. since' = IF awaited'[k] = nothing THEN [since EXCEPT ![k] = 0] ELSE since
  BY <1>2, <1>5, <1>6 DEF since
<1> QED BY <1>1, <1>6, <1>7
        DEF Abstract!Observe, Abstract!Restart, Abstract!Nothing, awaited, since

\* Of a workload without an entry nothing is awaited.
LEMMA NothingIsSeen ==
    ASSUME Invariant, NEW k \in Keys
    PROVE  awaited[k] = [a \in Actions |-> {}] <=> controllerCache[k] = None
<1>1. awaited[k] = NamesIn(controllerCache[k])
  BY Mapping DEF Invariant
<1>2. NamesIn(controllerCache[k]) \in [Actions -> SUBSET Names]
  BY NamesInType DEF Invariant
<1> QED BY <1>1, <1>2, FilledOrEmpty, NoneWaitsForNothing

LEMMA UnsatisfiedRefines ==
    ASSUME Invariant, NEW k \in Keys, Unsatisfied(k)
    PROVE  Abstract!Ask(k)
<1> DEFINE old == controllerCache[k]
           first == IF old.first = 0 THEN now ELSE old.first
           new == [old EXCEPT !.first = first]
<1>1. /\ Filled(NamesIn(old)) # {}
      /\ controllerCache' = [controllerCache EXCEPT ![k] = new]
      /\ now' = now /\ answer' = [ok |-> FALSE, for |-> now - first]
  BY NamesInType DEF Unsatisfied, Invariant
<1>2. old # None /\ awaited[k] # [a \in Actions |-> {}]
  BY <1>1, NoneWaitsForNothing, NothingIsSeen
<1>3. old \in Entry /\ old.objs = awaited[k] /\ old.first = since[k]
  BY <1>2, Mapping DEF Invariant, TypeOK, NamesIn, FirstIn
<1>4. /\ NamesIn(new) = awaited[k]
      /\ FirstIn(new) = IF since[k] = 0 THEN now ELSE since[k]
  <2>1. first \in Nat
    BY <1>3 DEF Invariant, TypeOK, Entry
  <2>2. new \in Entry /\ new.objs = old.objs /\ new.first = first
    BY <1>3, <2>1 DEF Entry
  <2> HIDE DEF new
  <2> QED BY <1>3, <2>2, EntryIsNotNone DEF NamesIn, FirstIn
<1>5. /\ awaited' = awaited
      /\ since' = [since EXCEPT ![k] = IF @ = 0 THEN now ELSE @]
      /\ since'[k] = first
  <2> HIDE DEF new
  <2>1. /\ awaited' = [awaited EXCEPT ![k] = NamesIn(new)]
        /\ since' = [since EXCEPT ![k] = FirstIn(new)]
    BY <1>1, MappingChanges DEF Invariant
  <2> QED BY <1>3, <1>4, <2>1 DEF awaited, since
<1>6. answer' = [ok |-> FALSE, for |-> now - since'[k]]
  BY <1>1, <1>5
<1> QED BY <1>1, <1>2, <1>5, <1>6 DEF Abstract!Ask, Abstract!Nothing, awaited, since

LEMMA SatisfiedRefines ==
    ASSUME Invariant, NEW k \in Keys, Satisfied(k)
    PROVE  Abstract!Ask(k)
<1>1. /\ Filled(NamesIn(controllerCache[k])) = {}
      /\ controllerCache' = [controllerCache EXCEPT ![k] = None]
      /\ now' = now /\ answer' = [ok |-> TRUE, for |-> 0]
  BY NamesInType DEF Satisfied, Invariant
<1>2. controllerCache[k] = None
  BY <1>1, NoneWaitsForNothing
<1>3. controllerCache' = controllerCache
  BY <1>1, <1>2 DEF Invariant, TypeOK
<1>4. awaited' = awaited /\ since' = since
  BY <1>3 DEF awaited, since, NamesOf
<1>5. awaited[k] = [a \in Actions |-> {}]
  BY <1>2, NothingIsSeen
<1> QED BY <1>1, <1>4, <1>5 DEF Abstract!Ask, Abstract!Nothing, awaited, since

LEMMA DeleteRefines ==
    ASSUME Invariant, NEW k \in Keys, DeleteExpectations(k)
    PROVE  Abstract!Forget(k)
<1>1. /\ awaited' = [awaited EXCEPT ![k] = [a \in Actions |-> {}]]
      /\ since' = [since EXCEPT ![k] = 0]
  BY DropRefines DEF DeleteExpectations
<1>2. awaited'[k] = [a \in Actions |-> {}]
  BY <1>1 DEF awaited
<1> QED BY <1>1, <1>2
        DEF DeleteExpectations, Abstract!Forget, Abstract!Restart, Abstract!Nothing, awaited, since

LEMMA StepRefines ==
    ASSUME Invariant, [Next]_vars
    PROVE  [Abstract!Next]_(Abstract!vars)
<1>1. CASE UNCHANGED vars
  BY <1>1 DEF vars, Abstract!vars, NamesOf
<1>2. ASSUME NEW k \in Keys, NEW a \in Actions, NEW n \in Names,
             ExpectScale(k, a, n) \/ ObserveScale(k, a, n)
      PROVE  Abstract!Next
  BY <1>2, ExpectRefines, ObserveRefines DEF Abstract!Next
<1>3. ASSUME NEW k \in Keys, SatisfiedExpectations(k) \/ DeleteExpectations(k)
      PROVE  Abstract!Next
  BY <1>3, SatisfiedRefines, UnsatisfiedRefines, DeleteRefines
     DEF Abstract!Next, SatisfiedExpectations
<1>4. CASE Tick
  <2>1. Abstract!Tick
    BY <1>4 DEF Tick, Abstract!Tick, NamesOf
  <2> QED BY <2>1 DEF Abstract!Next
<1> QED BY <1>1, <1>2, <1>3, <1>4 DEF Next

\* The store implements Waits, whatever the workloads, actions and names.
THEOREM StoreImplementsWaits == Spec => ImplementsWaits
<1>1. TypeOK /\ EntriesWait /\ [Next]_vars => [Abstract!Next]_(Abstract!vars)
  BY StepRefines DEF Invariant
<1> QED BY InitRefines, EntriesWaitAlways, <1>1, PTL DEF Spec, ImplementsWaits, Abstract!Spec
=============================================================================
