------------------------- MODULE ScaleExpectations --------------------------
(***************************************************************************)
(* The store internal/utils/expectations/scale_expection.go: an entry per  *)
(* workload, made by the first expectation and deleted with the last, that *)
(* holds a set of names per action and the time of the first unsatisfied   *)
(* check.  Worker and event handler share it; every method holds its lock, *)
(* so each is one step.  It implements Waits.                              *)
(***************************************************************************)
EXTENDS Integers

CONSTANTS Keys, Actions, Names,
          MaxTime,        \* bound: how far the clock goes
          None

ASSUME ExpectationsAssumption ==
    /\ None \notin [objs : [Actions -> SUBSET Names], first : Nat]
    /\ MaxTime \in Nat

VARIABLES
    controllerCache,    \* key -> entry, or None
    now,                \* time.Now()
    answer              \* what SatisfiedExpectations returned last

vars == <<controllerCache, now, answer>>

\* An action that is not in the map has no names; the zero time is 0.
Entry == [objs : [Actions -> SUBSET Names], first : Nat]

TypeOK ==
    /\ controllerCache \in [Keys -> Entry \cup {None}]
    /\ now \in Nat \ {0}
    /\ \A k \in Keys : controllerCache[k] # None => controllerCache[k].first <= now
    /\ answer \in [ok : BOOLEAN, for : Nat]

NewEntry == [objs |-> [a \in Actions |-> {}], first |-> 0]

Filled(objs) == {a \in Actions : objs[a] # {}}

\* GetExpectations
NamesOf(k) == IF controllerCache[k] = None THEN NewEntry.objs ELSE controllerCache[k].objs

Init ==
    /\ controllerCache = [k \in Keys |-> None]
    /\ now = 1
    /\ answer = [ok |-> TRUE, for |-> 0]

ExpectScale(k, a, n) ==
    LET entry == IF controllerCache[k] = None THEN NewEntry ELSE controllerCache[k]
    IN  /\ controllerCache' =
             [controllerCache EXCEPT ![k] = [entry EXCEPT !.objs[a] = @ \cup {n}]]
        /\ UNCHANGED <<now, answer>>

\* Fault: the entry stays when it is empty.
ObserveScaleKeepingEntry(k, a, n) ==
    /\ controllerCache[k] # None
    /\ controllerCache' = [controllerCache EXCEPT ![k].objs[a] = @ \ {n}]
    /\ UNCHANGED <<now, answer>>

ObserveScale(k, a, n) ==
    /\ controllerCache[k] # None
    /\ LET objs == [controllerCache[k].objs EXCEPT ![a] = @ \ {n}]
       IN  controllerCache' =
             [controllerCache EXCEPT ![k] =
                IF Filled(objs) = {} THEN None ELSE [@ EXCEPT !.objs = objs]]
    /\ UNCHANGED <<now, answer>>

\* Fault: the time is counted backwards.
UnsatisfiedBackwards(k) ==
    /\ Filled(NamesOf(k)) # {}
    /\ LET first == IF controllerCache[k].first = 0 THEN now ELSE controllerCache[k].first
       IN  /\ controllerCache' = [controllerCache EXCEPT ![k].first = first]
           /\ answer' = [ok |-> FALSE, for |-> first - now]
    /\ UNCHANGED now

\* A check of a key that waits: the time is kept from the first.
Unsatisfied(k) ==
    /\ Filled(NamesOf(k)) # {}
    /\ LET first == IF controllerCache[k].first = 0 THEN now ELSE controllerCache[k].first
       IN  /\ controllerCache' = [controllerCache EXCEPT ![k].first = first]
           /\ answer' = [ok |-> FALSE, for |-> now - first]
    /\ UNCHANGED now

Satisfied(k) ==
    /\ Filled(NamesOf(k)) = {}
    /\ controllerCache' = [controllerCache EXCEPT ![k] = None]
    /\ answer' = [ok |-> TRUE, for |-> 0]
    /\ UNCHANGED now

SatisfiedExpectations(k) == Unsatisfied(k) \/ Satisfied(k)

DeleteExpectations(k) ==
    /\ controllerCache' = [controllerCache EXCEPT ![k] = None]
    /\ UNCHANGED <<now, answer>>

Tick ==
    /\ now < MaxTime
    /\ now' = now + 1
    /\ UNCHANGED <<controllerCache, answer>>

Next ==
    \/ \E k \in Keys, a \in Actions, n \in Names : ExpectScale(k, a, n) \/ ObserveScale(k, a, n)
    \/ \E k \in Keys : SatisfiedExpectations(k) \/ DeleteExpectations(k)
    \/ Tick

Spec == Init /\ [][Next]_vars

-----------------------------------------------------------------------------
(* Properties. *)

\* No entry outlives its last name: one that did would lend its time of the
\* first unsatisfied check to the next wait, and the worker would requeue by it.
EntriesWait ==
    \A k \in Keys : controllerCache[k] # None => Filled(controllerCache[k].objs) # {}

Abstract ==
    INSTANCE Waits WITH
        awaited <- [k \in Keys |-> NamesOf(k)],
        since <- [k \in Keys |-> IF controllerCache[k] = None THEN 0 ELSE controllerCache[k].first]

\* The store implements Waits: what has been announced and not been seen is
\* waited for, for the right key and action, and for as long as it says.
ImplementsWaits == Abstract!Spec
=============================================================================
