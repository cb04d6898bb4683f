------------------------------- MODULE Waits --------------------------------
(***************************************************************************)
(* What ScaleExpectations promises its users: for every workload and       *)
(* action the names whose scaling has been announced and not been seen     *)
(* yet, an answer that is yes exactly when there is none, and how long the *)
(* answer has been no.  The Reconciler works with this (its exp).          *)
(***************************************************************************)
EXTENDS Integers

CONSTANTS Keys, Actions, Names,
          MaxTime         \* bound: how far the clock goes

VARIABLES
    awaited,    \* key -> action -> names
    since,      \* key -> when it was first answered no, or 0
    now,        \* the clock
    answer      \* the answer to the last question

vars == <<awaited, since, now, answer>>

Nothing == [a \in Actions |-> {}]

Init ==
    /\ awaited = [k \in Keys |-> Nothing]
    /\ since = [k \in Keys |-> 0]
    /\ now = 1
    /\ answer = [ok |-> TRUE, for |-> 0]

Expect(k, a, n) ==
    /\ awaited' = [awaited EXCEPT ![k][a] = @ \cup {n}]
    /\ UNCHANGED <<since, now, answer>>

\* Whoever waits for nothing any more starts from 0 the next time.
Restart(k) == since' = IF awaited'[k] = Nothing THEN [since EXCEPT ![k] = 0] ELSE since

Observe(k, a, n) ==
    /\ awaited' = [awaited EXCEPT ![k][a] = @ \ {n}]
    /\ Restart(k)
    /\ UNCHANGED <<now, answer>>

Forget(k) ==
    /\ awaited' = [awaited EXCEPT ![k] = Nothing]
    /\ Restart(k)
    /\ UNCHANGED <<now, answer>>

Ask(k) ==
    /\ since' = IF awaited[k] = Nothing THEN since
                ELSE [since EXCEPT ![k] = IF @ = 0 THEN now ELSE @]
    /\ answer' = IF awaited[k] = Nothing THEN [ok |-> TRUE, for |-> 0]
                 ELSE [ok |-> FALSE, for |-> now - since'[k]]
    /\ UNCHANGED <<awaited, now>>

Tick ==
    /\ now < MaxTime
    /\ now' = now + 1
    /\ UNCHANGED <<awaited, since, answer>>

Next ==
    \/ \E k \in Keys, a \in Actions, n \in Names : Expect(k, a, n) \/ Observe(k, a, n)
    \/ \E k \in Keys : Forget(k) \/ Ask(k)
    \/ Tick

Spec == Init /\ [][Next]_vars
=============================================================================
