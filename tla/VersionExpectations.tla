------------------------ MODULE VersionExpectations -------------------------
(***************************************************************************)
(* The store internal/utils/expectations/resource_version_expection.go: by *)
(* object the version of the last write, until a copy at least that new is *)
(* seen.  Versions are strings of the API server that the store compares   *)
(* as unsigned numbers of 64 bits; one that is empty or does not parse     *)
(* counts as older than any, or as newer than none, by where it stands.    *)
(* Worker and event handler share the store; its methods hold its lock, so *)
(* each is one step.                                                       *)
(***************************************************************************)
EXTENDS Integers

CONSTANTS
    Objects,
    Numbers,         \* versions that parse
    Unparsable,      \* versions that do not, and the empty one
    MaxTime,         \* bound: how far the clock goes
    None

Versions == Numbers \cup Unparsable

ASSUME VersionsAssumption ==
    /\ Numbers \subseteq Nat
    /\ Unparsable \cap Numbers = {}
    /\ MaxTime \in Nat
    /\ None \notin [version : Versions, first : Nat]

VARIABLES
    objectVersions,  \* object -> entry, or None
    now,             \* time.Now()
    answer,          \* what IsSatisfied returned last
    wanted,          \* history: object -> numbers expected since it has an entry
    begun            \* history: object -> when its entry was made

vars == <<objectVersions, now, answer, wanted, begun>>

Entry == [version : Versions, first : Nat]

TypeOK ==
    /\ objectVersions \in [Objects -> Entry \cup {None}]
    /\ now \in Nat \ {0}
    /\ answer \in [ok : BOOLEAN, for : Nat]
    /\ wanted \in [Objects -> SUBSET Numbers]
    /\ begun \in [Objects -> Nat]

Init ==
    /\ objectVersions = [o \in Objects |-> None]
    /\ now = 1
    /\ answer = [ok |-> TRUE, for |-> 0]
    /\ wanted = [o \in Objects |-> {}]
    /\ begun = [o \in Objects |-> 0]

\* Fault: whatever does not parse is newer.
IsNewerUnlessOlder(old, new) ==
    \/ old \in Unparsable \/ new \in Unparsable
    \/ old \in Numbers /\ new \in Numbers /\ new >= old

\* isResourceVersionNewer
IsNewer(old, new) ==
    \/ old \in Unparsable
    \/ old \in Numbers /\ new \in Numbers /\ new >= old

\* The newer of the two stays expected; a new entry takes any (its version is
\* empty until then).
Expect(o, v) ==
    /\ objectVersions' =
         [objectVersions EXCEPT ![o] =
            IF @ = None THEN [version |-> v, first |-> 0]
            ELSE IF IsNewer(@.version, v) THEN [@ EXCEPT !.version = v] ELSE @]
    /\ wanted' = [wanted EXCEPT ![o] = @ \cup ({v} \cap Numbers)]
    /\ begun' = IF objectVersions[o] = None THEN [begun EXCEPT ![o] = now] ELSE begun
    /\ UNCHANGED <<now, answer>>

\* Fault: the entry and its time stay.
ForgetVersionOnly(o) ==
    /\ objectVersions' =
         [objectVersions EXCEPT ![o] =
            IF @ = None THEN @ ELSE [@ EXCEPT !.version = CHOOSE u \in Unparsable : TRUE]]
    /\ wanted' = [wanted EXCEPT ![o] = {}]
    /\ begun' = [begun EXCEPT ![o] = now]

Forget(o) ==
    /\ objectVersions' = [objectVersions EXCEPT ![o] = None]
    /\ wanted' = [wanted EXCEPT ![o] = {}]
    /\ UNCHANGED begun

Meets(o, v) == objectVersions[o] # None /\ IsNewer(objectVersions[o].version, v)

Observe(o, v) ==
    /\ Meets(o, v)
    /\ Forget(o)
    /\ UNCHANGED <<now, answer>>

Satisfied(o, v) ==
    /\ objectVersions[o] = None \/ Meets(o, v)
    /\ Forget(o)
    /\ answer' = [ok |-> TRUE, for |-> 0]
    /\ UNCHANGED now

\* Fault: the time is counted backwards.
UnsatisfiedBackwards(o, v) ==
    /\ objectVersions[o] # None /\ ~Meets(o, v)
    /\ LET first == IF objectVersions[o].first = 0 THEN now ELSE objectVersions[o].first
       IN  /\ objectVersions' = [objectVersions EXCEPT ![o].first = first]
           /\ answer' = [ok |-> FALSE, for |-> first - now]
    /\ UNCHANGED <<now, wanted, begun>>

\* The time counts from the first check that failed.
Unsatisfied(o, v) ==
    /\ objectVersions[o] # None /\ ~Meets(o, v)
    /\ LET first == IF objectVersions[o].first = 0 THEN now ELSE objectVersions[o].first
       IN  /\ objectVersions' = [objectVersions EXCEPT ![o].first = first]
           /\ answer' = [ok |-> FALSE, for |-> now - first]
    /\ UNCHANGED <<now, wanted, begun>>

IsSatisfied(o, v) == Satisfied(o, v) \/ Unsatisfied(o, v)

Delete(o) ==
    /\ Forget(o)
    /\ UNCHANGED <<now, answer>>

Tick ==
    /\ now < MaxTime
    /\ now' = now + 1
    /\ UNCHANGED <<objectVersions, answer, wanted, begun>>

Next ==
    \/ \E o \in Objects, v \in Versions : Expect(o, v) \/ Observe(o, v) \/ IsSatisfied(o, v)
    \/ \E o \in Objects : Delete(o)
    \/ Tick

Spec == Init /\ [][Next]_vars

-----------------------------------------------------------------------------
(* Properties. *)

\* As long as a write is awaited, so is the newest of all that were expected,
\* in whatever order they were, and whatever did not parse in between: no copy
\* older than any of them ends the wait.
NewestIsAwaited ==
    \A o \in Objects : wanted[o] # {} =>
        /\ objectVersions[o] # None
        /\ \A v \in Versions, w \in wanted[o] : Meets(o, v) => v \in Numbers /\ v >= w

\* The time of a wait, by which Reconcile gives up after five minutes, is its
\* own: none that an earlier wait for the object has already spent.
WaitsOwnTime ==
    \A o \in Objects : objectVersions[o] # None =>
        objectVersions[o].first = 0 \/ objectVersions[o].first \in begun[o] .. now
=============================================================================
