---------------------------- MODULE AgeingProofs ----------------------------
(***************************************************************************)
(* What Ageing and PodSorts promise, for any pods, nodes, minReadySeconds  *)
(* and disturbances: the type invariant, the follow-up of the pods that    *)
(* are not available yet, that Less is an order sort.Sort can use, and     *)
(* which pods a scale in takes and leaves.                                 *)
(*                                                                         *)
(* Of the choice, no pod that stays goes before a running one that is      *)
(* taken (ChosenFirst).  That it evens the nodes out then follows from     *)
(* counting the ranks of the pods that stay (SortedBalance).               *)
(***************************************************************************)
EXTENDS Ageing, FiniteSetTheorems, TLAPS

-----------------------------------------------------------------------------
(* Less. *)

KeyTuples == Int \X Int \X Int \X Int \X Int \X Int \X Int

\* The keys of a pod are seven integers (ActivePodsWithRanks.Less).
LEMMA KeysType ==
    ASSUME NEW p \in Pod, NEW r \in Nat
    PROVE  Keys(p, r) \in KeyTuples
<1>1. /\ p.readyAt \in Nat /\ p.restarts \in Nat /\ p.created \in Nat
      /\ p.phase \in {"Pending", "Unknown", "Running"}
    BY DEF Pod
<1>2. /\ Bit(p.node # None) \in Int /\ Bit(p.ready) \in Int
      /\ Ordinal(p.phase) \in Int
    BY <1>1 DEF Bit, Ordinal
<1>3. QED
    BY <1>1, <1>2 DEF Keys, KeyTuples

\* The pod that Less puts first is never put after the other as well.
LEMMA LexicographicAsymmetric ==
    ASSUME NEW a \in KeyTuples, NEW b \in KeyTuples, Lexicographic(a, b)
    PROVE  ~Lexicographic(b, a)
<1>1. \A i \in 1..7 : a[i] \in Int /\ b[i] \in Int
    BY DEF KeyTuples
<1>2. SUFFICES ASSUME Lexicographic(b, a) PROVE FALSE
    OBVIOUS
<1>3. PICK i \in 1..7 : a[i] < b[i] /\ \A m \in 1..(i - 1) : a[m] = b[m]
    BY DEF Lexicographic
<1>4. PICK j \in 1..7 : b[j] < a[j] /\ \A m \in 1..(j - 1) : b[m] = a[m]
    BY <1>2 DEF Lexicographic
<1>5. i < j => i \in 1..(j - 1)
    OBVIOUS
<1>6. j < i => j \in 1..(i - 1)
    OBVIOUS
<1>7. QED
    BY <1>1, <1>3, <1>4, <1>5, <1>6

LEMMA LexicographicTransitive ==
    ASSUME NEW a \in KeyTuples, NEW b \in KeyTuples, NEW c \in KeyTuples,
           Lexicographic(a, b), Lexicographic(b, c)
    PROVE  Lexicographic(a, c)
<1>1. \A i \in 1..7 : a[i] \in Int /\ b[i] \in Int /\ c[i] \in Int
    BY DEF KeyTuples
<1>2. PICK i \in 1..7 : a[i] < b[i] /\ \A m \in 1..(i - 1) : a[m] = b[m]
    BY DEF Lexicographic
<1>3. PICK j \in 1..7 : b[j] < c[j] /\ \A m \in 1..(j - 1) : b[m] = c[m]
    BY DEF Lexicographic
<1>4. CASE i < j
    <2>1. i \in 1..(j - 1) /\ \A m \in 1..(i - 1) : m \in 1..(j - 1)
        BY <1>4
    <2>2. a[i] < c[i] /\ \A m \in 1..(i - 1) : a[m] = c[m]
        BY <1>1, <1>2, <1>3, <2>1
    <2>3. QED
        BY <2>2 DEF Lexicographic
<1>5. CASE j < i
    <2>1. j \in 1..(i - 1) /\ \A m \in 1..(j - 1) : m \in 1..(i - 1)
        BY <1>5
    <2>2. a[j] < c[j] /\ \A m \in 1..(j - 1) : a[m] = c[m]
        BY <1>1, <1>2, <1>3, <2>1
    <2>3. QED
        BY <2>2 DEF Lexicographic
<1>6. CASE i = j
    <2>1. a[i] < c[i] /\ \A m \in 1..(i - 1) : a[m] = c[m]
        BY <1>1, <1>2, <1>3, <1>6
    <2>2. QED
        BY <2>1 DEF Lexicographic
<1>7. QED
    BY <1>4, <1>5, <1>6

\* Keys that are not told apart are equal.
LEMMA LexicographicTotal ==
    ASSUME NEW a \in KeyTuples, NEW b \in KeyTuples, a # b
    PROVE  Lexicographic(a, b) \/ Lexicographic(b, a)
<1>1. \A i \in 1..7 : a[i] \in Int /\ b[i] \in Int
    BY DEF KeyTuples
<1> DEFINE Differs(i) == a[i] # b[i] /\ \A m \in 1..(i - 1) : a[m] = b[m]
<1>2. \E i \in 1..7 : Differs(i)
    <2>1. \/ a[1] # b[1] \/ a[2] # b[2] \/ a[3] # b[3] \/ a[4] # b[4]
          \/ a[5] # b[5] \/ a[6] # b[6] \/ a[7] # b[7]
        BY DEF KeyTuples
    <2>2. QED
        BY <2>1
<1>3. PICK i \in 1..7 : Differs(i)
    BY <1>2
<1>4. a[i] < b[i] \/ b[i] < a[i]
    BY <1>1, <1>3
<1>5. QED
    BY <1>3, <1>4 DEF Lexicographic

\* Less is a strict weak order, whatever the pods and their node ranks: no pod
\* comes before itself, the order is transitive, and so is being of one rank,
\* for pods of one rank have the same keys.  sort.Sort sorts by nothing less
\* (ActivePodsWithRanks.Less, afterOrZero, podReadyTime, maxContainerRestarts).
THEOREM LessIsStrictWeakOrder ==
    /\ \A p, q \in Pod, r, s \in Nat : Less(p, r, q, s) => ~Less(q, s, p, r)
    /\ \A p, q, o \in Pod, r, s, t \in Nat :
          Less(p, r, q, s) /\ Less(q, s, o, t) => Less(p, r, o, t)
    /\ \A p, q \in Pod, r, s \in Nat :
          ~Less(p, r, q, s) /\ ~Less(q, s, p, r) => Keys(p, r) = Keys(q, s)
    BY KeysType, LexicographicAsymmetric, LexicographicTransitive, LexicographicTotal
    DEF Less

-----------------------------------------------------------------------------
(* The type invariant. *)

\* Sets of pod names are counted by natural numbers.
LEMMA NamesAreCounted ==
    ASSUME NEW S \in SUBSET Names
    PROVE  IsFiniteSet(S) /\ Cardinality(S) \in Nat
  BY FS_Subset, FS_CardinalityType, PodSortsAssumption

LEMMA CalculatedType ==
    ASSUME TypeOK
    PROVE  Calculated \in Counts
<1>1. RunningPods(job.view) \in SUBSET Names /\ AvailablePods(job.view, now) \in SUBSET Names
  BY DEF RunningPods, AvailablePods, Members
<1>2. QED
  BY <1>1, NamesAreCounted DEF Calculated, Counts

LEMMA InitialType == Init => TypeOK
  BY AgeingAssumption DEF Init, TypeOK, Counts, NoCounts, Idle, NoView

\* What a change of a pod keeps.
LEMMA WriteType ==
    ASSUME TypeOK, NEW n \in Names, NEW p \in Pod \cup {None}, Write(n, p), used' \in 0..Budget
    PROVE  TypeOK'
  BY DEF TypeOK, Write

LEMMA UsedType ==
    ASSUME TypeOK
    PROVE  /\ Calm => used' \in 0..Budget
           /\ \A d : Disturb(d) => used' \in 0..Budget
  BY AgeingAssumption DEF TypeOK, Calm, Disturb

LEMMA PodStepType ==
    ASSUME TypeOK, NEW n \in Names,
           \/ \E node \in Nodes : Schedule(n, node)
           \/ Start(n) \/ BecomeReady(n) \/ LoseReadiness(n) \/ Lose(n) \/ Mark(n)
    PROVE  TypeOK'
<1>1. now \in Nat /\ pods[n] \in Pod \cup {None}
  BY DEF TypeOK
<1>2. CASE \E node \in Nodes : Schedule(n, node)
  <2>1. PICK node \in Nodes : Schedule(n, node)
    BY <1>2
  <2>2. [pods[n] EXCEPT !.node = node] \in Pod
    BY <1>1, <2>1 DEF Schedule, Pod
  <2>3. QED
    BY <2>1, <2>2, WriteType, UsedType DEF Schedule
<1>3. CASE Start(n)
  <2>1. [pods[n] EXCEPT !.phase = "Running"] \in Pod
    BY <1>1, <1>3 DEF Start, Pod
  <2>2. QED
    BY <1>3, <2>1, WriteType, UsedType DEF Start
<1>4. CASE BecomeReady(n)
  <2>1. [pods[n] EXCEPT !.ready = TRUE, !.readyAt = now] \in Pod
    BY <1>1, <1>4 DEF BecomeReady, Pod
  <2>2. QED
    BY <1>4, <2>1, WriteType, UsedType DEF BecomeReady
<1>5. CASE LoseReadiness(n)
  <2>1. pods[n] \in Pod
    BY <1>1, <1>5 DEF LoseReadiness
  <2>2. pods[n].restarts + 1 \in Nat
    BY <2>1 DEF Pod
  <2>3. [pods[n] EXCEPT !.ready = FALSE, !.readyAt = 0, !.restarts = @ + 1] \in Pod
    BY <2>1, <2>2 DEF Pod
  <2>4. [pods[n] EXCEPT !.ready = FALSE, !.readyAt = 0] \in Pod
    BY <2>1 DEF Pod
  <2>5. QED
    BY <1>5, <2>3, <2>4, WriteType, UsedType DEF LoseReadiness
<1>6. CASE Lose(n)
  BY <1>6, WriteType, UsedType DEF Lose
<1>7. CASE Mark(n)
  <2>1. [pods[n] EXCEPT !.sdel = TRUE] \in Pod
    BY <1>1, <1>7 DEF Mark, Pod
  <2>2. QED
    BY <1>7, <2>1, WriteType, UsedType DEF Mark
<1>8. QED
  BY <1>2, <1>3, <1>4, <1>5, <1>6, <1>7

LEMMA NewPodType == ASSUME TypeOK PROVE NewPod \in Pod
  BY DEF TypeOK, NewPod, Pod

LEMMA ScaledType ==
    ASSUME TypeOK, NEW f \in BOOLEAN, Scaled(f), used' \in 0..Budget,
           pods' \in [Names -> Pod \cup {None}], queued' \in BOOLEAN
    PROVE  TypeOK'
  BY DEF TypeOK, Scaled

LEMMA DeletePodsType ==
    ASSUME TypeOK, NEW D, DeletePods(D)
    PROVE  TypeOK'
<1>1. PICK S \in SUBSET {n \in D : pods[n] # None} :
         /\ \E f \in BOOLEAN : Scaled(f) /\ (Calm \/ Disturb("apierr"))
         /\ pods' = [n \in Names |-> IF n \in S THEN None ELSE pods[n]]
         /\ queued' = (queued \/ S # {})
  BY DEF DeletePods
<1>2. pods' \in [Names -> Pod \cup {None}] /\ queued' \in BOOLEAN
  BY <1>1 DEF TypeOK
<1>3. used' \in 0..Budget
  BY <1>1, UsedType
<1>4. QED
  BY <1>1, <1>2, <1>3, ScaledType

LEMMA ScaleType ==
    ASSUME TypeOK, ScaleOut \/ DeleteSpecified \/ ScaleIn \/ NothingToScale
    PROVE  TypeOK'
<1>1. CASE ScaleOut
  <2>1. PICK S \in SUBSET {n \in Names : pods[n] = None /\ job.view[n] = None} :
           /\ \E f \in BOOLEAN : Scaled(f) /\ (Calm \/ Disturb("apierr"))
           /\ pods' = [n \in Names |-> IF n \in S THEN NewPod ELSE pods[n]]
           /\ queued' = (queued \/ S # {})
    BY <1>1 DEF ScaleOut
  <2>2. pods' \in [Names -> Pod \cup {None}] /\ queued' \in BOOLEAN
    BY <2>1, NewPodType DEF TypeOK
  <2>3. used' \in 0..Budget
    BY <2>1, UsedType
  <2>4. QED
    BY <2>1, <2>2, <2>3, ScaledType
<1>2. CASE DeleteSpecified
  BY <1>2, DeletePodsType DEF DeleteSpecified
<1>3. CASE ScaleIn
  BY <1>3, DeletePodsType DEF ScaleIn
<1>4. CASE NothingToScale
  <2>1. Scaled(FALSE) /\ pods' = pods /\ queued' = queued /\ used' \in 0..Budget
    BY <1>4, UsedType DEF NothingToScale
  <2>2. QED
    BY <2>1, ScaledType DEF TypeOK
<1>5. QED
  BY <1>1, <1>2, <1>3, <1>4

LEMMA IdleType == Idle \in [replicas : Nat, view : [Names -> Pod \cup {None}], failed : BOOLEAN]
  BY DEF Idle, NoView

LEMMA DueType ==
    ASSUME TypeOK
    PROVE  RequeueAfter \in Nat /\ Due \in Nat
  BY AgeingAssumption DEF TypeOK, RequeueAfter, Due

LEMMA StepType == TypeOK /\ [Next]_vars => TypeOK'
<1> SUFFICES ASSUME TypeOK, [Next]_vars PROVE TypeOK'
  OBVIOUS
<1> USE AgeingAssumption
<1>1. CASE Tick
  BY <1>1 DEF TypeOK, Tick
<1>2. CASE TimerFires
  BY <1>2 DEF TypeOK, TimerFires
<1>3. ASSUME NEW n \in Names,
             \/ \E node \in Nodes : Schedule(n, node)
             \/ Start(n) \/ BecomeReady(n) \/ LoseReadiness(n) \/ Lose(n) \/ Mark(n)
      PROVE  TypeOK'
  BY <1>3, PodStepType
<1>4. ASSUME NEW k \in 0..MaxReplicas, SetReplicas(k)
      PROVE  TypeOK'
  BY <1>4, UsedType DEF TypeOK, SetReplicas
<1>5. CASE Begin
  BY <1>5 DEF TypeOK, Begin
<1>6. CASE ScaleOut \/ DeleteSpecified \/ ScaleIn \/ NothingToScale
  BY <1>6, ScaleType
<1>7. CASE UpdateStatus
  <2>1. [Idle EXCEPT !.failed = job.failed] \in
            [replicas : Nat, view : [Names -> Pod \cup {None}], failed : BOOLEAN]
    BY IdleType DEF TypeOK
  <2>2. QED
    BY <1>7, <2>1, CalculatedType DEF TypeOK, UpdateStatus
<1>8. CASE StatusFails
  BY <1>8, IdleType, UsedType DEF TypeOK, StatusFails, Retry
<1>9. CASE FinishWell
  <2>1. Earlier(timer, Due) \in Nat
    BY DueType DEF TypeOK, Earlier
  <2>2. QED
    BY <1>9, <2>1, IdleType DEF TypeOK, FinishWell
<1>10. CASE FinishFailed
  BY <1>10, IdleType, UsedType DEF TypeOK, FinishFailed, Retry
<1>11. CASE Crash
  BY <1>11, IdleType, UsedType DEF TypeOK, Crash, Retry
<1>12. CASE UNCHANGED vars
  BY <1>12 DEF TypeOK, vars
<1>13. QED
  BY <1>1, <1>2, <1>3, <1>4, <1>5, <1>6, <1>7, <1>8, <1>9, <1>10, <1>11, <1>12 DEF Next

\* The type invariant of the clock, the pods, the status and the pass.
THEOREM TypeCorrect == Spec => []TypeOK
  BY InitialType, StepType, PTL DEF Spec

-----------------------------------------------------------------------------
(* The follow-up of pods that are not available yet. *)

\* The status counts the pods available now, and time does not change them.
Settled ==
    /\ status.available = Cardinality(AvailablePods(pods, now))
    /\ MinReadySeconds = 0 \/ AvailablePods(pods, now) = RunningPods(pods)

\* No timer is later than a pass that finishes now would set it; while nothing
\* is queued, the pass has listed the pods there are; and once it has written
\* the status, either nothing is left to wait for or it will ask for a timer.
TimerIsNear == timer # None => timer <= now + MinReadySeconds

ListIsCurrent == ~queued /\ pc \in {"scale", "status"} => job.view = pods

WillFollowUp == ~queued /\ pc = "finish" => RequeueAfter > 0 \/ Settled

IsFollowedUp == AtRest => timer # None \/ Settled

Following == TypeOK /\ TimerIsNear /\ ListIsCurrent /\ WillFollowUp /\ IsFollowedUp

LEMMA FollowingSuffices == Following => AvailableIsFollowedUp
  BY DEF Following, TimerIsNear, IsFollowedUp, Settled, AvailableIsFollowedUp

\* Time takes no pod out of the available ones.
LEMMA AvailableRunning ==
    ASSUME NEW view, NEW t
    PROVE  AvailablePods(view, t) \subseteq RunningPods(view)
  BY DEF AvailablePods, RunningPods, IsPodAvailable

LEMMA AvailableStay ==
    ASSUME TypeOK
    PROVE  AvailablePods(pods, now) \subseteq AvailablePods(pods, now + 1)
<1> SUFFICES ASSUME NEW n \in AvailablePods(pods, now)
             PROVE  n \in AvailablePods(pods, now + 1)
  OBVIOUS
<1>1. /\ n \in Members(pods) /\ pods[n] \in Pod
      /\ IsPodAvailable(pods[n], now)
  BY DEF AvailablePods, Members, TypeOK
<1>2. pods[n].readyAt \in Nat /\ now \in Nat
  BY <1>1 DEF Pod, TypeOK
<1>3. IsPodAvailable(pods[n], now + 1)
  BY <1>1, <1>2, AgeingAssumption DEF IsPodAvailable
<1>4. QED
  BY <1>1, <1>3 DEF AvailablePods

LEMMA TickSettled ==
    ASSUME TypeOK, Settled, now' = now + 1, UNCHANGED <<pods, status>>
    PROVE  Settled'
<1>1. CASE MinReadySeconds = 0
  <2>1. AvailablePods(pods, now + 1) = AvailablePods(pods, now)
    BY <1>1 DEF AvailablePods, IsPodAvailable
  <2>2. QED
    BY <1>1, <2>1 DEF Settled
<1>2. CASE MinReadySeconds # 0
  <2>1. AvailablePods(pods, now) = RunningPods(pods)
    BY <1>2 DEF Settled
  <2>2. AvailablePods(pods, now + 1) = AvailablePods(pods, now)
    BY <2>1, AvailableRunning, AvailableStay
  <2>3. QED
    BY <2>1, <2>2 DEF Settled
<1>3. QED
  BY <1>1, <1>2

\* If all running pods are counted as available, they are.
LEMMA CalculatedSettles ==
    ASSUME TypeOK, job.view = pods, status' = Calculated, UNCHANGED <<pods, now>>
    PROVE  RequeueAfter' > 0 \/ Settled'
<1> DEFINE A == AvailablePods(pods, now)
           W == RunningPods(pods)
<1>1. status'.available = Cardinality(A) /\ status'.ready = Cardinality(W)
  BY DEF Calculated
<1>2. A \subseteq W /\ W \in SUBSET Names
  BY AvailableRunning DEF RunningPods, Members
<1>3. Cardinality(A) = Cardinality(W) => A = W
  <2>1. IsFiniteSet(W)
    BY <1>2, NamesAreCounted
  <2>2. QED
    BY <1>2, <2>1, FS_Subset, FS_CardinalityType
<1>4. CASE MinReadySeconds = 0 \/ A = W
  BY <1>1, <1>4 DEF Settled
<1>5. CASE MinReadySeconds # 0 /\ A # W
  <2>1. status'.available # status'.ready
    BY <1>1, <1>3, <1>5
  <2>2. QED
    BY <1>5, <2>1, AgeingAssumption DEF RequeueAfter
<1>6. QED
  BY <1>4, <1>5

\* A step that leaves the key in the queue, and timers and clock alone, owes
\* nothing else.
LEMMA QueuedFollowing ==
    ASSUME Following, TypeOK', queued', now' = now,
           timer' = timer \/ timer' = None
    PROVE  Following'
  BY DEF Following, TimerIsNear, ListIsCurrent, WillFollowUp, IsFollowedUp, AtRest

\* A pass that scales has queued the key, unless it left the pods alone.
LEMMA ScaleFollowing ==
    ASSUME Following, TypeOK', ScaleOut \/ DeleteSpecified \/ ScaleIn \/ NothingToScale
    PROVE  Following'
<1>1. /\ pc = "scale" /\ pc' = "status" /\ job'.view = job.view
      /\ UNCHANGED <<now, timer>>
      /\ queued' \/ (pods' = pods /\ queued' = queued)
  <2>1. CASE NothingToScale
    BY <2>1 DEF NothingToScale, Scaled, Following, TypeOK
  <2>2. CASE ScaleOut
    <3>1. PICK S \in SUBSET {n \in Names : pods[n] = None /\ job.view[n] = None} :
             /\ \E f \in BOOLEAN : Scaled(f)
             /\ pods' = [n \in Names |-> IF n \in S THEN NewPod ELSE pods[n]]
             /\ queued' = (queued \/ S # {})
      BY <2>2 DEF ScaleOut
    <3>2. S = {} => pods' = pods
      BY <3>1 DEF Following, TypeOK
    <3>3. QED
      BY <2>2, <3>1, <3>2 DEF ScaleOut, Scaled, Following, TypeOK
  <2>3. ASSUME NEW D, DeletePods(D), pc = "scale"
        PROVE  <1>1!:
    <3>1. PICK S \in SUBSET {n \in D : pods[n] # None} :
             /\ \E f \in BOOLEAN : Scaled(f)
             /\ pods' = [n \in Names |-> IF n \in S THEN None ELSE pods[n]]
             /\ queued' = (queued \/ S # {})
      BY <2>3 DEF DeletePods
    <3>2. S = {} => pods' = pods
      BY <3>1 DEF Following, TypeOK
    <3>3. QED
      BY <2>3, <3>1, <3>2 DEF Scaled, Following, TypeOK
  <2>4. QED
    BY <2>1, <2>2, <2>3 DEF DeleteSpecified, ScaleIn
<1>2. CASE queued'
  BY <1>1, <1>2, QueuedFollowing
<1>3. CASE pods' = pods /\ queued' = queued
  BY <1>1, <1>3
  DEF Following, TimerIsNear, ListIsCurrent, WillFollowUp, IsFollowedUp, AtRest
<1>4. QED
  BY <1>1, <1>2, <1>3

LEMMA InitialFollowing == Init => Following
  BY InitialType DEF Init, Following, TimerIsNear, ListIsCurrent, WillFollowUp,
                     IsFollowedUp, AtRest

LEMMA StepFollowing == Following /\ [Next]_vars => Following'
<1> SUFFICES ASSUME Following, [Next]_vars PROVE Following'
  OBVIOUS
<1>1. TypeOK /\ TypeOK'
  BY StepType DEF Following
<1>2. now \in Nat /\ MinReadySeconds \in Nat /\ (timer # None => timer \in Nat)
  BY <1>1, AgeingAssumption DEF TypeOK
<1>3. CASE Tick
  <2>1. /\ now' = now + 1
        /\ UNCHANGED <<replicas, pods, status, queued, timer, pc, job>>
    BY <1>3 DEF Tick
  <2>2. TimerIsNear'
    BY <1>2, <2>1 DEF Following, TimerIsNear
  <2>3. Settled => Settled'
    BY <1>1, <2>1, TickSettled
  <2>4. RequeueAfter' = RequeueAfter
    BY <2>1 DEF RequeueAfter
  <2>5. QED
    BY <1>1, <2>1, <2>2, <2>3, <2>4
    DEF Following, ListIsCurrent, WillFollowUp, IsFollowedUp, AtRest
<1>4. CASE TimerFires
  BY <1>1, <1>4, QueuedFollowing DEF TimerFires
<1>5. ASSUME NEW n \in Names,
             \/ \E node \in Nodes : Schedule(n, node)
             \/ Start(n) \/ BecomeReady(n) \/ LoseReadiness(n) \/ Lose(n) \/ Mark(n)
      PROVE  Following'
  <2>1. queued' /\ now' = now /\ timer' = timer
    BY <1>5 DEF Schedule, Start, BecomeReady, LoseReadiness, Lose, Mark, Write
  <2>2. QED
    BY <1>1, <2>1, QueuedFollowing
<1>6. ASSUME NEW k \in 0..MaxReplicas, SetReplicas(k)
      PROVE  Following'
  BY <1>1, <1>6, QueuedFollowing DEF SetReplicas
<1>7. CASE Begin
  <2>1. job'.view = pods /\ pc' = "scale" /\ UNCHANGED <<now, pods, timer>>
    BY <1>7 DEF Begin
  <2>2. QED
    BY <1>1, <2>1
    DEF Following, TimerIsNear, ListIsCurrent, WillFollowUp, IsFollowedUp, AtRest
<1>8. CASE ScaleOut \/ DeleteSpecified \/ ScaleIn \/ NothingToScale
  BY <1>1, <1>8, ScaleFollowing
<1>9. CASE UpdateStatus
  <2>1. /\ pc = "status" /\ pc' = "finish" /\ status' = Calculated
        /\ UNCHANGED <<now, pods, queued, timer>>
    BY <1>9 DEF UpdateStatus
  <2>2. ~queued => RequeueAfter' > 0 \/ Settled'
    BY <1>1, <2>1, CalculatedSettles DEF Following, ListIsCurrent
  <2>3. QED
    BY <1>1, <2>1, <2>2
    DEF Following, TimerIsNear, ListIsCurrent, WillFollowUp, IsFollowedUp, AtRest
<1>10. CASE StatusFails
  BY <1>1, <1>10, QueuedFollowing DEF StatusFails, Retry
<1>11. CASE FinishWell
  <2>1. /\ pc = "finish" /\ pc' = "idle"
        /\ timer' = IF RequeueAfter > 0 THEN Earlier(timer, Due) ELSE timer
        /\ UNCHANGED <<now, pods, status, queued>>
    BY <1>11 DEF FinishWell
  <2>2. RequeueAfter > 0 => timer' # None
    BY <1>1, <1>2, <2>1, DueType, AgeingAssumption DEF Earlier
  <2>3. TimerIsNear'
    <3>1. RequeueAfter \in Nat /\ RequeueAfter <= MinReadySeconds
      BY <1>2 DEF RequeueAfter
    <3>2. Due \in Nat /\ Due <= now + MinReadySeconds
      BY <1>2, <3>1 DEF Due
    <3>3. timer' = timer \/ timer' = Due
      BY <2>1 DEF Earlier
    <3>4. timer' = timer => TimerIsNear'
      BY <2>1 DEF Following, TimerIsNear
    <3>5. timer' = Due => TimerIsNear'
      BY <2>1, <3>2 DEF TimerIsNear
    <3>6. QED
      BY <3>3, <3>4, <3>5
  <2>4. Settled => Settled'
    BY <2>1 DEF Settled
  <2>5. IsFollowedUp'
    BY <2>1, <2>2, <2>4 DEF Following, WillFollowUp, IsFollowedUp, AtRest
  <2>6. QED
    BY <1>1, <2>1, <2>3, <2>5 DEF Following, ListIsCurrent, WillFollowUp
<1>12. CASE FinishFailed
  BY <1>1, <1>12, QueuedFollowing DEF FinishFailed, Retry
<1>13. CASE Crash
  BY <1>1, <1>13, QueuedFollowing DEF Crash, Retry
<1>14. CASE UNCHANGED vars
  <2>1. UNCHANGED <<now, pods, status, queued, timer, pc, job>>
    BY <1>14 DEF vars
  <2>2. (Settled => Settled') /\ RequeueAfter' = RequeueAfter
    BY <2>1 DEF Settled, RequeueAfter
  <2>3. QED
    BY <1>1, <2>1, <2>2
    DEF Following, TimerIsNear, ListIsCurrent, WillFollowUp, IsFollowedUp, AtRest
<1>15. QED
  BY <1>3, <1>4, <1>5, <1>6, <1>7, <1>8, <1>9, <1>10, <1>11, <1>12, <1>13, <1>14 DEF Next

\* A pod that grows available without an event is followed up: whenever the
\* controller is at rest, its status counts the pods available now, or a pass
\* is due within minReadySeconds (Reconcile, IsPodAvailable, DurationStore).
THEOREM GrownPodsAreFollowedUp == Spec => []AvailableIsFollowedUp
  BY InitialFollowing, StepFollowing, FollowingSuffices, PTL DEF Spec

-----------------------------------------------------------------------------
(* The pods of a scale in. *)

\* A pod that is ready is running: the kubelet reports no other one ready.
ReadyPodsRun(view) == \A n \in Members(view) : view[n].ready => IsRunning(view[n])

OnlyRunningAreReady == ReadyPodsRun(pods) /\ ReadyPodsRun(job.view)

\* The first key that differs decides.
LEMMA LexicographicSteps ==
    ASSUME NEW a \in KeyTuples, NEW b \in KeyTuples, a[1] = b[1], ~Lexicographic(a, b)
    PROVE  /\ b[2] <= a[2]
           /\ a[2] = b[2] => b[3] <= a[3]
           /\ a[2] = b[2] /\ a[3] = b[3] => b[4] <= a[4]
           /\ a[2] = b[2] /\ a[3] = b[3] /\ a[4] = b[4] => b[5] <= a[5]
<1>1. \A i \in 1..7 : a[i] \in Int /\ b[i] \in Int
  BY DEF KeyTuples
<1>2. \A i \in 1..7 : ~(a[i] < b[i] /\ \A j \in 1..(i - 1) : a[j] = b[j])
  BY DEF Lexicographic
<1>3. \A i \in 1..7 : (\A j \in 1..(i - 1) : a[j] = b[j]) => b[i] <= a[i]
  BY <1>1, <1>2
<1>4. \A j \in 1..1 : a[j] = b[j]
  OBVIOUS
<1>5. b[2] <= a[2]
  BY <1>3, <1>4
<1>6. a[2] = b[2] => \A j \in 1..2 : a[j] = b[j]
  OBVIOUS
<1>7. a[2] = b[2] => b[3] <= a[3]
  BY <1>3, <1>6
<1>8. a[2] = b[2] /\ a[3] = b[3] => \A j \in 1..3 : a[j] = b[j]
  OBVIOUS
<1>9. a[2] = b[2] /\ a[3] = b[3] => b[4] <= a[4]
  BY <1>3, <1>8
<1>10. a[2] = b[2] /\ a[3] = b[3] /\ a[4] = b[4] => \A j \in 1..4 : a[j] = b[j]
  OBVIOUS
<1>11. a[2] = b[2] /\ a[3] = b[3] /\ a[4] = b[4] => b[5] <= a[5]
  BY <1>3, <1>10
<1>12. QED
  BY <1>5, <1>7, <1>9, <1>11

\* The keys of a pod that is on a node.
LEMMA KeysOnNode ==
    ASSUME NEW p \in Pod, NEW r \in Nat, p.node # None
    PROVE  LET k == Keys(p, r)
           IN  /\ k \in KeyTuples
               /\ k[1] = 1 /\ k[2] = Ordinal(p.phase) /\ k[3] = Bit(p.ready) /\ k[4] = -r
               /\ k[5] = IF p.ready THEN -p.readyAt ELSE 0
  BY KeysType DEF Keys, Bit

\* A pod that does not go before p is the better one, or as good: a phase that is no
\* earlier, then readiness, then a rank on its node that is no higher, then time.
LEMMA NotBefore ==
    ASSUME NEW p \in Pod, NEW q \in Pod, NEW r \in Nat, NEW s \in Nat,
           p.node # None, q.node # None, IsRunning(p), ~Less(q, s, p, r)
    PROVE  /\ IsRunning(q)
           /\ p.ready => q.ready /\ s <= r
           /\ p.ready /\ s = r => q.readyAt <= p.readyAt
<1> DEFINE a == Keys(q, s)  b == Keys(p, r)
<1>1. /\ a \in KeyTuples /\ b \in KeyTuples /\ ~Lexicographic(a, b)
      /\ a[1] = 1 /\ b[1] = 1
      /\ a[2] = Ordinal(q.phase) /\ b[2] = Ordinal(p.phase)
      /\ a[3] = Bit(q.ready) /\ b[3] = Bit(p.ready)
      /\ a[4] = -s /\ b[4] = -r
      /\ a[5] = (IF q.ready THEN -q.readyAt ELSE 0) /\ b[5] = (IF p.ready THEN -p.readyAt ELSE 0)
  BY KeysOnNode DEF Less
<1> HIDE DEF a, b
<1>2. /\ b[2] <= a[2]
      /\ a[2] = b[2] => b[3] <= a[3]
      /\ a[2] = b[2] /\ a[3] = b[3] => b[4] <= a[4]
      /\ a[2] = b[2] /\ a[3] = b[3] /\ a[4] = b[4] => b[5] <= a[5]
  BY <1>1, LexicographicSteps
<1>3. /\ q.phase \in {"Pending", "Unknown", "Running"}
      /\ q.readyAt \in Nat /\ p.readyAt \in Nat
      /\ p.ready \in BOOLEAN /\ q.ready \in BOOLEAN
  BY DEF Pod
<1>4. IsRunning(q) /\ a[2] = b[2]
  <2>1. b[2] = 2
    BY <1>1 DEF IsRunning, Ordinal
  <2>2. a[2] \in {0, 1, 2} /\ (a[2] = 2 => IsRunning(q))
    BY <1>1, <1>3 DEF IsRunning, Ordinal
  <2>3. QED
    BY <1>2, <2>1, <2>2
<1>5. p.ready => q.ready /\ a[3] = b[3]
  <2>1. p.ready => b[3] = 1
    BY <1>1 DEF Bit
  <2>2. (q.ready /\ a[3] = 1) \/ (~q.ready /\ a[3] = 0)
    BY <1>1 DEF Bit
  <2>3. QED
    BY <1>2, <1>4, <2>1, <2>2
<1>6. p.ready => s <= r
  <2>1. p.ready => -r <= -s
    BY <1>1, <1>2, <1>4, <1>5
  <2>2. QED
    BY <2>1
<1>7. p.ready /\ s = r => q.readyAt <= p.readyAt
  <2>1. p.ready /\ s = r => -p.readyAt <= -q.readyAt
    BY <1>1, <1>2, <1>4, <1>5
  <2>2. QED
    BY <1>3, <2>1
<1>8. QED
  BY <1>4, <1>5, <1>6, <1>7

\* A pod that the cluster or the pass changes is ready only if it runs.
LEMMA ChangedPodRuns ==
    ASSUME TypeOK, ReadyPodsRun(pods), NEW n \in Names, NEW p \in Pod \cup {None},
           Write(n, p), p # None /\ p.ready => IsRunning(p)
    PROVE  ReadyPodsRun(pods')
  BY DEF TypeOK, Write, ReadyPodsRun, Members

LEMMA PodStepRuns ==
    ASSUME TypeOK, ReadyPodsRun(pods), NEW n \in Names,
           \/ \E node \in Nodes : Schedule(n, node)
           \/ Start(n) \/ BecomeReady(n) \/ LoseReadiness(n) \/ Lose(n) \/ Mark(n)
    PROVE  ReadyPodsRun(pods') /\ job' = job
<1> USE DEF Write, IsRunning
<1>1. /\ pods[n] # None => pods[n] \in Pod
      /\ pods[n] # None /\ pods[n].ready => pods[n].phase = "Running"
  BY DEF TypeOK, ReadyPodsRun, Members
<1>2. \A m \in Names \ {n} : pods[m] # None /\ pods[m].ready => pods[m].phase = "Running"
  BY DEF ReadyPodsRun, Members
<1>3. ASSUME NEW p, pods' = [pods EXCEPT ![n] = p],
             p # None /\ p.ready => p.phase = "Running"
      PROVE  ReadyPodsRun(pods')
  <2>1. pods'[n] = p /\ \A m \in Names \ {n} : pods'[m] = pods[m]
    BY <1>3 DEF TypeOK
  <2>2. QED
    BY <1>2, <1>3, <2>1 DEF ReadyPodsRun, Members
<1>4. CASE \E node \in Nodes : Schedule(n, node)
  <2>1. PICK node \in Nodes : Schedule(n, node)
    BY <1>4
  <2> DEFINE p == [pods[n] EXCEPT !.node = node]
  <2>2. pods' = [pods EXCEPT ![n] = p] /\ job' = job /\ pods[n] # None
    BY <2>1 DEF Schedule
  <2>3. p.ready = pods[n].ready /\ p.phase = pods[n].phase
    BY <1>1, <2>2 DEF Pod
  <2>4. QED
    BY <1>1, <1>3, <2>2, <2>3
<1>5. CASE Start(n)
  <2> DEFINE p == [pods[n] EXCEPT !.phase = "Running"]
  <2>1. pods' = [pods EXCEPT ![n] = p] /\ job' = job /\ pods[n] # None
    BY <1>5 DEF Start
  <2>2. p.phase = "Running"
    BY <1>1, <2>1 DEF Pod
  <2>3. QED
    BY <1>3, <2>1, <2>2
<1>6. CASE BecomeReady(n)
  <2> DEFINE p == [pods[n] EXCEPT !.ready = TRUE, !.readyAt = now]
  <2>1. /\ pods' = [pods EXCEPT ![n] = p] /\ job' = job /\ pods[n] # None
        /\ pods[n].phase = "Running"
    BY <1>6 DEF BecomeReady
  <2>2. p.phase = pods[n].phase
    BY <1>1, <2>1 DEF Pod
  <2>3. QED
    BY <1>3, <2>1, <2>2
<1>7. CASE LoseReadiness(n)
  <2> DEFINE p == [pods[n] EXCEPT !.ready = FALSE, !.readyAt = 0, !.restarts = @ + 1]
             q == [pods[n] EXCEPT !.ready = FALSE, !.readyAt = 0]
  <2>1. /\ pods' = [pods EXCEPT ![n] = p] \/ pods' = [pods EXCEPT ![n] = q]
        /\ job' = job /\ pods[n] # None
    BY <1>7 DEF LoseReadiness
  <2>2. ~p.ready /\ ~q.ready
    BY <1>1, <2>1 DEF Pod
  <2>3. QED
    BY <1>3, <2>1, <2>2
<1>8. CASE Lose(n)
  BY <1>3, <1>8 DEF Lose
<1>9. CASE Mark(n)
  <2> DEFINE p == [pods[n] EXCEPT !.sdel = TRUE]
  <2>1. pods' = [pods EXCEPT ![n] = p] /\ job' = job /\ pods[n] # None
    BY <1>9 DEF Mark
  <2>2. p.ready = pods[n].ready /\ p.phase = pods[n].phase
    BY <1>1, <2>1 DEF Pod
  <2>3. QED
    BY <1>1, <1>3, <2>1, <2>2
<1>10. QED
  BY <1>4, <1>5, <1>6, <1>7, <1>8, <1>9

LEMMA ScaleStepRuns ==
    ASSUME TypeOK, ReadyPodsRun(pods),
           ScaleOut \/ DeleteSpecified \/ ScaleIn \/ NothingToScale
    PROVE  ReadyPodsRun(pods') /\ job'.view = job.view
<1>1. CASE ScaleOut
  <2>1. PICK S \in SUBSET {n \in Names : pods[n] = None /\ job.view[n] = None} :
           /\ \E f \in BOOLEAN : Scaled(f)
           /\ pods' = [n \in Names |-> IF n \in S THEN NewPod ELSE pods[n]]
    BY <1>1 DEF ScaleOut
  <2>2. ~NewPod.ready
    BY DEF NewPod
  <2>3. job'.view = job.view
    BY <2>1 DEF Scaled, TypeOK
  <2>4. QED
    BY <2>1, <2>2, <2>3 DEF ReadyPodsRun, Members
<1>2. ASSUME NEW D, DeletePods(D)
      PROVE  ReadyPodsRun(pods') /\ job'.view = job.view
  <2>1. PICK S \in SUBSET {n \in D : pods[n] # None} :
           /\ \E f \in BOOLEAN : Scaled(f)
           /\ pods' = [n \in Names |-> IF n \in S THEN None ELSE pods[n]]
    BY <1>2 DEF DeletePods
  <2>2. job'.view = job.view
    BY <2>1 DEF Scaled, TypeOK
  <2>3. QED
    BY <2>1, <2>2 DEF ReadyPodsRun, Members
<1>3. CASE NothingToScale
  BY <1>3 DEF NothingToScale, Scaled, TypeOK
<1>4. QED
  BY <1>1, <1>2, <1>3 DEF DeleteSpecified, ScaleIn

\* Only running pods are ever listed as ready.
LEMMA StepRuns == TypeOK /\ OnlyRunningAreReady /\ [Next]_vars => OnlyRunningAreReady'
<1> SUFFICES ASSUME TypeOK, OnlyRunningAreReady, [Next]_vars PROVE OnlyRunningAreReady'
  OBVIOUS
<1>1. ReadyPodsRun(Idle.view)
  BY DEF ReadyPodsRun, Members, Idle, NoView
<1>2. [Idle EXCEPT !.failed = job.failed].view = Idle.view
  BY DEF Idle
<1>3. CASE pods' = pods /\ (job'.view = job.view \/ job'.view = pods \/ job'.view = Idle.view)
  BY <1>1, <1>3 DEF OnlyRunningAreReady
<1>4. ASSUME NEW n \in Names,
             \/ \E node \in Nodes : Schedule(n, node)
             \/ Start(n) \/ BecomeReady(n) \/ LoseReadiness(n) \/ Lose(n) \/ Mark(n)
      PROVE  OnlyRunningAreReady'
  BY <1>4, PodStepRuns DEF OnlyRunningAreReady
<1>5. CASE ScaleOut \/ DeleteSpecified \/ ScaleIn \/ NothingToScale
  BY <1>5, ScaleStepRuns DEF OnlyRunningAreReady
<1>6. CASE Tick \/ TimerFires \/ \E k \in 0..MaxReplicas : SetReplicas(k)
  BY <1>3, <1>6 DEF Tick, TimerFires, SetReplicas
<1>7. CASE Begin
  BY <1>3, <1>7 DEF Begin
<1>8. CASE UpdateStatus \/ StatusFails \/ FinishWell \/ FinishFailed \/ Crash
  BY <1>2, <1>3, <1>8 DEF UpdateStatus, StatusFails, FinishWell, FinishFailed, Crash, Retry
<1>9. CASE UNCHANGED vars
  BY <1>3, <1>9 DEF vars
<1>10. QED
  BY <1>4, <1>5, <1>6, <1>7, <1>8, <1>9 DEF Next

LEMMA InitialRuns == ReadyPodsRun(InitPods) /\ Init => OnlyRunningAreReady
  BY DEF Init, OnlyRunningAreReady, ReadyPodsRun, Members, Idle, NoView

LEMMA OnlyRunningInvariant ==
    ASSUME ReadyPodsRun(InitPods)
    PROVE  Spec => [](TypeOK /\ OnlyRunningAreReady)
<1>1. Init => TypeOK /\ OnlyRunningAreReady
  BY InitialType, InitialRuns
<1>2. TypeOK /\ OnlyRunningAreReady /\ [Next]_vars => (TypeOK /\ OnlyRunningAreReady)'
  BY StepType, StepRuns
<1>3. QED
  BY <1>1, <1>2, PTL DEF Spec

LEMMA RanksAreCounted ==
    ASSUME NEW n \in Nat
    PROVE  /\ IsFiniteSet(0..n) /\ Cardinality(0..n) = n + 1
           /\ Cardinality(0..(n - 1)) = n
<1>1. 0 \in Int /\ n \in Int /\ n - 1 \in Int
  OBVIOUS
<1>2. IsFiniteSet(0..n) /\ Cardinality(0..n) = IF 0 > n THEN 0 ELSE n - 0 + 1
  BY <1>1, FS_Interval
<1>3. Cardinality(0..(n - 1)) = IF 0 > n - 1 THEN 0 ELSE (n - 1) - 0 + 1
  BY <1>1, FS_Interval
<1>4. QED
  BY <1>2, <1>3

\* In the order of their ranks, the pods of a node that come first are taken
\* from its high ranks: if one of node a is taken and D comes before the pods
\* of node b that stay, no more of b than one more than of a stay.
LEMMA SortedBalance ==
    ASSUME NEW view \in [Names -> Pod \cup {None}], NEW rank \in Rankings(view),
           NEW a \in Nodes, NEW b \in Nodes, NEW D \in SUBSET Members(view),
           NEW d \in D, view[d].node = a,
           \A s \in D \cap OnNode(view, a), w \in OnNode(view, b) \ D : rank[w] <= rank[s]
    PROVE  Cardinality(OnNode(view, b) \ D) <= Cardinality(OnNode(view, a) \ D) + 1
<1> DEFINE A == OnNode(view, a)  B == OnNode(view, b)
           r == Cardinality(A \ D)
<1>1. /\ A \subseteq Members(view) /\ B \subseteq Members(view) /\ Members(view) \subseteq Names
      /\ d \in A
  BY DEF OnNode, Members
<1>2. /\ rank \in [Members(view) -> 0..Cardinality(Names)]
      /\ {rank[n] : n \in A} = 0..(Cardinality(A) - 1)
      /\ {rank[n] : n \in B} = 0..(Cardinality(B) - 1)
  BY DEF Rankings, IsRanking
<1>3. /\ IsFiniteSet(A) /\ Cardinality(A) \in Nat
      /\ IsFiniteSet(B) /\ Cardinality(B) \in Nat
      /\ IsFiniteSet(A \ D) /\ r \in Nat
      /\ IsFiniteSet(B \ D) /\ Cardinality(B \ D) \in Nat
      /\ Cardinality(Names) \in Nat
  BY <1>1, NamesAreCounted
<1>4. r < Cardinality(A)
  <2>1. A \ D \in SUBSET A /\ A \ D # A
    BY <1>1
  <2>2. r <= Cardinality(A) /\ (Cardinality(A) = r => A = A \ D)
    BY <1>3, <2>1, FS_Subset
  <2>3. QED
    BY <1>3, <2>1, <2>2
<1> HIDE DEF A, B, r
\* The ranks 0..r are one more than the pods of a that stay can have.
<1>5. PICK s \in A \cap D : rank[s] <= r
  <2>1. SUFFICES ASSUME \A s \in A \cap D : ~(rank[s] <= r) PROVE FALSE
    OBVIOUS
  <2> DEFINE low == {n \in A \ D : rank[n] <= r}
             f == [n \in low |-> rank[n]]
  <2>2. \A n \in A : rank[n] \in Nat
    BY <1>1, <1>2, <1>3
  <2>3. f \in [low -> 0..r]
    BY <1>3, <2>2
  <2>4. ASSUME NEW t \in 0..r PROVE \E n \in low : f[n] = t
    <3>1. t \in {rank[n] : n \in A}
      BY <1>2, <1>3, <1>4
    <3>2. PICK n \in A : rank[n] = t
      BY <3>1
    <3>3. n \in low
      BY <2>1, <3>2
    <3>4. QED
      BY <3>2, <3>3
  <2> HIDE DEF f
  <2>5. f \in Surjection(low, 0..r)
    BY <2>3, <2>4 DEF Surjection
  <2>6. low \in SUBSET (A \ D)
    OBVIOUS
  <2> HIDE DEF low
  <2>7. IsFiniteSet(low) /\ Cardinality(low) <= r
    BY <1>3, <2>6, FS_Subset DEF r
  <2>8. Cardinality(0..r) <= Cardinality(low)
    BY <2>5, <2>7, FS_Surjection
  <2>9. Cardinality(0..r) = r + 1
    BY <1>3, RanksAreCounted
  <2>10. Cardinality(low) \in Nat
    BY <2>7, FS_CardinalityType
  <2>11. QED
    BY <1>3, <2>7, <2>8, <2>9, <2>10
\* No two pods of a node have one rank.
<1>6. \A m, n \in B : rank[m] = rank[n] => m = n
  <2> DEFINE f == [n \in B |-> rank[n]]
             T == 0..(Cardinality(B) - 1)
  <2>1. f \in [B -> T] /\ \A t \in T : \E n \in B : f[n] = t
    <3>1. \A n \in B : rank[n] \in T
      BY <1>2
    <3>2. \A t \in T : \E n \in B : rank[n] = t
      BY <1>2
    <3>3. QED
      BY <3>1, <3>2
  <2>2. Cardinality(T) = Cardinality(B)
    BY <1>3, RanksAreCounted
  <2> HIDE DEF T
  <2>3. f \in Surjection(B, T)
    BY <2>1 DEF Surjection
  <2>4. f \in Injection(B, T)
    BY <1>3, <2>2, <2>3, FS_SurjSameCardinalityImpliesInj
  <2>5. \A m, n \in B : f[m] = f[n] => m = n
    BY <2>4 DEF Injection, IsInjective
  <2>6. QED
    BY <2>5
\* The pods of b that stay have ranks up to r, each its own.
<1>7. Cardinality(B \ D) <= r + 1
  <2> DEFINE g == [n \in B \ D |-> rank[n]]
  <2>1. \A n \in B \ D : rank[n] \in 0..r
    <3> TAKE n \in B \ D
    <3>1. rank[n] <= rank[s]
      BY <1>5 DEF A, B
    <3>2. rank[n] \in Nat /\ rank[s] \in Nat
      BY <1>1, <1>2, <1>3, <1>5
    <3>3. QED
      BY <1>3, <1>5, <3>1, <3>2
  <2>2. g \in [B \ D -> 0..r] /\ \A m, n \in B \ D : g[m] = g[n] => m = n
    BY <1>6, <2>1
  <2>3. DOMAIN g = B \ D
    OBVIOUS
  <2> HIDE DEF g
  <2>4. g \in Injection(B \ D, 0..r)
    BY <2>2, <2>3 DEF Injection, IsInjective
  <2>5. IsFiniteSet(0..r) /\ Cardinality(0..r) = r + 1
    BY <1>3, RanksAreCounted
  <2>6. QED
    BY <2>4, <2>5, FS_Injection
<1>8. QED
  BY <1>7 DEF A, B, r

-----------------------------------------------------------------------------
(* The choice of a scale in. *)

LEMMA GetValueType ==
    ASSUME NEW v \in U!IntOrPercent, NEW total \in Nat, NEW up \in BOOLEAN
    PROVE  U!GetValue(v, total, up) \in Nat
<1> DEFINE num == v.value * total + (IF up THEN 99 ELSE 0)
<1>1. v.value \in Nat
  BY DEF U!IntOrPercent
<1>2. num \in Nat
  <2>1. v.value * total \in Nat
    BY <1>1
  <2>2. QED
    BY <2>1
<1> HIDE DEF num
<1>3. num \div 100 \in Nat
  BY <1>2
<1>4. U!GetValue(v, total, up) = IF ~v.percent THEN v.value ELSE num \div 100
  BY DEF U!GetValue, num
<1>5. QED
  BY <1>1, <1>3, <1>4

\* The decisions count sets as the theorems do.
LEMMA SameCount == ASSUME NEW S PROVE U!Cardinality(S) = Cardinality(S)
  BY DEF U!Cardinality, Cardinality

\* If all pods listed are to go, the limit lets every running one through.
LEMMA WholeIsDeleted ==
    ASSUME TypeOK, SpecifiedDelete = {},
           Diffs.scaleDownNum = Cardinality(Members(job.view)), Diffs.scaleDownNum > 0
    PROVE  Cardinality(Running(Members(job.view), job.view)) <= Diffs.deleteReadyLimit
<1> DEFINE W   == Members(job.view)
           down == {n \in W : ~IsRunning(job.view[n])}
           up  == Running(W, job.view)
           all == Cardinality(W)
           k   == job.replicas
           use == U!UseSurge(k, 0, 0)
<1>1. /\ k \in Nat /\ W \in SUBSET Names /\ down \in SUBSET Names /\ up \in SUBSET Names
      /\ up = W \ down /\ W \cap down = down
  BY DEF TypeOK, Members, Running
<1>2. /\ IsFiniteSet(W) /\ all \in Nat /\ Cardinality(down) \in Nat
      /\ Cardinality(up) = all - Cardinality(down)
  <2>1. IsFiniteSet(W) /\ all \in Nat /\ Cardinality(down) \in Nat
    BY <1>1, NamesAreCounted
  <2>2. Cardinality(W \ down) = Cardinality(W) - Cardinality(W \cap down)
    BY <2>1, FS_Difference
  <2>3. QED
    BY <1>1, <2>1, <2>2
<1>3. U!Surge(k) \in Nat /\ U!Unavailable(k) \in Nat
  <2>1. U!Surge(k) \in Nat
    BY <1>1, StrategyAssumption, GetValueType DEF U!Surge
  <2>2. (U!Surge(k) = 0) \in BOOLEAN
    OBVIOUS
  <2>3. QED
    BY <1>1, <2>1, <2>2, StrategyAssumption, GetValueType DEF U!Unavailable
<1>4. use = 0
  BY <1>3 DEF U!UseSurge, U!Smaller, U!Larger
<1>5. /\ U!Members(job.view) = W /\ U!SpecifiedDelete(job.view) = {}
      /\ U!NotRunning(job.view) \ {} = down
      /\ (W \ U!Updated(job.view, Revision)) \ {} = {}
  <2>1. U!Members(job.view) = W
    BY DEF U!Members, Members
  <2>2. U!SpecifiedDelete(job.view) = {}
    BY <2>1 DEF U!SpecifiedDelete, SpecifiedDelete
  <2>3. U!NotRunning(job.view) = down
    BY <2>1 DEF U!NotRunning, U!IsRunning, IsRunning
  <2>4. U!Updated(job.view, Revision) = W
    <3>1. \A n \in W : job.view[n].rev = Revision
      BY DEF TypeOK, Members, Pod
    <3>2. QED
      BY <2>1, <3>1 DEF U!Updated
  <2>5. QED
    BY <2>1, <2>2, <2>3, <2>4
<1>6. Cardinality({}) = 0
  BY FS_EmptySet
<1> HIDE DEF W, down, up, all, use
<1>7. /\ Diffs.scaleDownNum = U!Larger(all - (k + use) - 0, 0)
      /\ Diffs.deleteReadyLimit = IF 0 > 0 \/ Diffs.scaleDownNum > 0
                                  THEN U!DeleteReadyLimit(k, all, Cardinality(down))
                                  ELSE 0
  BY <1>5, <1>6, SameCount DEF Diffs, U!Diffs, all, use
<1>8. Diffs.scaleDownNum = all
  BY DEF W, all
<1>9. k = 0
  BY <1>1, <1>2, <1>4, <1>7, <1>8 DEF U!Larger
<1>10. Diffs.deleteReadyLimit = U!DeleteReadyLimit(0, all, Cardinality(down))
  BY <1>7, <1>9
<1>11. Diffs.deleteReadyLimit >= all - Cardinality(down)
  <2>1. U!Unavailable(0) \in Nat
    BY <1>3, <1>9
  <2>2. QED
    BY <1>2, <1>10, <2>1 DEF U!DeleteReadyLimit, U!Larger
<1>12. QED
  BY <1>2, <1>11 DEF up, W

\* The pods to delete come first, as far as they are running: no pod that stays
\* goes before a running one that is taken.
LEMMA ChosenFirst ==
    ASSUME NEW view, NEW k, NEW limit \in Nat,
           k = Cardinality(Members(view)) =>
               Cardinality(Running(Members(view), view)) <= limit,
           k \in Nat, NEW D \in ScaleInChoices(view, k, limit)
    PROVE  /\ D \in SUBSET Members(view)
           /\ \E rank \in Rankings(view) :
                 \A d \in D, n \in Members(view) \ D :
                    IsRunning(view[d]) => ~Less(view[n], rank[n], view[d], rank[d])
<1> DEFINE W == Members(view)
           Within(C, R) == /\ R \subseteq Running(C, view)
                           /\ \/ R = Running(C, view) /\ Cardinality(R) <= limit
                              \/ R # Running(C, view) /\ Cardinality(R) = limit
<1>1. D \in SUBSET W
  BY DEF ScaleInChoices
<1>2. PICK C \in SUBSET W, rank \in Rankings(view), R \in SUBSET W :
         /\ Cardinality(C) = k
         /\ k < Cardinality(W) => SortedFirst(C, W, view, rank)
         /\ Within(C, R)
         /\ k < Cardinality(W) => SortedFirst(R, Running(C, view), view, rank)
         /\ D = (C \ Running(C, view)) \cup R
  BY DEF ScaleInChoices
<1>3. W \in SUBSET Names
  BY DEF Members
<1>4. IsFiniteSet(W) /\ Cardinality(W) \in Nat
  BY <1>3, NamesAreCounted
<1>5. CASE k < Cardinality(W)
  <2>1. ASSUME NEW d \in D, NEW n \in W \ D, IsRunning(view[d])
        PROVE  ~Less(view[n], rank[n], view[d], rank[d])
    <3>1. d \in R /\ d \in C
      BY <1>2, <2>1 DEF Running
    <3>2. CASE n \notin C
      BY <1>2, <1>5, <3>1, <3>2 DEF SortedFirst
    <3>3. CASE n \in C
      <4>1. n \in Running(C, view) \ R
        BY <1>2, <3>3
      <4>2. QED
        BY <1>2, <1>5, <3>1, <4>1 DEF SortedFirst
    <3>4. QED
      BY <3>2, <3>3
  <2>2. QED
    BY <1>1, <2>1
<1>6. CASE ~(k < Cardinality(W))
  <2>1. C = W
    BY <1>2, <1>4, <1>6, FS_Subset
  <2>2. Running(W, view) \in SUBSET Names
    BY <1>3 DEF Running
  <2>3. R = Running(W, view)
    <3>1. R \in SUBSET Running(W, view)
      BY <1>2, <2>1
    <3>2. /\ IsFiniteSet(Running(W, view)) /\ Cardinality(Running(W, view)) \in Nat
          /\ Cardinality(R) <= Cardinality(Running(W, view))
          /\ Cardinality(Running(W, view)) = Cardinality(R) => Running(W, view) = R
      BY <2>2, <3>1, NamesAreCounted, FS_Subset
    <3>3. Cardinality(Running(W, view)) <= limit
      BY <1>2, <2>1
    <3>4. R # Running(W, view) => Cardinality(R) = limit
      BY <1>2, <2>1
    <3>5. QED
      BY <3>2, <3>3, <3>4
  <2>4. D = W
    BY <1>2, <2>1, <2>3 DEF Running
  <2>5. QED
    BY <1>1, <2>4
<1>7. QED
  BY <1>5, <1>6

LEMMA DiffsType ==
    ASSUME TypeOK
    PROVE  Diffs.scaleDownNum \in Nat /\ Diffs.deleteReadyLimit \in Nat
<1> DEFINE all      == Cardinality(U!Members(job.view))
           marked   == Cardinality(U!SpecifiedDelete(job.view))
           down     == Cardinality(U!NotRunning(job.view) \ U!SpecifiedDelete(job.view))
           outdated == Cardinality((U!Members(job.view) \ U!Updated(job.view, Revision))
                                      \ U!SpecifiedDelete(job.view))
           k        == job.replicas
           use      == U!UseSurge(k, marked, outdated)
<1>1. k \in Nat /\ all \in Nat /\ marked \in Nat /\ down \in Nat /\ outdated \in Nat
  <2>1. k \in Nat
    BY DEF TypeOK
  <2>2. U!Members(job.view) \in SUBSET Names
    BY DEF U!Members
  <2>3. /\ U!SpecifiedDelete(job.view) \in SUBSET Names
        /\ U!NotRunning(job.view) \ U!SpecifiedDelete(job.view) \in SUBSET Names
    BY <2>2 DEF U!SpecifiedDelete, U!NotRunning
  <2>4. QED
    BY <2>1, <2>2, <2>3, NamesAreCounted
<1>2. U!Surge(k) \in Nat /\ U!Unavailable(k) \in Nat
  <2>1. U!Surge(k) \in Nat
    BY <1>1, StrategyAssumption, GetValueType DEF U!Surge
  <2>2. (U!Surge(k) = 0) \in BOOLEAN
    OBVIOUS
  <2>3. QED
    BY <1>1, <2>1, <2>2, StrategyAssumption, GetValueType DEF U!Unavailable
<1>3. use \in Nat
  BY <1>1, <1>2 DEF U!UseSurge, U!Smaller, U!Larger
<1> DEFINE excess == all - (k + use)
<1>4. /\ Diffs.scaleDownNum = U!Larger(excess - marked, 0)
      /\ Diffs.deleteReadyLimit = IF marked > 0 \/ U!Larger(excess - marked, 0) > 0
                                  THEN U!DeleteReadyLimit(k, all, down)
                                  ELSE 0
  BY SameCount DEF Diffs, U!Diffs
<1> HIDE DEF all, marked, down, outdated, k, use
<1>5. U!Larger(excess - marked, 0) \in Nat
  BY <1>1, <1>3 DEF U!Larger
<1>6. U!DeleteReadyLimit(k, all, down) \in Nat
  BY <1>1, <1>2 DEF U!DeleteReadyLimit, U!Larger
<1>7. QED
  BY <1>4, <1>5, <1>6

\* What deletePods deletes when no call fails: the pods that are still there.
LEMMA AllDeleted ==
    ASSUME TypeOK, NEW D \in SUBSET Names, DeletePods(D), ~job'.failed
    PROVE  Deleted = {n \in D : pods[n] # None}
<1>1. Scaled(TRUE) => job'.failed
  BY DEF Scaled, TypeOK
<1>2. PICK S \in SUBSET {n \in D : pods[n] # None} :
         /\ \A n \in D \ S : pods[n] = None
         /\ pods' = [n \in Names |-> IF n \in S THEN None ELSE pods[n]]
  BY <1>1 DEF DeletePods
<1>3. QED
  BY <1>2 DEF Deleted

\* A scale in without errors deletes the running pods that come first.
LEMMA ScaledIn ==
    ASSUME TypeOK, [Next]_vars, ScalesIn, ~job'.failed
    PROVE  \E D \in SUBSET Members(job.view), rank \in Rankings(job.view) :
              /\ Deleted = {n \in D : pods[n] # None}
              /\ \A d \in D, n \in Members(job.view) \ D :
                    IsRunning(job.view[d]) =>
                        ~Less(job.view[n], rank[n], job.view[d], rank[d])
<1>1. /\ pc = "scale" /\ pc' = "status" /\ SpecifiedDelete = {}
      /\ Deleted # {}
  BY DEF ScalesIn
<1>2. ~DeleteSpecified
  <2>1. \A D \in SpecifiedDeleteChoices : D = {}
    BY <1>1 DEF SpecifiedDeleteChoices
  <2>2. QED
    BY <2>1 DEF DeleteSpecified
<1>3. ~ScaleOut
  <2>1. SUFFICES ASSUME ScaleOut PROVE FALSE
    OBVIOUS
  <2>2. PICK S \in SUBSET {n \in Names : pods[n] = None /\ job.view[n] = None} :
           pods' = [n \in Names |-> IF n \in S THEN NewPod ELSE pods[n]]
    BY <2>1 DEF ScaleOut
  <2>3. PICK n \in Names : pods[n] # None /\ pods'[n] = None
    BY <1>1 DEF Deleted
  <2>4. QED
    BY <2>2, <2>3
<1>4. ~NothingToScale
  BY <1>1 DEF NothingToScale, Deleted
<1>5. ScaleIn
  <2>1. ~(\E n \in Names : \/ \E node \in Nodes : Schedule(n, node)
                           \/ Start(n) \/ BecomeReady(n) \/ LoseReadiness(n)
                           \/ Lose(n) \/ Mark(n))
    BY <1>1 DEF Schedule, Start, BecomeReady, LoseReadiness, Lose, Mark, Write
  <2>2. ~(Tick \/ TimerFires \/ \E k \in 0..MaxReplicas : SetReplicas(k))
    BY <1>1 DEF Tick, TimerFires, SetReplicas
  <2>3. ~(Begin \/ UpdateStatus \/ StatusFails \/ FinishWell \/ FinishFailed \/ Crash)
    BY <1>1 DEF Begin, UpdateStatus, StatusFails, FinishWell, FinishFailed, Crash, Retry
  <2>4. ~UNCHANGED vars
    BY <1>1 DEF vars
  <2>5. QED
    BY <1>2, <1>3, <1>4, <2>1, <2>2, <2>3, <2>4 DEF Next
<1>6. PICK D \in ScaleInChoices(job.view, Diffs.scaleDownNum, Diffs.deleteReadyLimit) :
         DeletePods(D)
  BY <1>5 DEF ScaleIn
<1>7. Diffs.scaleDownNum > 0
  BY <1>5 DEF ScaleIn
<1>8. Diffs.scaleDownNum = Cardinality(Members(job.view)) =>
          Cardinality(Running(Members(job.view), job.view)) <= Diffs.deleteReadyLimit
  BY <1>1, <1>7, WholeIsDeleted
<1>9. PICK rank \in Rankings(job.view) :
         /\ D \in SUBSET Members(job.view)
         /\ \A d \in D, n \in Members(job.view) \ D :
               IsRunning(job.view[d]) =>
                   ~Less(job.view[n], rank[n], job.view[d], rank[d])
  <2> DEFINE k == Diffs.scaleDownNum  limit == Diffs.deleteReadyLimit  view == job.view
  <2>1. k \in Nat /\ limit \in Nat
    BY DiffsType
  <2>2. D \in ScaleInChoices(view, k, limit)
    BY <1>6
  <2>3. k = Cardinality(Members(view)) => Cardinality(Running(Members(view), view)) <= limit
    BY <1>8
  <2> HIDE DEF k, limit, view
  <2>4. /\ D \in SUBSET Members(view)
        /\ \E rank \in Rankings(view) :
              \A d \in D, n \in Members(view) \ D :
                 IsRunning(view[d]) => ~Less(view[n], rank[n], view[d], rank[d])
    BY <2>1, <2>2, <2>3, ChosenFirst
  <2>5. QED
    BY <2>4 DEF view
<1>10. D \in SUBSET Names
  BY <1>9 DEF Members
<1>11. Deleted = {n \in D : pods[n] # None}
  BY <1>6, <1>10, AllDeleted
<1>12. QED
  BY <1>9, <1>11

\* A pod that stays and one that is taken, both on nodes, the latter running.
LEMMA TakenIsNoBetter ==
    ASSUME TypeOK, NEW rank \in Rankings(job.view),
           NEW d \in Members(job.view), NEW n \in Members(job.view),
           job.view[d].node # None, job.view[n].node # None, IsRunning(job.view[d]),
           ~Less(job.view[n], rank[n], job.view[d], rank[d])
    PROVE  /\ IsRunning(job.view[n])
           /\ job.view[d].ready => job.view[n].ready /\ rank[n] <= rank[d]
           /\ job.view[d].ready /\ rank[n] = rank[d] => job.view[n].readyAt <= job.view[d].readyAt
<1>1. job.view[d] \in Pod /\ job.view[n] \in Pod
  BY DEF TypeOK, Members
<1>2. Cardinality(Names) \in Nat
  BY NamesAreCounted
<1>3. rank[d] \in Nat /\ rank[n] \in Nat
  BY <1>2 DEF Rankings
<1>4. QED
  BY <1>1, <1>3, NotBefore

\* Of two ready pods of one node, the one that has been ready longer has the lower rank.
LEMMA LongerReadyRanksLower ==
    ASSUME TypeOK, NEW rank \in Rankings(job.view), NEW node \in Nodes,
           NEW d \in OnNode(job.view, node), NEW n \in OnNode(job.view, node),
           IsRunning(job.view[d]), IsRunning(job.view[n]),
           job.view[d].ready, job.view[n].ready,
           job.view[d].readyAt < job.view[n].readyAt
    PROVE  rank[d] < rank[n]
<1> DEFINE p == job.view[d]  q == job.view[n]
<1>1. /\ p \in Pod /\ q \in Pod /\ d \in Members(job.view) /\ n \in Members(job.view)
      /\ p.node # None /\ q.node # None /\ IsRunning(p) /\ IsRunning(q) /\ p.ready /\ q.ready
      /\ p.readyAt < q.readyAt
  BY PodSortsAssumption DEF TypeOK, Members, OnNode
<1>2. Cardinality(Names) \in Nat
  BY NamesAreCounted
<1>3. rank[d] \in Nat /\ rank[n] \in Nat
  BY <1>1, <1>2 DEF Rankings
<1>4. Less(q, 0, p, 0)
  <2>1. /\ 0 \in Nat /\ p.readyAt \in Nat /\ q.readyAt \in Nat
    BY <1>1 DEF Pod
  <2>2. ~(q.readyAt <= p.readyAt)
    BY <1>1, <2>1
  <2> HIDE DEF p, q
  <2>3. QED
    BY <1>1, <2>1, <2>2, NotBefore
<1>5. rank[n] > rank[d]
  BY <1>4 DEF Rankings, IsRanking
<1>6. QED
  BY <1>3, <1>5

LEMMA LongestReadyStep ==
    ASSUME TypeOK, OnlyRunningAreReady, [Next]_vars, ScalesIn, ~job'.failed,
           NEW d \in Deleted, NEW k \in Members(job.view) \ Deleted,
           pods[k] # None, job.view[d].node # None, job.view[d].node = job.view[k].node
    PROVE  /\ IsRunning(job.view[d]) => IsRunning(job.view[k])
           /\ job.view[d].ready =>
                job.view[k].ready /\ job.view[k].readyAt <= job.view[d].readyAt
<1>1. PICK D \in SUBSET Members(job.view), rank \in Rankings(job.view) :
         /\ Deleted = {n \in D : pods[n] # None}
         /\ \A s \in D, n \in Members(job.view) \ D :
               IsRunning(job.view[s]) =>
                   ~Less(job.view[n], rank[n], job.view[s], rank[s])
  BY ScaledIn
<1>2. d \in D /\ d \in Members(job.view) /\ k \in Members(job.view) \ D
  BY <1>1
<1>3. /\ job.view[d] \in Pod /\ job.view[k] \in Pod
      /\ job.view[d].ready => IsRunning(job.view[d])
  BY <1>2 DEF TypeOK, OnlyRunningAreReady, ReadyPodsRun, Members
<1>4. IsRunning(job.view[d]) =>
         /\ IsRunning(job.view[k])
         /\ job.view[d].ready => job.view[k].ready /\ rank[k] <= rank[d]
  BY <1>1, <1>2, TakenIsNoBetter
<1>5. job.view[d].ready => job.view[k].readyAt <= job.view[d].readyAt
  <2>1. SUFFICES ASSUME job.view[d].ready, job.view[d].readyAt < job.view[k].readyAt
                 PROVE  FALSE
    <3>1. job.view[d].readyAt \in Nat /\ job.view[k].readyAt \in Nat
      BY <1>3 DEF Pod
    <3>2. QED
      BY <3>1
  <2>2. PICK node \in Nodes : d \in OnNode(job.view, node) /\ k \in OnNode(job.view, node)
    BY <1>2, <1>3 DEF Pod, OnNode
  <2>3. rank[d] < rank[k] /\ rank[k] <= rank[d]
    BY <1>3, <1>4, <2>1, <2>2, LongerReadyRanksLower
  <2>4. rank[d] \in Nat /\ rank[k] \in Nat
    <3>1. Cardinality(Names) \in Nat
      BY NamesAreCounted
    <3>2. QED
      BY <1>2, <3>1 DEF Rankings
  <2>5. QED
    BY <2>3, <2>4
<1>6. QED
  BY <1>3, <1>4, <1>5

\* A scale in without errors keeps, of the pods of a node, those that run
\* before the pending ones, the ready ones before the others, and of these the
\* ones that have been ready longest (choosePodsToDelete,
\* ActivePodsWithRanks.Less), if only running pods are ready at the start.
THEOREM TheLongestReadyStay ==
    ASSUME ReadyPodsRun(InitPods)
    PROVE  Spec => LongestReadyStay
<1>1. TypeOK /\ OnlyRunningAreReady /\ [Next]_vars =>
         [ScalesIn /\ ~job'.failed =>
            \A d \in Deleted, k \in Members(job.view) \ Deleted :
               LET p == job.view[d]
                   q == job.view[k]
               IN  pods[k] # None /\ p.node # None /\ p.node = q.node =>
                     /\ IsRunning(p) => IsRunning(q)
                     /\ p.ready => q.ready /\ q.readyAt <= p.readyAt]_vars
  BY LongestReadyStep
<1>2. QED
  BY <1>1, OnlyRunningInvariant, PTL DEF Spec, LongestReadyStay

LEMMA BalanceStep ==
    ASSUME TypeOK, OnlyRunningAreReady, [Next]_vars, ScalesIn, ~job'.failed,
           \A n \in Members(job.view) : job.view[n].ready /\ pods[n] # None,
           NEW a \in Nodes, NEW b \in Nodes, NEW d \in Deleted, job.view[d].node = a
    PROVE  Cardinality(Kept(b)) <= Cardinality(Kept(a)) + 1
<1>1. PICK D \in SUBSET Members(job.view), rank \in Rankings(job.view) :
         /\ Deleted = {n \in D : pods[n] # None}
         /\ \A s \in D, n \in Members(job.view) \ D :
               IsRunning(job.view[s]) =>
                   ~Less(job.view[n], rank[n], job.view[s], rank[s])
  BY ScaledIn
<1>2. D = Deleted
  BY <1>1
<1>3. ASSUME NEW s \in D \cap OnNode(job.view, a), NEW w \in OnNode(job.view, b) \ D
      PROVE  rank[w] <= rank[s]
  <2>1. /\ s \in Members(job.view) /\ w \in Members(job.view) \ D
        /\ job.view[s].node # None /\ job.view[w].node # None
    BY <1>3, PodSortsAssumption DEF OnNode
  <2>2. job.view[s].ready /\ IsRunning(job.view[s])
    BY <2>1 DEF OnlyRunningAreReady, ReadyPodsRun
  <2>3. ~Less(job.view[w], rank[w], job.view[s], rank[s])
    BY <1>1, <1>3, <2>1, <2>2
  <2>4. QED
    BY <2>1, <2>2, <2>3, TakenIsNoBetter
<1> DEFINE view == job.view
<1>4. view \in [Names -> Pod \cup {None}]
  BY DEF TypeOK
<1>5. /\ rank \in Rankings(view) /\ D \in SUBSET Members(view) /\ d \in D /\ view[d].node = a
      /\ \A s \in D \cap OnNode(view, a), w \in OnNode(view, b) \ D : rank[w] <= rank[s]
  BY <1>1, <1>2, <1>3
<1> HIDE DEF view
<1>6. Cardinality(OnNode(view, b) \ D) <= Cardinality(OnNode(view, a) \ D) + 1
  BY <1>4, <1>5, SortedBalance
<1>7. QED
  BY <1>2, <1>6 DEF Kept, view

\* A scale in of ready pods evens the nodes out: none is taken from a node that
\* is left with two pods fewer than another (sameNodeRanker,
\* ActivePodsWithRanks.Less), if only running pods are ready at the start.
THEOREM NodesAreEvenedOut ==
    ASSUME ReadyPodsRun(InitPods)
    PROVE  Spec => NodesStayBalanced
<1>1. TypeOK /\ OnlyRunningAreReady /\ [Next]_vars =>
         [ScalesIn /\ ~job'.failed
            /\ (\A n \in Members(job.view) : job.view[n].ready /\ pods[n] # None) =>
            \A a, b \in Nodes :
               (\E n \in Deleted : job.view[n].node = a) =>
                   Cardinality(Kept(b)) <= Cardinality(Kept(a)) + 1]_vars
  BY BalanceStep
<1>2. QED
  BY <1>1, OnlyRunningInvariant, PTL DEF Spec, NodesStayBalanced
=============================================================================
