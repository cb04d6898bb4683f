-------------------------- MODULE RevisionsProofs ---------------------------
(***************************************************************************)
(* What Revisions promises for any pods, templates, names and collisions,  *)
(* any limit, and disturbances without end: its types; that no revision a  *)
(* pod is at is dropped; and, where lists and calls are what they seem,    *)
(* that the revision a pod is labelled with has what the pod runs, that    *)
(* the status names the revision of the template, which has the highest    *)
(* number, and that truncation leaves enough to roll back to.              *)
(***************************************************************************)
EXTENDS Revisions, SequenceTheorems, FiniteSetTheorems, TLAPS

-----------------------------------------------------------------------------
(* The invariants. *)

\* A revision has a name of its template.
Named(n, r) == r # None => \E i \in 0 .. MaxCollisions : n = HashName[<<r.template, i>>]

NamesFit ==
    /\ \A n \in Names : Named(n, store[n]) /\ Named(n, revCache[n])
    /\ \A i \in 1 .. Len(lag) : Named(lag[i][1], lag[i][2])

UpdateChosen ==
    pc \in {"renumber", "versions", "sync", "status", "truncate", "drop"} => job.update \in Names

TypeInv == TypeOK /\ NamesFit /\ UpdateChosen

\* No timeout, and no change of the leader: writes are expected.
Orderly == suffered \subseteq {"stale"}

\* What the cache does not show of a pod is expected.
CacheCovers ==
    \A p \in Existing(pods) :
        \/ podCache[p] = pods[p] \/ p \in exp
        \/ rvExp[p] = pods[p] /\ podCache[p] # None

\* The scale expectations are met when the pods are listed ...
NothingAwaited == pc = "pods" => exp = {}

\* ... so that what the list does not show of a pod is a version expected,
ViewCovers ==
    pc \in {"revisions", "renumber", "create", "versions"} =>
        \A p \in Existing(pods) :
            \/ job.view[p] = pods[p]
            \/ rvExp[p] = pods[p] /\ job.view[p] # None

\* and past the gate it is what this pass has done itself.
ViewIsCurrent ==
    /\ pc \in {"sync", "status", "truncate", "drop"} =>
          \A p \in Existing(pods) : job.view[p] = pods[p] \/ pods[p].rev = job.update
    /\ pc = "sync" => \A p \in Existing(pods) : p \in job.todo => job.view[p] = pods[p]

\* The cache is at least as new as the list: an observed version stays seen.
CacheFollowsView ==
    pc \notin {"idle", "pods"} =>
        \A p \in Existing(pods) : job.view[p] = pods[p] => podCache[p] = pods[p]

LiveInv == CacheCovers /\ NothingAwaited /\ ViewCovers /\ ViewIsCurrent /\ CacheFollowsView

OldIsNotLive == pc = "drop" => job.old \subseteq NotLive

\* The last write of a name that is on its way is what the API server has.
LagLeads ==
    /\ \A n \in Names : (\A i \in 1 .. Len(lag) : lag[i][1] # n) => revCache[n] = store[n]
    /\ \A i \in 1 .. Len(lag) :
          (\A j \in 1 .. Len(lag) : j > i => lag[j][1] # lag[i][1]) => lag[i][2] = store[lag[i][1]]

\* Whatever is listed is there, with the same template.
ListTells ==
    pc \in {"renumber", "create", "versions", "sync", "status", "truncate"} =>
        \A n \in Existing(job.list) :
            store[n] # None /\ store[n].template = job.list[n].template

\* While a revision is made, the cache has all others.
CacheIsWhole ==
    /\ pc \in {"renumber", "create"} => lag = <<>>
    /\ pc = "renumber" => job.list = store /\ store[job.update] # None

DataTold ==
    /\ pc \in {"pods", "revisions"} => job.data = job.iu.template
    /\ pc \in {"versions", "sync"} =>
          store[job.update] # None /\ store[job.update].template = job.data

\* A pod runs what its revision says, and the revision is there.
PodsTell ==
    \A p \in Existing(pods) :
        store[pods[p].rev] # None /\ store[pods[p].rev].template = pods[p].contents

ContentsInv == ListTells /\ CacheIsWhole /\ DataTold /\ PodsTell

Inv ==
    /\ TypeInv /\ OldIsNotLive /\ LagLeads
    /\ Orderly => LiveInv
    /\ suffered = {} => ContentsInv
-----------------------------------------------------------------------------
(* The invariant of the status: no list of revisions was too old. *)

ListsAreCurrent == "stale" \notin suffered

\* u is the revision of template t, and no number is above its.
IsLatestOf(u, t) ==
    /\ u # None /\ store[u] # None /\ store[u].template = t
    /\ \A n \in Existing(store) : store[n].number <= store[u].number

\* A number that was drawn is as high as any until it is written; the revision it
\* is for is there, or nothing of its template is.
NumberDrawn ==
    /\ pc \in {"pods", "revisions", "create"} => job.data = job.iu.template
    /\ pc \in {"renumber", "create"} =>
          lag = <<>> /\ \A n \in Existing(store) : store[n].number <= job.number
    /\ pc = "renumber" =>
          /\ job.list = store /\ store[job.update] # None
          /\ store[job.update].template = job.iu.template
    /\ pc = "create" => EqualRevisions(store, job.data) = {}

\* The revision a pass has chosen is the latest, of the template it has read ...
UpdateIsLatest ==
    pc \in {"versions", "sync", "status", "truncate", "drop"} =>
        IsLatestOf(job.update, job.iu.template)

\* ... which is that of the cache, unless there will be another pass.
JobIsCached == pc # "idle" /\ ~queued => job.iu = iuCache

\* Where no event of a status is on its way, and no pass due, the status tells.
StatusTells ==
    ~queued /\ iuCache.update = iu.update =>
        /\ pc \in {"truncate", "drop"} => iu.update = job.update
        /\ pc = "idle" /\ exp = {} => IsLatestOf(iu.update, iuCache.template)

LatestInv == NumberDrawn /\ UpdateIsLatest /\ JobIsCached /\ StatusTells

StatusInvariant == TypeInv /\ OldIsNotLive /\ LagLeads /\ (ListsAreCurrent => LatestInv)
-----------------------------------------------------------------------------
(* Types. *)

LEMMA NextRevisionType ==
    ASSUME NEW list \in [Names -> Revision \cup {None}]
    PROVE  NextRevision(list) \subseteq Nat
<1>1. \A n \in Existing(list) : list[n].number \in Nat
  BY DEF Existing, Revision
<1>2. QED
  BY <1>1 DEF NextRevision, Newest

LEMMA HashNameType ==
    ASSUME NEW t \in Templates, NEW i \in 0 .. MaxCollisions
    PROVE  HashName[<<t, i>>] \in Names
  BY RevisionsAssumption

\* What the write of a revision keeps.
LEMMA WriteRevisionType ==
    ASSUME TypeOK, NamesFit, NEW n \in Names, NEW r \in Revision \cup {None},
           Named(n, r), WriteRevision(n, r), UNCHANGED revCache
    PROVE  /\ store' \in [Names -> Revision \cup {None}]
           /\ lag' \in Seq(Names \X (Revision \cup {None}))
           /\ NamesFit'
<1>1. store' \in [Names -> Revision \cup {None}]
  BY DEF WriteRevision, TypeOK
<1>2. /\ lag \in Seq(Names \X (Revision \cup {None}))
      /\ <<n, r>> \in Names \X (Revision \cup {None})
      /\ lag' = Append(lag, <<n, r>>)
  BY DEF WriteRevision, TypeOK
<1>3. lag' \in Seq(Names \X (Revision \cup {None}))
  BY <1>2
<1>4. /\ Len(lag') = Len(lag) + 1 /\ Len(lag) \in Nat
      /\ \A i \in 1 .. Len(lag) : lag'[i] = lag[i]
      /\ lag'[Len(lag) + 1] = <<n, r>>
  BY <1>2
<1>5. ASSUME NEW i \in 1 .. Len(lag') PROVE Named(lag'[i][1], lag'[i][2])
  <2>1. CASE i \in 1 .. Len(lag)
    BY <2>1, <1>4 DEF NamesFit
  <2>2. CASE i = Len(lag) + 1
    BY <2>2, <1>4
  <2>3. QED
    BY <2>1, <2>2, <1>4
<1>6. ASSUME NEW m \in Names PROVE Named(m, store'[m]) /\ Named(m, revCache'[m])
  <2>1. Named(m, revCache'[m])
    BY DEF NamesFit
  <2>2. Named(m, store'[m])
    <3>1. CASE m = n
      BY <3>1 DEF WriteRevision, TypeOK
    <3>2. CASE m # n
      BY <3>2 DEF WriteRevision, TypeOK, NamesFit
    <3>3. QED
      BY <3>1, <3>2
  <2>3. QED
    BY <2>1, <2>2
<1>7. NamesFit'
  <2>1. \A m \in Names : Named(m, store'[m]) /\ Named(m, revCache'[m])
    BY <1>6
  <2>2. \A i \in 1 .. Len(lag') : Named(lag'[i][1], lag'[i][2])
    BY <1>5
  <2>3. QED
    BY <2>1, <2>2 DEF NamesFit, Named
<1>8. QED
  BY <1>1, <1>3, <1>7

\* What is left of the types, when nothing of the history changes.
LEMMA SameNames ==
    ASSUME NamesFit, UNCHANGED <<store, revCache, lag>>
    PROVE  NamesFit'
  BY DEF NamesFit, Named

LEMMA DisturbType ==
    ASSUME TypeOK, NEW kind, Disturb(kind)
    PROVE  budget' \in 0 .. Budget /\ suffered' \subseteq Graver
<1>1. budget \in 0 .. Budget /\ suffered \subseteq Graver
  BY DEF TypeOK
<1>2. budget' \in 0 .. Budget
  BY <1>1, RevisionsAssumption DEF Disturb
<1>3. suffered' \subseteq Graver
  BY <1>1 DEF Disturb
<1>4. QED
  BY <1>2, <1>3

LEMMA ReturnType ==
    ASSUME NEW err \in BOOLEAN, queued \in BOOLEAN, Return(err)
    PROVE  pc' = "idle" /\ job' = None /\ queued' \in BOOLEAN
  BY DEF Return, Goto

LEMMA InitialType == Init => TypeInv
<1> SUFFICES ASSUME Init PROVE TypeInv
  OBVIOUS
<1>1. FirstName \in Names /\ InitTemplate \in Templates
  BY HashNameType, RevisionsAssumption DEF FirstName
<1>2. /\ NewInplaceu \in Inplaceu
      /\ [NewInplaceu EXCEPT !.update = FirstName, !.current = FirstName] \in Inplaceu
  <2>1. 0 \in 0 .. MaxCollisions
    BY RevisionsAssumption
  <2>2. QED
    BY <1>1, <2>1 DEF NewInplaceu, Inplaceu
<1>3. [template |-> InitTemplate, number |-> 1] \in Revision
  BY <1>1 DEF Revision
<1>4. [rev |-> FirstName, contents |-> InitTemplate] \in Pod
  BY <1>1, RevisionsAssumption DEF Pod
<1>5. /\ NoList \in [Names -> Revision \cup {None}]
      /\ [NoList EXCEPT ![FirstName] = [template |-> InitTemplate, number |-> 1]]
            \in [Names -> Revision \cup {None}]
  BY <1>1, <1>3 DEF NoList
<1>6. /\ NoView \in [Pods -> Pod \cup {None}]
      /\ [p \in Pods |-> [rev |-> FirstName, contents |-> InitTemplate]]
            \in [Pods -> Pod \cup {None}]
  BY <1>4 DEF NoView
<1>7. /\ iu \in Inplaceu /\ store \in [Names -> Revision \cup {None}]
      /\ pods \in [Pods -> Pod \cup {None}]
  BY <1>2, <1>5, <1>6 DEF Init
<1>8. TypeOK
  BY <1>6, <1>7, RevisionsAssumption DEF Init, TypeOK, Steps
<1>9. \A n \in Names : Named(n, store[n])
  <2>1. CASE store = NoList
    BY <2>1 DEF NoList, Named
  <2>2. CASE store = [NoList EXCEPT ![FirstName] = [template |-> InitTemplate, number |-> 1]]
    <3>1. 0 \in 0 .. MaxCollisions
      BY RevisionsAssumption
    <3>2. QED
      BY <2>2, <3>1, <1>1 DEF NoList, Named, FirstName
  <2>3. QED
    BY <2>1, <2>2 DEF Init
<1>10. NamesFit
  BY <1>9 DEF NamesFit, Init
<1>11. QED
  BY <1>8, <1>10 DEF TypeInv, UpdateChosen, Init
LEMMA EnvironmentType ==
    ASSUME TypeInv, Environment
    PROVE  TypeInv'
<1> TypeOK /\ NamesFit /\ UpdateChosen
  BY DEF TypeInv
<1>1. ASSUME NEW t \in Templates, UserChangesTemplate(t) PROVE TypeInv'
  <2>1. iu' \in Inplaceu
    BY <1>1 DEF UserChangesTemplate, TypeOK, Inplaceu
  <2>2. NamesFit' /\ UpdateChosen'
    BY <1>1, SameNames DEF UserChangesTemplate, UpdateChosen
  <2>3. TypeOK'
    BY <1>1, <2>1, DisturbType DEF UserChangesTemplate, memory, TypeOK
  <2>4. QED
    BY <2>2, <2>3 DEF TypeInv
<1>2. ASSUME InplaceuEvent PROVE TypeInv'
  <2>1. NamesFit' /\ UpdateChosen'
    BY <1>2, SameNames DEF InplaceuEvent, UpdateChosen
  <2>2. TypeOK'
    BY <1>2 DEF InplaceuEvent, memory, calm, TypeOK
  <2>3. QED
    BY <2>1, <2>2 DEF TypeInv
<1>3. ASSUME RevisionEvent PROVE TypeInv'
  <2>1. /\ lag \in Seq(Names \X (Revision \cup {None})) /\ lag # <<>>
        /\ lag' = Tail(lag)
    BY <1>3 DEF RevisionEvent, TypeOK
  <2>2. /\ lag' \in Seq(Names \X (Revision \cup {None}))
        /\ Len(lag') = Len(lag) - 1 /\ Len(lag) \in Nat /\ 1 \in 1 .. Len(lag)
        /\ Head(lag) = lag[1] /\ lag[1] \in Names \X (Revision \cup {None})
        /\ \A i \in 1 .. Len(lag') : lag'[i] = lag[i + 1] /\ i + 1 \in 1 .. Len(lag)
    BY <2>1
  <2>3. revCache' = [revCache EXCEPT ![lag[1][1]] = lag[1][2]]
    BY <1>3, <2>2 DEF RevisionEvent
  <2>4. revCache' \in [Names -> Revision \cup {None}]
    BY <2>2, <2>3 DEF TypeOK
  <2>5. \A n \in Names : Named(n, revCache'[n])
    <3>1. Named(lag[1][1], lag[1][2])
      BY <2>2 DEF NamesFit
    <3>2. ASSUME NEW n \in Names PROVE Named(n, revCache'[n])
      <4>1. CASE n = lag[1][1]
        BY <3>1, <2>3, <4>1 DEF TypeOK
      <4>2. CASE n # lag[1][1]
        BY <2>3, <4>2 DEF TypeOK, NamesFit
      <4>3. QED
        BY <4>1, <4>2
    <3>3. QED
      BY <3>2
  <2>6. NamesFit'
    <3>1. \A i \in 1 .. Len(lag') : Named(lag'[i][1], lag'[i][2])
      BY <2>2 DEF NamesFit
    <3>2. \A n \in Names : Named(n, store[n])
      BY DEF NamesFit
    <3>3. store' = store
      BY <1>3 DEF RevisionEvent
    <3>4. QED
      BY <3>1, <3>2, <3>3, <2>5 DEF NamesFit, Named
  <2>7. TypeOK'
    BY <1>3, <2>2, <2>4 DEF RevisionEvent, memory, calm, TypeOK
  <2>8. UpdateChosen'
    BY <1>3 DEF RevisionEvent, UpdateChosen
  <2>9. QED
    BY <2>6, <2>7, <2>8 DEF TypeInv
<1>4. ASSUME NEW p \in Pods, Evict(p) PROVE TypeInv'
  <2>1. NamesFit' /\ UpdateChosen'
    BY <1>4, SameNames DEF Evict, UpdateChosen
  <2>2. pods' \in [Pods -> Pod \cup {None}]
    BY <1>4 DEF Evict, TypeOK
  <2>3. TypeOK'
    BY <1>4, <2>2, DisturbType DEF Evict, memory, TypeOK
  <2>4. QED
    BY <2>1, <2>3 DEF TypeInv
<1>5. ASSUME NEW p \in Pods, PodEvent(p) PROVE TypeInv'
  <2>1. NamesFit' /\ UpdateChosen'
    BY <1>5, SameNames DEF PodEvent, UpdateChosen
  <2>2. podCache' \in [Pods -> Pod \cup {None}]
    BY <1>5 DEF PodEvent, TypeOK
  <2>3. rvExp' \in [Pods -> Pod \cup {None}]
    BY <1>5 DEF PodEvent, TypeOK
  <2>4. TypeOK'
    BY <1>5, <2>2, <2>3 DEF PodEvent, calm, TypeOK
  <2>5. QED
    BY <2>1, <2>4 DEF TypeInv
<1>6. ASSUME Restarts, podCache' \in [Pods -> Pod \cup {None}],
             budget' \in 0 .. Budget, suffered' \subseteq Graver
      PROVE  TypeInv'
  <2>1. NoView \in [Pods -> Pod \cup {None}]
    BY DEF NoView
  <2>2. lag' \in Seq(Names \X (Revision \cup {None})) /\ Len(lag') = 0
    BY <1>6 DEF Restarts
  <2>3. NamesFit' /\ UpdateChosen'
    BY <1>6, <2>2 DEF Restarts, NamesFit, UpdateChosen, Named
  <2>4. TypeOK'
    BY <1>6, <2>1, <2>2 DEF Restarts, TypeOK, Steps
  <2>5. QED
    BY <2>3, <2>4 DEF TypeInv
<1>7. CASE Crash
  BY <1>6, <1>7, DisturbType DEF Crash, TypeOK
<1>8. CASE Failover
  BY <1>6, <1>8, DisturbType DEF Failover, TypeOK
<1>9. QED
  BY <1>1, <1>2, <1>3, <1>4, <1>5, <1>7, <1>8 DEF Environment

LEMMA ListingType ==
    ASSUME TypeInv,
           Take \/ ListPods \/ KeepRevision \/ RollBack \/ StartRevision
    PROVE  TypeInv'
<1> TypeOK /\ NamesFit /\ UpdateChosen
  BY DEF TypeInv
<1>1. CASE Take
  <2>1. NewJob(iuCache) \in Job
    BY DEF NewJob, Job, TypeOK, Inplaceu, NoView, NoList
  <2>2. TypeOK'
    BY <1>1, <2>1 DEF Take, Goto, objects, memory, calm, TypeOK, Steps
  <2>3. NamesFit' /\ UpdateChosen'
    BY <1>1, SameNames DEF Take, Goto, objects, UpdateChosen
  <2>4. QED
    BY <2>2, <2>3 DEF TypeInv
<1>2. CASE ListPods
  <2>1. job' \in Job
    BY <1>2 DEF ListPods, TypeOK, Job
  <2>2. TypeOK'
    BY <1>2, <2>1 DEF ListPods, Goto, objects, memory, calm, TypeOK, Steps
  <2>3. NamesFit' /\ UpdateChosen'
    BY <1>2, SameNames DEF ListPods, Goto, objects, UpdateChosen
  <2>4. QED
    BY <2>2, <2>3 DEF TypeInv
<1>3. ASSUME MayBeStale PROVE budget' \in 0 .. Budget /\ suffered' \subseteq Graver
  <2>1. CASE lag = <<>>
    BY <1>3, <2>1 DEF MayBeStale, Calm, calm, TypeOK
  <2>2. CASE lag # <<>>
    BY <1>3, <2>2, DisturbType DEF MayBeStale
  <2>3. QED
    BY <2>1, <2>2
<1>4. CASE KeepRevision
  <2>1. PICK n \in Names : job' = [job EXCEPT !.list = revCache, !.update = n]
    BY <1>4 DEF KeepRevision, Newest, Existing, TypeOK
  <2>2. job \in Job
    BY <1>4 DEF KeepRevision, TypeOK
  <2>3. job' \in Job /\ job'.update \in Names
    BY <2>1, <2>2 DEF TypeOK, Job
  <2>4. TypeOK'
    BY <1>3, <1>4, <2>3 DEF KeepRevision, Goto, objects, memory, TypeOK, Steps
  <2>5. NamesFit' /\ UpdateChosen'
    BY <1>4, <2>3, SameNames DEF KeepRevision, Goto, objects, UpdateChosen
  <2>6. QED
    BY <2>4, <2>5 DEF TypeInv
<1>5. CASE RollBack
  <2>1. PICK n \in Names, k \in Nat :
           job' = [job EXCEPT !.list = revCache, !.update = n, !.number = k]
    BY <1>5, NextRevisionType DEF RollBack, Newest, EqualRevisions, Existing, TypeOK
  <2>2. job \in Job
    BY <1>5 DEF RollBack, TypeOK
  <2>3. job' \in Job /\ job'.update \in Names
    BY <2>1, <2>2 DEF TypeOK, Job
  <2>4. TypeOK'
    BY <1>3, <1>5, <2>3 DEF RollBack, Goto, objects, memory, TypeOK, Steps
  <2>5. NamesFit' /\ UpdateChosen'
    BY <1>5, <2>3, SameNames DEF RollBack, Goto, objects, UpdateChosen
  <2>6. QED
    BY <2>4, <2>5 DEF TypeInv
<1>6. CASE StartRevision
  <2>1. PICK k \in Nat : job' = [job EXCEPT !.list = revCache, !.number = k]
    BY <1>6, NextRevisionType DEF StartRevision, TypeOK
  <2>2. job \in Job
    BY <1>6 DEF StartRevision, TypeOK
  <2>3. job' \in Job
    BY <2>1, <2>2 DEF TypeOK, Job
  <2>4. TypeOK'
    BY <1>3, <1>6, <2>3 DEF StartRevision, Goto, objects, memory, TypeOK, Steps
  <2>5. NamesFit' /\ UpdateChosen'
    BY <1>6, SameNames DEF StartRevision, Goto, objects, UpdateChosen
  <2>6. QED
    BY <2>4, <2>5 DEF TypeInv
<1>7. QED
  BY <1>1, <1>2, <1>4, <1>5, <1>6
LEMMA NumberingType ==
    ASSUME TypeInv, Renumber \/ RenumberedBefore \/ RenumberFails
    PROVE  TypeInv'
<1> TypeOK /\ NamesFit /\ UpdateChosen
  BY DEF TypeInv
<1>1. job \in Job /\ job.update \in Names /\ pc = "renumber"
  BY DEF Renumber, RenumberedBefore, RenumberFails, TypeOK, UpdateChosen
<1>2. CASE Renumber
  <2> DEFINE r == [store[job.update] EXCEPT !.number = job.number]
  <2>1. store[job.update] \in Revision
    BY <1>1, <1>2 DEF Renumber, TypeOK
  <2>2. r \in Revision /\ r.template = store[job.update].template
    BY <2>1, <1>1 DEF Revision, Job
  <2>3. Named(job.update, r)
    <3>1. Named(job.update, store[job.update]) /\ store[job.update] # None
      BY <1>1, <1>2 DEF NamesFit, Renumber
    <3>2. QED
      BY <3>1, <2>2 DEF Named
  <2>4. WriteRevision(job.update, r) /\ UNCHANGED revCache
    BY <1>2 DEF Renumber
  <2>5. /\ store' \in [Names -> Revision \cup {None}]
        /\ lag' \in Seq(Names \X (Revision \cup {None}))
        /\ NamesFit'
    <3> HIDE DEF r
    <3> QED
      BY <1>1, <2>2, <2>3, <2>4, WriteRevisionType
  <2>6. job' \in Job /\ job'.update = job.update
    BY <1>1, <1>2, <2>1 DEF Renumber, Job, Revision
  <2>7. TypeOK'
    BY <1>2, <2>5, <2>6 DEF Renumber, Goto, memory, calm, TypeOK, Steps
  <2>8. UpdateChosen'
    BY <1>1, <2>6 DEF UpdateChosen
  <2>9. QED
    BY <2>5, <2>7, <2>8 DEF TypeInv
<1>3. CASE RenumberedBefore
  <2>1. job' \in Job /\ job'.update = job.update
    BY <1>1, <1>3 DEF RenumberedBefore, TypeOK, Job, Revision
  <2>2. TypeOK'
    BY <1>3, <2>1 DEF RenumberedBefore, Goto, objects, memory, calm, TypeOK, Steps
  <2>3. NamesFit' /\ UpdateChosen'
    BY <1>1, <1>3, <2>1, SameNames DEF RenumberedBefore, objects, UpdateChosen
  <2>4. QED
    BY <2>2, <2>3 DEF TypeInv
<1>4. CASE RenumberFails
  <2>1. budget' \in 0 .. Budget /\ suffered' \subseteq Graver
    BY <1>4, DisturbType DEF RenumberFails, Calm, calm, TypeOK
  <2>2. pc' = "idle" /\ job' = None /\ queued' \in BOOLEAN
    BY <1>4, ReturnType DEF RenumberFails, TypeOK
  <2>3. TypeOK'
    BY <1>4, <2>1, <2>2 DEF RenumberFails, objects, memory, TypeOK, Steps
  <2>4. NamesFit' /\ UpdateChosen'
    BY <1>4, <2>2, SameNames DEF RenumberFails, objects, UpdateChosen
  <2>5. QED
    BY <2>3, <2>4 DEF TypeInv
<1>5. QED
  BY <1>2, <1>3, <1>4

\* The revision a pass creates has a name of its template.
LEMMA CandidateType ==
    ASSUME TypeOK, pc = "create"
    PROVE  /\ job \in Job /\ Candidate \in Names
           /\ [template |-> job.data, number |-> job.number] \in Revision
           /\ Named(Candidate, [template |-> job.data, number |-> job.number])
<1>1. job \in Job
  BY DEF TypeOK
<1>2. job.data \in Templates /\ job.count \in 0 .. MaxCollisions /\ job.number \in Nat
  BY <1>1 DEF Job
<1>3. QED
  BY <1>1, <1>2, HashNameType DEF Candidate, Named, Revision

LEMMA CreatingType ==
    ASSUME TypeInv, CreateRevision \/ TakeNamed \/ Collide \/ CreateRevisionFails
    PROVE  TypeInv'
<1> DEFINE r == [template |-> job.data, number |-> job.number]
<1> TypeOK /\ NamesFit /\ UpdateChosen
  BY DEF TypeInv
<1>1. pc = "create"
  BY DEF CreateRevision, TakeNamed, Collide, CreateRevisionFails
<1>2. job \in Job /\ Candidate \in Names /\ r \in Revision /\ Named(Candidate, r)
  BY <1>1, CandidateType
<1>3. ASSUME WriteRevision(Candidate, r), UNCHANGED revCache
      PROVE  /\ store' \in [Names -> Revision \cup {None}]
             /\ lag' \in Seq(Names \X (Revision \cup {None}))
             /\ NamesFit'
  <2> HIDE DEF r
  <2> QED
    BY <1>2, <1>3, WriteRevisionType
<1>4. CASE CreateRevision
  <2>1. /\ store' \in [Names -> Revision \cup {None}]
        /\ lag' \in Seq(Names \X (Revision \cup {None}))
        /\ NamesFit'
    BY <1>3, <1>4 DEF CreateRevision
  <2>2. job' \in Job /\ job'.update \in Names
    BY <1>2, <1>4 DEF CreateRevision, Job
  <2>3. TypeOK'
    BY <1>4, <2>1, <2>2 DEF CreateRevision, Goto, memory, calm, TypeOK, Steps
  <2>4. QED
    BY <2>1, <2>2, <2>3 DEF TypeInv, UpdateChosen
<1>5. CASE TakeNamed
  <2>1. job' \in Job /\ job'.update \in Names
    BY <1>2, <1>5 DEF TakeNamed, Job
  <2>2. TypeOK'
    BY <1>5, <2>1 DEF TakeNamed, Goto, objects, memory, calm, TypeOK, Steps
  <2>3. NamesFit'
    BY <1>5, SameNames DEF TakeNamed, objects
  <2>4. QED
    BY <2>1, <2>2, <2>3 DEF TypeInv, UpdateChosen
<1>6. CASE Collide
  <2>1. PICK i \in 0 .. MaxCollisions :
           Candidate = HashName[<<revCache[Candidate].template, i>>]
    BY <1>2, <1>6 DEF Collide, NamesFit, Named
  <2>2. revCache[Candidate].template \in Templates /\ job.data \in Templates
    BY <1>2, <1>6 DEF Collide, TypeOK, Revision, Job
  <2>3. job.count # MaxCollisions
    <3>1. SUFFICES ASSUME job.count = MaxCollisions PROVE FALSE
      OBVIOUS
    <3>2. HashName[<<revCache[Candidate].template, i>>] = HashName[<<job.data, MaxCollisions>>]
      BY <2>1, <3>1 DEF Candidate
    <3>3. \A s, t \in Templates, j \in 0 .. MaxCollisions :
             HashName[<<s, j>>] = HashName[<<t, MaxCollisions>>] => s = t
      BY RevisionsAssumption
    <3>4. revCache[Candidate].template = job.data
      BY <2>2, <3>2, <3>3
    <3>5. QED
      BY <1>6, <3>4 DEF Collide
  <2>4. job.count + 1 \in 0 .. MaxCollisions
    <3>1. job.count \in 0 .. MaxCollisions
      BY <1>2 DEF Job
    <3>2. MaxCollisions \in Nat
      BY RevisionsAssumption
    <3>3. QED
      BY <2>3, <3>1, <3>2
  <2>5. job' \in Job
    BY <1>2, <1>6, <2>4 DEF Collide, Job
  <2>6. TypeOK'
    BY <1>1, <1>6, <2>5 DEF Collide, objects, memory, calm, TypeOK, Steps
  <2>7. NamesFit' /\ UpdateChosen'
    BY <1>1, <1>6, SameNames DEF Collide, objects, UpdateChosen
  <2>8. QED
    BY <2>6, <2>7 DEF TypeInv
<1>7. CASE CreateRevisionFails
  <2>1. budget' \in 0 .. Budget /\ suffered' \subseteq Graver
    BY <1>7, DisturbType DEF CreateRevisionFails, Calm, calm, TypeOK
  <2>2. pc' = "idle" /\ job' = None /\ queued' \in BOOLEAN
    BY <1>7, ReturnType DEF CreateRevisionFails, TypeOK
  <2>3. /\ store' \in [Names -> Revision \cup {None}]
        /\ lag' \in Seq(Names \X (Revision \cup {None}))
        /\ NamesFit'
    <3>1. CASE WriteRevision(Candidate, r)
      BY <1>3, <1>7, <3>1 DEF CreateRevisionFails
    <3>2. CASE UNCHANGED <<store, lag>>
      BY <1>7, <3>2, SameNames DEF CreateRevisionFails, TypeOK
    <3>3. QED
      BY <1>7, <3>1, <3>2 DEF CreateRevisionFails
  <2>4. TypeOK'
    BY <1>7, <2>1, <2>2, <2>3 DEF CreateRevisionFails, memory, TypeOK, Steps
  <2>5. QED
    BY <2>2, <2>3, <2>4 DEF TypeInv, UpdateChosen
<1>8. QED
  BY <1>4, <1>5, <1>6, <1>7

LEMMA NewPodType ==
    ASSUME TypeInv, pc = "sync"
    PROVE  job \in Job /\ job.update \in Names /\ NewPod \in Pod
<1>1. job \in Job /\ job.update \in Names
  BY DEF TypeInv, TypeOK, UpdateChosen
<1>2. job.data \in [Containers -> Images]
  BY <1>1, RevisionsAssumption DEF Job
<1>3. QED
  BY <1>1, <1>2 DEF NewPod, Pod

LEMMA UpdatedPodType ==
    ASSUME TypeInv, NEW p \in Pods, Updatable(p)
    PROVE  UpdatedPod(p) \in Pod
<1>1. job \in Job /\ job.update \in Names
  BY NewPodType DEF Updatable
<1>2. job.view[p] \in Pod /\ podCache[p] \in Pod
  BY <1>1 DEF Updatable, TypeInv, TypeOK, Job
<1>3. job.list[job.view[p].rev] \in Revision
  BY <1>1, <1>2 DEF Updatable, Job, Pod
<1>4. /\ job.list[job.view[p].rev].template \in [Containers -> Images]
      /\ job.data \in [Containers -> Images]
      /\ podCache[p].contents \in [Containers -> Images]
  BY <1>1, <1>2, <1>3, RevisionsAssumption DEF Revision, Job, Pod
<1>5. Patched(job.list[job.view[p].rev].template, job.data, podCache[p].contents)
         \in [Containers -> Images]
  BY <1>4 DEF Patched
<1>6. QED
  BY <1>1, <1>5 DEF UpdatedPod, Pod
LEMMA SyncType ==
    ASSUME TypeInv,
           \/ PassVersions \/ WaitForVersions \/ EndSync
           \/ \E p \in Pods : CreatePod(p) \/ DeletePod(p) \/ UpdatePod(p) \/ SyncTimesOut(p)
    PROVE  TypeInv'
<1> TypeOK /\ NamesFit /\ UpdateChosen
  BY DEF TypeInv
<1>1. CASE PassVersions
  <2>1. rvExp' \in [Pods -> Pod \cup {None}]
    BY <1>1 DEF PassVersions, TypeOK
  <2>2. TypeOK'
    BY <1>1, <2>1 DEF PassVersions, Goto, objects, calm, TypeOK, Steps
  <2>3. NamesFit' /\ UpdateChosen'
    BY <1>1, SameNames DEF PassVersions, objects, UpdateChosen
  <2>4. QED
    BY <2>2, <2>3 DEF TypeInv
<1>2. CASE WaitForVersions
  <2>1. pc' = "idle" /\ job' = None /\ queued' \in BOOLEAN
    BY <1>2, ReturnType DEF WaitForVersions, TypeOK
  <2>2. TypeOK'
    BY <1>2, <2>1 DEF WaitForVersions, objects, memory, calm, TypeOK, Steps
  <2>3. NamesFit' /\ UpdateChosen'
    BY <1>2, <2>1, SameNames DEF WaitForVersions, objects, UpdateChosen
  <2>4. QED
    BY <2>2, <2>3 DEF TypeInv
<1>3. CASE EndSync
  <2>1. job \in Job /\ pc = "sync"
    BY <1>3 DEF EndSync, TypeOK
  <2>2. job' \in Job /\ job'.update = job.update
    BY <1>3, <2>1 DEF EndSync, Job
  <2>3. TypeOK'
    BY <1>3, <2>2 DEF EndSync, Goto, objects, memory, calm, TypeOK, Steps
  <2>4. NamesFit' /\ UpdateChosen'
    BY <1>3, <2>1, <2>2, SameNames DEF EndSync, objects, UpdateChosen
  <2>5. QED
    BY <2>3, <2>4 DEF TypeInv
<1>4. ASSUME NEW p \in Pods, CreatePod(p) PROVE TypeInv'
  <2>1. pc = "sync" /\ job \in Job /\ NewPod \in Pod
    BY <1>4, NewPodType DEF CreatePod
  <2>2. job' \in Job /\ job'.update = job.update
    BY <1>4, <2>1 DEF CreatePod, Job
  <2>3. pods' \in [Pods -> Pod \cup {None}]
    BY <1>4, <2>1 DEF CreatePod, TypeOK
  <2>4. TypeOK'
    BY <1>4, <2>1, <2>2, <2>3 DEF CreatePod, calm, TypeOK
  <2>5. NamesFit' /\ UpdateChosen'
    BY <1>4, <2>2, SameNames DEF CreatePod, UpdateChosen
  <2>6. QED
    BY <2>4, <2>5 DEF TypeInv
<1>5. ASSUME NEW p \in Pods, DeletePod(p) PROVE TypeInv'
  <2>1. pc = "sync" /\ job \in Job
    BY <1>5 DEF DeletePod, TypeOK
  <2>2. job' \in Job /\ job'.update = job.update
    BY <1>5, <2>1 DEF DeletePod, Job
  <2>3. pods' \in [Pods -> Pod \cup {None}]
    BY <1>5 DEF DeletePod, TypeOK
  <2>4. TypeOK'
    BY <1>5, <2>1, <2>2, <2>3 DEF DeletePod, calm, TypeOK
  <2>5. NamesFit' /\ UpdateChosen'
    BY <1>5, <2>2, SameNames DEF DeletePod, UpdateChosen
  <2>6. QED
    BY <2>4, <2>5 DEF TypeInv
<1>6. ASSUME NEW p \in Pods, UpdatePod(p) PROVE TypeInv'
  <2>1. pc = "sync" /\ job \in Job /\ UpdatedPod(p) \in Pod
    BY <1>6, UpdatedPodType DEF UpdatePod, Updatable, TypeOK
  <2>2. job' \in Job /\ job'.update = job.update
    BY <1>6, <2>1 DEF UpdatePod, Job
  <2>3. pods' \in [Pods -> Pod \cup {None}]
    BY <1>6, <2>1 DEF UpdatePod, TypeOK
  <2>4. rvExp' \in [Pods -> Pod \cup {None}]
    BY <1>6, <2>1 DEF UpdatePod, TypeOK
  <2>5. TypeOK'
    BY <1>6, <2>1, <2>2, <2>3, <2>4 DEF UpdatePod, calm, TypeOK
  <2>6. NamesFit' /\ UpdateChosen'
    BY <1>6, <2>2, SameNames DEF UpdatePod, UpdateChosen
  <2>7. QED
    BY <2>5, <2>6 DEF TypeInv
<1>7. ASSUME NEW p \in Pods, SyncTimesOut(p) PROVE TypeInv'
  <2>1. pc = "sync" /\ job \in Job /\ NewPod \in Pod
    BY <1>7, NewPodType DEF SyncTimesOut
  <2>2. job' \in Job /\ job'.update = job.update
    BY <1>7, <2>1 DEF SyncTimesOut, Job
  <2>3. pods' \in [Pods -> Pod \cup {None}]
    <3>1. CASE Updatable(p) /\ pods' = [pods EXCEPT ![p] = UpdatedPod(p)]
      BY <3>1, UpdatedPodType DEF TypeOK
    <3>2. CASE pods' = [pods EXCEPT ![p] = NewPod]
      BY <3>2, <2>1 DEF TypeOK
    <3>3. QED
      BY <1>7, <3>1, <3>2 DEF SyncTimesOut
  <2>4. budget' \in 0 .. Budget /\ suffered' \subseteq Graver
    BY <1>7, DisturbType DEF SyncTimesOut
  <2>5. TypeOK'
    BY <1>7, <2>2, <2>3, <2>4 DEF SyncTimesOut, Goto, memory, TypeOK, Steps
  <2>6. NamesFit' /\ UpdateChosen'
    BY <1>7, <2>1, <2>2, SameNames DEF SyncTimesOut, UpdateChosen
  <2>7. QED
    BY <2>5, <2>6 DEF TypeInv
<1>8. QED
  BY <1>1, <1>2, <1>3, <1>4, <1>5, <1>6, <1>7

LEMMA EndingType ==
    ASSUME TypeInv,
           \/ StatusIsConsistent \/ UpdateStatus \/ UpdateStatusFails
           \/ Truncate \/ NothingToTruncate
           \/ \E n \in Names : Drop(n) \/ DropFails(n)
    PROVE  TypeInv'
<1> TypeOK /\ NamesFit /\ UpdateChosen
  BY DEF TypeInv
<1>1. CASE StatusIsConsistent
  <2>1. TypeOK'
    BY <1>1 DEF StatusIsConsistent, Goto, objects, memory, calm, TypeOK, Steps
  <2>2. NamesFit' /\ UpdateChosen'
    BY <1>1, SameNames DEF StatusIsConsistent, objects, UpdateChosen
  <2>3. QED
    BY <2>1, <2>2 DEF TypeInv
<1>2. CASE UpdateStatus
  <2>1. job \in Job /\ job.update \in Names
    BY <1>2 DEF UpdateStatus, TypeOK, UpdateChosen
  <2>2. job.count \in 0 .. MaxCollisions /\ job.iu \in Inplaceu
    BY <2>1 DEF Job
  <2>3. StableRevision \in Names
    BY <2>1, <2>2 DEF StableRevision, CurrentRevision, Inplaceu
  <2>4. iu' \in Inplaceu
    BY <1>2, <2>1, <2>2, <2>3 DEF UpdateStatus, TypeOK, Inplaceu
  <2>5. TypeOK'
    BY <1>2, <2>4 DEF UpdateStatus, Goto, memory, calm, TypeOK, Steps
  <2>6. NamesFit' /\ UpdateChosen'
    BY <1>2, SameNames DEF UpdateStatus, UpdateChosen
  <2>7. QED
    BY <2>5, <2>6 DEF TypeInv
<1>3. CASE UpdateStatusFails
  <2>1. budget' \in 0 .. Budget /\ suffered' \subseteq Graver
    BY <1>3, DisturbType DEF UpdateStatusFails, Calm, calm, TypeOK
  <2>2. pc' = "idle" /\ job' = None /\ queued' \in BOOLEAN
    BY <1>3, ReturnType DEF UpdateStatusFails, TypeOK
  <2>3. TypeOK'
    BY <1>3, <2>1, <2>2 DEF UpdateStatusFails, objects, memory, TypeOK, Steps
  <2>4. NamesFit' /\ UpdateChosen'
    BY <1>3, <2>2, SameNames DEF UpdateStatusFails, objects, UpdateChosen
  <2>5. QED
    BY <2>3, <2>4 DEF TypeInv
<1>4. CASE Truncate
  <2>1. job \in Job /\ pc = "truncate"
    BY <1>4 DEF Truncate, TypeOK
  <2>2. NotLive \subseteq Names
    BY <2>1 DEF NotLive, Existing, Job
  <2>3. job' \in Job /\ job'.update = job.update
    BY <1>4, <2>1, <2>2 DEF Truncate, Job
  <2>4. TypeOK'
    BY <1>4, <2>3 DEF Truncate, Goto, objects, memory, calm, TypeOK, Steps
  <2>5. NamesFit' /\ UpdateChosen'
    BY <1>4, <2>1, <2>3, SameNames DEF Truncate, objects, UpdateChosen
  <2>6. QED
    BY <2>4, <2>5 DEF TypeInv
<1>5. CASE NothingToTruncate
  <2>1. job.err \in BOOLEAN
    BY <1>5 DEF NothingToTruncate, TypeOK, Job
  <2>2. pc' = "idle" /\ job' = None /\ queued' \in BOOLEAN
    BY <1>5, <2>1, ReturnType DEF NothingToTruncate, TypeOK
  <2>3. TypeOK'
    BY <1>5, <2>2 DEF NothingToTruncate, objects, memory, calm, TypeOK, Steps
  <2>4. NamesFit' /\ UpdateChosen'
    BY <1>5, <2>2, SameNames DEF NothingToTruncate, objects, UpdateChosen
  <2>5. QED
    BY <2>3, <2>4 DEF TypeInv
<1>6. ASSUME NEW n \in Names, WriteRevision(n, None), UNCHANGED revCache
      PROVE  /\ store' \in [Names -> Revision \cup {None}]
             /\ lag' \in Seq(Names \X (Revision \cup {None}))
             /\ NamesFit'
  BY <1>6, WriteRevisionType DEF Named
<1>7. ASSUME NEW n \in Names, Drop(n) PROVE TypeInv'
  <2>1. /\ store' \in [Names -> Revision \cup {None}]
        /\ lag' \in Seq(Names \X (Revision \cup {None}))
        /\ NamesFit'
    BY <1>6, <1>7 DEF Drop
  <2>2. pc = "drop" /\ job \in Job /\ job.err \in BOOLEAN
    BY <1>7 DEF Drop, NextToDrop, TypeOK, Job
  <2>3. CASE Return(job.err)
    <3>1. pc' = "idle" /\ job' = None /\ queued' \in BOOLEAN
      BY <2>2, <2>3, ReturnType DEF TypeOK
    <3>2. TypeOK'
      BY <1>7, <2>1, <3>1 DEF Drop, memory, calm, TypeOK, Steps
    <3>3. QED
      BY <2>1, <3>1, <3>2 DEF TypeInv, UpdateChosen
  <2>4. CASE job' = [job EXCEPT !.old = @ \ {n}] /\ UNCHANGED <<pc, queued>>
    <3>1. job' \in Job /\ job'.update = job.update
      BY <2>2, <2>4 DEF Job
    <3>2. TypeOK'
      BY <1>7, <2>1, <2>2, <2>4, <3>1 DEF Drop, memory, calm, TypeOK
    <3>3. QED
      BY <2>1, <2>4, <3>1, <3>2 DEF TypeInv, UpdateChosen
  <2>5. QED
    BY <1>7, <2>3, <2>4 DEF Drop
<1>8. ASSUME NEW n \in Names, DropFails(n) PROVE TypeInv'
  <2>1. job.err \in BOOLEAN
    BY <1>8 DEF DropFails, NextToDrop, TypeOK, Job
  <2>2. pc' = "idle" /\ job' = None /\ queued' \in BOOLEAN
    BY <1>8, <2>1, ReturnType DEF DropFails, TypeOK
  <2>3. budget' \in 0 .. Budget /\ suffered' \subseteq Graver
    BY <1>8, DisturbType DEF DropFails, Calm, calm, TypeOK
  <2>4. /\ store' \in [Names -> Revision \cup {None}]
        /\ lag' \in Seq(Names \X (Revision \cup {None}))
        /\ NamesFit'
    <3>1. CASE WriteRevision(n, None)
      BY <1>6, <1>8, <3>1 DEF DropFails
    <3>2. CASE UNCHANGED <<store, lag>>
      BY <1>8, <3>2, SameNames DEF DropFails, TypeOK
    <3>3. QED
      BY <1>8, <3>1, <3>2 DEF DropFails
  <2>5. TypeOK'
    BY <1>8, <2>2, <2>3, <2>4 DEF DropFails, memory, TypeOK, Steps
  <2>6. QED
    BY <2>2, <2>4, <2>5 DEF TypeInv, UpdateChosen
<1>9. QED
  BY <1>1, <1>2, <1>3, <1>4, <1>5, <1>7, <1>8

LEMMA TypeStep ==
    ASSUME TypeInv, [Next]_vars
    PROVE  TypeInv'
<1>1. CASE UNCHANGED vars
  BY <1>1, SameNames DEF vars, TypeInv, TypeOK, UpdateChosen
<1>2. CASE Next
  BY <1>2, EnvironmentType, ListingType, NumberingType, CreatingType, SyncType, EndingType
  DEF Next, Worker
<1>3. QED
  BY <1>1, <1>2

\* The types hold at every step, however names collide and writes are late
\* (getActiveRevisions, Reconcile).
THEOREM TypeCorrect == Spec => []TypeOK
<1>1. Init => TypeInv
  BY InitialType
<1>2. TypeInv /\ [Next]_vars => TypeInv'
  BY TypeStep
<1>3. TypeInv => TypeOK
  BY DEF TypeInv
<1>4. QED
  BY <1>1, <1>2, <1>3, PTL DEF Spec
-----------------------------------------------------------------------------
(* Live revisions. *)

LEMMA InitialInv == Init => Inv
<1> SUFFICES ASSUME Init PROVE Inv
  OBVIOUS
<1>1. TypeInv
  BY InitialType
<1>2. OldIsNotLive
  BY DEF Init, OldIsNotLive
<1>3. LagLeads
  BY DEF Init, LagLeads
<1>4. LiveInv
  BY DEF Init, LiveInv, CacheCovers, NothingAwaited, ViewCovers, ViewIsCurrent,
         CacheFollowsView
<1>5. PodsTell
  <2>1. CASE pods = NoView
    BY <2>1 DEF PodsTell, NoView, Existing
  <2>2. CASE /\ pods = [p \in Pods |-> [rev |-> FirstName, contents |-> InitTemplate]]
             /\ store = [NoList EXCEPT ![FirstName] = [template |-> InitTemplate, number |-> 1]]
    <3>1. FirstName \in Names /\ InitTemplate \in Templates
      BY HashNameType, RevisionsAssumption DEF FirstName
    <3>2. store[FirstName] = [template |-> InitTemplate, number |-> 1]
      BY <2>2, <3>1 DEF NoList
    <3>3. [template |-> InitTemplate, number |-> 1] # None
      BY <3>1, RevisionsAssumption
    <3>4. QED
      BY <2>2, <3>2, <3>3 DEF PodsTell, Existing
  <2>3. QED
    BY <2>1, <2>2 DEF Init
<1>6. ContentsInv
  BY <1>5 DEF Init, ContentsInv, ListTells, CacheIsWhole, DataTold
<1>7. QED
  BY <1>1, <1>2, <1>3, <1>4, <1>6 DEF Inv

\* What was suffered stays so.
LEMMA SufferedGrows ==
    ASSUME [Next]_vars
    PROVE  suffered \subseteq suffered'
<1>1. CASE UNCHANGED suffered
  BY <1>1
<1>2. ASSUME NEW kind, Disturb(kind) PROVE suffered \subseteq suffered'
  BY <1>2 DEF Disturb
<1>3. CASE Worker
  BY <1>1, <1>2, <1>3
  DEF Worker, Take, ListPods, KeepRevision, RollBack, StartRevision, MayBeStale,
      Renumber, RenumberedBefore, RenumberFails, CreateRevision, TakeNamed, Collide,
      CreateRevisionFails, PassVersions, WaitForVersions, EndSync, CreatePod, DeletePod,
      UpdatePod, SyncTimesOut, StatusIsConsistent, UpdateStatus, UpdateStatusFails,
      Truncate, NothingToTruncate, Drop, DropFails, Calm, calm
<1>4. CASE Environment
  BY <1>1, <1>2, <1>4
  DEF Environment, UserChangesTemplate, InplaceuEvent, RevisionEvent, Evict, PodEvent,
      Crash, Failover, calm
<1>5. CASE UNCHANGED vars
  BY <1>1, <1>5 DEF vars
<1>6. QED
  BY <1>3, <1>4, <1>5 DEF Next

\* The graver disturbances end an orderly behaviour.
LEMMA GraverSuffered ==
    ASSUME NEW kind \in Graver, Disturb(kind)
    PROVE  kind \in suffered'
  BY DEF Disturb

\* A pass that goes on, or ends, without having touched pods or what is expected of them.
LEMMA LiveGoesOn ==
    ASSUME LiveInv, UNCHANGED <<pods, podCache, exp, rvExp>>,
           \/ pc' = "idle"
           \/ /\ pc \in {"revisions", "renumber", "create", "versions"}
              /\ pc' \in {"revisions", "renumber", "create", "versions"}
              /\ job'.view = job.view
           \/ /\ pc \in {"sync", "status", "truncate", "drop"}
              /\ pc' \in {"status", "truncate", "drop"}
              /\ job'.view = job.view /\ job'.update = job.update
    PROVE  LiveInv'
<1>1. CacheCovers'
  BY DEF LiveInv, CacheCovers, Existing
<1>2. NothingAwaited'
  BY DEF LiveInv, NothingAwaited
<1>3. ViewCovers'
  BY DEF LiveInv, ViewCovers, Existing
<1>4. ViewIsCurrent'
  BY DEF LiveInv, ViewIsCurrent, Existing
<1>5. CacheFollowsView'
  BY DEF LiveInv, CacheFollowsView, Existing
<1>6. QED
  BY <1>1, <1>2, <1>3, <1>4, <1>5 DEF LiveInv

LEMMA EnvironmentLive ==
    ASSUME TypeInv, LiveInv, Orderly', Environment
    PROVE  LiveInv'
<1> TypeOK
  BY DEF TypeInv
<1>1. ASSUME UNCHANGED <<pods, podCache, exp, rvExp, pc, job>> PROVE LiveInv'
  BY <1>1 DEF LiveInv, CacheCovers, NothingAwaited, ViewCovers, ViewIsCurrent,
              CacheFollowsView, Existing
<1>2. CASE \/ \E t \in Templates : UserChangesTemplate(t)
           \/ InplaceuEvent \/ RevisionEvent
  BY <1>1, <1>2 DEF UserChangesTemplate, InplaceuEvent, RevisionEvent, memory
<1>3. ASSUME NEW p \in Pods, Evict(p) PROVE LiveInv'
  <2>1. UNCHANGED <<podCache, exp, rvExp, pc, job>>
    BY <1>3 DEF Evict, memory
  <2>2. \A q \in Existing(pods') : q \in Existing(pods) /\ pods'[q] = pods[q]
    BY <1>3 DEF Evict, Existing, TypeOK
  <2>3. CacheCovers'
    BY <2>1, <2>2 DEF LiveInv, CacheCovers
  <2>4. NothingAwaited'
    BY <2>1 DEF LiveInv, NothingAwaited
  <2>5. ViewCovers'
    BY <2>1, <2>2 DEF LiveInv, ViewCovers
  <2>6. ViewIsCurrent'
    BY <2>1, <2>2 DEF LiveInv, ViewIsCurrent
  <2>7. CacheFollowsView'
    BY <2>1, <2>2 DEF LiveInv, CacheFollowsView
  <2>8. QED
    BY <2>3, <2>4, <2>5, <2>6, <2>7 DEF LiveInv
<1>4. ASSUME NEW p \in Pods, PodEvent(p) PROVE LiveInv'
  <2>1. UNCHANGED <<pods, pc, job>>
    BY <1>4 DEF PodEvent
  <2>2. podCache'[p] = pods[p] /\ \A q \in Pods \ {p} : podCache'[q] = podCache[q]
    BY <1>4 DEF PodEvent, TypeOK
  <2>3. exp' = exp \ {p}
    BY <1>4 DEF PodEvent
  <2>4. \A q \in Existing(pods) : rvExp'[q] = rvExp[q]
    BY <1>4 DEF PodEvent, Existing, TypeOK
  <2>5. Existing(pods) \subseteq Pods
    BY DEF Existing, TypeOK
  <2>6. CacheCovers'
    BY <2>1, <2>2, <2>3, <2>4, <2>5 DEF LiveInv, CacheCovers
  <2>7. NothingAwaited'
    BY <2>1, <2>3 DEF LiveInv, NothingAwaited
  <2>8. ViewCovers'
    BY <2>1, <2>4 DEF LiveInv, ViewCovers
  <2>9. ViewIsCurrent'
    BY <2>1 DEF LiveInv, ViewIsCurrent
  <2>10. CacheFollowsView'
    BY <2>1, <2>2, <2>5 DEF LiveInv, CacheFollowsView
  <2>11. QED
    BY <2>6, <2>7, <2>8, <2>9, <2>10 DEF LiveInv
<1>5. CASE Crash
  BY <1>5 DEF Crash, Restarts, LiveInv, CacheCovers, NothingAwaited, ViewCovers,
              ViewIsCurrent, CacheFollowsView
<1>6. CASE Failover
  BY <1>6, GraverSuffered DEF Failover, Orderly, Graver
<1>7. QED
  BY <1>2, <1>3, <1>4, <1>5, <1>6 DEF Environment
LEMMA ListingLive ==
    ASSUME TypeInv, LiveInv, Orderly', Take \/ ListPods
    PROVE  LiveInv'
<1> TypeOK
  BY DEF TypeInv
<1>1. CASE Take
  <2>1. UNCHANGED <<pods, podCache, exp, rvExp>>
    BY <1>1 DEF Take, objects, memory
  <2>2. CASE exp = {}
    BY <1>1, <2>1, <2>2 DEF Take, Goto, LiveInv, CacheCovers, NothingAwaited, ViewCovers,
                         ViewIsCurrent, CacheFollowsView, Existing
  <2>3. CASE exp # {}
    <3>1. pc' = "idle"
      BY <1>1, <2>3 DEF Take
    <3>2. QED
      BY <2>1, <3>1, LiveGoesOn
  <2>4. QED
    BY <2>2, <2>3
<1>2. CASE ListPods
  <2>1. UNCHANGED <<pods, podCache, exp, rvExp>> /\ pc' = "revisions" /\ exp = {}
    BY <1>2 DEF ListPods, Goto, objects, memory, LiveInv, NothingAwaited
  <2>2. job'.view = podCache
    BY <1>2 DEF ListPods, TypeOK, Job
  <2>3. CacheCovers'
    BY <2>1 DEF LiveInv, CacheCovers, Existing
  <2>4. ViewCovers'
    BY <2>1, <2>2 DEF LiveInv, CacheCovers, ViewCovers, Existing
  <2>5. CacheFollowsView'
    BY <2>1, <2>2 DEF CacheFollowsView, Existing
  <2>6. NothingAwaited' /\ ViewIsCurrent'
    BY <2>1 DEF NothingAwaited, ViewIsCurrent
  <2>7. QED
    BY <2>3, <2>4, <2>5, <2>6 DEF LiveInv
<1>3. QED
  BY <1>1, <1>2

LEMMA HistoryLive ==
    ASSUME TypeInv, LiveInv,
           \/ KeepRevision \/ RollBack \/ StartRevision
           \/ Renumber \/ RenumberedBefore \/ RenumberFails
           \/ CreateRevision \/ TakeNamed \/ Collide \/ CreateRevisionFails
    PROVE  LiveInv'
<1> DEFINE Making == {"revisions", "renumber", "create", "versions"}
<1> TypeOK
  BY DEF TypeInv
<1>1. CASE KeepRevision \/ RollBack \/ StartRevision
  <2>1. UNCHANGED <<pods, podCache, exp, rvExp>> /\ pc \in Making /\ pc' \in Making
    BY <1>1 DEF KeepRevision, RollBack, StartRevision, Goto, objects, memory
  <2>2. job'.view = job.view
    BY <1>1 DEF KeepRevision, RollBack, StartRevision, TypeOK, Job
  <2>3. QED
    BY <2>1, <2>2, LiveGoesOn
<1>2. CASE Renumber \/ RenumberedBefore
  <2>1. UNCHANGED <<pods, podCache, exp, rvExp>> /\ pc \in Making /\ pc' \in Making
    BY <1>2 DEF Renumber, RenumberedBefore, Goto, objects, memory
  <2>2. job'.view = job.view
    BY <1>2 DEF Renumber, RenumberedBefore, TypeOK, Job
  <2>3. QED
    BY <2>1, <2>2, LiveGoesOn
<1>3. CASE CreateRevision \/ TakeNamed \/ Collide
  <2>1. UNCHANGED <<pods, podCache, exp, rvExp>> /\ pc \in Making /\ pc' \in Making
    BY <1>3 DEF CreateRevision, TakeNamed, Collide, Goto, objects, memory
  <2>2. job'.view = job.view
    BY <1>3 DEF CreateRevision, TakeNamed, Collide, TypeOK, Job
  <2>3. QED
    BY <2>1, <2>2, LiveGoesOn
<1>4. CASE RenumberFails \/ CreateRevisionFails
  <2>1. UNCHANGED <<pods, podCache, exp, rvExp>> /\ pc' = "idle"
    BY <1>4 DEF RenumberFails, CreateRevisionFails, Return, Goto, objects, memory
  <2>2. QED
    BY <2>1, LiveGoesOn
<1>5. QED
  BY <1>1, <1>2, <1>3, <1>4

\* Past the gate, the list shows every pod as it is.
LEMMA GateLive ==
    ASSUME TypeInv, LiveInv, PassVersions
    PROVE  LiveInv'
<1>1. /\ pc = "versions" /\ pc' = "sync"
      /\ UNCHANGED <<pods, podCache, exp, job>>
      /\ \A p \in Pods : ~Stale(p)
      /\ \A p \in Pods : rvExp'[p] = IF job.view[p] = rvExp[p] THEN None ELSE rvExp[p]
  BY DEF PassVersions, Goto, objects
<1>2. Existing(pods) \subseteq Pods /\ \A p \in Existing(pods) : pods[p] # None
  BY DEF TypeInv, TypeOK, Existing
<1>3. \A p \in Existing(pods) : job.view[p] = pods[p]
  BY <1>1, <1>2 DEF LiveInv, ViewCovers, Stale
<1>4. \A p \in Existing(pods) : podCache[p] = pods[p]
  BY <1>1, <1>3 DEF LiveInv, CacheFollowsView
<1>5. CacheCovers' /\ CacheFollowsView'
  BY <1>1, <1>4 DEF CacheCovers, CacheFollowsView, Existing
<1>6. ViewIsCurrent'
  BY <1>1, <1>3 DEF ViewIsCurrent, Existing
<1>7. NothingAwaited' /\ ViewCovers'
  BY <1>1 DEF NothingAwaited, ViewCovers
<1>8. QED
  BY <1>5, <1>6, <1>7 DEF LiveInv

\* A call on a pod that is expected, or observed, before the next list.
LEMMA SyncLive ==
    ASSUME TypeInv, LiveInv, NEW p \in Pods,
           CreatePod(p) \/ DeletePod(p) \/ UpdatePod(p)
    PROVE  LiveInv'
<1> TypeOK
  BY DEF TypeInv
<1>1. /\ pc = "sync" /\ pc' = pc /\ job \in Job /\ UNCHANGED podCache
      /\ job' = [job EXCEPT !.todo = @ \ {p}]
  BY DEF CreatePod, DeletePod, UpdatePod, Updatable, TypeOK
<1>2. job'.view = job.view /\ job'.update = job.update /\ job'.todo = job.todo \ {p}
  BY <1>1 DEF Job
<1>3. /\ \A q \in Pods \ {p} : pods'[q] = pods[q] /\ rvExp'[q] = rvExp[q]
      /\ exp \subseteq exp'
      /\ Existing(pods') \subseteq Pods
      /\ \A q \in Existing(pods') : pods'[q] # None /\ (q # p => q \in Existing(pods))
  BY DEF CreatePod, DeletePod, UpdatePod, Existing, TypeOK
<1>4. p \in Existing(pods') =>
         /\ pods'[p].rev = job.update
         /\ pods'[p] # job.view[p]
         /\ p \in exp' \/ (rvExp'[p] = pods'[p] /\ podCache[p] # None)
  <2>1. CASE CreatePod(p)
    <3>1. pods'[p] = NewPod /\ job.view[p] = None /\ p \in exp'
      BY <2>1 DEF CreatePod, TypeOK
    <3>2. QED
      BY <3>1, <1>3 DEF NewPod
  <2>2. CASE DeletePod(p)
    BY <2>2 DEF DeletePod, Existing, TypeOK
  <2>3. CASE UpdatePod(p)
    <3>1. pods'[p] = UpdatedPod(p) /\ rvExp'[p] = UpdatedPod(p) /\ podCache[p] # None
      BY <2>3 DEF UpdatePod, Updatable, TypeOK
    <3>2. UpdatedPod(p).rev = job.update /\ job.view[p].rev # job.update
      BY <2>3 DEF UpdatePod, Updatable, UpdatedPod
    <3>3. QED
      BY <3>1, <3>2
  <2>4. QED
    BY <2>1, <2>2, <2>3
<1>5. CacheCovers'
  BY <1>1, <1>3, <1>4 DEF LiveInv, CacheCovers
<1>6. ViewIsCurrent'
  BY <1>1, <1>2, <1>3, <1>4 DEF LiveInv, ViewIsCurrent
<1>7. CacheFollowsView'
  BY <1>1, <1>2, <1>3, <1>4 DEF LiveInv, CacheFollowsView
<1>8. NothingAwaited' /\ ViewCovers'
  BY <1>1 DEF NothingAwaited, ViewCovers
<1>9. QED
  BY <1>5, <1>6, <1>7, <1>8 DEF LiveInv

LEMMA EndingLive ==
    ASSUME TypeInv, LiveInv,
           \/ WaitForVersions \/ EndSync
           \/ StatusIsConsistent \/ UpdateStatus \/ UpdateStatusFails
           \/ Truncate \/ NothingToTruncate
           \/ \E n \in Names : Drop(n) \/ DropFails(n)
    PROVE  LiveInv'
<1> DEFINE Past == {"sync", "status", "truncate", "drop"}
<1> DEFINE Ending == {"status", "truncate", "drop"}
<1> TypeOK
  BY DEF TypeInv
<1>1. CASE EndSync \/ Truncate
  <2>1. UNCHANGED <<pods, podCache, exp, rvExp>> /\ pc \in Past /\ pc' \in Ending
    BY <1>1 DEF EndSync, Truncate, Goto, objects, memory
  <2>2. job'.view = job.view /\ job'.update = job.update
    BY <1>1 DEF EndSync, Truncate, TypeOK, Job
  <2>3. QED
    BY <2>1, <2>2, LiveGoesOn
<1>2. CASE StatusIsConsistent \/ UpdateStatus
  <2>1. UNCHANGED <<pods, podCache, exp, rvExp, job>> /\ pc \in Past /\ pc' \in Ending
    BY <1>2 DEF StatusIsConsistent, UpdateStatus, Goto, objects, memory
  <2>2. QED
    BY <2>1, LiveGoesOn
<1>3. CASE WaitForVersions \/ UpdateStatusFails \/ NothingToTruncate
  <2>1. UNCHANGED <<pods, podCache, exp, rvExp>> /\ pc' = "idle"
    BY <1>3 DEF WaitForVersions, UpdateStatusFails, NothingToTruncate, Return, Goto,
                objects, memory
  <2>2. QED
    BY <2>1, LiveGoesOn
<1>4. ASSUME NEW n \in Names, Drop(n) PROVE LiveInv'
  <2>1. UNCHANGED <<pods, podCache, exp, rvExp>> /\ pc = "drop" /\ job \in Job
    BY <1>4 DEF Drop, NextToDrop, memory, TypeOK
  <2>2. CASE Return(job.err)
    BY <2>1, <2>2, LiveGoesOn DEF Return, Goto
  <2>3. CASE job' = [job EXCEPT !.old = @ \ {n}] /\ UNCHANGED <<pc, queued>>
    <3>1. job'.view = job.view /\ job'.update = job.update
      BY <2>1, <2>3 DEF Job
    <3>2. QED
      BY <2>1, <2>3, <3>1, LiveGoesOn
  <2>4. QED
    BY <1>4, <2>2, <2>3 DEF Drop
<1>5. ASSUME NEW n \in Names, DropFails(n) PROVE LiveInv'
  BY <1>5, LiveGoesOn DEF DropFails, Return, Goto, memory
<1>6. QED
  BY <1>1, <1>2, <1>3, <1>4, <1>5

LEMMA LiveStep ==
    ASSUME TypeInv, Orderly => LiveInv, [Next]_vars
    PROVE  Orderly' => LiveInv'
<1> SUFFICES ASSUME Orderly' PROVE LiveInv'
  OBVIOUS
<1>1. LiveInv
  BY SufferedGrows DEF Orderly
<1>2. CASE UNCHANGED vars
  BY <1>1, <1>2 DEF vars, LiveInv, CacheCovers, NothingAwaited, ViewCovers, ViewIsCurrent,
                    CacheFollowsView, Existing
<1>3. CASE Environment
  BY <1>1, <1>3, EnvironmentLive
<1>4. CASE Worker
  <2>1. ASSUME NEW p \in Pods, SyncTimesOut(p) PROVE LiveInv'
    BY <2>1, GraverSuffered DEF SyncTimesOut, Orderly, Graver
  <2>2. QED
    BY <1>1, <1>4, <2>1, ListingLive, HistoryLive, GateLive, SyncLive, EndingLive DEF Worker
<1>5. QED
  BY <1>2, <1>3, <1>4 DEF Next
\* What a pass is about to delete stays what it found to be old.
LEMMA OldStep ==
    ASSUME TypeInv, OldIsNotLive, [Next]_vars
    PROVE  OldIsNotLive'
<1> TypeOK
  BY DEF TypeInv
<1> SUFFICES ASSUME pc' = "drop" PROVE job'.old \subseteq NotLive'
  BY DEF OldIsNotLive
<1>1. CASE UNCHANGED <<pc, job>>
  BY <1>1 DEF OldIsNotLive, NotLive, CurrentRevision
<1>2. CASE Truncate
  <2>1. PICK S \in SUBSET NotLive : job' = [job EXCEPT !.old = S]
    BY <1>2 DEF Truncate
  <2>2. job \in Job
    BY <1>2 DEF Truncate, TypeOK
  <2>3. /\ job'.old = S /\ job'.list = job.list /\ job'.update = job.update
        /\ job'.iu = job.iu /\ job'.view = job.view
    BY <2>1, <2>2 DEF Job
  <2>4. QED
    BY <2>3 DEF NotLive, CurrentRevision
<1>3. ASSUME NEW n \in Names, Drop(n) PROVE job'.old \subseteq NotLive'
  <2>1. pc = "drop" /\ job \in Job
    BY <1>3 DEF Drop, NextToDrop, TypeOK
  <2>2. job' = [job EXCEPT !.old = @ \ {n}]
    BY <1>3 DEF Drop, Return, Goto
  <2>3. /\ job'.old \subseteq job.old /\ job'.list = job.list /\ job'.update = job.update
        /\ job'.iu = job.iu /\ job'.view = job.view
    BY <2>1, <2>2 DEF Job
  <2>4. QED
    BY <2>1, <2>3 DEF OldIsNotLive, NotLive, CurrentRevision
<1>4. CASE Environment
  <2>1. \/ UNCHANGED <<pc, job>>
        \/ pc' = "idle"
    BY <1>4 DEF Environment, UserChangesTemplate, InplaceuEvent, RevisionEvent, Evict,
                PodEvent, Crash, Failover, Restarts
  <2>2. QED
    BY <1>1, <2>1
<1>5. CASE Worker
  <2>1. \/ Truncate \/ \E n \in Names : Drop(n)
        \/ pc' # "drop"
    BY <1>5
    DEF Worker, Take, ListPods, KeepRevision, RollBack, StartRevision, Renumber,
        RenumberedBefore, RenumberFails, CreateRevision, TakeNamed, Collide,
        CreateRevisionFails, PassVersions, WaitForVersions, EndSync, CreatePod, DeletePod,
        UpdatePod, Updatable, SyncTimesOut, StatusIsConsistent, UpdateStatus,
        UpdateStatusFails, NothingToTruncate, DropFails, Return, Goto
  <2>2. QED
    BY <1>2, <1>3, <2>1
<1>6. QED
  BY <1>1, <1>4, <1>5 DEF Next, vars

LiveTruncation == TypeInv /\ OldIsNotLive /\ (Orderly => LiveInv)

\* A revision is only dropped by truncation, from what it found to be old.
LEMMA OnlyOldIsDropped ==
    ASSUME TypeInv, [Next]_vars, NEW n \in Names, Drops(n)
    PROVE  pc = "drop" /\ n \in job.old /\ UNCHANGED pods
<1> TypeOK
  BY DEF TypeInv
<1>1. store' # store
  BY DEF Drops
<1>2. None \notin Revision
  BY RevisionsAssumption DEF Revision
<1>3. ASSUME NEW m \in Names, NEW r \in Revision, WriteRevision(m, r) PROVE FALSE
  <2>1. CASE m = n
    BY <1>2, <1>3, <2>1 DEF WriteRevision, Drops, TypeOK
  <2>2. CASE m # n
    BY <1>3, <2>2 DEF WriteRevision, Drops, TypeOK
  <2>3. QED
    BY <2>1, <2>2
<1>4. CASE Renumber
  <2>1. store[job.update] \in Revision /\ job \in Job /\ job.update \in Names
    BY <1>4 DEF Renumber, TypeOK, TypeInv, UpdateChosen
  <2>2. [store[job.update] EXCEPT !.number = job.number] \in Revision
    BY <2>1 DEF Revision, Job
  <2>3. QED
    BY <1>3, <1>4, <2>1, <2>2 DEF Renumber
<1>5. CASE CreateRevision \/ CreateRevisionFails
  <2>1. pc = "create"
    BY <1>5 DEF CreateRevision, CreateRevisionFails
  <2>2. Candidate \in Names /\ [template |-> job.data, number |-> job.number] \in Revision
    BY <2>1, CandidateType
  <2>3. WriteRevision(Candidate, [template |-> job.data, number |-> job.number])
    BY <1>1, <1>5 DEF CreateRevision, CreateRevisionFails
  <2>4. QED
    BY <1>3, <2>2, <2>3
<1>6. ASSUME NEW m \in Names, Drop(m) \/ DropFails(m)
      PROVE  pc = "drop" /\ n \in job.old /\ UNCHANGED pods
  <2>1. NextToDrop(m) /\ UNCHANGED pods /\ WriteRevision(m, None)
    BY <1>1, <1>6 DEF Drop, DropFails
  <2>2. m = n
    BY <2>1 DEF WriteRevision, Drops, TypeOK
  <2>3. QED
    BY <2>1, <2>2 DEF NextToDrop
<1>7. CASE Environment
  BY <1>1, <1>7
  DEF Environment, UserChangesTemplate, InplaceuEvent, RevisionEvent, Evict, PodEvent,
      Crash, Failover, Restarts
<1>8. CASE Worker
  <2>1. \/ store' = store
        \/ Renumber \/ CreateRevision \/ CreateRevisionFails
        \/ \E m \in Names : Drop(m) \/ DropFails(m)
    BY <1>8
    DEF Worker, Take, ListPods, KeepRevision, RollBack, StartRevision,
        RenumberedBefore, RenumberFails, TakeNamed, Collide,
        PassVersions, WaitForVersions, EndSync, CreatePod, DeletePod,
        UpdatePod, SyncTimesOut, StatusIsConsistent, UpdateStatus,
        UpdateStatusFails, Truncate, NothingToTruncate, objects
  <2>2. QED
    BY <1>1, <1>4, <1>5, <1>6, <2>1
<1>9. QED
  BY <1>1, <1>7, <1>8 DEF Next, vars

LEMMA NoLiveDropped ==
    ASSUME LiveTruncation, [Next]_vars, Orderly, NEW n \in Names, Drops(n)
    PROVE  \A p \in Existing(pods) : pods[p].rev # n
<1>1. pc = "drop" /\ n \in job.old
  BY OnlyOldIsDropped DEF LiveTruncation
<1>2. n \in NotLive
  BY <1>1 DEF LiveTruncation, OldIsNotLive
<1>3. n # job.update /\ \A p \in Existing(job.view) : job.view[p].rev # n
  BY <1>2 DEF NotLive
<1>4. job \in Job /\ DOMAIN job.view = Pods /\ DOMAIN pods = Pods
  BY <1>1 DEF LiveTruncation, TypeInv, TypeOK, Job
<1>5. \A p \in Existing(pods) : job.view[p] = pods[p] \/ pods[p].rev = job.update
  BY <1>1 DEF LiveTruncation, LiveInv, ViewIsCurrent
<1>6. QED
  BY <1>3, <1>4, <1>5 DEF Existing

\* Truncation never drops the revision of a pod, whatever the limit, however many
\* pods are created, deleted and updated and however late the caches are, as long
\* as every write of the passes is expected (truncateHistory, the two gates of
\* Reconcile).
THEOREM LiveRevisionsStay == Spec => LiveRevisionsAreKept
<1>1. Init => LiveTruncation
  BY InitialInv DEF Inv, LiveTruncation
<1>2. LiveTruncation /\ [Next]_vars => LiveTruncation'
  BY TypeStep, OldStep, LiveStep DEF LiveTruncation
<1>3. LiveTruncation /\ [Next]_vars =>
         [suffered \subseteq {"stale"} =>
            \A n \in Names : Drops(n) => \A p \in Existing(pods) : pods[p].rev # n]_vars
  BY NoLiveDropped DEF Orderly
<1>4. QED
  BY <1>1, <1>2, <1>3, PTL DEF Spec, LiveRevisionsAreKept
-----------------------------------------------------------------------------
(* Labels and contents. *)

LEMMA WriteLag ==
    ASSUME TypeOK, LagLeads, NEW n \in Names, NEW r \in Revision \cup {None},
           WriteRevision(n, r), UNCHANGED revCache
    PROVE  LagLeads'
<1>1. /\ lag \in Seq(Names \X (Revision \cup {None}))
      /\ <<n, r>> \in Names \X (Revision \cup {None})
      /\ lag' = Append(lag, <<n, r>>)
  BY DEF WriteRevision, TypeOK
<1>2. /\ Len(lag') = Len(lag) + 1 /\ Len(lag) \in Nat
      /\ \A i \in 1 .. Len(lag) : lag'[i] = lag[i] /\ lag[i][1] \in Names
      /\ lag'[Len(lag) + 1] = <<n, r>>
  BY <1>1
<1>3. store'[n] = r /\ \A m \in Names \ {n} : store'[m] = store[m]
  BY DEF WriteRevision, TypeOK
<1>4. ASSUME NEW m \in Names, \A i \in 1 .. Len(lag') : lag'[i][1] # m
      PROVE  revCache'[m] = store'[m]
  <2>1. m # n
    BY <1>2, <1>4
  <2>2. \A i \in 1 .. Len(lag) : lag[i][1] # m
    BY <1>2, <1>4
  <2>3. QED
    BY <1>3, <2>1, <2>2 DEF LagLeads
<1>5. ASSUME NEW i \in 1 .. Len(lag'),
             \A j \in 1 .. Len(lag') : j > i => lag'[j][1] # lag'[i][1]
      PROVE  lag'[i][2] = store'[lag'[i][1]]
  <2>1. CASE i = Len(lag) + 1
    BY <1>2, <1>3, <2>1
  <2>2. CASE i \in 1 .. Len(lag)
    <3>1. lag'[Len(lag) + 1][1] # lag'[i][1]
      BY <1>2, <1>5, <2>2
    <3>2. \A j \in 1 .. Len(lag) : j > i => lag[j][1] # lag[i][1]
      BY <1>2, <1>5, <2>2
    <3>3. lag[i][2] = store[lag[i][1]]
      BY <2>2, <3>2 DEF LagLeads
    <3>4. QED
      BY <1>2, <1>3, <2>2, <3>1, <3>3
  <2>3. QED
    BY <1>2, <2>1, <2>2
<1>6. QED
  BY <1>4, <1>5 DEF LagLeads

LEMMA DeliverLag ==
    ASSUME TypeOK, LagLeads, RevisionEvent
    PROVE  LagLeads'
<1>1. /\ lag \in Seq(Names \X (Revision \cup {None})) /\ lag # <<>>
      /\ lag' = Tail(lag)
  BY DEF RevisionEvent, TypeOK
<1>2. /\ Len(lag') = Len(lag) - 1 /\ Len(lag) \in Nat /\ 1 \in 1 .. Len(lag)
      /\ Head(lag) = lag[1] /\ lag[1] \in Names \X (Revision \cup {None})
      /\ \A i \in 1 .. Len(lag') : lag'[i] = lag[i + 1] /\ i + 1 \in 1 .. Len(lag)
      /\ \A i \in 1 .. Len(lag) : i > 1 => i - 1 \in 1 .. Len(lag') /\ lag'[i - 1] = lag[i]
  BY <1>1
<1>3. revCache'[lag[1][1]] = lag[1][2]
      /\ \A m \in Names \ {lag[1][1]} : revCache'[m] = revCache[m]
  BY <1>2 DEF RevisionEvent, TypeOK
<1>4. store' = store
  BY DEF RevisionEvent
<1>5. ASSUME NEW m \in Names, \A i \in 1 .. Len(lag') : lag'[i][1] # m
      PROVE  revCache'[m] = store'[m]
  <2>1. \A i \in 1 .. Len(lag) : i > 1 => lag[i][1] # m
    BY <1>2, <1>5
  <2>2. CASE m = lag[1][1]
    <3>1. \A j \in 1 .. Len(lag) : j > 1 => lag[j][1] # lag[1][1]
      BY <2>1, <2>2
    <3>2. lag[1][2] = store[lag[1][1]]
      BY <1>2, <3>1 DEF LagLeads
    <3>3. QED
      BY <1>3, <1>4, <2>2, <3>2
  <2>3. CASE m # lag[1][1]
    <3>1. \A i \in 1 .. Len(lag) : lag[i][1] # m
      BY <1>2, <2>1, <2>3
    <3>2. QED
      BY <1>3, <1>4, <2>3, <3>1 DEF LagLeads
  <2>4. QED
    BY <2>2, <2>3
<1>6. ASSUME NEW i \in 1 .. Len(lag'),
             \A j \in 1 .. Len(lag') : j > i => lag'[j][1] # lag'[i][1]
      PROVE  lag'[i][2] = store'[lag'[i][1]]
  <2>1. ASSUME NEW j \in 1 .. Len(lag), j > i + 1 PROVE lag[j][1] # lag[i + 1][1]
    <3>1. j > 1 /\ j - 1 > i
      BY <1>2, <2>1
    <3>2. QED
      BY <1>2, <1>6, <2>1, <3>1
  <2>2. lag[i + 1][2] = store[lag[i + 1][1]]
    BY <1>2, <2>1 DEF LagLeads
  <2>3. QED
    BY <1>2, <1>4, <2>2
<1>7. QED
  BY <1>5, <1>6 DEF LagLeads

LEMMA LagStep ==
    ASSUME TypeInv, LagLeads, [Next]_vars
    PROVE  LagLeads'
<1> TypeOK
  BY DEF TypeInv
<1>1. CASE UNCHANGED <<store, revCache, lag>>
  BY <1>1 DEF LagLeads
<1>2. CASE Renumber
  <2>1. store[job.update] \in Revision /\ job \in Job /\ job.update \in Names
    BY <1>2 DEF Renumber, TypeOK, TypeInv, UpdateChosen
  <2>2. [store[job.update] EXCEPT !.number = job.number] \in Revision
    BY <2>1 DEF Revision, Job
  <2>3. QED
    BY <1>2, <2>1, <2>2, WriteLag DEF Renumber
<1>3. CASE CreateRevision \/ CreateRevisionFails
  <2>1. pc = "create" /\ revCache' = revCache
    BY <1>3 DEF CreateRevision, CreateRevisionFails
  <2>2. Candidate \in Names /\ [template |-> job.data, number |-> job.number] \in Revision
    BY <2>1, CandidateType
  <2>3. \/ WriteRevision(Candidate, [template |-> job.data, number |-> job.number])
        \/ UNCHANGED <<store, lag>>
    BY <1>3 DEF CreateRevision, CreateRevisionFails
  <2>4. QED
    BY <1>1, <2>1, <2>2, <2>3, WriteLag
<1>4. ASSUME NEW m \in Names, Drop(m) \/ DropFails(m)
      PROVE  LagLeads'
  <2>1. revCache' = revCache /\ (WriteRevision(m, None) \/ UNCHANGED <<store, lag>>)
    BY <1>4 DEF Drop, DropFails
  <2>2. QED
    BY <1>1, <2>1, WriteLag
<1>5. CASE Restarts
  <2>1. lag' = <<>> /\ revCache' = store'
    BY <1>5 DEF Restarts
  <2>2. QED
    BY <2>1 DEF LagLeads
<1>6. CASE Environment
  BY <1>1, <1>5, <1>6, DeliverLag
  DEF Environment, UserChangesTemplate, InplaceuEvent, Evict, PodEvent, Crash, Failover
<1>7. CASE Worker
  <2>1. \/ UNCHANGED <<store, revCache, lag>>
        \/ Renumber \/ CreateRevision \/ CreateRevisionFails
        \/ \E m \in Names : Drop(m) \/ DropFails(m)
    BY <1>7
    DEF Worker, Take, ListPods, KeepRevision, RollBack, StartRevision,
        RenumberedBefore, RenumberFails, TakeNamed, Collide,
        PassVersions, WaitForVersions, EndSync, CreatePod, DeletePod,
        UpdatePod, SyncTimesOut, StatusIsConsistent, UpdateStatus,
        UpdateStatusFails, Truncate, NothingToTruncate, objects
  <2>2. QED
    BY <1>1, <1>2, <1>3, <1>4, <2>1
<1>8. QED
  BY <1>1, <1>6, <1>7 DEF Next, vars

\* A cache with nothing on the way has everything.
LEMMA WholeCache ==
    ASSUME TypeInv, LagLeads, lag = <<>>
    PROVE  revCache = store
<1>1. \A n \in Names : revCache[n] = store[n]
  BY DEF LagLeads
<1>2. QED
  BY <1>1 DEF TypeInv, TypeOK
\* A pass that goes on, or ends, and touches neither pods nor revisions.
LEMMA ContentsGoOn ==
    ASSUME ContentsInv, UNCHANGED <<store, pods>>,
           \/ pc' \in {"idle", "drop"}
           \/ /\ pc \in {"versions", "sync", "status", "truncate"}
              /\ pc' \in {"sync", "status", "truncate"}
              /\ pc' = "sync" => pc \in {"versions", "sync"}
              /\ job'.list = job.list /\ job'.update = job.update /\ job'.data = job.data
    PROVE  ContentsInv'
<1>1. PodsTell'
  BY DEF ContentsInv, PodsTell, Existing
<1>2. ListTells'
  BY DEF ContentsInv, ListTells, Existing
<1>3. CacheIsWhole'
  BY DEF CacheIsWhole
<1>4. DataTold'
  BY DEF ContentsInv, DataTold
<1>5. QED
  BY <1>1, <1>2, <1>3, <1>4 DEF ContentsInv

LEMMA EnvironmentContents ==
    ASSUME TypeInv, ContentsInv, Environment
    PROVE  ContentsInv'
<1> TypeOK
  BY DEF TypeInv
<1>1. ASSUME UNCHANGED <<store, lag, pods, pc, job>> PROVE ContentsInv'
  BY <1>1 DEF ContentsInv, ListTells, CacheIsWhole, DataTold, PodsTell, Existing
<1>2. CASE \/ \E t \in Templates : UserChangesTemplate(t)
           \/ InplaceuEvent
           \/ \E p \in Pods : PodEvent(p)
  BY <1>1, <1>2 DEF UserChangesTemplate, InplaceuEvent, PodEvent
<1>3. CASE RevisionEvent
  <2>1. lag # <<>> /\ UNCHANGED <<store, pods, pc, job>>
    BY <1>3 DEF RevisionEvent
  <2>2. QED
    BY <2>1 DEF ContentsInv, ListTells, CacheIsWhole, DataTold, PodsTell, Existing
<1>4. ASSUME NEW p \in Pods, Evict(p) PROVE ContentsInv'
  <2>1. UNCHANGED <<store, lag, pc, job>>
    BY <1>4 DEF Evict
  <2>2. \A q \in Existing(pods') : q \in Existing(pods) /\ pods'[q] = pods[q]
    BY <1>4 DEF Evict, Existing, TypeOK
  <2>3. PodsTell'
    BY <2>1, <2>2 DEF ContentsInv, PodsTell
  <2>4. QED
    BY <2>1, <2>3 DEF ContentsInv, ListTells, CacheIsWhole, DataTold, Existing
<1>5. CASE Crash \/ Failover
  BY <1>5, ContentsGoOn DEF Crash, Failover, Restarts
<1>6. QED
  BY <1>2, <1>3, <1>4, <1>5 DEF Environment

\* The pass has listed all revisions there are, unless it was told a list too old.
LEMMA ListingContents ==
    ASSUME TypeInv, LagLeads, ContentsInv, suffered' = {},
           Take \/ ListPods \/ KeepRevision \/ RollBack \/ StartRevision
    PROVE  ContentsInv'
<1> TypeOK
  BY DEF TypeInv
<1>1. UNCHANGED <<store, lag, pods>>
  BY DEF Take, ListPods, KeepRevision, RollBack, StartRevision, objects
<1>2. PodsTell'
  BY <1>1 DEF ContentsInv, PodsTell, Existing
<1>3. CASE Take
  <2>1. pc' = "pods" => job' = NewJob(iuCache)
    BY <1>3 DEF Take, Goto
  <2>2. pc' \in {"pods", "idle"}
    BY <1>3 DEF Take, Goto
  <2>3. DataTold'
    BY <2>1, <2>2 DEF DataTold, NewJob
  <2>4. QED
    BY <1>2, <2>2, <2>3 DEF ContentsInv, ListTells, CacheIsWhole
<1>4. CASE ListPods
  <2>1. pc = "pods" /\ pc' = "revisions" /\ job \in Job
    BY <1>4 DEF ListPods, Goto, TypeOK
  <2>2. job'.data = job.data /\ job'.iu = job.iu
    BY <1>4, <2>1 DEF ListPods, Job
  <2>3. DataTold'
    BY <2>1, <2>2 DEF ContentsInv, DataTold
  <2>4. QED
    BY <1>2, <2>1, <2>3 DEF ContentsInv, ListTells, CacheIsWhole
<1>5. CASE KeepRevision \/ RollBack \/ StartRevision
  <2>1. pc = "revisions" /\ job \in Job
    BY <1>5 DEF KeepRevision, RollBack, StartRevision, TypeOK
  <2>2. lag = <<>>
    <3>1. MayBeStale
      BY <1>5 DEF KeepRevision, RollBack, StartRevision
    <3>2. QED
      BY <3>1, GraverSuffered DEF MayBeStale, Graver
  <2>3. revCache = store
    BY <2>2, WholeCache
  <2>4. job'.list = store /\ job'.data = job.data
    BY <1>5, <2>1, <2>3 DEF KeepRevision, RollBack, StartRevision, Job
  <2>5. ListTells'
    BY <1>1, <2>4 DEF ListTells, Existing
  <2>6. job.data = job.iu.template
    BY <2>1 DEF ContentsInv, DataTold
  <2>7. CASE KeepRevision
    <3>1. PICK n \in Existing(revCache) :
             /\ revCache[n].template = job.iu.template
             /\ job' = [job EXCEPT !.list = revCache, !.update = n]
      BY <2>7 DEF KeepRevision, Newest
    <3>2. job'.update = n /\ pc' = "versions"
      BY <2>1, <2>7, <3>1 DEF KeepRevision, Goto, Job
    <3>3. DataTold'
      BY <1>1, <2>3, <2>4, <2>6, <3>1, <3>2 DEF DataTold, Existing
    <3>4. QED
      BY <1>2, <2>5, <3>2, <3>3 DEF ContentsInv, CacheIsWhole
  <2>8. CASE RollBack
    <3>1. PICK n \in Existing(revCache), k \in NextRevision(revCache) :
             job' = [job EXCEPT !.list = revCache, !.update = n, !.number = k]
      BY <2>8 DEF RollBack, Newest, EqualRevisions
    <3>2. job'.update = n /\ pc' = "renumber"
      BY <2>1, <2>8, <3>1 DEF RollBack, Goto, Job
    <3>3. CacheIsWhole'
      BY <1>1, <2>2, <2>3, <2>4, <3>1, <3>2 DEF CacheIsWhole, Existing
    <3>4. QED
      BY <1>2, <2>5, <3>2, <3>3 DEF ContentsInv, DataTold
  <2>9. CASE StartRevision
    <3>1. pc' = "create"
      BY <2>9 DEF StartRevision, Goto
    <3>2. QED
      BY <1>1, <1>2, <2>2, <2>5, <3>1 DEF ContentsInv, DataTold, CacheIsWhole
  <2>10. QED
    BY <1>5, <2>7, <2>8, <2>9
<1>6. QED
  BY <1>3, <1>4, <1>5

LEMMA NumberingContents ==
    ASSUME TypeInv, ContentsInv, Renumber \/ RenumberedBefore \/ RenumberFails
    PROVE  ContentsInv'
<1> TypeOK
  BY DEF TypeInv
<1>1. pc = "renumber" /\ job \in Job /\ job.update \in Names
  BY DEF Renumber, RenumberedBefore, RenumberFails, TypeInv, TypeOK, UpdateChosen
<1>2. job.list = store /\ store[job.update] # None
  BY <1>1 DEF ContentsInv, CacheIsWhole
<1>3. CASE Renumber
  <2> DEFINE r == [store[job.update] EXCEPT !.number = job.number]
  <2>1. store[job.update] \in Revision
    BY <1>1, <1>2 DEF TypeOK
  <2>2. r \in Revision /\ r.template = store[job.update].template
    BY <1>1, <2>1 DEF Revision, Job
  <2>3. r # None
    BY <2>2, RevisionsAssumption DEF Revision
  <2>4. store' = [store EXCEPT ![job.update] = r]
    BY <1>3 DEF Renumber, WriteRevision
  <2>5. \A n \in Names : store[n] # None =>
           store'[n] # None /\ store'[n].template = store[n].template
    <3> HIDE DEF r
    <3> QED
      BY <1>1, <2>2, <2>3, <2>4 DEF TypeOK
  <2>6. /\ job'.list = job.list /\ job'.update = job.update
        /\ job'.data = store[job.update].template
    BY <1>1, <1>3 DEF Renumber, Job
  <2>7. pc' = "versions" /\ pods' = pods
    BY <1>3 DEF Renumber, Goto
  <2>8. PodsTell'
    <3>1. \A p \in Existing(pods) : pods[p].rev \in Names
      BY DEF TypeOK, Existing, Pod
    <3>2. QED
      BY <2>5, <2>7, <3>1 DEF ContentsInv, PodsTell
  <2>9. ListTells'
    BY <1>1, <1>2, <2>5, <2>6 DEF ListTells, Existing, TypeOK
  <2>10. DataTold'
    BY <1>1, <1>2, <2>5, <2>6, <2>7 DEF DataTold
  <2>11. QED
    BY <2>7, <2>8, <2>9, <2>10 DEF ContentsInv, CacheIsWhole
<1>4. CASE RenumberedBefore
  BY <1>2, <1>4 DEF RenumberedBefore, Refused
<1>5. CASE RenumberFails
  BY <1>5, ContentsGoOn DEF RenumberFails, Return, Goto, objects
<1>6. QED
  BY <1>3, <1>4, <1>5
LEMMA CreatingContents ==
    ASSUME TypeInv, LagLeads, ContentsInv, suffered' = {},
           CreateRevision \/ TakeNamed \/ Collide \/ CreateRevisionFails
    PROVE  ContentsInv'
<1> TypeOK
  BY DEF TypeInv
<1> DEFINE r == [template |-> job.data, number |-> job.number]
<1>1. pc = "create"
  BY DEF CreateRevision, TakeNamed, Collide, CreateRevisionFails
<1>2. job \in Job /\ Candidate \in Names /\ r \in Revision
  BY <1>1, CandidateType
<1>3. revCache = store /\ lag = <<>>
  BY <1>1, WholeCache DEF ContentsInv, CacheIsWhole
<1>4. CASE CreateRevision
  <2>1. store[Candidate] = None /\ store' = [store EXCEPT ![Candidate] = r]
    BY <1>4 DEF CreateRevision, WriteRevision
  <2>2. r # None /\ r.template = job.data
    BY <1>2, RevisionsAssumption DEF Revision
  <2>3. /\ \A n \in Names : store[n] # None => store'[n] = store[n]
        /\ store'[Candidate] # None /\ store'[Candidate].template = job.data
    <3> HIDE DEF r
    <3> QED
      BY <1>2, <2>1, <2>2 DEF TypeOK
  <2>4. job'.list = job.list /\ job'.update = Candidate /\ job'.data = job.data
    BY <1>2, <1>4 DEF CreateRevision, Job
  <2>5. pc' = "versions" /\ pods' = pods
    BY <1>4 DEF CreateRevision, Goto
  <2>6. PodsTell'
    <3>1. \A p \in Existing(pods) : pods[p].rev \in Names
      BY DEF TypeOK, Existing, Pod
    <3>2. QED
      BY <2>3, <2>5, <3>1 DEF ContentsInv, PodsTell
  <2>7. ListTells'
    <3>1. \A n \in Existing(job.list) : n \in Names
      BY <1>2 DEF Existing, Job
    <3>2. QED
      BY <1>1, <2>3, <2>4, <3>1 DEF ContentsInv, ListTells
  <2>8. DataTold'
    BY <2>3, <2>4, <2>5 DEF DataTold
  <2>9. QED
    BY <2>5, <2>6, <2>7, <2>8 DEF ContentsInv, CacheIsWhole
<1>5. CASE TakeNamed
  <2>1. /\ store[Candidate] # None /\ store[Candidate].template = job.data
        /\ pc' = "versions" /\ UNCHANGED <<store, pods>>
    BY <1>3, <1>5 DEF TakeNamed, Goto, objects
  <2>2. job'.list = job.list /\ job'.update = Candidate /\ job'.data = job.data
    BY <1>2, <1>5 DEF TakeNamed, Job
  <2>3. PodsTell' /\ ListTells'
    BY <1>1, <2>1, <2>2 DEF ContentsInv, PodsTell, ListTells, Existing
  <2>4. DataTold'
    BY <2>1, <2>2 DEF DataTold
  <2>5. QED
    BY <2>1, <2>3, <2>4 DEF ContentsInv, CacheIsWhole
<1>6. CASE Collide
  <2>1. UNCHANGED <<store, lag, pods, pc>>
    BY <1>6 DEF Collide, objects
  <2>2. job'.list = job.list
    BY <1>2, <1>6 DEF Collide, Job
  <2>3. PodsTell' /\ ListTells'
    BY <1>1, <2>1, <2>2 DEF ContentsInv, PodsTell, ListTells, Existing
  <2>4. QED
    BY <1>1, <1>3, <2>1, <2>3 DEF ContentsInv, CacheIsWhole, DataTold
<1>7. CASE CreateRevisionFails
  <2>1. ~Disturb("timeout")
    BY GraverSuffered DEF Graver
  <2>2. UNCHANGED <<store, pods>> /\ pc' = "idle"
    BY <1>7, <2>1 DEF CreateRevisionFails, Return, Goto
  <2>3. QED
    BY <2>2, ContentsGoOn
<1>8. QED
  BY <1>4, <1>5, <1>6, <1>7

\* The difference of two templates, applied to the first, is the second.
LEMMA PatchedFully ==
    ASSUME NEW old \in [Containers -> Images], NEW new \in [Containers -> Images]
    PROVE  Patched(old, new, old) = new
  BY DEF Patched

\* What an update makes of a pod is what its revision says.
LEMMA UpdatedPodTells ==
    ASSUME TypeInv, LiveInv, ContentsInv, NEW p \in Pods, Updatable(p)
    PROVE  UpdatedPod(p) = [rev |-> job.update, contents |-> job.data]
<1>1. pc = "sync" /\ p \in job.todo /\ podCache[p] = pods[p] /\ p \in Existing(pods)
  BY DEF Updatable, Existing, TypeInv, TypeOK
<1>2. job.view[p] = pods[p]
  BY <1>1 DEF LiveInv, ViewIsCurrent
<1>3. job \in Job /\ pods[p].rev \in Names
  BY <1>1 DEF TypeInv, TypeOK, Existing, Pod
<1>4. pods[p].rev \in Existing(job.list)
  BY <1>2, <1>3 DEF Updatable, Existing, Job
<1>5. job.list[pods[p].rev].template = pods[p].contents
  BY <1>1, <1>4 DEF ContentsInv, ListTells, PodsTell
<1>6. job.data \in [Containers -> Images] /\ pods[p].contents \in [Containers -> Images]
  BY <1>1, <1>3, RevisionsAssumption DEF Job, TypeInv, TypeOK, Existing, Pod
<1>7. Patched(pods[p].contents, job.data, pods[p].contents) = job.data
  BY <1>6, PatchedFully
<1>8. QED
  BY <1>1, <1>2, <1>5, <1>7 DEF UpdatedPod

LEMMA SyncContents ==
    ASSUME TypeInv, LiveInv, ContentsInv, NEW p \in Pods,
           CreatePod(p) \/ DeletePod(p) \/ UpdatePod(p)
    PROVE  ContentsInv'
<1> TypeOK
  BY DEF TypeInv
<1>1. /\ pc = "sync" /\ pc' = pc /\ job \in Job /\ store' = store
      /\ job' = [job EXCEPT !.todo = @ \ {p}]
  BY DEF CreatePod, DeletePod, UpdatePod, Updatable, TypeOK
<1>2. job'.list = job.list /\ job'.update = job.update /\ job'.data = job.data
  BY <1>1 DEF Job
<1>3. store[job.update] # None /\ store[job.update].template = job.data
  BY <1>1 DEF ContentsInv, DataTold
<1>4. \/ pods' = [pods EXCEPT ![p] = None]
      \/ pods' = [pods EXCEPT ![p] = [rev |-> job.update, contents |-> job.data]]
  BY UpdatedPodTells DEF CreatePod, DeletePod, UpdatePod, NewPod
<1>5. ASSUME NEW q \in Existing(pods')
      PROVE  store[pods'[q].rev] # None /\ store[pods'[q].rev].template = pods'[q].contents
  <2>1. CASE q = p
    BY <1>3, <1>4, <1>5, <2>1 DEF Existing, TypeOK
  <2>2. CASE q # p
    <3>1. q \in Existing(pods) /\ pods'[q] = pods[q]
      BY <1>4, <1>5, <2>2 DEF Existing, TypeOK
    <3>2. QED
      BY <3>1 DEF ContentsInv, PodsTell
  <2>3. QED
    BY <2>1, <2>2
<1>6. PodsTell'
  BY <1>1, <1>5 DEF PodsTell
<1>7. ListTells' /\ DataTold' /\ CacheIsWhole'
  BY <1>1, <1>2 DEF ContentsInv, ListTells, DataTold, CacheIsWhole, Existing
<1>8. QED
  BY <1>6, <1>7 DEF ContentsInv

LEMMA EndingContents ==
    ASSUME Inv, LiveInv, ContentsInv, suffered = {}, suffered' = {}, [Next]_vars,
           \/ PassVersions \/ WaitForVersions \/ EndSync
           \/ StatusIsConsistent \/ UpdateStatus \/ UpdateStatusFails
           \/ Truncate \/ NothingToTruncate
           \/ \E n \in Names : Drop(n) \/ DropFails(n)
    PROVE  ContentsInv'
<1> TypeOK
  BY DEF Inv, TypeInv
<1>1. CASE PassVersions \/ EndSync \/ StatusIsConsistent \/ UpdateStatus
  <2>1. /\ UNCHANGED <<store, pods>>
        /\ pc \in {"versions", "sync", "status", "truncate"}
        /\ pc' \in {"sync", "status", "truncate"}
        /\ pc' = "sync" => pc = "versions"
    BY <1>1 DEF PassVersions, EndSync, StatusIsConsistent, UpdateStatus, Goto, objects
  <2>2. job'.list = job.list /\ job'.update = job.update /\ job'.data = job.data
    BY <1>1 DEF PassVersions, EndSync, StatusIsConsistent, UpdateStatus, TypeOK, Job
  <2>3. QED
    BY <2>1, <2>2, ContentsGoOn
<1>2. CASE WaitForVersions \/ UpdateStatusFails \/ Truncate \/ NothingToTruncate
  BY <1>2, ContentsGoOn
  DEF WaitForVersions, UpdateStatusFails, Truncate, NothingToTruncate, Return, Goto, objects
<1>3. ASSUME NEW n \in Names, Drop(n) PROVE ContentsInv'
  <2>1. /\ pc' \in {"drop", "idle"} /\ pods' = pods
        /\ store[n] # None /\ store' = [store EXCEPT ![n] = None]
    BY <1>3 DEF Drop, NextToDrop, WriteRevision, Return, Goto
  <2>2. Drops(n)
    BY <2>1 DEF Drops, TypeOK
  <2>3. \A p \in Existing(pods) : pods[p].rev # n
    BY <2>2, NoLiveDropped DEF Inv, LiveTruncation, Orderly
  <2>4. \A p \in Existing(pods) : pods[p].rev \in Names /\ store'[pods[p].rev] = store[pods[p].rev]
    BY <2>1, <2>3 DEF TypeOK, Existing, Pod
  <2>5. PodsTell'
    BY <2>1, <2>4 DEF ContentsInv, PodsTell
  <2>6. QED
    BY <2>1, <2>5 DEF ContentsInv, ListTells, DataTold, CacheIsWhole
<1>4. ASSUME NEW n \in Names, DropFails(n) PROVE ContentsInv'
  <2>1. ~Disturb("timeout")
    BY GraverSuffered DEF Graver
  <2>2. UNCHANGED <<store, pods>> /\ pc' = "idle"
    BY <1>4, <2>1 DEF DropFails, Return, Goto
  <2>3. QED
    BY <2>2, ContentsGoOn
<1>5. QED
  BY <1>1, <1>2, <1>3, <1>4

LEMMA ContentsStep ==
    ASSUME Inv, [Next]_vars, suffered' = {}
    PROVE  ContentsInv'
<1>1. suffered = {} /\ LiveInv /\ ContentsInv /\ TypeInv /\ LagLeads
  BY SufferedGrows DEF Inv, Orderly
<1>2. CASE UNCHANGED vars
  BY <1>1, <1>2 DEF vars, ContentsInv, ListTells, DataTold, CacheIsWhole, PodsTell, Existing
<1>3. CASE Environment
  BY <1>1, <1>3, EnvironmentContents
<1>4. CASE Worker
  <2>1. ASSUME NEW p \in Pods, SyncTimesOut(p) PROVE ContentsInv'
    BY <2>1, GraverSuffered DEF SyncTimesOut, Graver
  <2>2. QED
    BY <1>1, <1>4, <2>1, ListingContents, NumberingContents, CreatingContents, SyncContents,
       EndingContents DEF Worker
<1>5. QED
  BY <1>2, <1>3, <1>4 DEF Next

LEMMA InvStep ==
    ASSUME Inv, [Next]_vars
    PROVE  Inv'
<1>1. TypeInv' /\ OldIsNotLive' /\ LagLeads'
  BY TypeStep, OldStep, LagStep DEF Inv
<1>2. Orderly' => LiveInv'
  BY LiveStep DEF Inv
<1>3. suffered' = {} => ContentsInv'
  BY ContentsStep
<1>4. QED
  BY <1>1, <1>2, <1>3 DEF Inv

\* The revision a pod is labelled with has what the pod runs, whatever templates
\* collide, come back and are patched over one another, as long as lists and calls
\* are what they seem (CreateControllerRevision, updatePodInPlace).
THEOREM LabelsTellTheTruth == Spec => []LabelsTellContents
<1>1. Init => Inv
  BY InitialInv
<1>2. Inv /\ [Next]_vars => Inv'
  BY InvStep
<1>3. Inv => LabelsTellContents
  BY DEF Inv, ContentsInv, PodsTell, LabelsTellContents
<1>4. QED
  BY <1>1, <1>2, <1>3, PTL DEF Spec

-----------------------------------------------------------------------------
(* The status at rest. *)

\* What may change without the history, the status or the pass.
LEMMA LatestUntouched ==
    ASSUME LatestInv, UNCHANGED <<store, lag, pc, job>>, queued => queued',
           \/ queued'
           \/ /\ iuCache' = iuCache /\ iu'.update = iu.update
              /\ pc # "idle" \/ exp' = exp
    PROVE  LatestInv'
<1>1. NumberDrawn'
  BY DEF LatestInv, NumberDrawn, Existing, EqualRevisions
<1>2. UpdateIsLatest'
  BY DEF LatestInv, UpdateIsLatest, IsLatestOf, Existing
<1>3. JobIsCached'
  BY DEF LatestInv, JobIsCached
<1>4. StatusTells'
  BY DEF LatestInv, StatusTells, IsLatestOf, Existing
<1> QED
  BY <1>1, <1>2, <1>3, <1>4 DEF LatestInv

\* A pass that has chosen its revision and goes on.
LEMMA LatestGoesOn ==
    ASSUME LatestInv, UNCHANGED <<store, iu, iuCache, queued>>,
           job'.update = job.update, job'.iu = job.iu,
           \/ /\ pc \in {"versions", "sync", "status"}
              /\ pc' \in {"sync", "status"}
           \/ pc = "truncate" /\ pc' = "drop"
    PROVE  LatestInv'
<1>1. NumberDrawn'
  BY DEF NumberDrawn
<1>2. UpdateIsLatest'
  BY DEF LatestInv, UpdateIsLatest, IsLatestOf, Existing
<1>3. JobIsCached'
  BY DEF LatestInv, JobIsCached
<1>4. StatusTells'
  BY DEF LatestInv, StatusTells
<1> QED
  BY <1>1, <1>2, <1>3, <1>4 DEF LatestInv

\* Revisions other than u may go.
OnlyDrops(u) ==
    /\ store'[u] = store[u]
    /\ \A m \in Existing(store') : m \in Existing(store) /\ store'[m] = store[m]

\* A pass that ends, to be repeated or with the status written.
LEMMA LatestEnds ==
    ASSUME LatestInv, UNCHANGED <<iu, iuCache>>, pc' = "idle", queued => queued',
           queued' \/ (pc \in {"truncate", "drop"} /\ OnlyDrops(job.update))
    PROVE  LatestInv'
<1>1. NumberDrawn' /\ UpdateIsLatest' /\ JobIsCached'
  BY DEF NumberDrawn, UpdateIsLatest, JobIsCached
<1>2. StatusTells'
  <2> SUFFICES ASSUME ~queued', iuCache.update = iu.update
               PROVE  IsLatestOf(iu.update, iuCache.template)'
    BY DEF StatusTells
  <2>1. /\ iu.update = job.update /\ job.iu = iuCache
        /\ IsLatestOf(job.update, job.iu.template)
    BY DEF LatestInv, StatusTells, JobIsCached, UpdateIsLatest
  <2>2. IsLatestOf(iu.update, iuCache.template) /\ OnlyDrops(iu.update)
    BY <2>1
  <2> QED
    BY <2>2 DEF IsLatestOf, OnlyDrops
<1> QED
  BY <1>1, <1>2 DEF LatestInv

LEMMA EnvironmentLatest ==
    ASSUME TypeInv, LatestInv, Environment
    PROVE  LatestInv'
<1> TypeOK
  BY DEF TypeInv
<1>1. ASSUME NEW t \in Templates, UserChangesTemplate(t) PROVE LatestInv'
  <2>1. iu'.update = iu.update
    BY <1>1 DEF UserChangesTemplate, TypeOK, Inplaceu
  <2> QED
    BY <1>1, <2>1, LatestUntouched DEF UserChangesTemplate, memory
<1>2. CASE InplaceuEvent \/ \E p \in Pods : PodEvent(p)
  BY <1>2, LatestUntouched DEF InplaceuEvent, PodEvent
<1>3. CASE RevisionEvent
  <2>1. lag # <<>> /\ UNCHANGED <<store, iu, iuCache, exp, pc, job, queued>>
    BY <1>3 DEF RevisionEvent, memory
  <2>2. NumberDrawn'
    BY <2>1 DEF LatestInv, NumberDrawn
  <2> QED
    BY <2>1, <2>2 DEF LatestInv, UpdateIsLatest, JobIsCached, StatusTells, IsLatestOf, Existing
<1>4. CASE \E p \in Pods : Evict(p)
  BY <1>4, LatestUntouched DEF Evict, memory
<1>5. CASE Crash \/ Failover
  BY <1>5 DEF Crash, Failover, Restarts, LatestInv, NumberDrawn, UpdateIsLatest, JobIsCached,
              StatusTells
<1> QED
  BY <1>1, <1>2, <1>3, <1>4, <1>5 DEF Environment

\* The number of the newest of some revisions is as high as any, and the next is higher.
LEMMA NewestIsHighest ==
    ASSUME NEW list \in [Names -> Revision \cup {None}], NEW S \in SUBSET Existing(list),
           NEW n \in Newest(list, S), NEW m \in S
    PROVE  list[m].number <= list[n].number
<1>1. list[m].number \in Nat /\ list[n].number \in Nat
  BY DEF Newest, Existing, Revision
<1>2. CASE m = n
  BY <1>1, <1>2
<1>3. CASE m # n
  BY <1>1, <1>3 DEF Newest, SortedBefore
<1> QED
  BY <1>2, <1>3

LEMMA NextIsHigher ==
    ASSUME NEW list \in [Names -> Revision \cup {None}], NEW k \in NextRevision(list),
           NEW m \in Existing(list)
    PROVE  list[m].number <= k
<1>1. PICK n \in Newest(list, Existing(list)) : k = 1 + list[n].number
  BY DEF NextRevision
<1>2. list[m].number <= list[n].number
  BY NewestIsHighest
<1>3. list[m].number \in Nat /\ list[n].number \in Nat
  BY DEF Newest, Existing, Revision
<1> QED
  BY <1>1, <1>2, <1>3

LEMMA ListingLatest ==
    ASSUME TypeInv, LagLeads, LatestInv, ListsAreCurrent',
           Take \/ ListPods \/ KeepRevision \/ RollBack \/ StartRevision
    PROVE  LatestInv'
<1> TypeOK
  BY DEF TypeInv
<1>1. UNCHANGED <<iu, iuCache, store, lag>>
  BY DEF Take, ListPods, KeepRevision, RollBack, StartRevision, objects
<1>2. CASE Take
  <2>1. CASE exp = {}
    <3>1. job' = NewJob(iuCache) /\ pc' = "pods"
      BY <1>2, <2>1 DEF Take, Goto
    <3> QED
      BY <1>1, <3>1 DEF LatestInv, NumberDrawn, UpdateIsLatest, JobIsCached, StatusTells, NewJob
  <2>2. CASE exp # {}
    <3>1. pc' = "idle" /\ exp' # {}
      BY <1>2, <2>2 DEF Take, memory
    <3> QED
      BY <3>1 DEF LatestInv, NumberDrawn, UpdateIsLatest, JobIsCached, StatusTells
  <2> QED
    BY <2>1, <2>2
<1>3. CASE ListPods
  <2>1. pc = "pods" /\ pc' = "revisions" /\ job \in Job /\ queued' = queued
    BY <1>3 DEF ListPods, Goto, TypeOK
  <2>2. job'.data = job.data /\ job'.iu = job.iu
    BY <1>3, <2>1 DEF ListPods, Job
  <2> QED
    BY <1>1, <2>1, <2>2 DEF LatestInv, NumberDrawn, UpdateIsLatest, JobIsCached, StatusTells
<1>4. CASE KeepRevision \/ RollBack \/ StartRevision
  <2>1. pc = "revisions" /\ job \in Job /\ queued' = queued
    BY <1>4 DEF KeepRevision, RollBack, StartRevision, TypeOK
  <2>2. lag = <<>>
    <3>1. MayBeStale
      BY <1>4 DEF KeepRevision, RollBack, StartRevision
    <3> QED
      BY <3>1, GraverSuffered DEF MayBeStale, Graver, ListsAreCurrent
  <2>3. revCache = store
    BY <2>2, WholeCache
  <2>4. store \in [Names -> Revision \cup {None}]
    BY DEF TypeOK
  <2>5. job'.list = store /\ job'.data = job.data /\ job'.iu = job.iu
    BY <1>4, <2>1, <2>3 DEF KeepRevision, RollBack, StartRevision, Job
  <2>6. job.data = job.iu.template
    BY <2>1 DEF LatestInv, NumberDrawn
  <2>7. pc' # "idle" /\ JobIsCached'
    BY <1>1, <1>4, <2>1, <2>5 DEF KeepRevision, RollBack, StartRevision, Goto, LatestInv, JobIsCached
  <2>8. CASE KeepRevision
    <3>1. PICK n \in Newest(store, Existing(store)) :
             /\ store[n].template = job.iu.template
             /\ job' = [job EXCEPT !.list = revCache, !.update = n]
      BY <2>3, <2>8 DEF KeepRevision
    <3>2. job'.update = n /\ pc' = "versions"
      BY <2>1, <2>8, <3>1 DEF KeepRevision, Goto, Job
    <3>3. \A m \in Existing(store) : store[m].number <= store[n].number
      BY <2>4, NewestIsHighest
    <3>4. n \in Existing(store) /\ n # None
      BY <2>4, RevisionsAssumption DEF Newest, Existing
    <3>5. IsLatestOf(n, job.iu.template)
      BY <3>1, <3>3, <3>4 DEF IsLatestOf, Existing
    <3>6. UpdateIsLatest'
      BY <1>1, <2>5, <3>2, <3>5 DEF UpdateIsLatest, IsLatestOf, Existing
    <3> QED
      BY <2>7, <3>2, <3>6 DEF LatestInv, NumberDrawn, StatusTells
  <2>9. CASE RollBack
    <3>1. PICK n \in EqualRevisions(store, job.iu.template), k \in NextRevision(store) :
             job' = [job EXCEPT !.list = revCache, !.update = n, !.number = k]
      BY <2>3, <2>9 DEF RollBack, Newest
    <3>2. job'.update = n /\ job'.number = k /\ pc' = "renumber"
      BY <2>1, <2>9, <3>1 DEF RollBack, Goto, Job
    <3>3. store[n] # None /\ store[n].template = job.iu.template
      BY <3>1 DEF EqualRevisions, Existing
    <3>4. \A m \in Existing(store) : store[m].number <= k
      BY <2>4, NextIsHigher
    <3>5. NumberDrawn'
      BY <1>1, <2>2, <2>5, <3>2, <3>3, <3>4 DEF NumberDrawn, Existing
    <3> QED
      BY <2>7, <3>2, <3>5 DEF LatestInv, UpdateIsLatest, StatusTells
  <2>10. CASE StartRevision
    <3>1. PICK k \in NextRevision(store) : job' = [job EXCEPT !.list = revCache, !.number = k]
      BY <2>3, <2>10 DEF StartRevision
    <3>2. job'.number = k /\ pc' = "create"
      BY <2>1, <2>10, <3>1 DEF StartRevision, Goto, Job
    <3>3. \A m \in Existing(store) : store[m].number <= k
      BY <2>4, NextIsHigher
    <3>4. EqualRevisions(store, job.data) = {}
      BY <2>3, <2>6, <2>10 DEF StartRevision
    <3>5. NumberDrawn'
      BY <1>1, <2>2, <2>5, <2>6, <3>2, <3>3, <3>4 DEF NumberDrawn, Existing, EqualRevisions
    <3> QED
      BY <2>7, <3>2, <3>5 DEF LatestInv, UpdateIsLatest, StatusTells
  <2> QED
    BY <1>4, <2>8, <2>9, <2>10
<1> QED
  BY <1>2, <1>3, <1>4

LEMMA NumberingLatest ==
    ASSUME TypeInv, LatestInv, Renumber \/ RenumberedBefore \/ RenumberFails
    PROVE  LatestInv'
<1> TypeOK
  BY DEF TypeInv
<1>1. /\ pc = "renumber" /\ job \in Job /\ job.update \in Names
      /\ UNCHANGED <<iu, iuCache>>
  BY DEF Renumber, RenumberedBefore, RenumberFails, objects, TypeInv, TypeOK, UpdateChosen
<1>2. /\ job.list = store /\ store[job.update] # None
      /\ store[job.update].template = job.iu.template
      /\ \A n \in Existing(store) : store[n].number <= job.number
  BY <1>1 DEF LatestInv, NumberDrawn
<1>3. CASE Renumber
  <2> DEFINE r == [store[job.update] EXCEPT !.number = job.number]
  <2>1. store[job.update] \in Revision /\ job.number \in Nat
    BY <1>1, <1>2 DEF TypeOK, Job
  <2>2. r \in Revision /\ r.template = job.iu.template /\ r.number = job.number
    BY <1>2, <2>1 DEF Revision
  <2>3. r # None /\ job.update # None
    BY <1>1, <2>2, RevisionsAssumption DEF Revision
  <2>4. store' = [store EXCEPT ![job.update] = r]
    BY <1>3 DEF Renumber, WriteRevision
  <2>5. store'[job.update] = r /\ \A n \in Names \ {job.update} : store'[n] = store[n]
    <3> HIDE DEF r
    <3> QED
      BY <1>1, <2>4 DEF TypeOK
  <2>6. job'.update = job.update /\ job'.iu = job.iu /\ pc' = "versions" /\ queued' = queued
    BY <1>1, <1>3 DEF Renumber, Goto, Job
  <2>7. DOMAIN store = Names /\ DOMAIN store' = Names
    BY <2>4 DEF TypeOK
  <2>8. ASSUME NEW n \in Existing(store') PROVE store'[n].number <= job.number
    <3>1. n \in Names /\ store'[n] # None
      BY <2>7 DEF Existing
    <3>2. CASE n = job.update
      <4>1. store'[n].number = job.number
        BY <2>2, <2>5, <3>2
      <4>2. job.number \in Nat
        BY <2>1
      <4> QED BY <4>1, <4>2
    <3>3. CASE n # job.update
      <4>1. store'[n] = store[n] /\ n \in Existing(store)
        BY <2>5, <2>7, <3>1, <3>3 DEF Existing
      <4> QED BY <1>2, <4>1
    <3> QED BY <3>2, <3>3
  <2>9. UpdateIsLatest'
    BY <2>2, <2>3, <2>5, <2>6, <2>8 DEF UpdateIsLatest, IsLatestOf
  <2> QED
    BY <1>1, <2>6, <2>9 DEF LatestInv, NumberDrawn, JobIsCached, StatusTells
<1>4. CASE RenumberedBefore
  BY <1>2, <1>4 DEF RenumberedBefore, Refused
<1>5. CASE RenumberFails
  BY <1>1, <1>5, LatestEnds DEF RenumberFails, Return, Goto
<1> QED
  BY <1>3, <1>4, <1>5

LEMMA CreatingLatest ==
    ASSUME TypeInv, LagLeads, LatestInv,
           CreateRevision \/ TakeNamed \/ Collide \/ CreateRevisionFails
    PROVE  LatestInv'
<1> TypeOK
  BY DEF TypeInv
<1> DEFINE r == [template |-> job.data, number |-> job.number]
<1>1. pc = "create" /\ UNCHANGED <<iu, iuCache>>
  BY DEF CreateRevision, TakeNamed, Collide, CreateRevisionFails, objects
<1>2. job \in Job /\ Candidate \in Names /\ r \in Revision
  BY <1>1, CandidateType
<1>3. /\ job.data = job.iu.template /\ lag = <<>> /\ EqualRevisions(store, job.data) = {}
      /\ \A n \in Existing(store) : store[n].number <= job.number
  BY <1>1 DEF LatestInv, NumberDrawn
<1>4. CASE CreateRevision
  <2>1. store' = [store EXCEPT ![Candidate] = r]
    BY <1>4 DEF CreateRevision, WriteRevision
  <2>2. /\ r # None /\ Candidate # None /\ r.template = job.iu.template
        /\ r.number = job.number /\ job.number \in Nat
    BY <1>2, <1>3, RevisionsAssumption DEF Revision, Job
  <2>3. store'[Candidate] = r /\ \A n \in Names \ {Candidate} : store'[n] = store[n]
    <3> HIDE DEF r, Candidate
    <3> QED
      BY <1>2, <2>1 DEF TypeOK
  <2>4. job'.update = Candidate /\ job'.iu = job.iu /\ pc' = "versions" /\ queued' = queued
    BY <1>2, <1>4 DEF CreateRevision, Goto, Job
  <2>5. DOMAIN store = Names /\ DOMAIN store' = Names
    BY <2>1 DEF TypeOK
  <2>6. \A n \in Existing(store') : store'[n].number <= job.number
    <3> HIDE DEF Candidate
    <3> QED
      BY <1>3, <2>2, <2>3, <2>5 DEF Existing
  <2>7. UpdateIsLatest'
    <3> HIDE DEF Candidate
    <3> QED
      BY <2>2, <2>3, <2>4, <2>6 DEF UpdateIsLatest, IsLatestOf
  <2> QED
    BY <1>1, <2>4, <2>7 DEF LatestInv, NumberDrawn, JobIsCached, StatusTells
<1>5. CASE TakeNamed
  <2>1. store[Candidate] # None /\ store[Candidate].template = job.data
    BY <1>3, <1>5, WholeCache DEF TakeNamed
  <2> QED
    BY <1>2, <1>3, <2>1 DEF EqualRevisions, Existing, TypeOK
<1>6. CASE Collide
  <2>1. UNCHANGED <<store, lag, pc, queued, exp>>
    BY <1>6 DEF Collide, objects, memory
  <2>2. job'.data = job.data /\ job'.iu = job.iu /\ job'.number = job.number
    BY <1>2, <1>6 DEF Collide, Job
  <2> QED
    BY <1>1, <1>3, <2>1, <2>2
    DEF LatestInv, NumberDrawn, UpdateIsLatest, JobIsCached, StatusTells, Existing, EqualRevisions
<1>7. CASE CreateRevisionFails
  BY <1>1, <1>7, LatestEnds DEF CreateRevisionFails, Return, Goto
<1> QED
  BY <1>4, <1>5, <1>6, <1>7

LEMMA SyncLatest ==
    ASSUME TypeInv, LatestInv,
           \/ PassVersions \/ WaitForVersions \/ EndSync
           \/ \E p \in Pods : CreatePod(p) \/ DeletePod(p) \/ UpdatePod(p) \/ SyncTimesOut(p)
    PROVE  LatestInv'
<1> TypeOK
  BY DEF TypeInv
<1>1. CASE WaitForVersions
  BY <1>1, LatestEnds DEF WaitForVersions, Return, Goto, objects
<1>2. CASE \/ PassVersions \/ EndSync
           \/ \E p \in Pods : CreatePod(p) \/ DeletePod(p) \/ UpdatePod(p) \/ SyncTimesOut(p)
  <2>1. /\ UNCHANGED <<store, iu, iuCache, queued>>
        /\ pc \in {"versions", "sync"} /\ pc' \in {"sync", "status"}
    BY <1>2 DEF PassVersions, EndSync, CreatePod, DeletePod, UpdatePod, Updatable, SyncTimesOut,
                Goto, objects
  <2>2. job \in Job
    BY <2>1 DEF TypeOK
  <2>3. job'.update = job.update /\ job'.iu = job.iu
    BY <1>2, <2>2 DEF PassVersions, EndSync, CreatePod, DeletePod, UpdatePod, SyncTimesOut, Job
  <2> QED
    BY <2>1, <2>3, LatestGoesOn
<1> QED
  BY <1>1, <1>2

LEMMA EndingLatest ==
    ASSUME TypeInv, OldIsNotLive, LatestInv,
           \/ StatusIsConsistent \/ UpdateStatus \/ UpdateStatusFails
           \/ Truncate \/ NothingToTruncate
           \/ \E n \in Names : Drop(n) \/ DropFails(n)
    PROVE  LatestInv'
<1> TypeOK
  BY DEF TypeInv
<1>1. CASE StatusIsConsistent \/ UpdateStatus
  <2>1. /\ pc = "status" /\ pc' = "truncate" /\ job \in Job
        /\ UNCHANGED <<store, iuCache, queued, job>>
    BY <1>1 DEF StatusIsConsistent, UpdateStatus, Goto, objects, TypeOK
  <2>2. ~queued => iu'.update = job.update \/ iuCache.update # iu'.update
    <3>1. CASE StatusIsConsistent
      BY <2>1, <3>1 DEF StatusIsConsistent, objects, LatestInv, JobIsCached
    <3>2. CASE UpdateStatus
      BY <3>2 DEF UpdateStatus, TypeOK, Inplaceu
    <3> QED
      BY <1>1, <3>1, <3>2
  <2>3. StatusTells' /\ NumberDrawn'
    BY <2>1, <2>2 DEF StatusTells, NumberDrawn
  <2>4. UpdateIsLatest' /\ JobIsCached'
    BY <2>1 DEF LatestInv, UpdateIsLatest, JobIsCached, IsLatestOf, Existing
  <2> QED
    BY <2>3, <2>4 DEF LatestInv
<1>2. CASE UpdateStatusFails
  BY <1>2, LatestEnds DEF UpdateStatusFails, Return, Goto, objects
<1>3. CASE Truncate
  <2>1. /\ pc = "truncate" /\ pc' = "drop" /\ job \in Job
        /\ UNCHANGED <<store, iu, iuCache, queued>>
    BY <1>3 DEF Truncate, Goto, objects, TypeOK
  <2>2. job'.update = job.update /\ job'.iu = job.iu
    BY <1>3, <2>1 DEF Truncate, Job
  <2> QED
    BY <2>1, <2>2, LatestGoesOn
<1>4. CASE NothingToTruncate
  <2>1. /\ pc = "truncate" /\ pc' = "idle" /\ UNCHANGED <<store, iu, iuCache>>
        /\ queued => queued'
    BY <1>4 DEF NothingToTruncate, Return, Goto, objects
  <2>2. OnlyDrops(job.update)
    BY <2>1 DEF OnlyDrops, Existing
  <2> QED
    BY <2>1, <2>2, LatestEnds
<1>5. ASSUME NEW n \in Names, Drop(n) \/ DropFails(n) PROVE LatestInv'
  <2>1. /\ pc = "drop" /\ n \in job.old /\ UNCHANGED <<iu, iuCache>>
        /\ store' = store \/ store' = [store EXCEPT ![n] = None]
    BY <1>5 DEF Drop, DropFails, NextToDrop, WriteRevision
  <2>2. n # job.update /\ job \in Job /\ job.update \in Names
    BY <2>1 DEF OldIsNotLive, NotLive, TypeInv, UpdateChosen, TypeOK
  <2>3. OnlyDrops(job.update)
    <3>1. store \in [Names -> Revision \cup {None}]
      BY DEF TypeOK
    <3>2. CASE store' = store
      BY <3>2 DEF OnlyDrops, Existing
    <3>3. CASE store' = [store EXCEPT ![n] = None]
      BY <2>2, <3>1, <3>3 DEF OnlyDrops, Existing
    <3> QED BY <2>1, <3>2, <3>3
  <2>4. CASE pc' = "idle" /\ (queued => queued')
    BY <2>1, <2>3, <2>4, LatestEnds
  <2>5. CASE /\ UNCHANGED <<pc, queued>>
             /\ job'.update = job.update /\ job'.iu = job.iu
    <3>1. UpdateIsLatest'
      BY <2>1, <2>3, <2>5 DEF OnlyDrops, LatestInv, UpdateIsLatest, IsLatestOf
    <3> QED
      BY <2>1, <2>5, <3>1 DEF LatestInv, NumberDrawn, JobIsCached, StatusTells
  <2>6. CASE Drop(n) /\ ~Return(job.err)
    <3>1. job' = [job EXCEPT !.old = job.old \ {n}] /\ UNCHANGED <<pc, queued>>
      BY <2>6 DEF Drop
    <3>2. job'.update = job.update /\ job'.iu = job.iu
      BY <2>2, <3>1 DEF Job
    <3> QED
      BY <2>5, <3>1, <3>2
  <2>7. CASE Return(job.err)
    BY <2>4, <2>7 DEF Return, Goto
  <2> QED
    BY <1>5, <2>6, <2>7 DEF DropFails
<1> QED
  BY <1>1, <1>2, <1>3, <1>4, <1>5

LEMMA StatusStep ==
    ASSUME StatusInvariant, [Next]_vars
    PROVE  StatusInvariant'
<1>1. TypeInv /\ OldIsNotLive /\ LagLeads
  BY DEF StatusInvariant
<1>2. TypeInv' /\ OldIsNotLive' /\ LagLeads'
  BY <1>1, TypeStep, OldStep, LagStep
<1>3. ASSUME ListsAreCurrent' PROVE LatestInv'
  <2>1. LatestInv
    BY <1>3, SufferedGrows DEF StatusInvariant, ListsAreCurrent
  <2>2. CASE UNCHANGED vars
    BY <2>1, <2>2, LatestUntouched DEF vars
  <2> QED
    BY <1>1, <1>3, <2>1, <2>2, EnvironmentLatest, ListingLatest, NumberingLatest, CreatingLatest,
       SyncLatest, EndingLatest DEF Next, Worker
<1> QED
  BY <1>2, <1>3 DEF StatusInvariant

\* The inductive invariant of the status: the revision a pass chooses is the latest, of
\* the template it has read, and where nothing is due the status names that revision
\* (getActiveRevisions, CreateControllerRevision, UpdateControllerRevision).
THEOREM StatusSafe == Spec => []StatusInvariant
<1>1. Init => LatestInv
  BY DEF Init, LatestInv, NumberDrawn, UpdateIsLatest, JobIsCached, StatusTells
<1>2. Init => StatusInvariant
  BY <1>1, InitialInv DEF Inv, StatusInvariant
<1>3. StatusInvariant /\ [Next]_vars => StatusInvariant'
  BY StatusStep
<1> QED
  BY <1>2, <1>3, PTL DEF Spec

\* When nothing is left to happen by itself, the status names a revision that is there
\* and has the template of the Inplaceu, whatever fails, times out or takes over.
THEOREM StatusTellsTemplate == Spec => []StatusNamesTemplate
<1>1. StatusInvariant => StatusNamesTemplate
  BY DEF StatusInvariant, ListsAreCurrent, LatestInv, StatusTells, IsLatestOf, Rest,
         StatusNamesTemplate
<1> QED
  BY <1>1, StatusSafe, PTL

\* When nothing is left to happen by itself, the update revision of the status has the
\* highest number of all.
THEOREM UpdateRevisionStaysLatest == Spec => []UpdateRevisionIsLatest
<1>1. StatusInvariant => UpdateRevisionIsLatest
  BY DEF StatusInvariant, ListsAreCurrent, LatestInv, StatusTells, IsLatestOf, Rest,
         UpdateRevisionIsLatest
<1> QED
  BY <1>1, StatusSafe, PTL

-----------------------------------------------------------------------------
(* What truncation leaves. *)

HistoryIsFinite == IsFiniteSet(Existing(store))

\* The revisions that a truncation leaves, although nothing the pass knows is at them.
Kept == {m \in NotLive \ job.old : store[m] # None}

EnoughIsKept == pc = "drop" => Limit <= Cardinality(Kept)

LEMMA FiniteStep ==
    ASSUME TypeInv, HistoryIsFinite, [Next]_vars
    PROVE  HistoryIsFinite'
<1> TypeOK
  BY DEF TypeInv
<1>1. ASSUME NEW n \in Names, NEW r, WriteRevision(n, r) PROVE HistoryIsFinite'
  <2>1. Existing(store') \subseteq Existing(store) \cup {n}
    BY <1>1 DEF WriteRevision, Existing, TypeOK
  <2>2. IsFiniteSet(Existing(store) \cup {n})
    BY FS_AddElement DEF HistoryIsFinite
  <2> QED
    BY <2>1, <2>2, FS_Subset DEF HistoryIsFinite
<1>2. CASE store' = store
  BY <1>2 DEF HistoryIsFinite, Existing
<1>3. CASE Renumber
  <2>1. job.update \in Names
    BY <1>3 DEF Renumber, TypeInv, UpdateChosen
  <2> QED
    BY <1>1, <1>3, <2>1 DEF Renumber
<1>4. CASE CreateRevision \/ CreateRevisionFails
  <2>1. pc = "create"
    BY <1>4 DEF CreateRevision, CreateRevisionFails
  <2>2. Candidate \in Names
    BY <2>1, CandidateType
  <2>3. store' = store \/ \E r : WriteRevision(Candidate, r)
    BY <1>4 DEF CreateRevision, CreateRevisionFails
  <2> QED
    BY <1>1, <1>2, <2>2, <2>3
<1>5. CASE \E n \in Names : Drop(n) \/ DropFails(n)
  BY <1>1, <1>2, <1>5 DEF Drop, DropFails
<1>6. CASE Environment \/ UNCHANGED vars
  BY <1>2, <1>6
  DEF Environment, UserChangesTemplate, InplaceuEvent, RevisionEvent, Evict, PodEvent,
      Crash, Failover, Restarts, vars
<1>7. CASE Worker
  <2>1. \/ store' = store
        \/ Renumber \/ CreateRevision \/ CreateRevisionFails
        \/ \E m \in Names : Drop(m) \/ DropFails(m)
    BY <1>7
    DEF Worker, Take, ListPods, KeepRevision, RollBack, StartRevision,
        RenumberedBefore, RenumberFails, TakeNamed, Collide,
        PassVersions, WaitForVersions, EndSync, CreatePod, DeletePod,
        UpdatePod, SyncTimesOut, StatusIsConsistent, UpdateStatus,
        UpdateStatusFails, Truncate, NothingToTruncate, objects
  <2> QED
    BY <1>2, <1>3, <1>4, <1>5, <2>1
<1> QED
  BY <1>6, <1>7 DEF Next

\* As many as the limit are left when the oldest beyond it are chosen.
LEMMA TruncateKeeps ==
    ASSUME TypeInv, ContentsInv, HistoryIsFinite, Truncate
    PROVE  EnoughIsKept'
<1> TypeOK
  BY DEF TypeInv
<1>1. pc = "truncate" /\ job \in Job /\ store' = store
  BY DEF Truncate, objects, TypeOK
<1>2. PICK S \in SUBSET NotLive :
         /\ Cardinality(S) = Cardinality(NotLive) - Limit
         /\ job' = [job EXCEPT !.old = S]
  BY DEF Truncate
<1>3. /\ job'.old = S /\ job'.list = job.list /\ job'.update = job.update
      /\ job'.iu = job.iu /\ job'.view = job.view
  BY <1>1, <1>2 DEF Job
<1>4. NotLive' = NotLive
  BY <1>3 DEF NotLive, CurrentRevision
<1>5. \A m \in NotLive : m \in Names /\ store[m] # None
  <2>1. \A m \in Existing(job.list) : m \in Names /\ store[m] # None
    BY <1>1 DEF ContentsInv, ListTells, Existing, Job
  <2> QED
    BY <2>1 DEF NotLive
<1>6. IsFiniteSet(NotLive)
  <2>1. NotLive \subseteq Existing(store)
    BY <1>5 DEF Existing, TypeOK
  <2> QED
    BY <2>1, FS_Subset DEF HistoryIsFinite
<1>7. Kept' = NotLive \ S
  BY <1>1, <1>3, <1>4, <1>5 DEF Kept
<1>8. Cardinality(NotLive \ S) = Cardinality(NotLive) - Cardinality(S)
  <2>1. NotLive \cap S = S
    OBVIOUS
  <2>2. Cardinality(NotLive \ S) = Cardinality(NotLive) - Cardinality(NotLive \cap S)
    BY <1>6, FS_Difference
  <2> QED
    BY <2>1, <2>2
<1>9. Cardinality(NotLive) \in Nat /\ Limit \in Nat
  BY <1>6, FS_CardinalityType, RevisionsAssumption
<1>10. Cardinality(Kept') = Limit
  BY <1>2, <1>7, <1>8, <1>9
<1> QED
  BY <1>9, <1>10 DEF EnoughIsKept

LEMMA KeptStep ==
    ASSUME TypeInv, OldIsNotLive, HistoryIsFinite, [Next]_vars,
           suffered = {} => ContentsInv /\ EnoughIsKept, suffered' = {}
    PROVE  EnoughIsKept'
<1> TypeOK
  BY DEF TypeInv
<1>1. ContentsInv /\ EnoughIsKept
  BY SufferedGrows
<1> SUFFICES ASSUME pc' = "drop" PROVE Limit <= Cardinality(Kept')
  BY DEF EnoughIsKept
<1>2. CASE UNCHANGED <<pc, job, store>>
  BY <1>1, <1>2 DEF EnoughIsKept, Kept, NotLive, CurrentRevision
<1>3. CASE Truncate
  BY <1>1, <1>3, TruncateKeeps DEF EnoughIsKept
<1>4. ASSUME NEW n \in Names, Drop(n) PROVE Limit <= Cardinality(Kept')
  <2>1. pc = "drop" /\ n \in job.old /\ job \in Job
    BY <1>4 DEF Drop, NextToDrop, TypeOK
  <2>2. job' = [job EXCEPT !.old = job.old \ {n}]
    BY <1>4 DEF Drop, Return, Goto
  <2>3. /\ job'.old = job.old \ {n} /\ job'.list = job.list /\ job'.update = job.update
        /\ job'.iu = job.iu /\ job'.view = job.view
    BY <2>1, <2>2 DEF Job
  <2>4. NotLive' = NotLive /\ NotLive \subseteq Names
    BY <2>1, <2>3 DEF NotLive, CurrentRevision, Existing, Job
  <2>5. store' = [store EXCEPT ![n] = None]
    BY <1>4 DEF Drop, WriteRevision
  <2>6. store'[n] = None /\ \A m \in Names \ {n} : store'[m] = store[m]
    BY <2>5 DEF TypeOK
  <2>7. Kept' = Kept
    BY <2>1, <2>3, <2>4, <2>6 DEF Kept
  <2> QED
    BY <1>1, <2>1, <2>7 DEF EnoughIsKept
<1>5. CASE Environment
  <2>1. UNCHANGED <<pc, job, store>> \/ pc' = "idle"
    BY <1>5 DEF Environment, UserChangesTemplate, InplaceuEvent, RevisionEvent, Evict,
                PodEvent, Crash, Failover, Restarts
  <2> QED
    BY <1>2, <2>1
<1>6. CASE Worker
  <2>1. \/ Truncate \/ \E n \in Names : Drop(n)
        \/ pc' # "drop"
    BY <1>6
    DEF Worker, Take, ListPods, KeepRevision, RollBack, StartRevision, Renumber,
        RenumberedBefore, RenumberFails, CreateRevision, TakeNamed, Collide,
        CreateRevisionFails, PassVersions, WaitForVersions, EndSync, CreatePod, DeletePod,
        UpdatePod, Updatable, SyncTimesOut, StatusIsConsistent, UpdateStatus,
        UpdateStatusFails, NothingToTruncate, DropFails, Return, Goto
  <2> QED
    BY <1>3, <1>4, <2>1
<1> QED
  BY <1>2, <1>5, <1>6 DEF Next, vars

KeepingInvariant == Inv /\ HistoryIsFinite /\ (suffered = {} => EnoughIsKept)

\* What is left is old for the pods there are now, too.
LEMMA KeptIsOld ==
    ASSUME KeepingInvariant, suffered = {}, [Next]_vars, NEW n \in Names, Drops(n)
    PROVE  Limit <= Cardinality(Old \ {n})
<1> TypeOK /\ TypeInv
  BY DEF KeepingInvariant, Inv, TypeInv
<1>1. pc = "drop" /\ n \in job.old /\ job \in Job
  BY OnlyOldIsDropped DEF TypeOK
<1>2. \A p \in Existing(pods) : job.view[p] = pods[p] \/ pods[p].rev = job.update
  BY <1>1 DEF KeepingInvariant, Inv, Orderly, LiveInv, ViewIsCurrent
<1>3. \A p \in Existing(pods) :
         pods[p].rev = job.update \/ pods[p].rev \in {job.view[q].rev : q \in Existing(job.view)}
  BY <1>1, <1>2 DEF Existing, TypeOK, Job
<1>4. Kept \subseteq Old \ {n}
  <2> SUFFICES ASSUME NEW m \in Kept PROVE m \in Old \ {n}
    OBVIOUS
  <2>1. /\ m \in Existing(job.list) /\ m \notin job.old /\ store[m] # None
        /\ m # job.update /\ m \notin {job.view[q].rev : q \in Existing(job.view)}
    BY DEF Kept, NotLive
  <2>2. m \in Existing(store)
    BY <1>1, <2>1 DEF Existing, TypeOK, Job
  <2>3. \A p \in Existing(pods) : pods[p].rev # m
    BY <1>3, <2>1
  <2> QED
    BY <1>1, <2>1, <2>2, <2>3 DEF Old
<1>5. IsFiniteSet(Old \ {n})
  <2>1. Old \ {n} \subseteq Existing(store)
    BY DEF Old
  <2> QED
    BY <2>1, FS_Subset DEF KeepingInvariant, HistoryIsFinite
<1>6. Cardinality(Kept) <= Cardinality(Old \ {n}) /\ IsFiniteSet(Kept)
  BY <1>4, <1>5, FS_Subset
<1>7. Limit <= Cardinality(Kept)
  BY <1>1 DEF KeepingInvariant, EnoughIsKept
<1>8. Cardinality(Kept) \in Nat /\ Cardinality(Old \ {n}) \in Nat /\ Limit \in Nat
  BY <1>5, <1>6, FS_CardinalityType, RevisionsAssumption
<1> QED
  BY <1>6, <1>7, <1>8

\* Truncation leaves as many old revisions as the limit says, whatever happened to the
\* pods since the pass listed them (truncateHistory).
THEOREM EnoughRevisionsStay == Spec => RollbackIsKept
<1>1. Init => KeepingInvariant
  <2> SUFFICES ASSUME Init PROVE KeepingInvariant
    OBVIOUS
  <2>1. Existing(store) \subseteq {FirstName}
    BY DEF Init, Existing, NoList
  <2>2. IsFiniteSet({FirstName})
    BY FS_Singleton
  <2>3. HistoryIsFinite
    BY <2>1, <2>2, FS_Subset DEF HistoryIsFinite
  <2>4. EnoughIsKept
    BY DEF Init, EnoughIsKept
  <2> QED
    BY <2>3, <2>4, InitialInv DEF KeepingInvariant
<1>2. KeepingInvariant /\ [Next]_vars => KeepingInvariant'
  <2> SUFFICES ASSUME KeepingInvariant, [Next]_vars PROVE KeepingInvariant'
    OBVIOUS
  <2>1. Inv' /\ HistoryIsFinite'
    BY InvStep, FiniteStep DEF KeepingInvariant, Inv
  <2>2. suffered' = {} => EnoughIsKept'
    BY KeptStep DEF KeepingInvariant, Inv
  <2> QED
    BY <2>1, <2>2 DEF KeepingInvariant
<1>3. KeepingInvariant /\ [Next]_vars =>
         [suffered = {} => \A n \in Names : Drops(n) => Cardinality(Old \ {n}) >= Limit]_vars
  <2> SUFFICES ASSUME KeepingInvariant, [Next]_vars, suffered = {}, NEW n \in Names, Drops(n)
               PROVE  Cardinality(Old \ {n}) >= Limit
    OBVIOUS
  <2>1. Limit <= Cardinality(Old \ {n})
    BY KeptIsOld
  <2> QED
    BY <2>1
<1> QED
  BY <1>1, <1>2, <1>3, PTL DEF Spec, RollbackIsKept
=============================================================================
