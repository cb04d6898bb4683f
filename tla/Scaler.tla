------------------------------- MODULE Scaler -------------------------------
(***************************************************************************)
(* What the inplaceu controller promises of the active pods, seen from the *)
(* API server: no cache, no expectation, no event.  A pass works towards   *)
(* what its Inplaceu asked for at some time; it creates pods up to the     *)
(* surge, deletes what is marked or too many, or updates, and it does one  *)
(* of these only.  The pods it counts are those there are, at the moment   *)
(* of each call.  The Reconciler implements this.                          *)
(***************************************************************************)
EXTENDS ScaleUtil

CONSTANT InPlace      \* pairs <<old, new>> of revisions an update can bridge in place

VARIABLES
    wanted,     \* the spec in the API server
    known,      \* the spec the controller has heard of
    aim,        \* the spec the running pass works towards, or None
    doing,      \* what the pass is doing
    pods        \* name -> active pod, or None

vars == <<wanted, known, aim, doing, pods>>

Want == [replicas : Nat, rev : Revs]

Init ==
    /\ wanted \in Want /\ known = wanted
    /\ aim = None /\ doing = "sleeps"
    /\ pods \in [Names -> Pod \cup {None}]
    /\ \A n \in Members(pods) : IsActive(pods[n])

-----------------------------------------------------------------------------
(* Users and kubelets.  Nobody but the controller moves a pod to another    *)
(* revision, and a mark stays.                                              *)

Ask ==
    /\ wanted' \in Want
    /\ UNCHANGED <<known, aim, doing, pods>>

Write(n, p) ==
    /\ pods' = [pods EXCEPT ![n] = p]
    /\ UNCHANGED <<wanted, known, aim, doing>>

Run(n) == pods[n] # None /\ Write(n, [pods[n] EXCEPT !.phase = "Running"])

Ready(n) == pods[n] # None /\ \E r \in BOOLEAN : Write(n, [pods[n] EXCEPT !.ready = r])

Mark(n) == pods[n] # None /\ Write(n, [pods[n] EXCEPT !.sdel = TRUE])

-----------------------------------------------------------------------------
(* The controller. *)

Hear ==
    /\ known' = wanted
    /\ UNCHANGED <<wanted, aim, doing, pods>>

Begin ==
    /\ doing = "sleeps"
    /\ aim' = known /\ doing' = "reads"
    /\ UNCHANGED <<wanted, known, pods>>

\* A pass may turn to updates when it has neither created nor deleted anything.
Turns ==
    {<<"reads", "creates">>, <<"reads", "deletes">>, <<"reads", "updates">>,
     <<"creates", "updates">>, <<"deletes", "updates">>,
     <<"created", "done">>, <<"deleted", "done">>, <<"updates", "done">>}

Turn ==
    /\ <<doing, doing'>> \in Turns
    /\ UNCHANGED <<wanted, known, aim, pods>>

\* A new pod, of the revision aimed at and unmarked: with it there are at most
\* replicas plus the surge.
Create(n) ==
    /\ doing \in {"creates", "created"} /\ doing' = "created"
    /\ pods[n] = None
    /\ \E p \in Pod : /\ IsActive(p) /\ p.rev = aim.rev /\ ~p.sdel
                      /\ pods' = [pods EXCEPT ![n] = p]
    /\ Cardinality(Members(pods')) <= aim.replicas + Surge(aim.replicas)
    /\ UNCHANGED <<wanted, known, aim>>

\* A pod goes because it is marked, or it is of the revision aimed at and without it
\* there are still replicas.
Delete(n) ==
    /\ doing \in {"deletes", "deleted"} /\ doing' = "deleted"
    /\ pods[n] # None
    /\ \/ pods[n].sdel
       \/ pods[n].rev = aim.rev /\ Cardinality(Members(pods) \ {n}) >= aim.replicas
    /\ pods' = [pods EXCEPT ![n] = None]
    /\ UNCHANGED <<wanted, known, aim>>

\* A pod of another revision than the one aimed at is moved to that, where that can be
\* done in place, or marked to be replaced.
Update(n) ==
    /\ doing = "updates" /\ doing' \in {"updates", "done"}
    /\ pods[n] # None /\ pods[n].rev # aim.rev
    /\ \/ <<pods[n].rev, aim.rev>> \in InPlace /\ pods' = [pods EXCEPT ![n].rev = aim.rev]
       \/ pods' = [pods EXCEPT ![n].sdel = TRUE]
    /\ UNCHANGED <<wanted, known, aim>>

End ==
    /\ doing # "sleeps"
    /\ aim' = None /\ doing' = "sleeps"
    /\ UNCHANGED <<wanted, known, pods>>

\* The controller starts again, and hears of what is wanted now.
Restart ==
    /\ known' = wanted /\ aim' = None /\ doing' = "sleeps"
    /\ UNCHANGED <<wanted, pods>>

Next ==
    \/ Ask \/ Hear \/ Begin \/ Turn \/ End \/ Restart
    \/ \E n \in Names : \/ Run(n) \/ Ready(n) \/ Mark(n)
                        \/ Create(n) \/ Delete(n) \/ Update(n)

Spec == Init /\ [][Next]_vars
=============================================================================
