---------------------------- MODULE PipelineSpec ----------------------------
(***************************************************************************)
(* What a pipeline promises its callers, with stages, workers and channels *)
(* abstracted away.  A submitted item is in flight until it is delivered   *)
(* on pipeline.out or on its own output channel, dropped because its       *)
(* context is done, or lost because the owning service is dying.  Only an  *)
(* item that carries its own output channel can be delivered there.        *)
(* Every item in flight eventually leaves the pipeline.                    *)
(***************************************************************************)
CONSTANTS Items, Overrides

VARIABLES loc, cancelled, dying

avars == <<loc, cancelled, dying>>

Init ==
    /\ loc = [i \in Items |-> "src"]
    /\ cancelled = {}
    /\ dying = FALSE

Accept(i) ==
    /\ loc[i] = "src"
    /\ loc' = [loc EXCEPT ![i] = "pipe"]
    /\ UNCHANGED <<cancelled, dying>>

Complete(i) ==
    /\ loc[i] = "pipe"
    /\ \E d \in {"out"} \cup (IF i \in Overrides THEN {"ovr"} ELSE {}) :
          loc' = [loc EXCEPT ![i] = d]
    /\ UNCHANGED <<cancelled, dying>>

Drop(i) ==
    /\ loc[i] = "pipe" /\ i \in cancelled
    /\ loc' = [loc EXCEPT ![i] = "expired"]
    /\ UNCHANGED <<cancelled, dying>>

Lose(i) ==
    /\ loc[i] = "pipe" /\ dying
    /\ loc' = [loc EXCEPT ![i] = "lost"]
    /\ UNCHANGED <<cancelled, dying>>

Cancel(i) ==
    /\ i \notin cancelled /\ loc[i] \in {"src", "pipe"}
    /\ cancelled' = cancelled \cup {i}
    /\ UNCHANGED <<loc, dying>>

Kill ==
    /\ ~dying
    /\ dying' = TRUE
    /\ UNCHANGED <<loc, cancelled>>

Next ==
    \/ \E i \in Items : Accept(i) \/ Complete(i) \/ Drop(i) \/ Lose(i) \/ Cancel(i)
    \/ Kill

Leave(i) == Complete(i) \/ Drop(i) \/ Lose(i)

Spec == Init /\ [][Next]_avars /\ \A i \in Items : WF_avars(Leave(i))
=============================================================================
