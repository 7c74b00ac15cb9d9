----------------------------- MODULE KeyStream -----------------------------
(***************************************************************************)
(* What a bucket iteration promises its client (the BucketView interface  *)
(* of src/pkg/data/keyvalue/bucketview.go: Keys, KeyValues, BucketViews).  *)
(* An iteration is opened on the entries it is to yield (`want`, fixed by *)
(* the read transaction's snapshot), hands them out in order, and closes  *)
(* once all have been handed out, or earlier when the client cancelled.   *)
(* Every open stream eventually closes.                                    *)
(***************************************************************************)
EXTENDS Naturals, Sequences

CONSTANT Names

VARIABLES
    state,    \* idle, open or closed
    want,     \* the entries the iteration is to yield
    out,      \* the entries handed out so far
    stopped   \* the client has closed its cancel channel

vars == <<state, want, out, stopped>>

Init ==
    /\ state = "idle"
    /\ want = <<>>
    /\ out = <<>>
    /\ stopped = FALSE

\* The iteration starts on the snapshot's entries.
Open ==
    /\ state \in {"idle", "closed"}
    /\ state' = "open"
    /\ want' \in Seq(Names)
    /\ out' = <<>>
    /\ stopped' = FALSE

\* The next entry, in order.
Emit ==
    /\ state = "open"
    /\ Len(out) < Len(want)
    /\ out' = Append(out, want[Len(out) + 1])
    /\ UNCHANGED <<state, want, stopped>>

\* The client may close its cancel channel while it holds the stream.
Cancel ==
    /\ state \in {"open", "closed"}
    /\ ~stopped
    /\ stopped' = TRUE
    /\ UNCHANGED <<state, want, out>>

\* The stream ends complete, or cut short by a cancel.
Close ==
    /\ state = "open"
    /\ (out = want \/ stopped)
    /\ state' = "closed"
    /\ UNCHANGED <<want, out, stopped>>

Next == Open \/ Emit \/ Cancel \/ Close

\* A step of the stream, or a step that leaves it alone.
Step == [Next]_vars

\* An open stream is driven on until it closes.
Fairness == WF_vars(Emit \/ Close)

Spec == Init /\ [][Next]_vars /\ Fairness

=============================================================================
