------------------------------ MODULE Pipeline ------------------------------
(***************************************************************************)
(* The staged command pipeline of src/pkg/app/command/pipeline.go.        *)
(*                                                                         *)
(* StartPipeline builds a chain of stages; stage k runs PoolSize(k)        *)
(* worker goroutines on the owning service's tomb.  Stage 1 reads the      *)
(* pipeline input channel, stage k+1 reads a fresh unbuffered channel fed  *)
(* by stage k, and the last stage writes to the pipeline output channel    *)
(* or to the work item's own output channel.  Every channel is unbuffered, *)
(* so a send is a rendezvous of a sender and a receiver.                   *)
(*                                                                         *)
(* A worker is a small program counter:                                    *)
(*   "idle"   blocked in  select { <-service.Dying() | ctx := <-in }       *)
(*   "got"    holding a received item, before the ctx.Done() check         *)
(*   "process" inside process(ctx), before its send                        *)
(*   "send"   blocked in  select { <-Dying | <-ctx.Done() | out <- ctx }   *)
(*   "record" a terminal success was delivered, metrics not yet updated    *)
(*   "exited" the goroutine returned                                       *)
(* Go picks uniformly among the ready cases of a select, so every ready    *)
(* case is a separate action here.                                         *)
(*                                                                         *)
(* The command a stage runs is abstracted to its outcome: it either        *)
(* returns the item or sets the item's error.  Durations and timestamps    *)
(* are observational and left out; the counters and gauges are kept.       *)
(***************************************************************************)
EXTENDS Naturals, FiniteSets

CONSTANTS
    Items,      \* the work items (contexts) a caller will submit
    Pings,      \* the items that are ping probes (IsPing(ctx))
    Overrides,  \* the items that carry their own output channel (OutputChannel(ctx))
    N,          \* number of stages
    PoolSizes,  \* PoolSizes[k]: the poolSize the stage was built with (uint8, 0 allowed)
    CmdIds,     \* CmdIds[k]: the CommandID of stage k
    None        \* model value: no item held

ASSUME /\ N \in Nat \ {0}
       /\ Pings \subseteq Items /\ Overrides \subseteq Items
       /\ PoolSizes \in [1..N -> Nat]
       /\ None \notin Items

Stages == 1..N

\* Stage.PoolSize(): a pool size of 0 means 1.
PoolSize(k) == IF PoolSizes[k] = 0 THEN 1 ELSE PoolSizes[k]

\* NewStage: a Stage's runCounter and failedCounter are the children of the
\* service's COMMAND_RUN_COUNT and COMMAND_FAILED_COUNT vectors labelled with
\* the hex id of the stage's command, so stages of one service that run the
\* same command share their counters.  The counters are kept per command id.
Commands == {CmdIds[k] : k \in Stages}

Workers == UNION {{<<k, j>> : j \in 1..PoolSize(k)} : k \in Stages}

\* createStageWorkers decides whether a stage is the first one by comparing
\* its command id with the command id of stages[0], not by position.
IsFirstStage(k) == CmdIds[k] = CmdIds[1]

\* Mutant: the  if !ok  test of OutputChannel inverted.
OutDestInverted(i) == IF i \in Overrides THEN "out" ELSE "ovr"

\* OutputChannel(ctx): the item's own channel if it has one, else pipeline.out.
OutDest(i) == IF i \in Overrides THEN "ovr" ELSE "out"

Final == {"out", "ovr", "expired", "lost"}

VARIABLES
    loc,         \* loc[i]: "src" (not yet submitted), "pipe", or one of Final
    pc,          \* pc[w]: the worker's control point (see above)
    held,        \* held[w]: the item the worker holds, or None
    dest,        \* dest[w]: where a sending worker sends: "next", "out" or "ovr"
    cancelled,   \* items whose ctx.Done() channel is closed
    err,         \* err[i]: 0, or the stage whose command set the item's error
    pong,        \* items tagged with withPong
    visited,     \* visited[i]: the stages whose command ran on item i
    stamps,      \* stamps[i]: how often startWorkflowTimer stamped item i
    m,           \* the pipeline metrics (runCounter, failedCounter, ...)
    stageRun,    \* stageRun[c]: the runCounter of the stages running command c
    stageFailed, \* stageFailed[c]: their failedCounter
    dying,       \* service.Dying() is closed
    late         \* history: items handed on while their context was done

vars == <<loc, pc, held, dest, cancelled, err, pong, visited, stamps, m,
          stageRun, stageFailed, dying, late>>

itemVars == <<cancelled, err, pong, visited, stamps>>

\* The Pipeline struct's runCounter, failedCounter, contextExpiredCounter and
\* the consecutive success/failure/expired gauges.
Metrics == [run: Nat, failed: Nat, expired: Nat,
            cSuccess: Nat, cFailure: Nat, cExpired: Nat]

TypeOK ==
    /\ loc \in [Items -> {"src", "pipe"} \cup Final]
    /\ pc \in [Workers -> {"idle", "got", "process", "send", "record", "exited"}]
    /\ held \in [Workers -> Items \cup {None}]
    /\ dest \in [Workers -> {"next", "out", "ovr"}]
    /\ cancelled \subseteq Items
    /\ err \in [Items -> 0..N]
    /\ pong \subseteq Pings
    /\ visited \in [Items -> SUBSET Stages]
    /\ stamps \in [Items -> Nat]
    /\ m \in Metrics
    /\ stageRun \in [Commands -> Nat] /\ stageFailed \in [Commands -> Nat]
    /\ dying \in BOOLEAN
    /\ late \subseteq Items

-----------------------------------------------------------------------------
(* StartPipeline: every worker of every stage starts blocked on its inbound *)
(* channel; all metrics are freshly registered.                            *)
Init ==
    /\ loc = [i \in Items |-> "src"]
    /\ pc = [w \in Workers |-> "idle"]
    /\ held = [w \in Workers |-> None]
    /\ dest = [w \in Workers |-> "next"]
    /\ cancelled = {}
    /\ err = [i \in Items |-> 0]
    /\ pong = {}
    /\ visited = [i \in Items |-> {}]
    /\ stamps = [i \in Items |-> 0]
    /\ m = [run |-> 0, failed |-> 0, expired |-> 0,
            cSuccess |-> 0, cFailure |-> 0, cExpired |-> 0]
    /\ stageRun = [c \in Commands |-> 0]
    /\ stageFailed = [c \in Commands |-> 0]
    /\ dying = FALSE
    /\ late = {}

\* A worker returns to the top of its loop.
Release(w) ==
    /\ pc' = [pc EXCEPT ![w] = "idle"]
    /\ held' = [held EXCEPT ![w] = None]

\* The caller sends item i on pipeline.in; an idle stage-1 worker takes it.
\* The worker's select also has the Dying case, but Go may pick either
\* ready case, so a worker may still receive after the service is dying.
Submit(i, w) ==
    /\ loc[i] = "src"
    /\ w[1] = 1 /\ pc[w] = "idle"
    /\ loc' = [loc EXCEPT ![i] = "pipe"]
    /\ pc' = [pc EXCEPT ![w] = "got"]
    /\ held' = [held EXCEPT ![w] = i]
    /\ UNCHANGED <<dest, itemVars, m, stageRun, stageFailed, dying, late>>

\* A stage-k worker blocked in  out <- ctx  hands the item to an idle
\* worker of stage k+1 (the case taken even when ctx.Done() is also ready).
Forward(w, v) ==
    LET i == held[w] IN
    /\ pc[w] = "send" /\ dest[w] = "next"
    /\ v[1] = w[1] + 1 /\ pc[v] = "idle"
    /\ pc' = [pc EXCEPT ![w] = "idle", ![v] = "got"]
    /\ held' = [held EXCEPT ![w] = None, ![v] = i]
    /\ late' = IF i \in cancelled THEN late \cup {i} ELSE late
    /\ UNCHANGED <<loc, dest, itemVars, m, stageRun, stageFailed, dying>>

\* The select in the worker loop after a receive: a done context is logged
\* by pipelineContextExpired, which increments contextExpiredCounter, and is
\* dropped.  Otherwise a stage whose command id equals the first stage's
\* stamps the workflow start time and increments the pipeline run counter
\* before calling process(ctx).
Check(w) ==
    LET i == held[w] IN
    /\ pc[w] = "got"
    /\ IF i \in cancelled
       THEN /\ m' = [m EXCEPT !.expired = @ + 1]
            /\ loc' = [loc EXCEPT ![i] = "expired"]
            /\ Release(w)
            /\ UNCHANGED stamps
       ELSE /\ IF IsFirstStage(w[1])
               THEN /\ stamps' = [stamps EXCEPT ![i] = @ + 1]
                    /\ m' = [m EXCEPT !.run = @ + 1]
               ELSE UNCHANGED <<stamps, m>>
            /\ pc' = [pc EXCEPT ![w] = "process"]
            /\ UNCHANGED <<loc, held>>
    /\ UNCHANGED <<dest, cancelled, err, pong, visited, stageRun, stageFailed,
                   dying, late>>
\* Mutant: WithError records the next stage's id with the error.
RunStageOffByOne(k, i, fails) ==
    /\ stageRun' = [stageRun EXCEPT ![CmdIds[k]] = @ + 1]
    /\ visited' = [visited EXCEPT ![i] = @ \cup {k}]
    /\ stageFailed' = IF fails THEN [stageFailed EXCEPT ![CmdIds[k]] = @ + 1] ELSE stageFailed
    /\ err' = IF fails THEN [err EXCEPT ![i] = k + 1] ELSE err

\* Mutant: the failed counter incremented whatever the command returned.
RunStageCountsAll(k, i, fails) ==
    /\ stageRun' = [stageRun EXCEPT ![CmdIds[k]] = @ + 1]
    /\ visited' = [visited EXCEPT ![i] = @ \cup {k}]
    /\ stageFailed' = [stageFailed EXCEPT ![CmdIds[k]] = @ + 1]
    /\ err' = IF fails THEN [err EXCEPT ![i] = k] ELSE err

\* Stage.run: count the run, call the command, and count a failure when the
\* returned context carries an error.  WithError then records the stage's
\* command id with the error, modelled as err[i] = k.  The stage-output
\* channel offer is non-blocking and changes no state of the pipeline.
RunStage(k, i, fails) ==
    /\ stageRun' = [stageRun EXCEPT ![CmdIds[k]] = @ + 1]
    /\ visited' = [visited EXCEPT ![i] = @ \cup {k}]
    /\ stageFailed' = IF fails THEN [stageFailed EXCEPT ![CmdIds[k]] = @ + 1] ELSE stageFailed
    /\ err' = IF fails THEN [err EXCEPT ![i] = k] ELSE err

\* process(ctx) of the last stage.  A ping is tagged as pong and sent to the
\* item's output channel without running the command.  Otherwise the stage
\* runs; a failure is counted and resets the consecutive success gauge
\* before the send, and the result goes to the item's output channel.
ProcessLast(w) ==
    LET i == held[w] IN
    /\ pc[w] = "process" /\ w[1] = N
    /\ pc' = [pc EXCEPT ![w] = "send"]
    /\ dest' = [dest EXCEPT ![w] = OutDest(i)]
    /\ IF i \in Pings
       THEN /\ pong' = pong \cup {i}
            /\ UNCHANGED <<err, visited, m, stageRun, stageFailed>>
       ELSE /\ \E fails \in BOOLEAN :
                 /\ RunStage(w[1], i, fails)
                 /\ m' = IF fails
                         THEN [m EXCEPT !.failed = @ + 1, !.cFailure = @ + 1,
                                        !.cSuccess = 0]
                         ELSE m
            /\ UNCHANGED pong
    /\ UNCHANGED <<loc, held, cancelled, stamps, dying, late>>

\* Mutant: a failed item is sent to the next stage instead of pipeline.out.
ProcessInnerNoShortCircuit(w) ==
    LET i == held[w] IN
    /\ pc[w] = "process" /\ w[1] < N
    /\ pc' = [pc EXCEPT ![w] = "send"]
    /\ IF i \in Pings
       THEN /\ dest' = [dest EXCEPT ![w] = "next"]
            /\ UNCHANGED <<err, visited, m, stageRun, stageFailed>>
       ELSE \E fails \in BOOLEAN :
                /\ RunStage(w[1], i, fails)
                /\ m' = IF fails THEN [m EXCEPT !.failed = @ + 1] ELSE m
                /\ dest' = [dest EXCEPT ![w] = "next"]
    /\ UNCHANGED <<loc, held, cancelled, pong, stamps, dying, late>>

\* Mutant: the IsPing test missing, so a ping runs the stage command.
ProcessInnerRunsPing(w) ==
    LET i == held[w] IN
    /\ pc[w] = "process" /\ w[1] < N
    /\ pc' = [pc EXCEPT ![w] = "send"]
    /\ \E fails \in BOOLEAN :
          /\ RunStage(w[1], i, fails)
          /\ m' = IF fails THEN [m EXCEPT !.failed = @ + 1] ELSE m
          /\ dest' = [dest EXCEPT ![w] = IF fails THEN "out" ELSE "next"]
    /\ UNCHANGED <<loc, held, cancelled, pong, stamps, dying, late>>

\* process(ctx) of a stage that has a successor.  A ping is forwarded as is.
\* Otherwise the stage runs; a failed item is counted and sent straight to
\* pipeline.out (never to the item's own channel), a good one to the next
\* stage.
ProcessInner(w) ==
    LET i == held[w] IN
    /\ pc[w] = "process" /\ w[1] < N
    /\ pc' = [pc EXCEPT ![w] = "send"]
    /\ IF i \in Pings
       THEN /\ dest' = [dest EXCEPT ![w] = "next"]
            /\ UNCHANGED <<err, visited, m, stageRun, stageFailed>>
       ELSE \E fails \in BOOLEAN :
                /\ RunStage(w[1], i, fails)
                /\ m' = IF fails THEN [m EXCEPT !.failed = @ + 1] ELSE m
                /\ dest' = [dest EXCEPT ![w] = IF fails THEN "out" ELSE "next"]
    /\ UNCHANGED <<loc, held, cancelled, pong, stamps, dying, late>>

\* The  out <- result  case towards pipeline.out or the item's channel: the
\* reader of that channel takes the item.  The last stage then updates the
\* success metrics for a good non-ping item.
Deliver(w) ==
    LET i == held[w] IN
    /\ pc[w] = "send" /\ dest[w] \in {"out", "ovr"}
    /\ loc' = [loc EXCEPT ![i] = dest[w]]
    /\ held' = [held EXCEPT ![w] = None]
    /\ pc' = [pc EXCEPT ![w] = IF w[1] = N /\ i \notin Pings /\ err[i] = 0
                               THEN "record" ELSE "idle"]
    /\ late' = IF i \in cancelled THEN late \cup {i} ELSE late
    /\ UNCHANGED <<dest, itemVars, m, stageRun, stageFailed, dying>>

\* After a terminal delivery of a good item: consecutiveSuccessCounter.Inc,
\* consecutiveFailureCounter.Set(0), consecutiveExpiredCounter.Set(0).
Record(w) ==
    /\ pc[w] = "record"
    /\ m' = [m EXCEPT !.cSuccess = @ + 1, !.cFailure = 0, !.cExpired = 0]
    /\ pc' = [pc EXCEPT ![w] = "idle"]
    /\ UNCHANGED <<loc, held, dest, itemVars, stageRun, stageFailed, dying,
                   late>>

\* The  <-ctx.Done()  case of a send: pipelineContextExpired counts the
\* expiry and the item is dropped.
Expire(w) ==
    LET i == held[w] IN
    /\ pc[w] = "send" /\ i \in cancelled
    /\ m' = [m EXCEPT !.expired = @ + 1]
    /\ loc' = [loc EXCEPT ![i] = "expired"]
    /\ Release(w)
    /\ UNCHANGED <<dest, itemVars, stageRun, stageFailed, dying, late>>

\* The  <-service.Dying()  case.  In the worker loop the goroutine returns.
\* In a send, process returns to the loop and the item it was sending is
\* silently lost; the loop's select may then still take another item.
Exit(w) ==
    /\ dying /\ pc[w] \in {"idle", "send"}
    /\ pc' = [pc EXCEPT ![w] = IF pc[w] = "send" THEN "idle" ELSE "exited"]
    /\ held' = [held EXCEPT ![w] = None]
    /\ loc' = IF pc[w] = "send" THEN [loc EXCEPT ![held[w]] = "lost"] ELSE loc
    /\ UNCHANGED <<dest, itemVars, m, stageRun, stageFailed, dying, late>>

-----------------------------------------------------------------------------
(* The environment: the owning service is killed, an item's context is     *)
(* cancelled or reaches its deadline.                                      *)

Kill ==
    /\ ~dying
    /\ dying' = TRUE
    /\ UNCHANGED <<loc, pc, held, dest, itemVars, m, stageRun, stageFailed,
                   late>>

Cancel(i) ==
    /\ i \notin cancelled /\ loc[i] \in {"src", "pipe"}
    /\ cancelled' = cancelled \cup {i}
    /\ UNCHANGED <<loc, pc, held, dest, err, pong, visited, stamps, m,
                   stageRun, stageFailed, dying, late>>

\* Every goroutine has returned: the pipeline has stopped for good.
Stopped ==
    /\ \A w \in Workers : pc[w] = "exited"
    /\ UNCHANGED vars

WorkerStep(w) ==
    \/ Check(w) \/ ProcessLast(w) \/ ProcessInner(w)
    \/ \E v \in Workers : Forward(w, v)
    \/ Deliver(w) \/ Record(w) \/ Expire(w) \/ Exit(w)

Next ==
    \/ \E i \in Items, w \in Workers : Submit(i, w)
    \/ \E w \in Workers : WorkerStep(w)
    \/ Kill
    \/ \E i \in Items : Cancel(i)
    \/ Stopped

\* Goroutines are scheduled fairly and the readers of pipeline.out and of
\* the items' own channels keep reading; callers, cancellation and
\* service shutdown are not obliged to act.
Fairness == \A w \in Workers : WF_vars(WorkerStep(w))

Spec == Init /\ [][Next]_vars /\ Fairness
-----------------------------------------------------------------------------
(***************************************************************************)
(* Properties                                                              *)
(***************************************************************************)

\* Failure short-circuit (process of a stage with a successor sends a failed
\* item to pipeline.out): no command of a later stage ever runs on an item
\* once stage k has set its error.
ShortCircuit ==
    \A i \in Items : err[i] # 0 => \A k \in visited[i] : k <= err[i]

\* Pings traverse every stage without running any stage command, and a ping
\* that leaves the pipeline on an output channel has been tagged as pong.
PingRoundTrip ==
    \A i \in Pings :
        /\ visited[i] = {}
        /\ loc[i] \in {"out", "ovr"} => i \in pong

\* Stage counters agree across stages: stage k+1 can only have run on items
\* that stage k ran successfully, so the run counter of stage k+1's command
\* never exceeds the runs minus the failures counted for stage k's command.
StageCountersConsistent ==
    \A k \in 1..(N - 1) :
        stageRun[CmdIds[k + 1]] <= stageRun[CmdIds[k]] - stageFailed[CmdIds[k]]

\* The pipeline run counter counts each item that entered the workflow
\* once: it equals the number of items stamped with a workflow start time,
\* and no item is stamped twice.
RunCountedOnce ==
    /\ \A i \in Items : stamps[i] <= 1
    /\ m.run = Cardinality({i \in Items : stamps[i] > 0})

\* Spec section 3 (Work Item): once an item's context is done, no stage hands
\* it on, neither to the next stage nor to an output channel.
NoHandOnAfterCancel == late = {}

\* Spec section 8 (Counter consistency): run_count >= failed_count +
\* context_expired_count.
CounterConsistency == m.run >= m.failed + m.expired

\* Spec section 8 (consecutive_success is non-zero iff the last terminal
\* delivery was successful; the comment on consecutiveSuccess says it is
\* reset when a context fails): a step that delivers a failed item to an
\* output channel leaves the consecutive success gauge at 0.
FailedDeliveryResetsSuccess ==
    [][\A i \in Items \ Pings :
         (loc'[i] # loc[i] /\ loc'[i] \in {"out", "ovr"} /\ err[i] # 0)
            => m'.cSuccess = 0]_vars

\* The pipeline implements its abstract specification: items are accepted,
\* delivered, dropped only when done, lost only when the service is dying,
\* and every item in flight eventually leaves.
PS == INSTANCE PipelineSpec
PipelineRefinement == PS!Spec
=============================================================================
