------------------------------ MODULE JoinBuild ------------------------------
(***************************************************************************)
(* The join of the Velox plugin: the build drivers of CiderJoinBuild, the  *)
(* CiderJoinBridge that hands their rows over, and the probe drivers of    *)
(* CiderOperator (stateless), each driver on a thread of its own.          *)
(*                                                                         *)
(* A batch is a model value.  The order of batches in a vector matters to  *)
(* no property, so a vector of batches is a set.  The task's barrier       *)
(* (Task::allPeersFinished), the futures and the driver loop are Velox     *)
(* code, modelled from how the operators use them.  An exception or a      *)
(* crash in one driver ends the task (failed); Velox's cancellation of the *)
(* bridge only happens after that and is not modelled further.             *)
(***************************************************************************)
EXTENDS Naturals, FiniteSets

CONSTANTS
  BuildDrivers,   \* drivers of the build pipeline, one CiderJoinBuild each
  ProbeDrivers,   \* drivers of the probe pipeline, one CiderOperator each
  Batches,        \* build-side batches
  ProbeBatches,   \* probe-side batches
  None            \* a null input_

ASSUME JoinAssumption ==
  /\ BuildDrivers # {}
  /\ None \notin ProbeBatches

VARIABLES
  empty,      \* input: the build-side batches with no row
  failed,     \* an exception or a crash ended the task
  bpc,        \* control point of each build driver
  todo,       \* batches each build driver has yet to receive
  data,       \* CiderJoinBuild::data_
  future,     \* CiderJoinBuild::future_.valid()
  arrived,    \* external: drivers that reached the task's barrier
  released,   \* external: drivers whose barrier promise is fulfilled
  hasData,    \* CiderJoinBridge::data_.has_value()
  bridge,     \* the rows that setData was given
  promises,   \* CiderJoinBridge::promises_, by the probe driver that waits
  woken,      \* promises moved out of the bridge and not notified yet
  shared,     \* what the one batch behind the bridge's shared_ptr holds
  ppc,        \* control point of each probe driver
  ptodo,      \* batches each probe driver has yet to receive
  input,      \* CiderOperator::input_
  built,      \* the build table in the runtime module of each probe driver
  emptySide,  \* CiderOperator::buildSideEmpty_
  noMore,     \* Operator::noMoreInput_ of each probe driver
  given,      \* auxiliary: the batches each probe driver was given so far
  output      \* pairs <<probe batch, build batch>> joined by each driver

buildVars  == <<bpc, todo, data, future, arrived, released>>
bridgeVars == <<hasData, bridge, promises, woken, shared>>
probeVars  == <<ppc, ptodo, input, built, emptySide, noMore, given, output>>
vars == <<empty, failed, buildVars, bridgeVars, probeVars>>

Rows == Batches \ empty

\* Every way to spread the batches S over the drivers D.
Spread(S, D) ==
  {[d \in D |-> {b \in S : f[b] = d}] : f \in [S -> D]}

Init ==
  /\ empty \in SUBSET Batches
  /\ failed = FALSE
  /\ bpc = [d \in BuildDrivers |-> "running"]
  /\ todo \in Spread(Batches, BuildDrivers)
  /\ data = [d \in BuildDrivers |-> {}]
  /\ future = [d \in BuildDrivers |-> FALSE]
  /\ arrived = {} /\ released = {}
  /\ hasData = FALSE /\ bridge = {} /\ promises = {} /\ woken = {} /\ shared = {}
  /\ ppc = [p \in ProbeDrivers |-> "poll"]
  /\ ptodo \in Spread(ProbeBatches, ProbeDrivers)
  /\ input = [p \in ProbeDrivers |-> None]
  /\ built = [p \in ProbeDrivers |-> {}]
  /\ emptySide = [p \in ProbeDrivers |-> FALSE]
  /\ noMore = [p \in ProbeDrivers |-> FALSE]
  /\ given = [p \in ProbeDrivers |-> {}]
  /\ output = [p \in ProbeDrivers |-> {}]

-----------------------------------------------------------------------------
(* Build drivers                                                            *)

\* addInput: keeps the batch unless it has no row.
BuildAddInput(d) ==
  /\ bpc[d] = "running"
  /\ \E b \in todo[d] :
       /\ todo' = [todo EXCEPT ![d] = @ \ {b}]
       /\ data' = [data EXCEPT ![d] = @ \cup ({b} \ empty)]
  /\ UNCHANGED <<failed, bpc, future, arrived, released, bridgeVars, probeVars>>

\* Mutant: the barrier's future is dropped, so an early driver goes on.
BuildNoMoreInputNoFuture(d) ==
  /\ bpc[d] = "running" /\ todo[d] = {}
  /\ arrived' = arrived \cup {d}
  /\ bpc' = [bpc EXCEPT ![d] = IF arrived' = BuildDrivers THEN "gather" ELSE "done"]
  /\ UNCHANGED <<failed, todo, data, future, released, bridgeVars, probeVars>>

\* noMoreInput up to the barrier: the last driver to arrive goes on with the
\* others as its peers, an earlier one returns with a valid future_.
BuildNoMoreInput(d) ==
  /\ bpc[d] = "running" /\ todo[d] = {}
  /\ arrived' = arrived \cup {d}
  /\ \/ /\ arrived' = BuildDrivers
        /\ bpc' = [bpc EXCEPT ![d] = "gather"]
        /\ UNCHANGED future
     \/ /\ arrived' # BuildDrivers
        /\ bpc' = [bpc EXCEPT ![d] = "done"]
        /\ future' = [future EXCEPT ![d] = TRUE]
  /\ UNCHANGED <<failed, todo, data, released, bridgeVars, probeVars>>

\* Mutant: the future is copied, so future_ stays valid and isFinished false.
BuildIsBlockedCopy(d) ==
  /\ bpc[d] = "done" /\ future[d]
  /\ bpc' = [bpc EXCEPT ![d] = "blocked"]
  /\ UNCHANGED <<failed, todo, data, future, arrived, released, bridgeVars, probeVars>>

\* isBlocked with a valid future_: moves it to the driver, which goes off thread.
BuildIsBlocked(d) ==
  /\ bpc[d] = "done" /\ future[d]
  /\ future' = [future EXCEPT ![d] = FALSE]
  /\ bpc' = [bpc EXCEPT ![d] = "blocked"]
  /\ UNCHANGED <<failed, todo, data, arrived, released, bridgeVars, probeVars>>

\* External: a driver comes back on a thread once its promise is fulfilled.
BuildResume(d) ==
  /\ bpc[d] = "blocked" /\ d \in released
  /\ bpc' = [bpc EXCEPT ![d] = "done"]
  /\ UNCHANGED <<failed, todo, data, future, arrived, released, bridgeVars, probeVars>>

\* isFinished holds (no future_, noMoreInput_ set): the driver calls close.
BuildClose(d) ==
  /\ bpc[d] = "done" /\ ~future[d]
  /\ bpc' = [bpc EXCEPT ![d] = "closed"]
  /\ data' = [data EXCEPT ![d] = {}]
  /\ UNCHANGED <<failed, todo, future, arrived, released, bridgeVars, probeVars>>

\* noMoreInput of the last driver: copies the batches of its peers, ...
BuildGather(d) ==
  /\ bpc[d] = "gather"
  /\ data' = [data EXCEPT ![d] = UNION {data[e] : e \in BuildDrivers}]
  /\ bpc' = [bpc EXCEPT ![d] = "release"]
  /\ UNCHANGED <<failed, todo, future, arrived, released, bridgeVars, probeVars>>

\* ... fulfils their promises, ...
BuildRelease(d) ==
  /\ bpc[d] = "release"
  /\ released' = BuildDrivers \ {d}
  /\ bpc' = [bpc EXCEPT ![d] = "publish"]
  /\ UNCHANGED <<failed, todo, data, future, arrived, bridgeVars, probeVars>>

\* Mutant: the promises of the waiting probe drivers are not moved out.
BuildPublishNoPromises(d) ==
  /\ bpc[d] = "publish"
  /\ \/ /\ data[d] = {} \/ hasData
        /\ failed' = TRUE
        /\ UNCHANGED <<bpc, hasData, bridge, shared>>
     \/ /\ data[d] # {} /\ ~hasData
        /\ hasData' = TRUE /\ bridge' = data[d] /\ shared' = data[d]
        /\ bpc' = [bpc EXCEPT ![d] = "notify"]
        /\ UNCHANGED failed
  /\ UNCHANGED <<todo, data, future, arrived, released, promises, woken, probeVars>>

\* ... appends all batches to one and calls setData under the bridge's mutex.
\* data_.front() of an empty vector is undefined and setData checks that it is
\* called once: either way the task fails.
BuildPublish(d) ==
  /\ bpc[d] = "publish"
  /\ \/ /\ data[d] = {} \/ hasData
        /\ failed' = TRUE
        /\ UNCHANGED <<bpc, bridgeVars>>
     \/ /\ data[d] # {} /\ ~hasData
        /\ hasData' = TRUE /\ bridge' = data[d] /\ shared' = data[d]
        /\ woken' = promises /\ promises' = {}
        /\ bpc' = [bpc EXCEPT ![d] = "notify"]
        /\ UNCHANGED failed
  /\ UNCHANGED <<todo, data, future, arrived, released, probeVars>>

\* setData after the mutex is released: notify the promises moved out.
BuildNotify(d) ==
  /\ bpc[d] = "notify"
  /\ ppc' = [p \in ProbeDrivers |-> IF p \in woken THEN "poll" ELSE ppc[p]]
  /\ woken' = {}
  /\ bpc' = [bpc EXCEPT ![d] = "done"]
  /\ UNCHANGED <<failed, todo, data, future, arrived, released, hasData, bridge,
                 promises, shared, ptodo, input, built, emptySide, noMore, given,
                 output>>

-----------------------------------------------------------------------------
(* Probe drivers                                                            *)

\* isBlocked, dataOrFuture under the bridge's mutex: register a promise and go
\* off thread, or take a copy of the shared_ptr.
ProbePoll(p) ==
  /\ ppc[p] = "poll"
  /\ \/ /\ ~hasData
        /\ promises' = promises \cup {p}
        /\ ppc' = [ppc EXCEPT ![p] = "waiting"]
     \/ /\ hasData
        /\ ppc' = [ppc EXCEPT ![p] = "table"]
        /\ UNCHANGED promises
  /\ UNCHANGED <<failed, buildVars, hasData, bridge, woken, shared,
                 ptodo, input, built, emptySide, noMore, given, output>>

\* isBlocked, after the mutex is released: table() == nullptr, which is also
\* how a batch looks that another driver has moved from.
ProbeTable(p) ==
  /\ ppc[p] = "table"
  /\ emptySide' = [emptySide EXCEPT ![p] = (shared = {})]
  /\ ppc' = [ppc EXCEPT ![p] = "move"]
  /\ UNCHANGED <<failed, buildVars, bridgeVars, ptodo, input, built, noMore, given,
                 output>>

\* isBlocked, feedBuildTable(std::move(*buildData.value())): the one shared
\* batch is moved into this driver.  Two drivers that move at the same time
\* race: the second may still read the pointers the first is about to reset.
ProbeMove(p) ==
  /\ ppc[p] = "move"
  /\ LET raced == \E q \in ProbeDrivers \ {p} : ppc[q] \in {"move", "compile"}
     IN  \E t \in IF raced THEN {shared, bridge} ELSE {shared} :
           built' = [built EXCEPT ![p] = t]
  /\ shared' = {}
  /\ ppc' = [ppc EXCEPT ![p] = "compile"]
  /\ UNCHANGED <<failed, buildVars, hasData, bridge, promises, woken, ptodo, input,
                 emptySide, noMore, given, output>>

\* Mutant: buildTableFed_ is not set, so the next isBlocked asks the bridge again.
ProbeCompileNotFed(p) ==
  /\ ppc[p] = "compile"
  /\ \/ built[p] = {} /\ failed' = TRUE /\ UNCHANGED ppc
     \/ ppc' = [ppc EXCEPT ![p] = "poll"] /\ UNCHANGED failed
  /\ UNCHANGED <<buildVars, bridgeVars, ptodo, input, built, emptySide, noMore, given,
                 output>>

\* isBlocked, compile: without a build table it throws or reads through null
\* columns, and whether it survives depends on the data format and the plan.
ProbeCompile(p) ==
  /\ ppc[p] = "compile"
  /\ \/ built[p] = {} /\ failed' = TRUE /\ UNCHANGED ppc
     \/ ppc' = [ppc EXCEPT ![p] = "ready"] /\ UNCHANGED failed
  /\ UNCHANGED <<buildVars, bridgeVars, ptodo, input, built, emptySide, noMore, given,
                 output>>

NeedsInput(p) == ~noMore[p] /\ input[p] = None /\ ~emptySide[p]

ProbeAddInput(p) ==
  /\ ppc[p] = "ready" /\ NeedsInput(p)
  /\ \E b \in ptodo[p] :
       /\ input' = [input EXCEPT ![p] = b]
       /\ ptodo' = [ptodo EXCEPT ![p] = @ \ {b}]
       /\ given' = [given EXCEPT ![p] = @ \cup {b}]
  /\ UNCHANGED <<failed, buildVars, bridgeVars, ppc, built, emptySide, noMore, output>>

\* External: the driver only reports the end of input to an operator that
\* needs input.
ProbeNoMoreInput(p) ==
  /\ ppc[p] = "ready" /\ NeedsInput(p) /\ ptodo[p] = {}
  /\ noMore' = [noMore EXCEPT ![p] = TRUE]
  /\ UNCHANGED <<failed, buildVars, bridgeVars, ppc, ptodo, input, built, emptySide,
                 given, output>>

\* Mutant: an output batch replaces the one before it.
ProbeGetOutputLast(p) ==
  /\ ppc[p] = "ready"
  /\ \/ /\ input[p] # None
        /\ output' = [output EXCEPT ![p] = {input[p]} \X built[p]]
        /\ input' = [input EXCEPT ![p] = None]
        /\ UNCHANGED ppc
     \/ /\ input[p] = None /\ noMore[p]
        /\ ppc' = [ppc EXCEPT ![p] = "finished"]
        /\ UNCHANGED <<input, output>>
     \/ /\ input[p] = None /\ ~noMore[p]
        /\ UNCHANGED <<ppc, input, output>>
  /\ UNCHANGED <<failed, buildVars, bridgeVars, ptodo, built, emptySide, noMore, given>>

\* Mutant: the sides of a joined row are swapped.
ProbeGetOutputSwapped(p) ==
  /\ ppc[p] = "ready" /\ input[p] # None
  /\ output' = [output EXCEPT ![p] = @ \cup (built[p] \X {input[p]})]
  /\ input' = [input EXCEPT ![p] = None]
  /\ UNCHANGED <<failed, buildVars, bridgeVars, ppc, ptodo, built, emptySide, noMore,
                 given>>

\* getOutput of the stateless operator: emit the rows joined for input_, or
\* finish when there is no input_ and none will come; otherwise return null, and
\* the driver polls on.
ProbeGetOutput(p) ==
  /\ ppc[p] = "ready"
  /\ \/ /\ input[p] # None
        /\ output' = [output EXCEPT ![p] = @ \cup ({input[p]} \X built[p])]
        /\ input' = [input EXCEPT ![p] = None]
        /\ UNCHANGED ppc
     \/ /\ input[p] = None /\ noMore[p]
        /\ ppc' = [ppc EXCEPT ![p] = "finished"]
        /\ UNCHANGED <<input, output>>
     \/ /\ input[p] = None /\ ~noMore[p]
        /\ UNCHANGED <<ppc, input, output>>
  /\ UNCHANGED <<failed, buildVars, bridgeVars, ptodo, built, emptySide, noMore, given>>

-----------------------------------------------------------------------------

BuildStep(d) ==
  /\ ~failed /\ UNCHANGED empty
  /\ \/ BuildAddInput(d) \/ BuildNoMoreInput(d) \/ BuildIsBlocked(d)
     \/ BuildResume(d) \/ BuildClose(d) \/ BuildGather(d)
     \/ BuildRelease(d) \/ BuildPublish(d) \/ BuildNotify(d)

ProbeStep(p) ==
  /\ ~failed /\ UNCHANGED empty
  /\ \/ ProbePoll(p) \/ ProbeTable(p) \/ ProbeMove(p) \/ ProbeCompile(p)
     \/ ProbeAddInput(p) \/ ProbeNoMoreInput(p) \/ ProbeGetOutput(p)

BuildDone == \A d \in BuildDrivers : bpc[d] = "closed"
ProbeDone == \A p \in ProbeDrivers : ppc[p] = "finished"

\* Nothing runs once the task failed or every driver is done.
Stopped == (failed \/ (BuildDone /\ ProbeDone)) /\ UNCHANGED vars

Next ==
  \/ \E d \in BuildDrivers : BuildStep(d)
  \/ \E p \in ProbeDrivers : ProbeStep(p)
  \/ Stopped

\* The executor runs every driver that is not waiting for a future.
Fairness ==
  /\ \A d \in BuildDrivers : WF_vars(BuildStep(d))
  /\ \A p \in ProbeDrivers : WF_vars(ProbeStep(p))

Spec == Init /\ [][Next]_vars
FairSpec == Spec /\ Fairness

-----------------------------------------------------------------------------

\* The types of the operators' members; in particular the joined rows pair a probe
\* batch of CiderOperator::addInput with a build batch of CiderJoinBuild::addInput.
TypeOK ==
  /\ empty \subseteq Batches
  /\ failed \in BOOLEAN
  /\ bpc \in [BuildDrivers -> {"running", "done", "blocked", "closed", "gather",
                               "release", "publish", "notify"}]
  /\ todo \in [BuildDrivers -> SUBSET Batches]
  /\ data \in [BuildDrivers -> SUBSET Batches]
  /\ future \in [BuildDrivers -> BOOLEAN]
  /\ arrived \subseteq BuildDrivers /\ released \subseteq BuildDrivers
  /\ hasData \in BOOLEAN /\ bridge \subseteq Batches
  /\ promises \subseteq ProbeDrivers /\ woken \subseteq ProbeDrivers
  /\ shared \subseteq Batches
  /\ ppc \in [ProbeDrivers -> {"poll", "waiting", "table", "move", "compile",
                               "ready", "finished"}]
  /\ ptodo \in [ProbeDrivers -> SUBSET ProbeBatches]
  /\ input \in [ProbeDrivers -> ProbeBatches \cup {None}]
  /\ built \in [ProbeDrivers -> SUBSET Batches]
  /\ emptySide \in [ProbeDrivers -> BOOLEAN]
  /\ noMore \in [ProbeDrivers -> BOOLEAN]
  /\ given \in [ProbeDrivers -> SUBSET ProbeBatches]
  /\ output \in [ProbeDrivers -> SUBSET (ProbeBatches \X Batches)]

\* CiderJoinBridge::setData receives every row of every build driver: no peer
\* frees its data_ (close) before the last driver of noMoreInput has copied it.
BridgeComplete == hasData => bridge = Rows

\* A probe driver that waits for the build side is one that setData will wake:
\* its promise is registered, and once data_ is set no promise stays behind.
WaitersWoken ==
  /\ \A p \in ProbeDrivers : ppc[p] = "waiting" => p \in promises \cup woken
  /\ hasData => promises = {}
  /\ woken # {} => \E d \in BuildDrivers : bpc[d] = "notify"

\* Another driver than p holds the whole build table.
TakenFrom(p) == \E q \in ProbeDrivers \ {p} : built[q] = Rows

\* Driver p was fed the shared batch after another driver had moved it away.
Robbed(p) ==
  ppc[p] \in {"compile", "ready", "finished"} /\ built[p] = {} /\ TakenFrom(p)

\* When the build side has rows, the checks of the join path fire only in the compile
\* of a driver that was robbed: setData is called once, and the batch is still whole
\* for the driver that comes first, so a single probe driver never fails.
NeverFails ==
  failed /\ Rows # {} => \E p \in ProbeDrivers : ppc[p] = "compile" /\ Robbed(p)

\* A finished probe driver that was not robbed has joined each batch it was given with
\* every build row, whatever happened to the other drivers; and when all of them are
\* finished, no probe batch was left out.
JoinComplete ==
  /\ \A p \in ProbeDrivers :
       ppc[p] = "finished" /\ ~Robbed(p) => output[p] = given[p] \X Rows
  /\ ProbeDone => UNION {given[p] : p \in ProbeDrivers} = ProbeBatches

\* Both pipelines end when the build side has rows: the barrier of noMoreInput and
\* the wait of isBlocked leave nobody waiting.  Only a driver that took the batch
\* another one had moved for an empty build side stays: it never asks for input.
PipelinesEnd ==
  Rows # {} =>
    <>(failed \/ /\ BuildDone
                 /\ \A p \in ProbeDrivers :
                      ppc[p] = "finished" \/ (emptySide[p] /\ TakenFrom(p)))

\* A probe driver that went off thread in isBlocked comes back, unless the task
\* fails: setData reaches it even when it polls while setData runs.
WaitersResume ==
  \A p \in ProbeDrivers : ppc[p] = "waiting" ~> (failed \/ ppc[p] # "waiting")

\* The build table survives the hand-over: once it left the shared batch some
\* probe driver holds all of it, however the moves of the drivers interleave.
TableKept ==
  hasData /\ shared = {} => \E p \in ProbeDrivers : built[p] = Rows

\* CiderOperator::isBlocked: a probe operator that finds the build side empty
\* "terminates the pipeline early".
EmptySideEnds ==
  \A p \in ProbeDrivers : emptySide[p] ~> (failed \/ ppc[p] = "finished")
=============================================================================
