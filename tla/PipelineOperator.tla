-------------------------- MODULE PipelineOperator --------------------------
(***************************************************************************)
(* CiderPipelineOperator and the batch processor it drives: the stateless  *)
(* processor of a filter or a projection, and the stateful processor of an *)
(* aggregation without grouping.  One Velox driver thread calls the        *)
(* operator; it asks for output before it offers more input.  A row that   *)
(* the plan's expressions reject (a division by zero, an overflow) makes   *)
(* the compiled query return an error code, which fails the task.          *)
(***************************************************************************)
EXTENDS Integers, Sequences, SeqFilter

CONSTANTS
  Rows, Selected, Bad,   \* the rows, those the filter keeps, those that raise an error
  MaxBatches, MaxLength  \* bounds: batches of the input, rows of a batch

ASSUME PipelineAssumption ==
  /\ Selected \subseteq Rows /\ Bad \subseteq Rows
  /\ MaxBatches \in Nat /\ MaxLength \in Nat

VARIABLES
  kind,        \* the processor makeBatchProcessor chose for the plan
  pc,          \* the driver: takes output, offers input, or is done
  batches,     \* batches the source has handed over
  given,       \* the rows of those batches
  state, hasResult, noMore,   \* state_, has_result_ and no_more_batch_
  target,      \* what query_func_ wrote: the rows of the output batch, or those aggregated
  finished,    \* finished_ of the operator
  out          \* what getOutput returned: rows, or the sets of rows aggregated

vars == <<kind, pc, batches, given, state, hasResult, noMore, target, finished, out>>
processor == <<state, hasResult, noMore, target>>

Batches == UNION {[1..n -> Rows] : n \in 0..MaxLength}

\* The rows that pass the filter, in their order.
Keep(rows) == Those(rows, Selected)

Raises(rows) == \E p \in DOMAIN rows : rows[p] \in Bad

Init ==
  /\ kind \in {"stateless", "stateful"} /\ pc = "output"
  /\ batches = 0 /\ given = <<>>
  /\ state = "kRunning" /\ hasResult = FALSE /\ noMore = FALSE
  /\ target = <<>> /\ finished = FALSE /\ out = <<>>

\* isBlocked, which the driver calls before it uses the operator, notices the end.
Finished == finished \/ state = "kFinished"

\* The driver goes on to the input when there was no output, and stops at the end.
NoOutput == pc' = IF finished' THEN "done" ELSE "input"

\* Mutant: no result is enough for kFinished.
NothingStatelessEarly ==
  /\ kind = "stateless" /\ ~hasResult
  /\ state' = "kFinished"
  /\ NoOutput /\ UNCHANGED <<hasResult, noMore, target, out>>

NothingStateless ==
  /\ kind = "stateless" /\ ~hasResult
  /\ state' = IF noMore THEN "kFinished" ELSE state
  /\ NoOutput /\ UNCHANGED <<hasResult, noMore, target, out>>

\* Mutant: the output batch is not reset once it was moved out.
ResultStatelessKept ==
  /\ kind = "stateless" /\ hasResult
  /\ hasResult' = FALSE
  /\ out' = out \o target
  /\ (IF target = <<>> THEN NoOutput ELSE pc' = "output")
  /\ UNCHANGED <<state, noMore, target>>

\* A batch of which no row is left is no output either.
ResultStateless ==
  /\ kind = "stateless" /\ hasResult
  /\ hasResult' = FALSE
  /\ out' = out \o target /\ target' = <<>>
  /\ (IF target = <<>> THEN NoOutput ELSE pc' = "output")
  /\ UNCHANGED <<state, noMore>>

NothingStateful ==
  /\ kind = "stateful" /\ (~noMore \/ ~hasResult)
  /\ NoOutput /\ UNCHANGED <<processor, out>>

\* Mutant: the state stays kRunning.
ResultStatefulRunning ==
  /\ kind = "stateful" /\ noMore /\ hasResult
  /\ hasResult' = FALSE
  /\ out' = Append(out, target) /\ pc' = "output"
  /\ UNCHANGED <<state, noMore, target>>

ResultStateful ==
  /\ kind = "stateful" /\ noMore /\ hasResult
  /\ state' = "kFinished" /\ hasResult' = FALSE
  /\ out' = Append(out, target) /\ pc' = "output"
  /\ UNCHANGED <<noMore, target>>

\* The driver calls isBlocked and getOutput, which asks the processor for its result.
GetOutput ==
  /\ pc = "output"
  /\ finished' = Finished
  /\ NothingStateless \/ ResultStateless \/ NothingStateful \/ ResultStateful
  /\ UNCHANGED <<kind, batches, given>>

\* What query_func_ leaves behind: a stateless query writes its output batch from the
\* first row on, a stateful one adds to its buffer.
Written(rows) ==
  IF kind = "stateless" THEN Keep(rows) ELSE target \o Keep(rows)

\* addInput and processNextBatch, which is never called in another state than kRunning.
AddInput(rows) ==
  /\ pc = "input" /\ ~noMore /\ batches < MaxBatches
  /\ ~Finished /\ state = "kRunning" /\ ~Raises(rows)
  /\ batches' = batches + 1 /\ given' = given \o rows
  /\ target' = Written(rows) /\ hasResult' = TRUE
  /\ finished' = Finished /\ pc' = "output"
  /\ UNCHANGED <<kind, state, noMore, out>>

\* The compiled query returns an error code and processNextBatch throws.
AddInputFails(rows) ==
  /\ pc = "input" /\ ~noMore /\ batches < MaxBatches
  /\ ~Finished /\ Raises(rows)
  /\ pc' = "failed" /\ batches' = batches + 1
  /\ UNCHANGED <<kind, given, processor, finished, out>>

NoMoreInput ==
  /\ pc = "input" /\ ~noMore /\ ~Finished
  /\ noMore' = TRUE
  /\ finished' = Finished /\ pc' = "output"
  /\ UNCHANGED <<kind, batches, given, state, hasResult, target, out>>

\* The source or the operator has ended, so the driver turns to the output again.
NoInput ==
  /\ pc = "input" /\ (noMore \/ Finished)
  /\ finished' = Finished /\ pc' = "output"
  /\ UNCHANGED <<kind, batches, given, processor, out>>

Stopped == pc \in {"done", "failed"} /\ UNCHANGED vars

Next ==
  \/ GetOutput
  \/ \E rows \in Batches : AddInput(rows) \/ AddInputFails(rows)
  \/ NoMoreInput \/ NoInput \/ Stopped

\* The driver thread keeps running the pipeline.
Spec == Init /\ [][Next]_vars /\ WF_vars(Next)

-----------------------------------------------------------------------------
(* Properties                                                               *)

\* What the operator has returned and what its output batch still holds are together
\* the rows that the filter keeps, each once and in the order of the input; an
\* aggregation holds all of them.
NothingLost ==
  LET done == IF kind = "stateless" THEN out ELSE <<>>
  IN  done \o target = Keep(given)

\* An operator that reports the end was told of the end of its input and has returned
\* everything: the rows a filter kept, or the one aggregate over the whole input.
FlushedAtEnd ==
  finished => /\ noMore /\ ~hasResult
              /\ out = IF kind = "stateless" THEN Keep(given) ELSE <<Keep(given)>>

\* A pipeline whose input ended after at least one batch, none of which failed, ends.
PipelineEnds ==
  (noMore /\ (kind = "stateless" \/ batches > 0)) ~> pc = "done"

\* finish "Notifies the batchProcessor that no more batch will be added and the
\* batchProcessor should finish processing and flush results": the operator ends.
FinishEnds == noMore ~> finished

=============================================================================
