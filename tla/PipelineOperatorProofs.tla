----------------------- MODULE PipelineOperatorProofs -----------------------
(***************************************************************************)
(* Proofs about PipelineOperator, for batches of any number and length and *)
(* any filter: no row is lost, doubled or reordered, and an operator that  *)
(* reports its end has returned everything.                                *)
(***************************************************************************)
EXTENDS PipelineOperator, BasicLemmas

\* How long the provers may take for a step, in seconds.
USE SMTT(30), ZenonT(30)

-----------------------------------------------------------------------------
(* The filter                                                               *)

\* What is kept is a sequence of rows, and of an empty input nothing is.
LEMMA KeepType ==
  /\ \A rows \in Seq(Rows) : Keep(rows) \in Seq(Rows)
  /\ Keep(<<>>) = <<>>
  BY ThoseType, ThoseNone, Zenon DEF Keep

\* Filtering two batches one after the other is filtering their concatenation.
LEMMA KeepConcat ==
  ASSUME NEW s \in Seq(Rows), NEW t \in Seq(Rows)
  PROVE  Keep(s \o t) = Keep(s) \o Keep(t)
  BY ThoseConcat DEF Keep

\* A batch is a sequence of rows.
LEMMA BatchType == Batches \subseteq Seq(Rows)
<1> SUFFICES ASSUME NEW n \in 0..MaxLength, NEW rows \in [1..n -> Rows]
             PROVE  rows \in Seq(Rows)
  BY DEF Batches
<1>1. n \in Nat
  BY PipelineAssumption
<1> QED BY <1>1

-----------------------------------------------------------------------------
(* The invariant                                                            *)

\* A filter's output batch is empty unless there is a result to take, and the driver
\* offers input only after it has taken the result; an aggregation returns nothing
\* before it ends; the processor ends only after the input, with everything returned.
IInv ==
  /\ kind \in {"stateless", "stateful"} /\ state \in {"kRunning", "kFinished"}
  /\ given \in Seq(Rows) /\ target \in Seq(Rows)
  /\ kind = "stateless" => /\ out \in Seq(Rows)
                           /\ ~hasResult => target = <<>>
                           /\ pc = "input" => ~hasResult
  /\ kind = "stateful" /\ state = "kRunning" => out = <<>>
  /\ state = "kFinished" => /\ noMore /\ ~hasResult
                            /\ kind = "stateful" => out = <<target>>
  /\ finished => state = "kFinished"
  /\ NothingLost

\* A new operator satisfies the invariant.
LEMMA IInvInit == Init => IInv
  BY KeepType DEF Init, IInv, NothingLost

\* Every step preserves the invariant.
LEMMA IInvNext == IInv /\ [Next]_vars => IInv'
<1> SUFFICES ASSUME IInv, [Next]_vars PROVE IInv'
  OBVIOUS
<1>1. /\ kind = "stateless" => out \o target = Keep(given)
      /\ kind = "stateful" => target = Keep(given)
  BY DEF IInv, NothingLost
<1>2. CASE GetOutput /\ NothingStateless
  BY <1>2, Zenon DEF IInv, NothingLost, GetOutput, NothingStateless, NoOutput, Finished
<1>3. CASE GetOutput /\ ResultStateless
  <2>1. out \o target \in Seq(Rows) /\ (out \o target) \o <<>> = out \o target
    BY <1>3 DEF IInv, ResultStateless
  <2>2. /\ kind' = kind /\ given' = given /\ state' = state /\ noMore' = noMore
        /\ out' = out \o target /\ target' = <<>> /\ hasResult' = FALSE
        /\ finished' => state = "kFinished"
        /\ kind = "stateless"
    BY <1>3, Zenon DEF IInv, GetOutput, ResultStateless, Finished
  <2>3. NothingLost'
    BY <1>1, <2>1, <2>2 DEF NothingLost
  <2> QED BY <2>1, <2>2, <2>3 DEF IInv
<1>4. CASE GetOutput /\ NothingStateful
  BY <1>4, Zenon DEF IInv, NothingLost, GetOutput, NothingStateful, NoOutput, Finished, processor
<1>5. CASE GetOutput /\ ResultStateful
  <2>1. out = <<>> /\ Append(<<>>, target) = <<target>>
    BY <1>5 DEF IInv, ResultStateful
  <2> QED BY <1>1, <1>5, <2>1 DEF IInv, NothingLost, GetOutput, ResultStateful, Finished
<1>6. ASSUME NEW rows \in Batches, AddInput(rows) PROVE IInv'
  <2>1. /\ rows \in Seq(Rows) /\ given \in Seq(Rows) /\ target \in Seq(Rows)
        /\ Keep(rows) \in Seq(Rows) /\ given \o rows \in Seq(Rows)
        /\ Keep(given \o rows) = Keep(given) \o Keep(rows)
    <3>1. rows \in Seq(Rows) /\ given \in Seq(Rows) /\ target \in Seq(Rows)
      BY BatchType DEF IInv
    <3>2. given \o rows \in Seq(Rows)
      BY <3>1
    <3> QED BY <3>1, <3>2, KeepType, KeepConcat, Zenon
  <2>2. CASE kind = "stateless"
    <3>1. target = <<>> /\ out \in Seq(Rows)
      BY <1>6, <2>2 DEF IInv, AddInput
    <3>2. out = Keep(given)
      BY <1>1, <2>2, <3>1
    <3> QED BY <1>6, <2>1, <2>2, <3>1, <3>2, Zenon DEF IInv, NothingLost, AddInput, Written, Finished
  <2>3. CASE kind = "stateful"
    <3>1. target \o Keep(rows) \in Seq(Rows) /\ <<>> \o (target \o Keep(rows)) = target \o Keep(rows)
      BY <2>1
    <3> QED BY <1>1, <1>6, <2>1, <2>3, <3>1, Zenon DEF IInv, NothingLost, AddInput, Written, Finished
  <2> QED BY <2>2, <2>3 DEF IInv
<1>7. ASSUME NEW rows \in Batches, AddInputFails(rows) PROVE IInv'
  BY <1>7 DEF IInv, NothingLost, AddInputFails, Finished, processor
<1>8. CASE NoMoreInput
  BY <1>8, Zenon DEF IInv, NothingLost, NoMoreInput, Finished
<1>9. CASE NoInput
  BY <1>9, Zenon DEF IInv, NothingLost, NoInput, Finished, processor
<1>10. CASE UNCHANGED vars
  BY <1>10 DEF IInv, NothingLost, vars
<1>11. CASE Stopped
  BY <1>10, <1>11 DEF Stopped
<1> QED BY <1>2, <1>3, <1>4, <1>5, <1>6, <1>7, <1>8, <1>9, <1>10, <1>11 DEF Next, GetOutput

\* The inductive invariant holds in every reachable state.
LEMMA IInvHolds == Spec => []IInv
  BY IInvInit, IInvNext, PTL DEF Spec

-----------------------------------------------------------------------------
(* Theorems                                                                 *)

\* For batches of any number and length: what the operator has returned and what its
\* output batch still holds are the rows the filter keeps, each once and in order.
THEOREM RowsKept == Spec => []NothingLost
<1>1. IInv => NothingLost
  BY DEF IInv
<1> QED BY <1>1, IInvHolds, PTL

\* An operator that reports the end has been told of the end of its input and has
\* returned every row, or the one aggregate over all of them.
THEOREM EndIsFlushed == Spec => []FlushedAtEnd
<1>1. IInv => FlushedAtEnd
  <2> SUFFICES ASSUME IInv, finished PROVE FlushedAtEnd
    BY DEF FlushedAtEnd
  <2>1. /\ noMore /\ ~hasResult
        /\ kind = "stateless" => target = <<>> /\ out \in Seq(Rows) /\ out \o target = Keep(given)
        /\ kind = "stateful" => out = <<target>> /\ target \in Seq(Rows) /\ <<>> \o target = Keep(given)
    BY DEF IInv, NothingLost
  <2>2. CASE kind = "stateless"
    BY <2>1, <2>2 DEF FlushedAtEnd
  <2>3. CASE kind = "stateful"
    BY <2>1, <2>3 DEF FlushedAtEnd
  <2> QED BY <2>2, <2>3 DEF IInv
<1> QED BY <1>1, IInvHolds, PTL
=============================================================================
