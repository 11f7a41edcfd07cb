--------------------------- MODULE JoinBuildProofs ---------------------------
(***************************************************************************)
(* The hand-over of the build side, for any number of build drivers, probe *)
(* drivers and batches: the bridge gets every row, no waiter is forgotten, *)
(* the table is never lost between the drivers that move it, only a driver *)
(* that came after another one fails, and otherwise the join is complete.  *)
(***************************************************************************)
EXTENDS JoinBuild, TLAPS

\* How long the provers may take for a step, in seconds.
USE SMTT(30), ZenonT(30)

\* d is the driver that found all its peers finished and runs on in noMoreInput.
Leader(d) == bpc[d] \in {"gather", "release", "publish", "notify"}

\* The last driver holds all rows from the copy to setData.
Gathered == \E d \in BuildDrivers : bpc[d] \in {"release", "publish"}

\* Rows are only ever in the drivers' inputs and data_ until the last driver has
\* copied them, and no peer can clear its data_ before that.
Barrier ==
  /\ \A d \in BuildDrivers : d \in arrived <=> bpc[d] # "running"
  /\ \A d \in BuildDrivers : d \in arrived => todo[d] = {}
  /\ \A d \in BuildDrivers : data[d] \subseteq Rows
  /\ \A d \in BuildDrivers : Leader(d) => arrived = BuildDrivers
  /\ \A d, e \in BuildDrivers : Leader(d) /\ Leader(e) => d = e
  /\ \A d \in BuildDrivers : Leader(d) => (hasData <=> bpc[d] = "notify")
  /\ \A d \in BuildDrivers : bpc[d] \in {"release", "publish"} => data[d] = Rows
  /\ ~hasData /\ ~Gathered =>
       \A b \in Rows : \E d \in BuildDrivers : b \in todo[d] \cup data[d]
  /\ \A d \in BuildDrivers :
       bpc[d] = "closed" \/ (bpc[d] = "done" /\ ~future[d]) => d \in released \/ hasData
  /\ released # {} => hasData \/ \E d \in BuildDrivers : bpc[d] = "publish"
  /\ hasData => arrived = BuildDrivers /\ bridge = Rows /\ Rows # {}

\* Promises belong to the drivers that wait, and to nobody else.
Waiters ==
  /\ \A p \in ProbeDrivers : ppc[p] = "waiting" <=> p \in promises \cup woken
  /\ hasData => promises = {}
  /\ woken # {} => \E d \in BuildDrivers : bpc[d] = "notify"

\* The shared batch is whole or moved from, and the table it held is with a
\* driver that has passed feedBuildTable.
Table ==
  /\ shared \in {{}, Rows}
  /\ \A p \in ProbeDrivers : ppc[p] \notin {"poll", "waiting"} => hasData
  /\ \A p \in ProbeDrivers :
       built[p] # {} => ppc[p] \in {"compile", "ready", "finished"}
  /\ \A p \in ProbeDrivers :
       ppc[p] \in {"compile", "ready", "finished"} => shared = {}
  /\ TableKept

\* A driver has joined the batches it was given, but for the one in input_, with its
\* table, which is whole or empty, and no batch is with no driver.
Joined ==
  /\ \A p \in ProbeDrivers : built[p] \in {{}, Rows}
  /\ \A p \in ProbeDrivers :
       ppc[p] \notin {"ready", "finished"} => input[p] = None /\ given[p] = {}
  /\ \A p \in ProbeDrivers : noMore[p] => ptodo[p] = {}
  /\ \A p \in ProbeDrivers : ppc[p] = "finished" => noMore[p] /\ input[p] = None
  /\ \A p \in ProbeDrivers : input[p] = None \/ input[p] \in given[p]
  /\ \A p \in ProbeDrivers : ptodo[p] \cap given[p] = {}
  /\ \A p \in ProbeDrivers : output[p] = (given[p] \ {input[p]}) \X built[p]
  /\ \A y \in ProbeBatches : \E p \in ProbeDrivers : y \in ptodo[p] \cup given[p]

IInv == TypeOK /\ Barrier /\ Waiters /\ Table /\ NeverFails /\ Joined

-----------------------------------------------------------------------------

\* A way to spread batches over drivers gives each driver some of the batches,
\* and gives each batch to a driver.
LEMMA SpreadType ==
  ASSUME NEW S, NEW D, NEW g \in Spread(S, D)
  PROVE  /\ g \in [D -> SUBSET S]
         /\ \A b \in S : \E d \in D : b \in g[d]
<1>1. PICK f \in [S -> D] : g = [d \in D |-> {b \in S : f[b] = d}]
  BY DEF Spread
<1>2. g \in [D -> SUBSET S]
  BY <1>1
<1>3. ASSUME NEW b \in S PROVE \E d \in D : b \in g[d]
  <2>1. f[b] \in D
    BY <1>1
  <2>2. b \in g[f[b]]
    BY <1>1, <2>1
  <2> QED BY <2>1, <2>2
<1> QED BY <1>2, <1>3

\* The initial state of the two pipelines satisfies the invariant.
LEMMA InitIInv == Init => IInv
<1> SUFFICES ASSUME Init PROVE IInv
  OBVIOUS
<1>1. /\ todo \in [BuildDrivers -> SUBSET Batches]
      /\ \A b \in Batches : \E d \in BuildDrivers : b \in todo[d]
  BY SpreadType DEF Init
<1>2. /\ ptodo \in [ProbeDrivers -> SUBSET ProbeBatches]
      /\ \A y \in ProbeBatches : \E p \in ProbeDrivers : y \in ptodo[p]
  BY SpreadType DEF Init
<1>3. TypeOK
  BY <1>1, <1>2, Zenon DEF Init, TypeOK
<1>4. Barrier
  BY <1>1 DEF Init, Barrier, Leader, Gathered, Rows
<1>5. Waiters
  BY DEF Init, Waiters
<1>6. Table
  BY DEF Init, Table, TableKept
<1>7. NeverFails
  BY DEF Init, NeverFails
<1>8. Joined
  BY <1>2 DEF Init, Joined
<1> QED BY <1>3, <1>4, <1>5, <1>6, <1>7, <1>8 DEF IInv

-----------------------------------------------------------------------------

\* Every step of a build driver keeps the types.
LEMMA TypeBuild ==
  ASSUME TypeOK, NEW d \in BuildDrivers, BuildStep(d)
  PROVE  TypeOK'
<1> USE DEF TypeOK, buildVars, bridgeVars, probeVars
<1>0. UNCHANGED empty
  BY DEF BuildStep
<1>1. CASE BuildAddInput(d)
  BY <1>0, <1>1 DEF BuildAddInput
<1>2. CASE BuildNoMoreInput(d)
  BY <1>0, <1>2, Zenon DEF BuildNoMoreInput
<1>3. CASE BuildIsBlocked(d)
  BY <1>0, <1>3 DEF BuildIsBlocked
<1>4. CASE BuildResume(d)
  BY <1>0, <1>4 DEF BuildResume
<1>5. CASE BuildClose(d)
  BY <1>0, <1>5 DEF BuildClose
<1>6. CASE BuildGather(d)
  BY <1>0, <1>6 DEF BuildGather
<1>7. CASE BuildRelease(d)
  BY <1>0, <1>7 DEF BuildRelease
<1>8. CASE BuildPublish(d)
  BY <1>0, <1>8, Zenon DEF BuildPublish
<1>9. CASE BuildNotify(d)
  BY <1>0, <1>9 DEF BuildNotify
<1> QED
  BY <1>1, <1>2, <1>3, <1>4, <1>5, <1>6, <1>7, <1>8, <1>9 DEF BuildStep

\* Every step of a probe driver keeps the types.
LEMMA TypeProbe ==
  ASSUME TypeOK, NEW p \in ProbeDrivers, ProbeStep(p)
  PROVE  TypeOK'
<1> USE DEF TypeOK, buildVars, bridgeVars, probeVars
<1>0. UNCHANGED empty
  BY DEF ProbeStep
<1>1. CASE ProbePoll(p)
  BY <1>0, <1>1 DEF ProbePoll
<1>2. CASE ProbeTable(p)
  BY <1>0, <1>2 DEF ProbeTable
<1>3. CASE ProbeMove(p)
  BY <1>0, <1>3 DEF ProbeMove
<1>4. CASE ProbeCompile(p)
  BY <1>0, <1>4, Zenon DEF ProbeCompile
<1>5. CASE ProbeAddInput(p)
  BY <1>0, <1>5 DEF ProbeAddInput
<1>6. CASE ProbeNoMoreInput(p)
  BY <1>0, <1>6 DEF ProbeNoMoreInput
<1>7. CASE ProbeGetOutput(p)
  BY <1>0, <1>7 DEF ProbeGetOutput
<1> QED
  BY <1>1, <1>2, <1>3, <1>4, <1>5, <1>6, <1>7 DEF ProbeStep

-----------------------------------------------------------------------------

\* No build step loses a row: a driver's input and data_ keep it until the last
\* driver has it, and only then can a peer close.
LEMMA BarrierBuild ==
  ASSUME TypeOK, Barrier, NEW d \in BuildDrivers, BuildStep(d)
  PROVE  Barrier'
<1> USE DEF TypeOK, Barrier, Leader, Gathered, Rows, bridgeVars
<1>0. UNCHANGED empty
  BY DEF BuildStep
<1>1. CASE BuildAddInput(d)
  BY <1>0, <1>1 DEF BuildAddInput
<1>2. CASE BuildNoMoreInput(d)
  BY <1>0, <1>2 DEF BuildNoMoreInput
<1>3. CASE BuildIsBlocked(d)
  BY <1>0, <1>3 DEF BuildIsBlocked
<1>4. CASE BuildResume(d)
  BY <1>0, <1>4 DEF BuildResume
<1>5. CASE BuildClose(d)
  BY <1>0, <1>5 DEF BuildClose
<1>6. CASE BuildGather(d)
  BY <1>0, <1>6 DEF BuildGather
<1>7. CASE BuildRelease(d)
  BY <1>0, <1>7 DEF BuildRelease
<1>8. CASE BuildPublish(d)
  BY <1>0, <1>8 DEF BuildPublish
<1>9. CASE BuildNotify(d)
  BY <1>0, <1>9 DEF BuildNotify
<1> QED
  BY <1>1, <1>2, <1>3, <1>4, <1>5, <1>6, <1>7, <1>8, <1>9, Zenon DEF BuildStep

\* A probe driver changes nothing of the build side, nor what setData was given.
LEMMA ProbeFrame ==
  ASSUME NEW p \in ProbeDrivers, ProbeStep(p)
  PROVE  UNCHANGED <<empty, buildVars, hasData, bridge, woken>>
BY DEF ProbeStep, ProbePoll, ProbeTable, ProbeMove, ProbeCompile, ProbeAddInput,
       ProbeNoMoreInput, ProbeGetOutput, bridgeVars

\* Hence it keeps the barrier's invariant.
LEMMA BarrierProbe ==
  ASSUME Barrier, NEW p \in ProbeDrivers, ProbeStep(p)
  PROVE  Barrier'
BY ProbeFrame DEF Barrier, Leader, Gathered, Rows, buildVars

-----------------------------------------------------------------------------

\* setData moves every promise out under the mutex that dataOrFuture takes.
LEMMA WaitersBuild ==
  ASSUME TypeOK, Barrier, Waiters, NEW d \in BuildDrivers, BuildStep(d)
  PROVE  Waiters'
<1> USE DEF Waiters
<1>1. CASE BuildPublish(d)
  BY <1>1 DEF BuildPublish, TypeOK, Barrier, Leader, probeVars, bridgeVars
<1>2. CASE BuildNotify(d)
  BY <1>2 DEF BuildNotify, TypeOK, Barrier, Leader
<1>3. CASE ~BuildPublish(d) /\ ~BuildNotify(d)
  <2>1. UNCHANGED <<ppc, promises, woken, hasData>>
    BY <1>3 DEF BuildStep, BuildAddInput, BuildNoMoreInput, BuildIsBlocked, BuildResume,
                BuildClose, BuildGather, BuildRelease, bridgeVars, probeVars
  <2>2. \A e \in BuildDrivers : bpc[e] = "notify" => bpc'[e] = "notify"
    BY <1>3 DEF BuildStep, BuildAddInput, BuildNoMoreInput, BuildIsBlocked, BuildResume,
                BuildClose, BuildGather, BuildRelease, TypeOK
  <2> QED BY <2>1, <2>2
<1> QED BY <1>1, <1>2, <1>3

\* A probe driver waits exactly when it has just registered its promise.
LEMMA WaitersProbe ==
  ASSUME TypeOK, Table, Waiters, NEW p \in ProbeDrivers, ProbeStep(p)
  PROVE  Waiters'
<1>1. UNCHANGED <<bpc, hasData, woken>>
  BY ProbeFrame DEF buildVars
<1>2. CASE ProbePoll(p)
  BY <1>1, <1>2 DEF ProbePoll, TypeOK, Waiters
<1>3. CASE ~ProbePoll(p)
  <2>1. UNCHANGED promises
    BY <1>3 DEF ProbeStep, ProbeTable, ProbeMove, ProbeCompile, ProbeAddInput,
                ProbeNoMoreInput, ProbeGetOutput, bridgeVars
  <2>2. \A q \in ProbeDrivers : ppc'[q] = "waiting" <=> ppc[q] = "waiting"
    BY <1>3 DEF ProbeStep, ProbeTable, ProbeMove, ProbeCompile, ProbeAddInput,
                ProbeNoMoreInput, ProbeGetOutput, TypeOK
  <2> QED BY <1>1, <2>1, <2>2 DEF Waiters
<1> QED BY <1>2, <1>3

-----------------------------------------------------------------------------

\* Only setData fills the shared batch, and it fills it with all rows; waking a
\* driver sends back to its poll only one that has not been fed.
LEMMA TableBuild ==
  ASSUME TypeOK, Barrier, Waiters, Table, NEW d \in BuildDrivers, BuildStep(d)
  PROVE  Table'
<1> USE DEF Table, TableKept, Rows
<1>0. UNCHANGED empty
  BY DEF BuildStep
<1>1. CASE BuildPublish(d)
  BY <1>0, <1>1 DEF BuildPublish, TypeOK, Barrier, probeVars, bridgeVars
<1>2. CASE BuildNotify(d)
  BY <1>0, <1>2 DEF BuildNotify, TypeOK, Waiters
<1>3. CASE ~BuildPublish(d) /\ ~BuildNotify(d)
  <2>1. UNCHANGED <<hasData, shared, ppc, built>>
    BY <1>3 DEF BuildStep, BuildAddInput, BuildNoMoreInput, BuildIsBlocked, BuildResume,
                BuildClose, BuildGather, BuildRelease, bridgeVars, probeVars
  <2> QED BY <1>0, <2>1
<1> QED BY <1>1, <1>2, <1>3

\* A probe driver that moves the shared batch has no table yet, so the table it
\* overwrites is empty and the one it takes is whole or already with another.
LEMMA TableProbe ==
  ASSUME TypeOK, Barrier, Table, NEW p \in ProbeDrivers, ProbeStep(p)
  PROVE  Table'
<1> USE DEF Table, TableKept, Rows, TypeOK
<1>0. UNCHANGED <<empty, hasData, bridge>>
  BY ProbeFrame
<1>1. CASE ProbePoll(p)
  BY <1>0, <1>1 DEF ProbePoll
<1>2. CASE ProbeTable(p)
  BY <1>0, <1>2 DEF ProbeTable, bridgeVars
<1>3. CASE ProbeMove(p)
  <2>1. PICK t \in {shared, bridge} : built' = [built EXCEPT ![p] = t]
    BY <1>3, Zenon DEF ProbeMove
  <2>2. hasData /\ bridge = Rows /\ built[p] = {} /\ Rows # {}
    BY <1>3 DEF ProbeMove, Barrier
  <2>3. shared' = {} /\ ppc' = [ppc EXCEPT ![p] = "compile"]
    BY <1>3 DEF ProbeMove
  <2>4. \E q \in ProbeDrivers : built'[q] = Rows
    <3>1. CASE t = Rows
      BY <2>1, <3>1
    <3>2. CASE t # Rows
      <4>1. shared = {}
        BY <2>1, <2>2, <3>2
      <4>2. PICK q \in ProbeDrivers : built[q] = Rows
        BY <4>1, <2>2
      <4>3. q # p
        BY <4>2, <2>2
      <4> QED BY <4>2, <4>3, <2>1
    <3> QED BY <3>1, <3>2
  <2> QED BY <1>0, <2>1, <2>2, <2>3, <2>4
<1>4. CASE ProbeCompile(p)
  BY <1>0, <1>4 DEF ProbeCompile, bridgeVars
<1>5. CASE ProbeAddInput(p)
  BY <1>0, <1>5 DEF ProbeAddInput, bridgeVars
<1>6. CASE ProbeNoMoreInput(p)
  BY <1>0, <1>6 DEF ProbeNoMoreInput, bridgeVars
<1>7. CASE ProbeGetOutput(p)
  BY <1>0, <1>7 DEF ProbeGetOutput, bridgeVars
<1> QED
  BY <1>1, <1>2, <1>3, <1>4, <1>5, <1>6, <1>7 DEF ProbeStep

-----------------------------------------------------------------------------

\* A build driver fails only in setData, and there only without a row to publish.
LEMMA NeverFailsBuild ==
  ASSUME TypeOK, Barrier, NEW d \in BuildDrivers, BuildStep(d)
  PROVE  NeverFails'
<1>0. ~failed /\ Rows' = Rows
  BY DEF BuildStep, Rows
<1>1. CASE BuildPublish(d)
  <2>1. data[d] = Rows /\ ~hasData
    BY <1>1 DEF BuildPublish, Barrier, Leader
  <2>2. Rows # {} => ~failed'
    BY <1>0, <1>1, <2>1 DEF BuildPublish
  <2> QED BY <1>0, <2>2 DEF NeverFails
<1>2. CASE ~BuildPublish(d)
  <2>1. failed' = failed
    BY <1>2 DEF BuildStep, BuildAddInput, BuildNoMoreInput, BuildIsBlocked, BuildResume,
                BuildClose, BuildGather, BuildRelease, BuildNotify
  <2> QED BY <1>0, <2>1 DEF NeverFails
<1> QED BY <1>1, <1>2

\* A driver that was fed no table was robbed: the shared batch is empty by then, and
\* another driver has what was in it.
LEMMA FedNothing ==
  ASSUME Barrier, Table, NEW p \in ProbeDrivers, built[p] = {},
         ppc[p] \in {"compile", "ready", "finished"}
  PROVE  Robbed(p)
<1>1. hasData /\ shared = {} /\ Rows # {}
  BY DEF Table, Barrier
<1>2. PICK q \in ProbeDrivers : built[q] = Rows
  BY <1>1 DEF Table, TableKept
<1> QED BY <1>1, <1>2 DEF Robbed, TakenFrom

\* A probe driver fails only in compile, when it was fed no table.
LEMMA NeverFailsProbe ==
  ASSUME TypeOK, Barrier, Table, NEW p \in ProbeDrivers, ProbeStep(p)
  PROVE  NeverFails'
<1>0. ~failed /\ Rows' = Rows
  BY DEF ProbeStep, Rows
<1>1. CASE ProbeCompile(p) /\ failed'
  <2>1. ppc[p] = "compile" /\ built[p] = {} /\ UNCHANGED <<ppc, built>>
    BY <1>0, <1>1, ZenonT(30) DEF ProbeCompile
  <2>2. Robbed(p)
    BY <2>1, FedNothing
  <2> QED BY <1>0, <2>1, <2>2 DEF NeverFails, Robbed, TakenFrom
<1>2. CASE ~(ProbeCompile(p) /\ failed')
  <2>1. ~failed'
    BY <1>0, <1>2 DEF ProbeStep, ProbePoll, ProbeTable, ProbeMove, ProbeAddInput,
                      ProbeNoMoreInput, ProbeGetOutput
  <2> QED BY <2>1 DEF NeverFails
<1> QED BY <1>1, <1>2

-----------------------------------------------------------------------------

\* A build driver touches no batch and no table of a probe driver; it only wakes
\* drivers that have not been fed.
LEMMA JoinedBuild ==
  ASSUME TypeOK, Waiters, Joined, NEW d \in BuildDrivers, BuildStep(d)
  PROVE  Joined'
<1>1. UNCHANGED <<empty, ptodo, input, built, noMore, given, output>>
  BY DEF BuildStep, BuildAddInput, BuildNoMoreInput, BuildIsBlocked, BuildResume,
         BuildClose, BuildGather, BuildRelease, BuildPublish, BuildNotify, probeVars
<1>2. \A p \in ProbeDrivers :
        \/ ppc'[p] = ppc[p]
        \/ ppc[p] = "waiting" /\ ppc'[p] = "poll"
  BY DEF BuildStep, BuildAddInput, BuildNoMoreInput, BuildIsBlocked, BuildResume,
         BuildClose, BuildGather, BuildRelease, BuildPublish, BuildNotify, probeVars,
         Waiters, TypeOK
<1>3. \A p \in ProbeDrivers :
        /\ ppc'[p] \in {"ready", "finished"} <=> ppc[p] \in {"ready", "finished"}
        /\ ppc'[p] = "finished" <=> ppc[p] = "finished"
  BY <1>2
<1> QED BY <1>1, <1>3 DEF Joined, Rows

\* A probe driver keeps each of its batches until it has joined it.
LEMMA JoinedProbe ==
  ASSUME TypeOK, Barrier, Table, Joined, NEW p \in ProbeDrivers, ProbeStep(p)
  PROVE  Joined'
<1> USE DEF Joined, TypeOK, Rows
<1>0. UNCHANGED empty
  BY DEF ProbeStep
<1>1. CASE ProbePoll(p)
  BY <1>0, <1>1 DEF ProbePoll
<1>2. CASE ProbeTable(p)
  BY <1>0, <1>2 DEF ProbeTable
<1>3. CASE ProbeMove(p)
  <2>1. PICK t \in {shared, bridge} : built' = [built EXCEPT ![p] = t]
    BY <1>3, Zenon DEF ProbeMove
  <2>2. t \in {{}, Rows} /\ given[p] = {}
    BY <1>3, <2>1 DEF ProbeMove, Table, Barrier
  <2> QED BY <1>0, <1>3, <2>1, <2>2 DEF ProbeMove
<1>4. CASE ProbeCompile(p)
  BY <1>0, <1>4 DEF ProbeCompile
<1>5. CASE ProbeAddInput(p)
  <2>1. PICK b \in ptodo[p] : /\ input' = [input EXCEPT ![p] = b]
                              /\ ptodo' = [ptodo EXCEPT ![p] = @ \ {b}]
                              /\ given' = [given EXCEPT ![p] = @ \cup {b}]
    BY <1>5, ZenonT(30) DEF ProbeAddInput
  <2>2. ppc[p] = "ready" /\ ~noMore[p] /\ input[p] = None
    BY <1>5 DEF ProbeAddInput, NeedsInput
  <2>3. UNCHANGED <<ppc, built, noMore, output>>
    BY <1>5 DEF ProbeAddInput
  <2>4. given'[p] \ {input'[p]} = given[p] \ {input[p]}
    BY <2>1, <2>2, JoinAssumption
  <2>5. \A q \in ProbeDrivers : output'[q] = (given'[q] \ {input'[q]}) \X built'[q]
    BY <2>1, <2>3, <2>4
  <2>6. \A q \in ProbeDrivers : ptodo'[q] \cup given'[q] = ptodo[q] \cup given[q]
    BY <2>1
  <2> QED BY <1>0, <2>1, <2>2, <2>3, <2>5, <2>6
<1>6. CASE ProbeNoMoreInput(p)
  BY <1>0, <1>6 DEF ProbeNoMoreInput
<1>7. CASE ProbeGetOutput(p)
  <2>1. CASE input[p] # None
    <3>1. /\ output' = [output EXCEPT ![p] = @ \cup ({input[p]} \X built[p])]
          /\ input' = [input EXCEPT ![p] = None]
          /\ UNCHANGED <<ppc, ptodo, built, noMore, given>>
      BY <1>7, <2>1 DEF ProbeGetOutput
    <3>2. given[p] \ {None} = (given[p] \ {input[p]}) \cup {input[p]}
      BY <2>1, JoinAssumption
    <3>3. output'[p] = (given[p] \ {None}) \X built[p]
      BY <3>1, <3>2
    <3>4. \A q \in ProbeDrivers : output'[q] = (given'[q] \ {input'[q]}) \X built'[q]
      BY <3>1, <3>3
    <3> QED BY <1>0, <3>1, <3>4
  <2>2. CASE input[p] = None
    BY <1>0, <1>7, <2>2 DEF ProbeGetOutput
  <2> QED BY <2>1, <2>2
<1> QED
  BY <1>1, <1>2, <1>3, <1>4, <1>5, <1>6, <1>7, Zenon DEF ProbeStep

-----------------------------------------------------------------------------

\* Every step of either pipeline keeps the invariant.
LEMMA NextIInv == IInv /\ [Next]_vars => IInv'
<1> SUFFICES ASSUME IInv, [Next]_vars PROVE IInv'
  OBVIOUS
<1>1. ASSUME NEW d \in BuildDrivers, BuildStep(d) PROVE IInv'
  BY <1>1, TypeBuild, BarrierBuild, WaitersBuild, TableBuild, NeverFailsBuild,
     JoinedBuild DEF IInv
<1>2. ASSUME NEW p \in ProbeDrivers, ProbeStep(p) PROVE IInv'
  BY <1>2, TypeProbe, BarrierProbe, WaitersProbe, TableProbe, NeverFailsProbe,
     JoinedProbe DEF IInv
<1>3. CASE UNCHANGED vars
  BY <1>3 DEF IInv, TypeOK, Barrier, Waiters, Table, TableKept, NeverFails, Robbed,
              TakenFrom, Joined, Leader, Gathered, Rows, vars, buildVars, bridgeVars,
              probeVars
<1> QED BY <1>1, <1>2, <1>3 DEF Next, Stopped

\* The inductive invariant holds of every behaviour of the join.
THEOREM IInvHolds == Spec => []IInv
BY InitIInv, NextIInv, PTL DEF Spec

\* The variables of the join keep their types.
THEOREM TypeCorrect == Spec => []TypeOK
BY IInvHolds, PTL DEF IInv

\* CiderJoinBuild::noMoreInput hands every row of every build driver to setData,
\* for any number of drivers and batches.
THEOREM BridgeGetsAllRows == Spec => []BridgeComplete
<1>1. IInv => BridgeComplete
  BY DEF IInv, Barrier, BridgeComplete
<1> QED BY IInvHolds, <1>1, PTL

\* No probe driver that waits in isBlocked is missed by setData's notify.
THEOREM NoWaiterForgotten == Spec => []WaitersWoken
<1>1. IInv => WaitersWoken
  BY DEF IInv, Waiters, WaitersWoken
<1> QED BY IInvHolds, <1>1, PTL

\* However many probe drivers move the shared batch, one of them has the table.
THEOREM TableNotLost == Spec => []TableKept
BY IInvHolds, PTL DEF IInv, Table

\* However many drivers there are, the task of a join with build rows fails only in
\* the compile of a probe driver that another one has robbed of the shared batch.
THEOREM FailsOnlyRobbed == Spec => []NeverFails
BY IInvHolds, PTL DEF IInv

\* However the batches are spread and the drivers interleave, a finished probe driver
\* that was not robbed has joined each of its batches with every build row, and
\* finished drivers have received every probe batch.
THEOREM JoinIsComplete == Spec => []JoinComplete
<1>1. IInv => JoinComplete
  <2> SUFFICES ASSUME IInv PROVE JoinComplete
    OBVIOUS
  <2>1. ASSUME NEW p \in ProbeDrivers, ppc[p] = "finished", ~Robbed(p)
        PROVE  output[p] = given[p] \X Rows
    <3>1. built[p] = Rows
      BY <2>1, FedNothing DEF IInv, Joined
    <3>2. given[p] \ {input[p]} = given[p]
      BY <2>1, JoinAssumption DEF IInv, Joined, TypeOK
    <3> QED BY <3>1, <3>2 DEF IInv, Joined
  <2>2. ASSUME ProbeDone PROVE UNION {given[p] : p \in ProbeDrivers} = ProbeBatches
    <3>1. \A p \in ProbeDrivers : ptodo[p] = {}
      BY <2>2 DEF IInv, Joined, ProbeDone
    <3>2. \A p \in ProbeDrivers : given[p] \subseteq ProbeBatches
      BY DEF IInv, TypeOK
    <3>3. \A y \in ProbeBatches : \E p \in ProbeDrivers : y \in given[p]
      BY <3>1 DEF IInv, Joined
    <3> QED BY <3>2, <3>3
  <2> QED BY <2>1, <2>2 DEF JoinComplete
<1> QED BY IInvHolds, <1>1, PTL
=============================================================================
