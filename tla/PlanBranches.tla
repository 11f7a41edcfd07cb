----------------------------- MODULE PlanBranches -----------------------------
(***************************************************************************)
(* PlanBranches: the view the plan transformer has of a plan.  A plan is a *)
(* tree of nodes; a node h[n] of the sequence h has a kind and the indices *)
(* of its sources.  A branch is a chain of nodes with one source each, up  *)
(* to a node with none or several, which is the last of the branch; the    *)
(* branches below branch b are 2b and 2b + 1, and the root's branch is 1.  *)
(* A node's address is its branch and its position, 0 at the target end.   *)
(***************************************************************************)
EXTENDS Integers, Sequences, SequencesExt

Address(b, i) == [branchId |-> b, nodeId |-> i]

invalid == Address(-1, -1)

RECURSIVE makePlanBranch(_, _)
makePlanBranch(h, n) ==
    <<n>> \o IF Len(h[n].srcs) = 1 THEN makePlanBranch(h, h[n].srcs[1]) ELSE <<>>

\* The branches below node n, a branch before the ones that feed it.  A branch
\* that ends in a node with more than two sources has no branches below it.
RECURSIVE splitPlanBranches(_, _, _)
splitPlanBranches(h, n, b) ==
    LET nodes == makePlanBranch(h, n)
        srcs == h[Last(nodes)].srcs
    IN <<[id |-> b, nodes |-> nodes]>> \o
       IF Len(srcs) = 2
       THEN splitPlanBranches(h, srcs[1], 2 * b) \o splitPlanBranches(h, srcs[2], 2 * b + 1)
       ELSE <<>>

BranchIds(bs) == [i \in DOMAIN bs |-> bs[i].id]

getBranch(bs, b) == bs[CHOOSE i \in DOMAIN bs : bs[i].id = b].nodes

\* srcBranchIds_: the branches that end in a node with one source or none.
getPlanSourceBranchIds(h, bs) ==
    SelectSeq(BranchIds(bs), LAMBDA b : Len(h[Last(getBranch(bs, b))].srcs) < 2)

\* Mutant: the branches are left in the order they were found in.
RootToSrcBranchIds(bs) == BranchIds(bs)

getSrcToRootBranchIds(bs) == Reverse(BranchIds(bs))

getPlanNode(bs, a) == getBranch(bs, a.branchId)[a.nodeId + 1]

getBranchSrcNodeAddr(bs, b) == Address(b, Len(getBranch(bs, b)) - 1)

moveToTarget(bs, a) ==
    IF a \in {invalid, Address(1, 0)} THEN invalid
    ELSE IF a.nodeId > 0 THEN Address(a.branchId, a.nodeId - 1)
    ELSE getBranchSrcNodeAddr(bs, a.branchId \div 2)

\* What BranchSrcToTargetIterator returns from address a on.
RECURSIVE PathToRoot(_, _)
PathToRoot(bs, a) ==
    IF a = invalid THEN <<>> ELSE <<a>> \o PathToRoot(bs, moveToTarget(bs, a))

\* The addresses the node at a reads from, which is the source end of a section
\* that lies in one branch.
getAllSourcesOf(h, bs, a) ==
    CASE Len(h[getPlanNode(bs, a)].srcs) = 1 -> <<Address(a.branchId, a.nodeId + 1)>>
      [] Len(h[getPlanNode(bs, a)].srcs) = 2 ->
            <<Address(2 * a.branchId, 0), Address(2 * a.branchId + 1, 0)>>
      [] OTHER -> <<>>

=============================================================================
