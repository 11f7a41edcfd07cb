--------------------------- MODULE PlanTransformer ---------------------------
(***************************************************************************)
(* PlanTransformer: CiderVeloxPluginCtx::transformVeloxPlan replaces the   *)
(* sections of a Velox plan that Cider can run by Cider nodes.  It matches *)
(* the patterns on the path from every source of the plan to its root, and *)
(* then makes the Cider nodes, from the sources to the root.  The nodes it *)
(* keeps are those of the plan it was given: it changes their sources in   *)
(* place, so that a caller's plan changes under it.                        *)
(***************************************************************************)
EXTENDS PlanPatterns, FiniteSets

CONSTANTS
    Plans,     \* the plans callers make; node 1 is the root
    FlagSets,  \* the sets of patterns the flags can enable
    MaxCalls   \* bound on the calls of transformVeloxPlan

ASSUME MaxCallsAssumption == MaxCalls \in Nat

VARIABLES
    plan,       \* the plan as the caller made it
    patterns,   \* rewriterList_
    heap,       \* every node there is; Cider nodes are added at the end
    pc,         \* idle, match or rewrite
    root,       \* root_
    branches,   \* orgBranches_
    paths,      \* source branches whose path is still to be matched
    pos,        \* where on the path the next match starts, or invalid
    matches,    \* branchIdMatchResultMap_
    todo,       \* branches still to be rewritten
    idx,        \* index of the next match result in the first of them
    rewritten,  \* rewrittenNodePtrMap_
    calls,      \* number of calls so far
    results     \* auxiliary: the roots of the plans returned so far

vars == <<plan, patterns, heap, pc, root, branches, paths, pos, matches,
          todo, idx, rewritten, calls, results>>

Init ==
    /\ plan \in Plans
    /\ \E flags \in FlagSets : patterns = registerCiderPattern(flags)
    /\ heap = plan
    /\ pc = "idle"
    /\ root = 1
    /\ branches = <<>>
    /\ paths = <<>>
    /\ pos = invalid
    /\ matches = <<>>
    /\ todo = <<>>
    /\ idx = 1
    /\ rewritten = <<>>
    /\ calls = 0
    /\ results = {}

\* A caller has the plan it made, or one that was returned to it, transformed.
transformVeloxPlan(r) ==
    /\ pc = "idle"
    /\ calls < MaxCalls
    /\ calls' = calls + 1
    /\ root' = r
    /\ branches' = splitPlanBranches(heap, r, 1)
    /\ paths' = getPlanSourceBranchIds(heap, branches')
    /\ matches' = [b \in ToSet(BranchIds(branches')) |-> <<>>]
    /\ rewritten' = <<>>
    /\ pc' = "match"
    /\ UNCHANGED <<plan, patterns, heap, pos, todo, idx, results>>

-----------------------------------------------------------------------------
(* Matching. *)

\* The section the pattern matches from address a on, as its target and source.
Section(h, bs, a, p) ==
    LET path == PathToRoot(bs, a)
        kinds == [i \in DOMAIN path |-> h[getPlanNode(bs, path[i])].kind]
        n == matchFromSrc(p, kinds)
    IN IF n = 0 THEN {} ELSE {[target |-> path[n], source |-> a]}

\* The match of the first pattern that has one.
FirstMatch(h, bs, a) ==
    LET matching == SelectSeq(patterns, LAMBDA p : Section(h, bs, a, p) # {})
    IN IF matching = <<>> THEN {} ELSE Section(h, bs, a, Head(matching))

isBefore(s, t) ==
    \/ s.target.branchId < t.target.branchId
    \/ /\ s.target.branchId = t.target.branchId
       /\ s.target.nodeId <= t.target.nodeId

\* Mutant: a section that was matched on another path is taken again.
AcceptAgain(s) == TRUE

acceptMatchResult(s) ==
    LET found == matches[s.target.branchId]
    IN found = <<>> \/ ~isBefore(Last(found), s)

\* matchFromSrcToTarget goes on to the path of the next source branch.
matchFromSrcToTarget ==
    /\ pc = "match"
    /\ pos = invalid
    /\ paths # <<>>
    /\ pos' = getBranchSrcNodeAddr(branches, Head(paths))
    /\ paths' = Tail(paths)
    /\ UNCHANGED <<plan, patterns, heap, pc, root, branches, matches, todo, idx,
                   rewritten, calls, results>>

\* One turn of the loop of matchSourceBranch.  A match that is not accepted ends
\* the path.
matchSourceBranch ==
    /\ pc = "match"
    /\ pos # invalid
    /\ LET found == FirstMatch(heap, branches, pos)
       IN IF found = {}
          THEN /\ pos' = moveToTarget(branches, pos)
               /\ UNCHANGED matches
          ELSE \E s \in found :
               IF acceptMatchResult(s)
               THEN /\ matches' = [matches EXCEPT ![s.target.branchId] = Append(@, s)]
                    /\ pos' = moveToTarget(branches, s.target)
               ELSE /\ pos' = invalid
                    /\ UNCHANGED matches
    /\ UNCHANGED <<plan, patterns, heap, pc, root, branches, paths, todo, idx,
                   rewritten, calls, results>>

Return(r) ==
    /\ pc' = "idle"
    /\ results' = results \cup {r}

matched ==
    /\ pc = "match"
    /\ pos = invalid
    /\ paths = <<>>
    /\ IF \E b \in DOMAIN matches : matches[b] # <<>>
       THEN /\ todo' = getSrcToRootBranchIds(branches)
            /\ pc' = "rewrite"
            /\ UNCHANGED results
       ELSE /\ Return(root)
            /\ UNCHANGED todo
    /\ UNCHANGED <<plan, patterns, heap, root, branches, paths, pos, matches, idx,
                   rewritten, calls>>

-----------------------------------------------------------------------------
(* Rewriting. *)

lookupRewrittenMap(a) ==
    IF a \in DOMAIN rewritten THEN rewritten[a] ELSE getPlanNode(branches, a)

\* The nodes that toSubstraitPlan translates, from target to source, by way of the
\* sources the nodes have now.
RECURSIVE Fragment(_, _, _)
Fragment(h, target, source) ==
    <<target>> \o
        IF target = source THEN <<>> ELSE Fragment(h, h[target].srcs[1], source)

\* The Cider node toCiderPlanNode makes for the section.
toCiderPlanNode(s) ==
    LET sources == getAllSourcesOf(heap, branches, s.source)
    IN [kind |-> "Cider",
        srcs |-> [i \in DOMAIN sources |-> lookupRewrittenMap(sources[i])],
        fragment |-> Fragment(heap, getPlanNode(branches, s.target),
                              getPlanNode(branches, s.source))]

\* Mutant: a join always gets its right source changed.
ChangeRightSource(h, a, b, m) ==
    LET n == getPlanNode(branches, a)
    IN IF a.branchId = b THEN [h EXCEPT ![n].srcs = <<m>>]
       ELSE [h EXCEPT ![n].srcs = <<@[1], m>>]

\* The node at a reads from m what it read from branch b: changeNodeSource,
\* changeJoinNodeLeftSource and changeJoinNodeRightSource.
ChangeSource(h, a, b, m) ==
    LET n == getPlanNode(branches, a)
    IN CASE a.branchId = b     -> [h EXCEPT ![n].srcs = <<m>>]
         [] 2 * a.branchId = b -> [h EXCEPT ![n].srcs = <<m, @[2]>>]
         [] OTHER              -> [h EXCEPT ![n].srcs = <<@[1], m>>]

\* One match result of rewriteBranch: rewriteMatchResult makes the Cider node and
\* remembers it, and the node above the section, if there is one, gets it as its source.
rewriteMatchResult ==
    /\ pc = "rewrite"
    /\ todo # <<>>
    /\ idx <= Len(matches[Head(todo)])
    /\ LET b == Head(todo)
           s == matches[b][idx]
           new == Len(heap) + 1
           above == moveToTarget(branches, s.target)
           added == Append(heap, toCiderPlanNode(s))
       IN /\ rewritten' = [a \in DOMAIN rewritten \cup {s.target} |->
                              IF a = s.target THEN new ELSE rewritten[a]]
          /\ heap' = IF above = invalid THEN added
                     ELSE ChangeSource(added, above, b, new)
    /\ idx' = idx + 1
    /\ UNCHANGED <<plan, patterns, pc, root, branches, paths, pos, matches, todo,
                   calls, results>>

\* rewriteBranch is done with the branch.
branchRewritten ==
    /\ pc = "rewrite"
    /\ todo # <<>>
    /\ idx > Len(matches[Head(todo)])
    /\ todo' = Tail(todo)
    /\ idx' = 1
    /\ UNCHANGED <<plan, patterns, heap, pc, root, branches, paths, pos, matches,
                   rewritten, calls, results>>

rewriteAllBranches ==
    /\ pc = "rewrite"
    /\ todo = <<>>
    /\ Return(lookupRewrittenMap(Address(1, 0)))
    /\ UNCHANGED <<plan, patterns, heap, root, branches, paths, pos, matches, todo,
                   idx, rewritten, calls>>

Next ==
    \/ \E r \in {1} \cup results : transformVeloxPlan(r)
    \/ matchFromSrcToTarget
    \/ matchSourceBranch
    \/ matched
    \/ rewriteMatchResult
    \/ branchRewritten
    \/ rewriteAllBranches

Spec == Init /\ [][Next]_vars

-----------------------------------------------------------------------------
(* Properties. *)

\* What node n computes: the caller's node at its root, and what that node's
\* sources compute.  A Cider node computes what the nodes of its fragment do.
RECURSIVE Meaning(_, _)
Meaning(h, n) ==
    LET below == [i \in DOMAIN h[n].srcs |-> Meaning(h, h[n].srcs[i])]
        over(f, inputs) == <<f, inputs>>
    IN IF h[n].kind # "Cider" THEN over(n, below)
       ELSE FoldRight(LAMBDA f, inputs : <<over(f, inputs)>>, h[n].fragment, below)[1]

\* At every step of a transformation the plan the caller made, whose nodes are
\* changed in place, and every plan that was returned before, which shares nodes
\* with it, compute what the caller's plan computed: each node of it once, with
\* the same inputs in the same order.
PlansKeepMeaning ==
    \A r \in {1} \cup results : Meaning(heap, r) = Meaning(plan, 1)

\* The nodes from the section's source to its target.
SectionNodes(s) ==
    {getPlanNode(branches, Address(s.target.branchId, i)) :
        i \in s.target.nodeId..s.source.nodeId}

\* A node is in one match result at most, though a node above a join is on the path
\* of several source branches; a match result lies in one branch, as rewriteBranch
\* takes it to; and a branch has its match results in the order from source to
\* target in which rewriteBranch must meet them.
MatchesDisjoint ==
    \A b, c \in DOMAIN matches :
        \A i \in DOMAIN matches[b], j \in DOMAIN matches[c] :
            LET s == matches[b][i]
                t == matches[c][j]
            IN /\ s.source.branchId = s.target.branchId
               /\ <<b, i>> # <<c, j>> => SectionNodes(s) \cap SectionNodes(t) = {}
               /\ b = c /\ i < j => s.target.nodeId > t.source.nodeId

\* The path that ends at the root, and those from the nodes below its first node.
RECURSIVE PathsBelow(_, _)
PathsBelow(h, path) ==
    {path} \cup UNION {PathsBelow(h, <<n>> \o path) : n \in ToSet(h[Head(path)].srcs)}

\* splitPlanBranches neither takes a branch that ends in a node with more than two
\* sources for a source branch nor looks below that node.
Overlooked(h, path) ==
    LET wide(n) == Len(h[n].srcs) > 2
    IN \/ wide(Last(makePlanBranch(h, Head(path))))
       \/ \E n \in ToSet(Tail(path)) : wide(n)

\* No pattern matches from any node of a returned plan on, up the sources the nodes
\* have, unless splitPlanBranches overlooks the node: giving up a path at a match that
\* is not accepted misses nothing that the paths before it have not found, and a
\* returned plan need not be transformed again.
NothingMissed ==
    \A r \in results : \A path \in PathsBelow(heap, <<r>>) :
        \/ Overlooked(heap, path)
        \/ LET kinds == [i \in DOMAIN path |-> heap[path[i]].kind]
           IN \A p \in ToSet(patterns) : matchFromSrc(p, kinds) = 0

=============================================================================
