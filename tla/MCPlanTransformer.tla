-------------------------- MODULE MCPlanTransformer --------------------------
(***************************************************************************)
(* PlanTransformer over plans of four shapes.                              *)
(***************************************************************************)
EXTENDS PlanTransformer

Node(kind, srcs) == [kind |-> kind, srcs |-> srcs, fragment |-> <<>>]

Leaf == Node("Values", <<>>)

AnyUnary ==
    ProjectKinds \cup AggregationKinds \cup {"Filter", "PartialOrderBy", "PartialTopN"}

AboveJoin == ProjectKinds \cup AggregationKinds \cup {"Filter"}

\* Three nodes above a leaf.
Chains ==
    {<<Node(k1, <<2>>), Node(k2, <<3>>), Node(k3, <<4>>), Leaf>> :
        k1, k2, k3 \in AnyUnary}

\* A join with a node on each side and two above it.
Joins ==
    {<<Node(k1, <<2>>), Node(k2, <<3>>), Node(j, <<4, 6>>),
       Node(l, <<5>>), Leaf, Node(r, <<7>>), Leaf>> :
        k1, k2 \in AboveJoin, j \in {"HashJoin", "CrossJoin"},
        l, r \in {"Filter", "FinalAgg"}}

\* A join of a join, on its left or on its right side, with a node on every branch.
DeepJoins ==
    {<<Node(k1, <<2>>), Node("HashJoin", <<3, 9>>),
       Node(k2, <<4>>), Node("HashJoin", <<5, 7>>),
       Node(k3, <<6>>), Leaf, Node("Filter", <<8>>), Leaf,
       Node("Project", <<10>>), Leaf>> :
        k1, k2, k3 \in {"Filter", "Project", "FinalAgg"}}
    \cup
    {<<Node(k1, <<2>>), Node("HashJoin", <<9, 3>>),
       Node(k2, <<4>>), Node("HashJoin", <<5, 7>>),
       Node(k3, <<6>>), Leaf, Node("Filter", <<8>>), Leaf,
       Node("Project", <<10>>), Leaf>> :
        k1, k2, k3 \in {"Filter", "Project", "FinalAgg"}}

\* A node with three sources below one side of a join.
Unions ==
    {<<Node(k1, <<2>>), Node("HashJoin", <<3, 5>>), Node(k2, <<4>>), Leaf,
       Node(k3, <<6>>), Node("LocalPartition", <<7, 8, 10>>),
       Leaf, Node("Filter", <<9>>), Leaf, Leaf>> :
        k1, k2, k3 \in {"Filter", "FinalAgg"}}

SmallPlans == Chains \cup Joins \cup DeepJoins \cup Unions

\* The default flags, and others a deployment can set.
SomeFlags ==
    {{"Filter", "Project"},
     {"Compound"},
     {"LeftDeepJoin"},
     {"Compound", "LeftDeepJoin"},
     {"Filter", "Project", "LeftDeepJoin", "PartialAgg"},
     ToSet(AllPatterns)}

=============================================================================
