----------------------------- MODULE PlanPatterns -----------------------------
(***************************************************************************)
(* The patterns of CiderPlanPatterns: state machines that read the nodes   *)
(* of a path from source to target.  A state is the machine it belongs to  *)
(* and its name; LeftDeepJoin goes on in states of the other machines.     *)
(***************************************************************************)
EXTENDS PlanBranches

\* The kinds of plan node the patterns tell apart.  A SameProject has the types
\* and names of its source, a RenameProject has its types only.
ProjectKinds == {"Project", "RenameProject", "SameProject"}
AggregationKinds == {"PartialAgg", "FinalAgg"}

\* What a machine that matches one node matches.
OneNode ==
    [Filter     |-> {"Filter"},
     Project    |-> {"Project", "RenameProject"},
     PartialAgg |-> {"PartialAgg"},
     OrderBy    |-> {"PartialOrderBy"},
     TopN       |-> {"PartialTopN"}]

\* The order of registerCiderPattern.
AllPatterns ==
    <<"Compound", "Filter", "Project", "LeftDeepJoin", "PartialAgg", "OrderBy", "TopN">>

registerCiderPattern(flags) == SelectSeq(AllPatterns, LAMBDA p : p \in flags)

OneNodeAccept(m, kind) == <<m, IF kind \in OneNode[m] THEN m ELSE "NotAccept">>

CompoundAccept(name, kind) ==
    <<"Compound",
      CASE name = "Initial" /\ kind = "Filter"          -> "Filter"
        [] name = "Initial" /\ kind = "Project"         -> "Project"
        [] name = "Filter"  /\ kind \in ProjectKinds     -> "Project"
        [] name = "Project" /\ kind \in AggregationKinds -> "Aggregate"
        [] name = "Project" /\ kind \notin AggregationKinds -> "AcceptPrev"
        [] OTHER -> "NotAccept">>

LeftDeepJoinInitial(kind) ==
    <<"LeftDeepJoin", IF kind = "HashJoin" THEN "OneJoin" ELSE "NotAccept">>

\* After the join one of the other machines takes over.
OneJoinAccept(kind) ==
    CASE kind = "end" -> <<"LeftDeepJoin", "EndWithLeftJoin">>
      [] kind \in AggregationKinds -> OneNodeAccept("PartialAgg", kind)
      [] kind = "Filter" -> OneNodeAccept("Filter", kind)
      [] OTHER -> CompoundAccept("Initial", kind)

accept(state, kind) ==
    CASE state[1] = "Compound" -> CompoundAccept(state[2], kind)
      [] state = <<"LeftDeepJoin", "Initial">> -> LeftDeepJoinInitial(kind)
      [] state = <<"LeftDeepJoin", "OneJoin">> -> OneJoinAccept(kind)
      [] OTHER -> OneNodeAccept(state[1], kind)

isFinal(state) ==
    state \notin {<<"Compound", "Filter">>, <<"Compound", "Project">>,
                  <<"LeftDeepJoin", "OneJoin">>}

\* What accept of machine p returns.  For LeftDeepJoin a node another machine does
\* not accept ends the match before it.
Accepted(p, state) == state[2] # "NotAccept" \/ state[1] # p

\* addToMatchResult
Taken(state) == state[2] \notin {"NotAccept", "AcceptPrev", "EndWithLeftJoin"}

\* The number of nodes machine p matches of those whose kinds are given, 0 if it
\* does not match: matchFromSrc.  At the root the machine is fed the end.
RECURSIVE MatchLength(_, _, _, _)
MatchLength(p, state, kinds, n) ==
    LET next == accept(state, IF kinds = <<>> THEN "end" ELSE Head(kinds))
        m == IF Taken(next) THEN n + 1 ELSE n
    IN IF ~Accepted(p, next) THEN 0
       ELSE IF isFinal(next) THEN m
       ELSE IF kinds = <<>> THEN 0 ELSE MatchLength(p, next, Tail(kinds), m)

matchFromSrc(p, kinds) == MatchLength(p, <<p, "Initial">>, kinds, 0)

=============================================================================
