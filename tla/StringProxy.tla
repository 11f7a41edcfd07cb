----------------------------- MODULE StringProxy -----------------------------
(***************************************************************************)
(* StringDictionaryProxy: the view one query has of a dictionary that goes *)
(* on growing.  The proxy sees the strings below the generation it was     *)
(* opened with, and keeps the other strings its query needs to itself, as  *)
(* transients with ids -2, -3, ...                                         *)
(***************************************************************************)
EXTENDS StringDictionary

CONSTANTS
    Proxies,          \* proxies, one for each query
    TransientStrings  \* strings queries pass to getOrAddTransient

VARIABLES
    generation,  \* generation_ of each proxy, -1 before the query begins
    transients,  \* transient_string_vec_ of each proxy
    given        \* auxiliary: every <<proxy, string, id>> getOrAddTransient returned

proxyVars == <<generation, transients, given>>
allVars == <<vars, proxyVars>>

Opened(p) == generation[p] # -1

\* Mutant: ids beyond the generation are let through.
NoTruncation(id, gen) == id

truncate_to_generation(id, gen) == IF id >= gen THEN INVALID_STR_ID ELSE id

transientIndexToId(k) == -2 - k
transientIdToIndex(id) == -2 - id

TransientIds(p, s) ==
    {transientIndexToId(k - 1) :
        k \in {k \in 1..Len(transients[p]) : transients[p][k] = s}}

\* getIdOfString, and the id getOrAddTransient returns when it is not -1.
getIdOfString(p, s) ==
    LET id == truncate_to_generation(getUnlocked(s), generation[p])
        own == TransientIds(p, s)
    IN IF id # INVALID_STR_ID THEN id
       ELSE IF own # {} THEN Max(own) ELSE INVALID_STR_ID

getString(p, id) ==
    IF id >= 0 /\ generation[p] > 0 THEN getStringFromStorage(id)
    ELSE transients[p][transientIdToIndex(id) + 1]

-----------------------------------------------------------------------------

\* A query begins: its proxy is made with the count of that moment.  A later call
\* finds the proxy, and updateGeneration checks that its generation is the same.
addStringDict(c, p) ==
    /\ call[c].pc = "idle"
    /\ ~Opened(p)
    /\ generation' = [generation EXCEPT ![p] = strCount]
    /\ UNCHANGED <<vars, transients, given>>

getOrAddTransient(c, p, s) ==
    /\ call[c].pc = "idle"
    /\ Opened(p)
    /\ LET known == getIdOfString(p, s)
           fresh == transientIndexToId(Len(transients[p]))
       IN IF known # INVALID_STR_ID
          THEN /\ given' = given \cup {<<p, s, known>>}
               /\ UNCHANGED transients
          ELSE /\ given' = given \cup {<<p, s, fresh>>}
               /\ transients' = [transients EXCEPT ![p] = Append(@, s)]
    /\ UNCHANGED <<vars, generation>>

\* getLike and getCompare of the proxy.  They add the matching transients to the
\* dictionary's answer, which changes no state.
ProxyLike(c, p, pattern) ==
    /\ Opened(p)
    /\ getLike(c, pattern, generation[p])
    /\ UNCHANGED proxyVars

ProxyCompare(c, p, pattern, op) ==
    /\ Opened(p)
    /\ getCompare(c, pattern, op, generation[p])
    /\ UNCHANGED proxyVars

\* The process is killed and opens the dictionary again; the queries are gone.
ProxyRestart ==
    /\ Restart
    /\ generation' = [p \in Proxies |-> -1]
    /\ transients' = [p \in Proxies |-> <<>>]
    /\ given' = {}

ProxyInit ==
    /\ Init
    /\ generation = [p \in Proxies |-> -1]
    /\ transients = [p \in Proxies |-> <<>>]
    /\ given = {}

InsertNext == \E c \in Callers : Insert(c) /\ UNCHANGED proxyVars

ProxyNext ==
    \/ InsertNext
    \/ \E c \in Callers, p \in Proxies :
          \/ addStringDict(c, p)
          \/ \E s \in TransientStrings : getOrAddTransient(c, p, s)
          \/ \E pattern \in LikePatterns : ProxyLike(c, p, pattern)
          \/ \E pattern \in ComparePatterns, op \in Operators :
                ProxyCompare(c, p, pattern, op)
    \/ ProxyRestart

ProxySpec == ProxyInit /\ [][ProxyNext]_allVars

\* The insertions alone, without a query and without a crash.
InsertSpec == ProxyInit /\ [][InsertNext]_allVars

-----------------------------------------------------------------------------
(* Properties. *)

\* An id a proxy has given for a string is what the proxy answers for that
\* string, and the string it answers for that id, as long as the query lasts:
\* a string that enters the dictionary after the proxy has made a transient of
\* it keeps its transient id, because getIdOfStringFromClient cuts the
\* dictionary's answer off at the generation.
ProxyIdsStay ==
    \A g \in given :
        /\ getIdOfString(g[1], g[2]) = g[3]
        /\ getString(g[1], g[3]) = g[2]

NoCallRuns == \A c \in Callers : call[c].pc = "idle"

Below(p) == 0..(generation[p] - 1)

Compares(s, op, t) ==
    CASE op = "<"  -> string_lt(s, t)
      [] op = "<=" -> ~string_lt(t, s)
      [] op = ">"  -> string_lt(t, s)
      [] op = ">=" -> ~string_lt(s, t)
      [] op = "="  -> s = t
      [] op = "<>" -> s # t

Comparing(ids, pattern, op) ==
    {i \in ids : Compares(getStringFromStorage(i), op, pattern)}

\* The answer as getCompare returns it, which nobody cuts off at the generation.
\* Read off the sorted ids it is about all strings, the ones that came after the
\* query began too.  The scan of getEquals finds the strings of the generation,
\* and with an id from equal_cache_ later ones; for "<>" it also lists the count,
\* an id that no string has.
CompareIsExact(p, pattern, op) ==
    LET ids == CompareAnswer(pattern, op, generation[p]).ids
        unused == IF op = "<>" THEN {strCount} ELSE {}
    IN IF ByScan(op)
       THEN /\ Comparing(Below(p), pattern, op) \subseteq ids
            /\ ids \subseteq Comparing(Counted, pattern, op) \cup unused
       ELSE ids = Comparing(Counted, pattern, op)

\* Where the code of getCompare and getEquals does not keep to this: a pattern
\* that is not stored and has one smaller string; "<>" answered by the scan of
\* getEquals, whose first answer has the equal string in it and which takes
\* MAX_STRLEN + 1 for the id of an absent string.
OneSmaller(pattern) ==
    /\ \A i \in Counted : getStringFromStorage(i) # pattern
    /\ Cardinality({i \in Counted : string_lt(getStringFromStorage(i), pattern)}) = 1

CompareExcused(p, pattern, op) ==
    \/ <<"compare", pattern>> \in stale
    \/ op \in {"<", ">", ">="} /\ OneSmaller(pattern)
    \/ /\ op = "<>" /\ ByScan(op) /\ pattern \notin DOMAIN equalCache
       /\ \/ \E i \in Counted : getStringFromStorage(i) = pattern
          \/ MaxStrLen + 1 \in Below(p)

\* Whatever was added, cached, invalidated and merged into the sorted ids
\* before, getCompare answers a proxy with exactly the stored strings that
\* compare so with the pattern (from a scan: with all of its generation, and no
\* string that does not compare so), apart from the cases of CompareExcused.
CompareExact ==
    NoCallRuns =>
        \A p \in Proxies, pattern \in ComparePatterns, op \in Operators :
            \/ ~Opened(p)
            \/ CompareExcused(p, pattern, op)
            \/ CompareIsExact(p, pattern, op)

\* The comment on "<" in getCompare: the element before an absent pattern is in
\* the answer too, "except when the index points to 0 and the pattern is lesser
\* than the smallest value in the string dictionary".
LessThanComplete ==
    NoCallRuns =>
        \A p \in Proxies, pattern \in ComparePatterns :
            \/ ~Opened(p)
            \/ <<"compare", pattern>> \in stale
            \/ CompareIsExact(p, pattern, "<")

=============================================================================
