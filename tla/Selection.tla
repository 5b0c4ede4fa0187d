----------------------------- MODULE Selection -----------------------------
(***************************************************************************)
(* src/irigate/selection.py: the query of an MCP request selects upstreams *)
(* or tools and gives workspaces to the selected upstreams.                *)
(*                                                                         *)
(* A query is a record: selectors, the sequence of its selector parameters *)
(* as <<parameter, tokens>>, and inputs, the sequence of its other         *)
(* parameters as <<source, path>>.  A token is <<mark, upstream>>; the     *)
(* mark is "+" or "!" for the upstreams parameter and the tool for tools.  *)
(* A malformed token names no configured upstream and is refused as one    *)
(* that does not exist; an empty value is an empty sequence of tokens, or  *)
(* the path NoValue.                                                       *)
(* A configuration gives each upstream its workspace input ("none",        *)
(* "optional" or "required"), its sources and its allowed roots.  Which    *)
(* tools were named is left out of the result: only list_tools() asks.     *)
(***************************************************************************)
EXTENDS Workspace, FiniteSets

CONSTANTS NoValue, Rejected

ASSUME NoValueAssumption == NoValue \notin DOMAIN Canonical

(* _workspace_sources() comes down to the sequence in conf[u].sources.     *)
Sources(conf) == UNION {{conf[u].sources[i] : i \in DOMAIN conf[u].sources} : u \in DOMAIN conf}
SeqSet(s) == {s[i] : i \in DOMAIN s}

(* _parse_upstreams()                                                      *)
ParseUpstreamsKeepExcluded(tokens, conf) ==
    LET named == {t[2] : t \in SeqSet(tokens)}
        included == {u \in named : <<"+", u>> \in SeqSet(tokens)}
        excluded == named \ included
        base == IF included = {} THEN DOMAIN conf ELSE included IN
    IF named \subseteq DOMAIN conf /\ base \ excluded # {}
    THEN [upstreams |-> base \ excluded, explicit |-> included, inputs |-> <<>>]
    ELSE Rejected

ParseUpstreams(tokens, conf) ==
    LET included == {t[2] : t \in {x \in SeqSet(tokens) : x[1] = "+"}}
        excluded == {t[2] : t \in {x \in SeqSet(tokens) : x[1] = "!"}}
        base == IF included = {} THEN DOMAIN conf ELSE included IN
    IF included \union excluded \subseteq DOMAIN conf /\ base \ excluded # {}
    THEN [upstreams |-> base \ excluded, explicit |-> included, inputs |-> <<>>]
    ELSE Rejected

(* _parse_tools()                                                          *)
ParseTools(tokens, conf) ==
    LET named == {t[2] : t \in SeqSet(tokens)} IN
    IF named \subseteq DOMAIN conf
    THEN [upstreams |-> named, explicit |-> named, inputs |-> <<>>]
    ELSE Rejected

(* The source an upstream takes its workspace from: the first of its own   *)
(* that the query gives.                                                   *)
ChosenSource(sources, given) ==
    LET hits == {i \in DOMAIN sources : sources[i] \in given} IN
    IF hits = {} THEN NoValue ELSE sources[CHOOSE i \in hits : \A j \in hits : i <= j]

(* _bind_inputs()                                                          *)
BindInputs(sel, inputs, conf) ==
    LET given == {x[1] : x \in SeqSet(inputs)}
        path == [s \in given |-> (CHOOSE x \in SeqSet(inputs) : x[1] = s)[2]]
        takers == {u \in sel.upstreams : conf[u].input # "none"}
        source == [u \in takers |-> ChosenSource(conf[u].sources, given)]
        bound == {u \in takers : source[u] # NoValue} IN
    IF /\ Cardinality(given) = Len(inputs)                        \* no duplicate
       /\ \A s \in given : path[s] # NoValue
       /\ given # {} => sel.explicit # {}
       /\ \A u \in takers \ bound : conf[u].input = "optional"
       /\ \A u \in bound : Allowed(path[source[u]], conf[u].roots)
       /\ given \subseteq UNION {SeqSet(conf[u].sources) : u \in takers}
    THEN [sel EXCEPT !.inputs = [u \in bound |-> Canonical[path[source[u]]]]]
    ELSE Rejected

(* parse_selection()                                                       *)
ParseSelection(query, conf) ==
    LET parameter == query.selectors[1][1]
        tokens == query.selectors[1][2]
        parsed ==
            IF query.selectors = <<>>
            THEN [upstreams |-> DOMAIN conf, explicit |-> {}, inputs |-> <<>>]
            ELSE IF Len(query.selectors) # 1 \/ tokens = <<>> THEN Rejected
            ELSE IF parameter = "tools" THEN ParseTools(tokens, conf)
            ELSE ParseUpstreams(tokens, conf) IN
    IF {x[1] : x \in SeqSet(query.inputs)} \subseteq Sources(conf) /\ parsed # Rejected
    THEN BindInputs(parsed, query.inputs, conf)
    ELSE Rejected
=============================================================================
