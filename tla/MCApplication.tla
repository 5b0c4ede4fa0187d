--------------------------- MODULE MCApplication ---------------------------
(* Two upstreams that take a workspace and one that takes none; a profile  *)
(* for each way a reload can go.                                           *)
EXTENDS ApplicationProperties, TLC

MCCanonical ==
    [p \in {<<>>, <<"w">>, <<"w", "a">>, <<"w", "b">>} |-> p] @@ (<<"l">> :> <<"w", "a">>)

Upstream(ver, input, sources, roots) ==
    [ver |-> ver, input |-> input, sources |-> sources, roots |-> roots,
     shareable |-> FALSE, qualifier |-> NoQualifier, start |-> "comes up", tools |-> "other"]
Fixed(ver) == Upstream(ver, "none", <<>>, <<>>)
Shared(u, ver, tools) == [Fixed(ver) EXCEPT !.shareable = TRUE, !.qualifier = u, !.tools = tools]
Needs(roots) == Upstream(1, "required", <<"a.workspace", "workspace">>, roots)
May(roots) == Upstream(1, "optional", <<"workspace">>, roots)
Starts(start, upstream) == [upstream EXCEPT !.start = start]

Profile(startup, upstreams) == [parses |-> TRUE, startup |-> startup, env |-> {"TOKEN"}, upstreams |-> upstreams]
Wide == [a |-> Needs(<<<<"w">>>>), b |-> May(<<<<"w", "*">>>>), x |-> Shared("x", 1, "reviewed"), y |-> Fixed(1)]
Narrow == [a |-> Needs(<<<<"w", "b">>>>), b |-> May(<<<<"**", "a">>, <<"gone">>>>),
           x |-> Shared("x", 2, "changing"), y |-> Shared("y", 2, "other")]
Everyone == [a |-> [Needs(<<<<"w">>>>) EXCEPT !.shareable = TRUE, !.qualifier = "a"]]

MCProfiles ==
    [initial |-> Profile(1, Wide),
     narrow |-> Profile(1, Narrow),
     failing |-> Profile(1, [x |-> Starts("may fail", Shared("x", 3, "reviewed")), y |-> Starts("may fail", Fixed(3))]),
     hanging |-> Profile(1, [x |-> Starts("hangs", Shared("x", 4, "reviewed"))]),
     moved |-> Profile(2, [x |-> Fixed(5)]),
     sharing |-> Profile(1, Everyone),
     unset |-> [Profile(1, [y |-> Fixed(6)]) EXCEPT !.env = {"ELSEWHERE"}],
     broken |-> [Profile(1, [y |-> Fixed(7)]) EXCEPT !.parses = FALSE]]

Query(selectors, inputs, agent) == [selectors |-> selectors, inputs |-> inputs, agent |-> agent]
At(path) == Query(<<<<"upstreams", <<<<"+", "a">>>>>>>>, <<<<"workspace", path>>>>, "valid")

MCQueries == {At(<<"l">>), At(<<"w", "b">>)}

MCSessionOf == [r1 |-> "s1", r2 |-> "s1"]
MCNoRequests == <<>>

SeqUpTo(S, n) == UNION {[1 .. k -> S] : k \in 0 .. n}

MCPatterns == SeqUpTo({"w", "a", "*", "**"}, 3)
MCPaths == SeqUpTo({"w", "a"}, 3)

TokenLists == SeqUpTo({"+", "!"} \X {"a", "b", "x", "ghost"}, 2)
MCAsked ==
    {Query(<<>>, inputs, "valid") : inputs \in SeqUpTo({"a.workspace", "workspace"} \X {<<"w", "a">>}, 1)}
    \union {Query([i \in 1 .. n |-> <<parameter, tokens>>], inputs, "valid") :
        n \in 1 .. 2, parameter \in {"tools", "upstreams"}, tokens \in TokenLists,
        inputs \in {<<<<"workspace", NoValue>>>>} \union SeqUpTo({"a.workspace", "workspace", "c.workspace"} \X {<<"l">>, <<"w">>, <<"gone">>}, 2)}
=============================================================================
