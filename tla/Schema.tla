------------------------------- MODULE Schema -------------------------------
(***************************************************************************)
(* Which profiles a server accepts (src/irigate/models.py, config.py) and  *)
(* which of their upstreams it shares (qualification.py).                  *)
(*                                                                         *)
(* A profile is a record: parses, whether it is YAML with fields of the    *)
(* right shape; startup, the fields fixed while a server runs; env, the    *)
(* environment names it refers to; upstreams.  Besides what Selection asks *)
(* for, an upstream has shareable, qualifier (the key its registered       *)
(* qualifier is for, or NoQualifier), start (how its process comes up) and *)
(* tools: "reviewed", "changing" from one start to the next, or "other".   *)
(***************************************************************************)
EXTENDS Selection

CONSTANTS Environment,    \* the names that are set
          NoQualifier

(* _expand_allowed_root(): a wildcard is a segment of its own, and nothing *)
(* is left to expand or to climb.                                          *)
ValidRoot(root) == \A i \in DOMAIN root : root[i] \notin {"", ".", "..", "~", "$", "a*"}

(* UpstreamConfig: an upstream with a workspace has its sources and roots, *)
(* and a process of its own for each.                                      *)
ValidUpstreamSharing(upstream) ==
    /\ IF upstream.input = "none" THEN upstream.sources = <<>>
       ELSE /\ upstream.sources # <<>>
            /\ Cardinality(SeqSet(upstream.sources)) = Len(upstream.sources)
            /\ upstream.roots # <<>> /\ \A root \in SeqSet(upstream.roots) : ValidRoot(root)
    /\ upstream.shareable = (upstream.qualifier # NoQualifier)

ValidUpstream(upstream) ==
    /\ IF upstream.input = "none" THEN upstream.sources = <<>>
       ELSE /\ upstream.sources # <<>>
            /\ Cardinality(SeqSet(upstream.sources)) = Len(upstream.sources)
            /\ upstream.roots # <<>> /\ \A root \in SeqSet(upstream.roots) : ValidRoot(root)
            /\ ~upstream.shareable
    /\ upstream.shareable = (upstream.qualifier # NoQualifier)

(* BrokerConfig: a qualifier is for the upstream that names it.            *)
ValidConfig(upstreams) ==
    /\ DOMAIN upstreams # {}
    /\ \A key \in DOMAIN upstreams :
        ValidUpstream(upstreams[key]) /\ upstreams[key].qualifier \in {key, NoQualifier}

(* load_config(), and resolve_environment(), which its callers go on to.   *)
Resolved(env) == env \subseteq Environment
Valid(profile) == profile.parses /\ ValidConfig(profile.upstreams) /\ Resolved(profile.env)

(* qualify_upstream(): the verdicts an upstream can get.  Each of its      *)
(* three starts has a time limit.                                          *)
StartOnce(upstream) ==
    CASE upstream.start = "comes up" -> {TRUE}
      [] upstream.start = "may fail" -> BOOLEAN
      [] upstream.start = "hangs" -> {FALSE}
StableSchema(upstream) == IF upstream.tools = "changing" THEN BOOLEAN ELSE {TRUE}

VerdictsUnreviewed(key, upstream) ==
    {admitted \in BOOLEAN :
        \E first, second, again \in StartOnce(upstream), stable \in StableSchema(upstream) :
            admitted <=> upstream.qualifier = key /\ first /\ second /\ again /\ stable}

Verdicts(key, upstream) ==
    {admitted \in BOOLEAN :
        \E first, second, again \in StartOnce(upstream), stable \in StableSchema(upstream) :
            admitted <=> /\ upstream.qualifier = key
                         /\ first /\ second /\ again
                         /\ stable /\ upstream.tools # "other"}
=============================================================================
