------------------------------ MODULE MCBroker ------------------------------
(* Instances of Broker for TLC.                                            *)
EXTENDS BrokerProperties, TLC

CONSTANTS a, b, d, r1, r2, s1, s2, home, work

(* Which session a request belongs to, and the workspace of each session.  *)
TwoSessions == (r1 :> s1) @@ (r2 :> s2)
PairInSession == (r1 :> s1) @@ (r2 :> s1)
NoBinding == [s \in Sessions |-> [k \in Keys |-> None]]
MixedBindings ==
    (s1 :> ((a :> None) @@ (b :> None) @@ (d :> home)))
    @@ (s2 :> ((a :> home) @@ (b :> None) @@ (d :> work)))

(* What the versions of an upstream are: a shareable one stays shareable,  *)
(* or takes a workspace after the reload.                                  *)
AlwaysShareable == {<<a, 1>>, <<a, 2>>}
FirstShareable == {<<a, 1>>}
ThenWithInputs == {<<a, 2>>, <<d, 1>>}

(* Profiles over one upstream: a version of it, or none.                   *)
A1 == a :> 1
ChangeA == {a :> 1, a :> 2}

(* Profiles over two upstreams: the first one changes or goes, b stays.    *)
A1B1 == (a :> 1) @@ (b :> 1)
ChangeOrRemoveA == {A1B1, (a :> 2) @@ (b :> 1), (a :> 0) @@ (b :> 1)}

(* The same with a third one.                                              *)
A1B1D1 == A1B1 @@ (d :> 1)
ChangeAofThree == {A1B1D1, (a :> 2) @@ (b :> 1) @@ (d :> 1)}
=============================================================================
