--------------------------- MODULE MCMaintenance ---------------------------
(***************************************************************************)
(* Two clients of a profile with one upstream that runs under Windows, or  *)
(* of a profile that does not exist yet.  The first client holds two       *)
(* servers, one of them under the key of another definition that a user    *)
(* may add to the second, which reaches the upstream of the profile        *)
(* through Irigate already.                                                *)
(***************************************************************************)
EXTENDS Maintenance, TLC

Order == <<"claude", "cursor">>

Begin(profile, via) ==
    "claude" :> [user |-> 0, servers |-> {<<"git", "d1">>, <<"web", "d2">>}, via |-> {}] @@
    "cursor" :> [user |-> 0, servers |-> {}, via |-> via] @@
    Profile :> profile

Beginnings ==
    {Begin([user |-> 0, upstreams |-> {<<"win", "w">>}, mapped |-> {}], {"win"}), Begin(Absent, {})}

Given == {<<"git", "d3">>, <<"win", "d4">>}
=============================================================================
