----------------------------- MODULE Workspace -----------------------------
(***************************************************************************)
(* src/irigate/workspace.py: which directories the root patterns of an     *)
(* upstream allow as its workspace.                                        *)
(*                                                                         *)
(* A path is the sequence of its segments, <<>> the root directory.  The   *)
(* file system is the function Canonical, from every path under which a    *)
(* directory can be reached to the path without symbolic links.  A path    *)
(* outside its domain names nothing, or a file, or is relative.            *)
(***************************************************************************)
EXTENDS Naturals, Sequences

CONSTANTS Segments,   \* names of directories, and the wildcards
          Canonical

ASSUME CanonicalAssumption ==
    /\ DOMAIN Canonical \subseteq Seq(Segments)
    /\ <<>> \in DOMAIN Canonical /\ Canonical[<<>>] = <<>>
    /\ \A p \in DOMAIN Canonical :
        Canonical[p] \in DOMAIN Canonical /\ Canonical[Canonical[p]] = Canonical[p]

Wildcards == {"*", "**"}
Nowhere == <<"", "">>      \* no directory is called ""

(* _canonical_pattern_parts(): the segments before the first wildcard name *)
(* a directory, which is made canonical.                                   *)
CanonicalPattern(pattern) ==
    LET n == CHOOSE k \in 0 .. Len(pattern) :
                /\ \A i \in 1 .. k : pattern[i] \notin Wildcards
                /\ k < Len(pattern) => pattern[k + 1] \in Wildcards
        prefix == SubSeq(pattern, 1, n) IN
    IF prefix \in DOMAIN Canonical
    THEN Canonical[prefix] \o SubSeq(pattern, n + 1, Len(pattern))
    ELSE Nowhere

(* _matches_allowed_root(): match[<<i, j>>] compares the pattern from its i-th *)
(* segment with the candidate from its j-th.                               *)
MatchesExactly(pattern, path) ==
    LET match[at \in (1 .. Len(pattern) + 1) \X (1 .. Len(path) + 1)] ==
        LET i == at[1]
            j == at[2] IN
        IF i > Len(pattern) THEN j > Len(path)
        ELSE IF pattern[i] = "**" THEN match[<<i + 1, j>>] \/ (j <= Len(path) /\ match[<<i, j + 1>>])
        ELSE j <= Len(path) /\ pattern[i] \in {"*", path[j]} /\ match[<<i + 1, j + 1>>]
    IN match[<<1, 1>>]

Matches(pattern, path) ==
    LET match[at \in (1 .. Len(pattern) + 1) \X (1 .. Len(path) + 1)] ==
        LET i == at[1]
            j == at[2] IN
        IF i > Len(pattern) THEN TRUE
        ELSE IF pattern[i] = "**" THEN match[<<i + 1, j>>] \/ (j <= Len(path) /\ match[<<i, j + 1>>])
        ELSE j <= Len(path) /\ pattern[i] \in {"*", path[j]} /\ match[<<i + 1, j + 1>>]
    IN match[<<1, 1>>]

(* resolve_workspace(): the roots are tried in order, and one whose prefix *)
(* is gone ends the search with an error.                                  *)
Allowed(path, roots) ==
    /\ path \in DOMAIN Canonical
    /\ \E i \in 1 .. Len(roots) :
        /\ \A j \in 1 .. i : CanonicalPattern(roots[j]) # Nowhere
        /\ Matches(CanonicalPattern(roots[i]), Canonical[path])

-----------------------------------------------------------------------------
(* What a pattern stands for: cut[i] segments of the path are taken by the *)
(* first i segments of the pattern, and the rest lies below.               *)
Covers(pattern, path) ==
    \E cut \in [0 .. Len(pattern) -> 0 .. Len(path)] :
        /\ cut[0] = 0
        /\ \A i \in 1 .. Len(pattern) :
            IF pattern[i] = "**" THEN cut[i - 1] <= cut[i]
            ELSE cut[i] = cut[i - 1] + 1 /\ pattern[i] \in {"*", path[cut[i]]}
=============================================================================
