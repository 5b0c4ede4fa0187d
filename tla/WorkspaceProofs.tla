--------------------------- MODULE WorkspaceProofs ---------------------------
(***************************************************************************)
(* The recursion of _matches_allowed_root() computes what a root pattern   *)
(* stands for: Matches is Covers, for every pattern and every path.        *)
(*                                                                         *)
(* Below describes, for every place <<i, j>> of the recursion, what it has *)
(* to find out.  It satisfies the equation of the recursion, so there is a *)
(* function that does; and there is only one, because two of them cannot   *)
(* differ at a place with a least distance to the end.                     *)
(***************************************************************************)
EXTENDS Workspace, WellFoundedInduction, TLAPS

(* Every set of natural numbers that is not empty has a least element.     *)
LEMMA LeastNumber ==
    ASSUME NEW T, T \subseteq Nat, T # {}
    PROVE  \E x \in T : \A y \in T : x <= y
<1>1. PICK x \in T : \A y \in T : ~ (<<y, x>> \in OpToRel(<, Nat))
  BY NatLessThanWellFounded, WFMin
<1>2. \A y \in T : ~ (y < x)
  BY <1>1 DEF OpToRel
<1> QED
  BY <1>2

-----------------------------------------------------------------------------
(* The places of the recursion, its equation, and what it is to find: the  *)
(* pattern from its i-th segment covers the path from its j-th.            *)
Places(pattern, path) == (1 .. Len(pattern) + 1) \X (1 .. Len(path) + 1)

Recursion(f, pattern, path) ==
    f = [at \in Places(pattern, path) |->
          IF at[1] > Len(pattern) THEN TRUE
          ELSE IF pattern[at[1]] = "**"
               THEN f[<<at[1] + 1, at[2]>>] \/ (at[2] <= Len(path) /\ f[<<at[1], at[2] + 1>>])
               ELSE /\ at[2] <= Len(path) /\ pattern[at[1]] \in {"*", path[at[2]]}
                    /\ f[<<at[1] + 1, at[2] + 1>>]]

Takes(cut, k, pattern, path) ==
    IF pattern[k] = "**" THEN cut[k - 1] <= cut[k]
    ELSE cut[k] = cut[k - 1] + 1 /\ pattern[k] \in {"*", path[cut[k]]}

Below(pattern, path, i, j) ==
    \E cut \in [i - 1 .. Len(pattern) -> 0 .. Len(path)] :
        /\ cut[i - 1] = j - 1
        /\ \A k \in i .. Len(pattern) : Takes(cut, k, pattern, path)

(* Behind the last segment of the pattern everything is covered.           *)
LEMMA BelowEnd ==
    ASSUME NEW pattern \in Seq(Segments), NEW path \in Seq(Segments),
           NEW j \in 1 .. Len(path) + 1
    PROVE  Below(pattern, path, Len(pattern) + 1, j)
<1> DEFINE n == Len(pattern)
           cut == [k \in (n + 1) - 1 .. n |-> j - 1]
<1>1. n \in Nat /\ Len(path) \in Nat
  OBVIOUS
<1>2. cut \in [(n + 1) - 1 .. n -> 0 .. Len(path)] /\ cut[(n + 1) - 1] = j - 1
  BY <1>1
<1>3. (n + 1) .. n = {}
  BY <1>1
<1> QED
  BY <1>2, <1>3 DEF Below

(* A division of a pattern from i + 1 on is extended to i.                 *)
LEMMA BelowExtend ==
    ASSUME NEW pattern \in Seq(Segments), NEW path \in Seq(Segments),
           NEW i \in 1 .. Len(pattern), NEW j \in 1 .. Len(path) + 1,
           NEW l \in 1 .. Len(path) + 1, Below(pattern, path, i + 1, l),
           IF pattern[i] = "**" THEN j <= l
           ELSE l = j + 1 /\ pattern[i] \in {"*", path[j]}
    PROVE  Below(pattern, path, i, j)
<1> DEFINE n == Len(pattern)
<1>0. n \in Nat /\ Len(path) \in Nat /\ i \in 1 .. n
  OBVIOUS
<1>1. PICK c \in [(i + 1) - 1 .. n -> 0 .. Len(path)] :
         c[(i + 1) - 1] = l - 1 /\ \A k \in i + 1 .. n : Takes(c, k, pattern, path)
  BY DEF Below
<1> DEFINE cut == [k \in i - 1 .. n |-> IF k = i - 1 THEN j - 1 ELSE c[k]]
<1>2. (i + 1) - 1 = i /\ c \in [i .. n -> 0 .. Len(path)] /\ c[i] = l - 1
  BY <1>0, <1>1
<1>3. cut \in [i - 1 .. n -> 0 .. Len(path)]
  BY <1>0, <1>2
<1>4. cut[i - 1] = j - 1 /\ \A k \in i .. n : cut[k] = c[k]
  BY <1>0
<1>5. Takes(cut, i, pattern, path)
  BY <1>0, <1>2, <1>4 DEF Takes
<1>6. \A k \in i + 1 .. n : Takes(cut, k, pattern, path)
  <2> SUFFICES ASSUME NEW k \in i + 1 .. n PROVE Takes(cut, k, pattern, path)
    OBVIOUS
  <2>1. k \in i .. n /\ k - 1 \in i .. n
    BY <1>0
  <2>2. cut[k] = c[k] /\ cut[k - 1] = c[k - 1]
    BY <1>4, <2>1
  <2> HIDE DEF cut
  <2> QED
    BY <1>1, <2>2 DEF Takes
<1>7. \A k \in i .. n : Takes(cut, k, pattern, path)
  BY <1>0, <1>5, <1>6
<1> HIDE DEF cut
<1> QED
  BY <1>3, <1>4, <1>7 DEF Below

(* A division of a pattern from i on is one from i + 1 on.                 *)
LEMMA BelowRestrict ==
    ASSUME NEW pattern \in Seq(Segments), NEW path \in Seq(Segments),
           NEW i \in 1 .. Len(pattern), NEW j \in 1 .. Len(path) + 1,
           Below(pattern, path, i, j)
    PROVE  \E l \in 1 .. Len(path) + 1 :
              /\ Below(pattern, path, i + 1, l)
              /\ IF pattern[i] = "**" THEN j <= l
                 ELSE l = j + 1 /\ pattern[i] \in {"*", path[j]}
<1> DEFINE n == Len(pattern)
<1>0. n \in Nat /\ Len(path) \in Nat /\ i \in 1 .. n
  OBVIOUS
<1>1. PICK c \in [i - 1 .. n -> 0 .. Len(path)] :
         c[i - 1] = j - 1 /\ \A k \in i .. n : Takes(c, k, pattern, path)
  BY DEF Below
<1> DEFINE cut == [k \in (i + 1) - 1 .. n |-> c[k]]
           l == c[i] + 1
<1>2. (i + 1) - 1 = i /\ c[i] \in 0 .. Len(path) /\ l \in 1 .. Len(path) + 1 /\ l - 1 = c[i]
  BY <1>0, <1>1, SMTT(40)
<1>3. cut \in [(i + 1) - 1 .. n -> 0 .. Len(path)] /\ \A k \in i .. n : cut[k] = c[k]
  BY <1>0, <1>1, <1>2
<1>4. cut[(i + 1) - 1] = l - 1
  BY <1>0, <1>2, <1>3
<1>5. \A k \in i + 1 .. n : Takes(cut, k, pattern, path)
  <2> SUFFICES ASSUME NEW k \in i + 1 .. n PROVE Takes(cut, k, pattern, path)
    OBVIOUS
  <2>1. k \in i .. n /\ k - 1 \in i .. n
    BY <1>0
  <2>2. cut[k] = c[k] /\ cut[k - 1] = c[k - 1]
    BY <1>3, <2>1
  <2> HIDE DEF cut
  <2> QED
    BY <1>1, <2>1, <2>2 DEF Takes
<1>6. Below(pattern, path, i + 1, l)
  <2> HIDE DEF cut, l
  <2> QED
    BY <1>3, <1>4, <1>5 DEF Below
<1>7. Takes(c, i, pattern, path)
  BY <1>0, <1>1
<1>8. IF pattern[i] = "**" THEN j <= l ELSE l = j + 1 /\ pattern[i] \in {"*", path[j]}
  BY <1>0, <1>1, <1>2, <1>7 DEF Takes
<1> QED
  BY <1>2, <1>6, <1>8

(* ** may begin one segment later.                                         *)
LEMMA BelowLater ==
    ASSUME NEW pattern \in Seq(Segments), NEW path \in Seq(Segments),
           NEW i \in 1 .. Len(pattern), NEW j \in 1 .. Len(path) + 1, pattern[i] = "**"
    PROVE  Below(pattern, path, i, j)
              <=> \/ Below(pattern, path, i + 1, j)
                  \/ j <= Len(path) /\ Below(pattern, path, i, j + 1)
<1>0. Len(path) \in Nat /\ j \in Nat
  OBVIOUS
<1>1. ASSUME Below(pattern, path, i, j), ~Below(pattern, path, i + 1, j)
      PROVE  j <= Len(path) /\ Below(pattern, path, i, j + 1)
  <2>1. PICK l \in 1 .. Len(path) + 1 : Below(pattern, path, i + 1, l) /\ j <= l
    BY <1>1, BelowRestrict
  <2>2. j # l
    BY <1>1, <2>1
  <2>3. j + 1 \in 1 .. Len(path) + 1 /\ j + 1 <= l
    BY <1>0, <2>1, <2>2
  <2> QED
    BY <1>0, <2>1, <2>3, BelowExtend
<1>2. Below(pattern, path, i + 1, j) => Below(pattern, path, i, j)
  BY <1>0, BelowExtend
<1>3. ASSUME j <= Len(path), Below(pattern, path, i, j + 1)
      PROVE  Below(pattern, path, i, j)
  <2>1. j + 1 \in 1 .. Len(path) + 1
    BY <1>0, <1>3
  <2>2. PICK l \in 1 .. Len(path) + 1 : Below(pattern, path, i + 1, l) /\ j + 1 <= l
    BY <1>3, <2>1, BelowRestrict
  <2>3. j <= l
    BY <1>0, <2>2
  <2> QED
    BY <2>2, <2>3, BelowExtend
<1> QED
  BY <1>1, <1>2, <1>3

(* Any other segment takes one segment of the path.                        *)
LEMMA BelowOne ==
    ASSUME NEW pattern \in Seq(Segments), NEW path \in Seq(Segments),
           NEW i \in 1 .. Len(pattern), NEW j \in 1 .. Len(path) + 1, pattern[i] # "**"
    PROVE  Below(pattern, path, i, j)
              <=> /\ j <= Len(path) /\ pattern[i] \in {"*", path[j]}
                  /\ Below(pattern, path, i + 1, j + 1)
<1>0. Len(path) \in Nat /\ j \in Nat
  OBVIOUS
<1>1. ASSUME Below(pattern, path, i, j)
      PROVE  /\ j <= Len(path) /\ pattern[i] \in {"*", path[j]}
             /\ Below(pattern, path, i + 1, j + 1)
  <2>1. PICK l \in 1 .. Len(path) + 1 :
           Below(pattern, path, i + 1, l) /\ l = j + 1 /\ pattern[i] \in {"*", path[j]}
    BY <1>1, BelowRestrict
  <2> QED
    BY <1>0, <2>1
<1>2. ASSUME j <= Len(path), pattern[i] \in {"*", path[j]}, Below(pattern, path, i + 1, j + 1)
      PROVE  Below(pattern, path, i, j)
  <2>1. j + 1 \in 1 .. Len(path) + 1
    BY <1>0, <1>2
  <2> QED
    BY <1>2, <2>1, BelowExtend
<1> QED
  BY <1>1, <1>2

-----------------------------------------------------------------------------
(* Below satisfies the equation ...                                        *)
LEMMA BelowSolves ==
    ASSUME NEW pattern \in Seq(Segments), NEW path \in Seq(Segments)
    PROVE  Recursion([at \in Places(pattern, path) |-> Below(pattern, path, at[1], at[2])],
                     pattern, path)
<1> DEFINE n == Len(pattern)
           m == Len(path)
           g == [at \in Places(pattern, path) |-> Below(pattern, path, at[1], at[2])]
           body(at) == IF at[1] > n THEN TRUE
                       ELSE IF pattern[at[1]] = "**"
                            THEN g[<<at[1] + 1, at[2]>>] \/ (at[2] <= m /\ g[<<at[1], at[2] + 1>>])
                            ELSE /\ at[2] <= m /\ pattern[at[1]] \in {"*", path[at[2]]}
                                 /\ g[<<at[1] + 1, at[2] + 1>>]
<1>0. n \in Nat /\ m \in Nat
  OBVIOUS
<1>1. ASSUME NEW i \in 1 .. n + 1, NEW j \in 1 .. m + 1
      PROVE  g[<<i, j>>] = Below(pattern, path, i, j)
  BY DEF Places
<1>2. ASSUME NEW at \in Places(pattern, path) PROVE g[at] = body(at)
  <2>1. PICK i \in 1 .. n + 1, j \in 1 .. m + 1 : at = <<i, j>>
    BY DEF Places
  <2>2. at[1] = i /\ at[2] = j /\ g[at] = Below(pattern, path, i, j)
    BY <1>1, <2>1
  <2>3. CASE i > n
    <3>1. i = n + 1
      BY <1>0, <2>3
    <3>2. Below(pattern, path, i, j)
      BY <3>1, BelowEnd
    <3>3. Below(pattern, path, i, j) = TRUE
      BY <3>2 DEF Below
    <3> QED
      BY <2>2, <2>3, <3>3
  <2>4. CASE i \in 1 .. n /\ pattern[i] = "**"
    <3>1. i + 1 \in 1 .. n + 1 /\ ~ (i > n)
      BY <1>0, <2>4
    <3>2. g[<<i + 1, j>>] = Below(pattern, path, i + 1, j)
      BY <1>1, <3>1
    <3>3. j <= m => g[<<i, j + 1>>] = Below(pattern, path, i, j + 1)
      BY <1>0, <1>1
    <3>4. Below(pattern, path, i, j)
            <=> g[<<i + 1, j>>] \/ (j <= m /\ g[<<i, j + 1>>])
      BY <2>4, <3>2, <3>3, BelowLater
    <3>5. Below(pattern, path, i, j) = (g[<<i + 1, j>>] \/ (j <= m /\ g[<<i, j + 1>>]))
      BY <3>4 DEF Below
    <3> QED
      BY <2>2, <2>4, <3>1, <3>5
  <2>5. CASE i \in 1 .. n /\ pattern[i] # "**"
    <3>1. i + 1 \in 1 .. n + 1 /\ ~ (i > n)
      BY <1>0, <2>5
    <3>2. j <= m => g[<<i + 1, j + 1>>] = Below(pattern, path, i + 1, j + 1)
      BY <1>0, <1>1, <3>1
    <3>3. Below(pattern, path, i, j)
            <=> j <= m /\ pattern[i] \in {"*", path[j]} /\ g[<<i + 1, j + 1>>]
      BY <2>5, <3>2, BelowOne
    <3>4. Below(pattern, path, i, j)
            = (j <= m /\ pattern[i] \in {"*", path[j]} /\ g[<<i + 1, j + 1>>])
      BY <3>3 DEF Below
    <3> QED
      BY <2>2, <2>5, <3>1, <3>4
  <2>6. i > n \/ i \in 1 .. n
    BY <1>0
  <2> HIDE DEF g, body, n
  <2> QED
    BY <2>3, <2>4, <2>5, <2>6
<1>3. g = [at \in Places(pattern, path) |-> body(at)]
  BY <1>2
<1> QED
  BY <1>3 DEF Recursion

(* The equation at one place.                                              *)
LEMMA Unrolled ==
    ASSUME NEW pattern \in Seq(Segments), NEW path \in Seq(Segments),
           NEW f, Recursion(f, pattern, path),
           NEW i \in 1 .. Len(pattern) + 1, NEW j \in 1 .. Len(path) + 1
    PROVE  f[<<i, j>>] = IF i > Len(pattern) THEN TRUE
                         ELSE IF pattern[i] = "**"
                              THEN f[<<i + 1, j>>] \/ (j <= Len(path) /\ f[<<i, j + 1>>])
                              ELSE /\ j <= Len(path) /\ pattern[i] \in {"*", path[j]}
                                   /\ f[<<i + 1, j + 1>>]
<1> DEFINE at == <<i, j>>
<1>1. at \in Places(pattern, path) /\ at[1] = i /\ at[2] = j
  BY DEF Places
<1> HIDE DEF at
<1>2. f[at] = IF at[1] > Len(pattern) THEN TRUE
              ELSE IF pattern[at[1]] = "**"
                   THEN f[<<at[1] + 1, at[2]>>] \/ (at[2] <= Len(path) /\ f[<<at[1], at[2] + 1>>])
                   ELSE /\ at[2] <= Len(path) /\ pattern[at[1]] \in {"*", path[at[2]]}
                        /\ f[<<at[1] + 1, at[2] + 1>>]
  BY <1>1 DEF Recursion
<1> QED
  BY <1>1, <1>2 DEF at

(* ... which has one solution only.                                        *)
LEMMA OneSolution ==
    ASSUME NEW pattern \in Seq(Segments), NEW path \in Seq(Segments),
           NEW f, Recursion(f, pattern, path), NEW g, Recursion(g, pattern, path)
    PROVE  f[<<1, 1>>] = g[<<1, 1>>]
<1> DEFINE n == Len(pattern)
           m == Len(path)
           distance(at) == (n + 1 - at[1]) + (m + 1 - at[2])
           D == {at \in Places(pattern, path) : f[at] # g[at]}
           T == {distance(at) : at \in D}
<1>0. n \in Nat /\ m \in Nat
  OBVIOUS
<1>1. ASSUME NEW i \in 1 .. n + 1, NEW j \in 1 .. m + 1
      PROVE  distance(<<i, j>>) = (n + 1 - i) + (m + 1 - j) /\ distance(<<i, j>>) \in Nat
  BY <1>0
<1>2. T \subseteq Nat
  BY <1>1 DEF Places
<1>3. SUFFICES ASSUME D # {} PROVE FALSE
  BY <1>0 DEF Places
<1>4. PICK x \in T : \A y \in T : x <= y
  <2>1. T # {}
    BY <1>3
  <2> HIDE DEF T
  <2> QED
    BY <1>2, <2>1, LeastNumber
<1>5. PICK at \in D : x = distance(at)
  BY <1>4
<1>6. PICK i \in 1 .. n + 1, j \in 1 .. m + 1 : at = <<i, j>>
  BY <1>5 DEF Places
<1>7. ASSUME NEW k \in 1 .. n + 1, NEW l \in 1 .. m + 1, k + l > i + j
      PROVE  f[<<k, l>>] = g[<<k, l>>]
  <2>1. distance(<<k, l>>) < x
    BY <1>0, <1>1, <1>5, <1>6, <1>7
  <2>2. <<k, l>> \in D => distance(<<k, l>>) \in T
    OBVIOUS
  <2>3. <<k, l>> \notin D
    <3>1. distance(<<k, l>>) \in Nat /\ x \in Nat
      BY <1>1, <1>2
    <3> HIDE DEF D, T, distance
    <3> QED
      BY <1>4, <2>1, <2>2, <3>1
  <2> QED
    BY <2>3 DEF Places
<1>8. f[<<i, j>>] # g[<<i, j>>]
  BY <1>5, <1>6
<1>9. CASE i > n
  <2>1. f[<<i, j>>] = TRUE /\ g[<<i, j>>] = TRUE
    BY <1>9, Unrolled
  <2> QED
    BY <1>8, <2>1
<1>10. CASE i \in 1 .. n /\ pattern[i] = "**"
  <2>1. f[<<i + 1, j>>] = g[<<i + 1, j>>] /\ (j <= m => f[<<i, j + 1>>] = g[<<i, j + 1>>])
    <3>1. /\ i + 1 \in 1 .. n + 1 /\ (i + 1) + j > i + j
          /\ j <= m => j + 1 \in 1 .. m + 1 /\ i + (j + 1) > i + j
      BY <1>0, <1>10
    <3> HIDE DEF n, m
    <3> QED
      BY <1>7, <3>1
  <2>2. ~ (i > n)
    BY <1>0, <1>10
  <2>3. /\ f[<<i, j>>] = (f[<<i + 1, j>>] \/ (j <= m /\ f[<<i, j + 1>>]))
        /\ g[<<i, j>>] = (g[<<i + 1, j>>] \/ (j <= m /\ g[<<i, j + 1>>]))
    BY <1>10, <2>2, Unrolled
  <2> QED
    BY <1>8, <2>1, <2>3
<1>11. CASE i \in 1 .. n /\ pattern[i] # "**"
  <2>1. j <= m => f[<<i + 1, j + 1>>] = g[<<i + 1, j + 1>>]
    <3>1. /\ i + 1 \in 1 .. n + 1
          /\ j <= m => j + 1 \in 1 .. m + 1 /\ (i + 1) + (j + 1) > i + j
      BY <1>0, <1>11
    <3> HIDE DEF n, m
    <3> QED
      BY <1>7, <3>1
  <2>2. ~ (i > n)
    BY <1>0, <1>11
  <2>3. /\ f[<<i, j>>] = (j <= m /\ pattern[i] \in {"*", path[j]} /\ f[<<i + 1, j + 1>>])
        /\ g[<<i, j>>] = (j <= m /\ pattern[i] \in {"*", path[j]} /\ g[<<i + 1, j + 1>>])
    BY <1>11, <2>2, Unrolled
  <2> QED
    BY <1>8, <2>1, <2>3
<1> QED
  BY <1>0, <1>9, <1>10, <1>11

(* Whether a pattern allows a directory is what the pattern stands for.    *)
(* workspace.py:44-74.                                                     *)
THEOREM MatchesIsCovers ==
    ASSUME NEW pattern \in Seq(Segments), NEW path \in Seq(Segments)
    PROVE  Matches(pattern, path) = Covers(pattern, path)
<1> DEFINE g == [at \in Places(pattern, path) |-> Below(pattern, path, at[1], at[2])]
           f == CHOOSE h : Recursion(h, pattern, path)
<1>1. Recursion(g, pattern, path)
  BY BelowSolves
<1>2. Recursion(f, pattern, path)
  <2> HIDE DEF g
  <2> QED
    BY <1>1
<1>3. Matches(pattern, path) = f[<<1, 1>>]
  BY DEF Matches, Recursion, Places
<1>4. f[<<1, 1>>] = g[<<1, 1>>]
  <2> HIDE DEF f, g
  <2> QED
    BY <1>1, <1>2, OneSolution
<1>5. g[<<1, 1>>] = Below(pattern, path, 1, 1)
  BY DEF Places
<1>6. Below(pattern, path, 1, 1) = Covers(pattern, path)
  BY DEF Below, Covers, Takes
<1> QED
  BY <1>3, <1>4, <1>5, <1>6
=============================================================================
