----------------------------- MODULE EntryProofs -----------------------------
(***************************************************************************)
(* What a query selects and which workspaces it can reach, for every       *)
(* profile, every file system and every query; and what the requests of a  *)
(* session share, across any number of reloads.                            *)
(***************************************************************************)
EXTENDS ApplicationProofs, WorkspaceProofs, FiniteSetTheorems

-----------------------------------------------------------------------------
(* Roots *)

(* What is made of a pattern is a pattern, if its fixed prefix exists.     *)
LEMMA CanonicalPatternType ==
    ASSUME NEW pattern \in Seq(Segments)
    PROVE  CanonicalPattern(pattern) # Nowhere => CanonicalPattern(pattern) \in Seq(Segments)
<1> DEFINE fixed(k) == /\ \A i \in 1 .. k : pattern[i] \notin Wildcards
                       /\ k < Len(pattern) => pattern[k + 1] \in Wildcards
           ends == {k \in 0 .. Len(pattern) : k < Len(pattern) => pattern[k + 1] \in Wildcards}
<1>0. Len(pattern) \in Nat
  OBVIOUS
<1>1. PICK n \in ends : \A k \in ends : n <= k
  <2>1. ends \subseteq Nat /\ Len(pattern) \in ends
    BY <1>0
  <2> HIDE DEF ends
  <2> QED
    BY <2>1, LeastNumber
<1>2. \A i \in 1 .. n : pattern[i] \notin Wildcards
  <2> SUFFICES ASSUME NEW i \in 1 .. n, pattern[i] \in Wildcards PROVE FALSE
    OBVIOUS
  <2>1. i - 1 \in 0 .. Len(pattern) /\ (i - 1) + 1 = i /\ i - 1 < n
    BY <1>0
  <2>2. i - 1 \in ends
    BY <2>1
  <2>3. n \in Nat /\ i - 1 \in Nat
    BY <1>0
  <2> HIDE DEF ends
  <2>4. n <= i - 1
    BY <1>1, <2>2
  <2> QED
    BY <2>1, <2>3, <2>4
<1>3. \E k \in 0 .. Len(pattern) : fixed(k)
  BY <1>1, <1>2
<1> DEFINE m == CHOOSE k \in 0 .. Len(pattern) : fixed(k)
           prefix == SubSeq(pattern, 1, m)
           rest == SubSeq(pattern, m + 1, Len(pattern))
<1>4. m \in 0 .. Len(pattern)
  <2> HIDE DEF fixed
  <2> QED
    BY <1>3
<1>5. rest \in Seq(Segments)
  <2> HIDE DEF m
  <2>1. rest = [k \in 1 .. Len(pattern) - m |-> pattern[k + m]]
    BY <1>0, <1>4
  <2> QED
    BY <1>0, <1>4, <2>1
<1>6. CanonicalPattern(pattern) = IF prefix \in DOMAIN Canonical THEN Canonical[prefix] \o rest ELSE Nowhere
  BY DEF CanonicalPattern
<1>8. prefix \in DOMAIN Canonical => Canonical[prefix] \in Seq(Segments)
  <2> HIDE DEF prefix
  <2> QED
    BY CanonicalAssumption
<1> HIDE DEF prefix, rest
<1>9. prefix \in DOMAIN Canonical => Canonical[prefix] \o rest \in Seq(Segments)
  BY <1>5, <1>8
<1> QED
  BY <1>6, <1>9

(* A workspace is allowed only below a root whose prefix exists.           *)
LEMMA AllowedIsCovered ==
    ASSUME NEW path, NEW roots \in Seq(Seq(Segments)), Allowed(path, roots)
    PROVE  /\ path \in DOMAIN Canonical
           /\ \E i \in DOMAIN roots : /\ CanonicalPattern(roots[i]) # Nowhere
                                      /\ Covers(CanonicalPattern(roots[i]), Canonical[path])
<1>1. path \in DOMAIN Canonical /\ Canonical[path] \in Seq(Segments)
  BY CanonicalAssumption DEF Allowed
<1>2. PICK i \in 1 .. Len(roots) :
         /\ \A j \in 1 .. i : CanonicalPattern(roots[j]) # Nowhere
         /\ Matches(CanonicalPattern(roots[i]), Canonical[path])
  BY DEF Allowed
<1>3. i \in DOMAIN roots /\ i \in 1 .. i /\ roots[i] \in Seq(Segments)
  OBVIOUS
<1>4. Covers(CanonicalPattern(roots[i]), Canonical[path])
  BY <1>1, <1>2, <1>3, CanonicalPatternType, MatchesIsCovers
<1> QED
  BY <1>1, <1>2, <1>3, <1>4

(* With two roots that both exist, it is allowed below either of them.     *)
LEMMA TwoRoots ==
    ASSUME NEW path \in DOMAIN Canonical, NEW first \in Seq(Segments), NEW second \in Seq(Segments),
           CanonicalPattern(first) # Nowhere, CanonicalPattern(second) # Nowhere
    PROVE  Allowed(path, <<first, second>>)
             <=> \/ Covers(CanonicalPattern(first), Canonical[path])
                 \/ Covers(CanonicalPattern(second), Canonical[path])
<1> DEFINE roots == <<first, second>>
<1>1. roots[1] = first /\ roots[2] = second /\ 1 .. Len(roots) = {1, 2}
  OBVIOUS
<1>2. Canonical[path] \in Seq(Segments)
  BY CanonicalAssumption
<1>3. /\ Matches(CanonicalPattern(first), Canonical[path]) = Covers(CanonicalPattern(first), Canonical[path])
      /\ Matches(CanonicalPattern(second), Canonical[path]) = Covers(CanonicalPattern(second), Canonical[path])
  BY <1>2, CanonicalPatternType, MatchesIsCovers
<1>4. 1 .. 1 = {1} /\ 1 .. 2 = {1, 2}
  OBVIOUS
<1> HIDE DEF roots
<1>5. Allowed(path, roots) <=> \/ Matches(CanonicalPattern(first), Canonical[path])
                               \/ Matches(CanonicalPattern(second), Canonical[path])
  BY <1>1, <1>4 DEF Allowed
<1> QED
  BY <1>3, <1>5 DEF roots

(* Whether a pattern allows a directory is what the pattern stands for,    *)
(* and roots that exist may be given in any order.  workspace.py:11-74.    *)
THEOREM RootsPermitAlways == Spec => []RootsPermit
<1>1. ASSUME NEW pattern \in Patterns, NEW path \in Paths
      PROVE  Matches(pattern, path) = Covers(pattern, path)
  BY PatternAssumption, MatchesIsCovers
<1>2. ASSUME NEW path \in DOMAIN Canonical, NEW first \in Patterns, NEW second \in Patterns
      PROVE  LET roots == {r \in {CanonicalPattern(first), CanonicalPattern(second)} : r # Nowhere}
                 covered == \E r \in roots : Covers(r, Canonical[path]) IN
             /\ Allowed(path, <<first, second>>) => covered
             /\ CanonicalPattern(first) # Nowhere /\ CanonicalPattern(second) # Nowhere
                  => Allowed(path, <<first, second>>) = covered
  <2> DEFINE roots == {r \in {CanonicalPattern(first), CanonicalPattern(second)} : r # Nowhere}
             covered == \E r \in roots : Covers(r, Canonical[path])
             both == <<first, second>>
  <2>1. /\ first \in Seq(Segments) /\ second \in Seq(Segments)
        /\ both \in Seq(Seq(Segments)) /\ DOMAIN both = {1, 2} /\ both[1] = first /\ both[2] = second
    BY PatternAssumption
  <2>2. Allowed(path, both) => covered
    <3> SUFFICES ASSUME Allowed(path, both) PROVE covered
      OBVIOUS
    <3> HIDE DEF both
    <3>1. PICK i \in DOMAIN both : /\ CanonicalPattern(both[i]) # Nowhere
                                   /\ Covers(CanonicalPattern(both[i]), Canonical[path])
      BY <2>1, AllowedIsCovered
    <3>2. CanonicalPattern(both[i]) \in {CanonicalPattern(first), CanonicalPattern(second)}
      BY <2>1
    <3> QED
      BY <3>1, <3>2
  <2>3. ASSUME CanonicalPattern(first) # Nowhere, CanonicalPattern(second) # Nowhere
        PROVE  Allowed(path, both) = covered
    <3>1. covered <=> \/ Covers(CanonicalPattern(first), Canonical[path])
                      \/ Covers(CanonicalPattern(second), Canonical[path])
      BY <2>3
    <3>2. Allowed(path, both) <=> covered
      BY <2>1, <2>3, <3>1, TwoRoots
    <3> QED
      BY <3>2 DEF Allowed
  <2> QED
    BY <2>2, <2>3
<1>3. RootsPermit
  BY <1>1, <1>2 DEF RootsPermit
<1> QED
  BY <1>3, PTL

-----------------------------------------------------------------------------
(* Selections *)

(* A source is chosen only if the upstream lists it and the query gives it.*)
LEMMA ChosenIsGiven ==
    ASSUME NEW sources \in Seq(STRING), NEW given, ChosenSource(sources, given) # NoValue
    PROVE  /\ ChosenSource(sources, given) \in given
           /\ ChosenSource(sources, given) \in SeqSet(sources)
<1> DEFINE hits == {i \in DOMAIN sources : sources[i] \in given}
           first == CHOOSE i \in hits : \A j \in hits : i <= j
<1>1. hits # {} /\ ChosenSource(sources, given) = sources[first]
  BY DEF ChosenSource
<1>2. hits \subseteq Nat
  OBVIOUS
<1>3. first \in hits
  <2> HIDE DEF hits
  <2> QED
    BY <1>1, <1>2, LeastNumber
<1> QED
  BY <1>1, <1>3 DEF SeqSet

Parsed(upstreams, explicit) == [upstreams |-> upstreams, explicit |-> explicit, inputs |-> <<>>]

(* What _bind_inputs() leaves alone, and what it has made sure of.         *)
BoundBy(sel, base, inputs, conf) ==
    /\ sel.upstreams = base.upstreams
    /\ Given(inputs) # {} => base.explicit # {}
    /\ \A u \in base.upstreams : conf[u].input = "required" => u \in DOMAIN sel.inputs
    /\ \A u \in DOMAIN sel.inputs :
          /\ u \in base.upstreams /\ conf[u].input # "none" /\ Given(inputs) # {}
          /\ \E x \in SeqSet(inputs) :
                /\ x[1] \in SeqSet(conf[u].sources)
                /\ sel.inputs[u] = Canonical[x[2]] /\ Allowed(x[2], conf[u].roots)
    /\ \A s \in Given(inputs) : \E u \in base.upstreams : s \in SeqSet(conf[u].sources)

LEMMA Bound ==
    ASSUME NEW base, DOMAIN base = {"upstreams", "explicit", "inputs"},
           NEW inputs, NEW conf, NEW sel,
           \A u \in base.upstreams : conf[u].sources \in Seq(STRING),
           sel = BindInputs(base, inputs, conf), sel # Rejected
    PROVE  BoundBy(sel, base, inputs, conf)
<1> DEFINE given == {x[1] : x \in SeqSet(inputs)}
           path == [s \in given |-> (CHOOSE x \in SeqSet(inputs) : x[1] = s)[2]]
           takers == {u \in base.upstreams : conf[u].input # "none"}
           source == [u \in takers |-> ChosenSource(conf[u].sources, given)]
           bound == {u \in takers : source[u] # NoValue}
           made == [u \in bound |-> Canonical[path[source[u]]]]
           fits == /\ Cardinality(given) = Len(inputs)
                   /\ \A s \in given : path[s] # NoValue
                   /\ given # {} => base.explicit # {}
                   /\ \A u \in takers \ bound : conf[u].input = "optional"
                   /\ \A u \in bound : Allowed(path[source[u]], conf[u].roots)
                   /\ given \subseteq UNION {SeqSet(conf[u].sources) : u \in takers}
<1>1. sel = IF fits THEN [base EXCEPT !.inputs = made] ELSE Rejected
  BY DEF BindInputs
<1>2. fits /\ sel = [base EXCEPT !.inputs = made]
  <2> HIDE DEF fits, made
  <2> QED
    BY <1>1
<1>3. sel.upstreams = base.upstreams /\ sel.inputs = made
  <2> HIDE DEF made, fits
  <2> QED
    BY <1>2
<1>4. DOMAIN sel.inputs = bound
  BY <1>3
<1>5. ASSUME NEW u \in base.upstreams, conf[u].input = "required" PROVE u \in DOMAIN sel.inputs
  BY <1>2, <1>4, <1>5
<1>6. ASSUME NEW u \in DOMAIN sel.inputs
      PROVE  /\ u \in base.upstreams /\ conf[u].input # "none" /\ given # {}
             /\ \E x \in SeqSet(inputs) :
                  /\ x[1] \in SeqSet(conf[u].sources)
                  /\ sel.inputs[u] = Canonical[x[2]] /\ Allowed(x[2], conf[u].roots)
  <2>1. u \in takers /\ u \in base.upstreams /\ conf[u].input # "none" /\ source[u] # NoValue
        /\ source[u] = ChosenSource(conf[u].sources, given)
    BY <1>4, <1>6
  <2>2. source[u] \in given /\ source[u] \in SeqSet(conf[u].sources)
    BY <2>1, ChosenIsGiven
  <2> DEFINE x == CHOOSE y \in SeqSet(inputs) : y[1] = source[u]
  <2>3. x \in SeqSet(inputs) /\ x[1] = source[u]
    <3> HIDE DEF source
    <3> QED
      BY <2>2
  <2>4. path[source[u]] = x[2]
    <3> HIDE DEF source
    <3> QED
      BY <2>2
  <2>5. sel.inputs[u] = Canonical[path[source[u]]]
    <3> HIDE DEF path, source
    <3> QED
      BY <1>3, <1>4, <1>6
  <2>6. Allowed(path[source[u]], conf[u].roots)
    <3> HIDE DEF path, source
    <3> QED
      BY <1>2, <1>4, <1>6
  <2> HIDE DEF path, source, x
  <2> QED
    BY <2>1, <2>2, <2>3, <2>4, <2>5, <2>6
<1>7. ASSUME NEW s \in given PROVE \E u \in base.upstreams : s \in SeqSet(conf[u].sources)
  <2>1. given \subseteq UNION {SeqSet(conf[u].sources) : u \in takers}
    BY <1>2
  <2>2. PICK u \in takers : s \in SeqSet(conf[u].sources)
    <3> HIDE DEF takers
    <3> QED
      BY <1>7, <2>1
  <2> QED
    BY <2>2
<1>8. given # {} => base.explicit # {}
  BY <1>2
<1>9. given = Given(inputs)
  BY DEF Given
<1> HIDE DEF given
<1> QED
  BY <1>3, <1>5, <1>6, <1>7, <1>8, <1>9 DEF BoundBy

(* What the selector parameter comes to, and what was named in it.         *)
LEMMA Selected ==
    ASSUME NEW query \in QueryRecord, NEW conf, NEW sel,
           sel = ParseSelection(query, conf), sel # Rejected
    PROVE  \E base :
              /\ DOMAIN base = {"upstreams", "explicit", "inputs"}
              /\ sel = BindInputs(base, query.inputs, conf)
              /\ base.upstreams \subseteq DOMAIN conf
              /\ base.upstreams # {} \/ query.selectors = <<>>
              /\ base.explicit # {} => \A u \in base.upstreams : \E t \in Tokens(query) : t[2] = u
              /\ (\E x \in SeqSet(query.selectors) : x[1] = "upstreams") =>
                    \A t \in Tokens(query) : t[1] = "!" => t[2] \notin base.upstreams
<1> DEFINE parameter == query.selectors[1][1]
           tokens == query.selectors[1][2]
           parsed == IF query.selectors = <<>>
                     THEN [upstreams |-> DOMAIN conf, explicit |-> {}, inputs |-> <<>>]
                     ELSE IF Len(query.selectors) # 1 \/ tokens = <<>> THEN Rejected
                     ELSE IF parameter = "tools" THEN ParseTools(tokens, conf)
                     ELSE ParseUpstreams(tokens, conf)
<1>1. sel = IF {x[1] : x \in SeqSet(query.inputs)} \subseteq Sources(conf) /\ parsed # Rejected
            THEN BindInputs(parsed, query.inputs, conf) ELSE Rejected
  BY DEF ParseSelection
<1>2. parsed # Rejected /\ sel = BindInputs(parsed, query.inputs, conf)
  <2> HIDE DEF parsed
  <2> QED
    BY <1>1
<1>3. query.selectors \in Seq(STRING \X Seq(STRING \X STRING))
  BY DEF QueryRecord
<1>4. CASE query.selectors = <<>>
  <2>1. parsed = [upstreams |-> DOMAIN conf, explicit |-> {}, inputs |-> <<>>]
    BY <1>4
  <2>2. SeqSet(query.selectors) = {}
    BY <1>4 DEF SeqSet
  <2> HIDE DEF parsed
  <2> QED
    BY <1>2, <1>4, <2>1, <2>2
<1>5. CASE query.selectors # <<>>
  <2>1. Len(query.selectors) = 1 /\ tokens # <<>>
        /\ parsed = IF parameter = "tools" THEN ParseTools(tokens, conf) ELSE ParseUpstreams(tokens, conf)
    BY <1>2, <1>5
  <2>2. /\ tokens \in Seq(STRING \X STRING)
        /\ SeqSet(query.selectors) = {query.selectors[1]}
    BY <1>3, <2>1 DEF SeqSet
  <2>3. Tokens(query) = SeqSet(tokens)
    <3> HIDE DEF parsed
    <3> QED
      BY <2>2 DEF Tokens
  <2>4. tokens[1] \in SeqSet(tokens)
    BY <2>1, <2>2 DEF SeqSet
  <2> DEFINE included == {t[2] : t \in {x \in SeqSet(tokens) : x[1] = "+"}}
             excluded == {t[2] : t \in {x \in SeqSet(tokens) : x[1] = "!"}}
             start == IF included = {} THEN DOMAIN conf ELSE included
             named == {t[2] : t \in SeqSet(tokens)}
  <2> HIDE DEF tokens, parameter
  <2>5. CASE parameter = "tools"
    <3>1. parsed = IF named \subseteq DOMAIN conf
                   THEN [upstreams |-> named, explicit |-> named, inputs |-> <<>>] ELSE Rejected
      BY <2>1, <2>5 DEF ParseTools
    <3>2. /\ named \subseteq DOMAIN conf
          /\ parsed = [upstreams |-> named, explicit |-> named, inputs |-> <<>>]
      <4> HIDE DEF named, parsed
      <4> QED
        BY <1>2, <3>1
    <3>3. named # {} /\ \A u \in named : \E t \in SeqSet(tokens) : t[2] = u
      BY <2>4
    <3>4. ~ \E x \in SeqSet(query.selectors) : x[1] = "upstreams"
      BY <2>2, <2>5 DEF parameter
    <3> HIDE DEF named, parsed
    <3> QED
      BY <1>2, <2>3, <3>2, <3>3, <3>4
  <2>6. CASE parameter # "tools"
    <3>1. parsed = IF included \union excluded \subseteq DOMAIN conf /\ start \ excluded # {}
                   THEN [upstreams |-> start \ excluded, explicit |-> included, inputs |-> <<>>]
                   ELSE Rejected
      BY <2>1, <2>6 DEF ParseUpstreams
    <3>2. /\ included \union excluded \subseteq DOMAIN conf /\ start \ excluded # {}
          /\ parsed = [upstreams |-> start \ excluded, explicit |-> included, inputs |-> <<>>]
      <4> HIDE DEF included, excluded, start, parsed
      <4> QED
        BY <1>2, <3>1
    <3>3. included # {} => \A u \in start : \E t \in SeqSet(tokens) : t[2] = u
      OBVIOUS
    <3>4. \A t \in SeqSet(tokens) : t[1] = "!" => t[2] \in excluded
      OBVIOUS
    <3>5. start \subseteq DOMAIN conf
      BY <3>2
    <3> HIDE DEF included, excluded, start, parsed
    <3> QED
      BY <1>2, <2>3, <3>2, <3>3, <3>4, <3>5
  <2> QED
    BY <2>5, <2>6
<1> QED
  BY <1>4, <1>5

-----------------------------------------------------------------------------
(* The order of tokens and inputs *)

(* A reversed sequence has the same elements.                              *)
LEMMA ReversedFacts ==
    ASSUME NEW S, NEW s \in Seq(S)
    PROVE  /\ Len(Reversed(s)) = Len(s) /\ SeqSet(Reversed(s)) = SeqSet(s)
           /\ Reversed(s) = <<>> <=> s = <<>>
<1>1. Len(s) \in Nat /\ DOMAIN s = 1 .. Len(s)
  OBVIOUS
<1>2. DOMAIN Reversed(s) = DOMAIN s /\ \A i \in 1 .. Len(s) : Reversed(s)[i] = s[Len(s) + 1 - i]
  BY <1>1 DEF Reversed
<1>3. \A i \in 1 .. Len(s) : Len(s) + 1 - i \in 1 .. Len(s) /\ Len(s) + 1 - (Len(s) + 1 - i) = i
  BY <1>1
<1>4. Reversed(s) \in Seq(S)
  BY <1>1, <1>3 DEF Reversed
<1>5. Len(Reversed(s)) = Len(s)
  BY <1>1, <1>2, <1>4
<1>6. SeqSet(Reversed(s)) \subseteq SeqSet(s)
  BY <1>1, <1>2, <1>3 DEF SeqSet
<1>7. SeqSet(s) \subseteq SeqSet(Reversed(s))
  <2> SUFFICES ASSUME NEW i \in 1 .. Len(s) PROVE s[i] \in SeqSet(Reversed(s))
    BY <1>1 DEF SeqSet
  <2>1. Reversed(s)[Len(s) + 1 - i] = s[i] /\ Len(s) + 1 - i \in DOMAIN Reversed(s)
    BY <1>1, <1>2, <1>3
  <2> QED
    BY <2>1 DEF SeqSet
<1>8. Reversed(s) = <<>> <=> s = <<>>
  BY <1>1, <1>4, <1>5
<1> QED
  BY <1>5, <1>6, <1>7, <1>8

(* _bind_inputs() asks only which inputs there are, and how many.          *)
Bind(sel, set, number, conf) ==
    LET given == {x[1] : x \in set}
        path == [s \in given |-> (CHOOSE x \in set : x[1] = s)[2]]
        takers == {u \in sel.upstreams : conf[u].input # "none"}
        source == [u \in takers |-> ChosenSource(conf[u].sources, given)]
        bound == {u \in takers : source[u] # NoValue} IN
    IF /\ Cardinality(given) = number
       /\ \A s \in given : path[s] # NoValue
       /\ given # {} => sel.explicit # {}
       /\ \A u \in takers \ bound : conf[u].input = "optional"
       /\ \A u \in bound : Allowed(path[source[u]], conf[u].roots)
       /\ given \subseteq UNION {SeqSet(conf[u].sources) : u \in takers}
    THEN [sel EXCEPT !.inputs = [u \in bound |-> Canonical[path[source[u]]]]]
    ELSE Rejected

(* ... and finds the input of a source by its name.                        *)
LEMMA BindsSet ==
    ASSUME NEW sel, NEW inputs, NEW conf
    PROVE  BindInputs(sel, inputs, conf) = Bind(sel, SeqSet(inputs), Len(inputs), conf)
  BY DEF BindInputs, Bind

(* The order of tokens, and that of inputs, makes no difference.           *)
LEMMA OrderIrrelevant ==
    ASSUME NEW q \in QueryRecord, NEW conf
    PROVE  ParseSelection(q, conf) = ParseSelection(Backwards(q), conf)
<1> DEFINE r == Backwards(q)
           n == Len(q.selectors)
           first == q.selectors[1]
           parsed(selectors, tokens) ==
               IF selectors = <<>>
               THEN [upstreams |-> DOMAIN conf, explicit |-> {}, inputs |-> <<>>]
               ELSE IF Len(selectors) # 1 \/ tokens = <<>> THEN Rejected
               ELSE IF selectors[1][1] = "tools" THEN ParseTools(tokens, conf)
               ELSE ParseUpstreams(tokens, conf)
           result(p, inputs) ==
               IF {x[1] : x \in SeqSet(inputs)} \subseteq Sources(conf) /\ p # Rejected
               THEN Bind(p, SeqSet(inputs), Len(inputs), conf) ELSE Rejected
<1>1. /\ q.selectors \in Seq(STRING \X Seq(STRING \X STRING))
      /\ q.inputs \in Seq(STRING \X ({NoValue} \union Seq(Segments)))
  BY DEF QueryRecord
<1>2. /\ r.inputs = Reversed(q.inputs)
      /\ r.selectors = [i \in DOMAIN q.selectors |-> <<q.selectors[i][1], Reversed(q.selectors[i][2])>>]
  BY DEF Backwards, QueryRecord
<1> HIDE DEF r
<1>3. n \in Nat /\ DOMAIN q.selectors = 1 .. n /\ DOMAIN r.selectors = 1 .. n /\ Len(r.selectors) = n
  BY <1>1, <1>2
<1>4. r.selectors = <<>> <=> q.selectors = <<>>
  BY <1>1, <1>2, <1>3
<1>5. SeqSet(r.inputs) = SeqSet(q.inputs) /\ Len(r.inputs) = Len(q.inputs)
  BY <1>1, <1>2, ReversedFacts
<1>6. ASSUME n = 1
      PROVE  /\ r.selectors[1][1] = first[1] /\ r.selectors[1][2] = Reversed(first[2])
             /\ first[2] \in Seq(STRING \X STRING)
  BY <1>1, <1>2, <1>3, <1>6
<1>7. ASSUME NEW tokens \in Seq(STRING \X STRING)
      PROVE  /\ ParseTools(Reversed(tokens), conf) = ParseTools(tokens, conf)
             /\ ParseUpstreams(Reversed(tokens), conf) = ParseUpstreams(tokens, conf)
             /\ Reversed(tokens) = <<>> <=> tokens = <<>>
  <2>1. SeqSet(Reversed(tokens)) = SeqSet(tokens) /\ (Reversed(tokens) = <<>> <=> tokens = <<>>)
    BY ReversedFacts
  <2>2. ParseTools(Reversed(tokens), conf) = ParseTools(tokens, conf)
    BY <2>1 DEF ParseTools
  <2>3. ParseUpstreams(Reversed(tokens), conf) = ParseUpstreams(tokens, conf)
    BY <2>1 DEF ParseUpstreams
  <2> QED
    BY <2>1, <2>2, <2>3
<1>8. parsed(r.selectors, r.selectors[1][2]) = parsed(q.selectors, q.selectors[1][2])
  <2>1. CASE q.selectors = <<>>
    BY <1>4, <2>1
  <2>2. CASE q.selectors # <<>> /\ n # 1
    BY <1>3, <1>4, <2>2
  <2>3. CASE n = 1
    <3>1. q.selectors # <<>> /\ r.selectors # <<>>
      <4>1. Len(<<>>) # 1
        OBVIOUS
      <4> QED
        BY <1>4, <2>3, <4>1
    <3> QED
      BY <1>3, <1>6, <1>7, <2>3, <3>1
  <2> QED
    BY <2>1, <2>2, <2>3
<1>9. ParseSelection(q, conf) = result(parsed(q.selectors, q.selectors[1][2]), q.inputs)
  BY BindsSet DEF ParseSelection
<1>10. ParseSelection(r, conf) = result(parsed(r.selectors, r.selectors[1][2]), r.inputs)
  BY BindsSet DEF ParseSelection
<1> HIDE DEF parsed
<1>11. result(parsed(r.selectors, r.selectors[1][2]), r.inputs)
         = result(parsed(q.selectors, q.selectors[1][2]), q.inputs)
  BY <1>5, <1>8
<1> HIDE DEF result
<1> QED
  BY <1>9, <1>10, <1>11 DEF r

(* A selection that is not refused says no more than the query.            *)
LEMMA SelectionHonours ==
    ASSUME NEW p \in DOMAIN Profiles, NEW q \in QueryRecord, NEW conf, conf = Upstreams(p),
           NEW sel, sel = ParseSelection(q, conf), sel # Rejected
    PROVE  /\ Honours(sel, q, conf)
           /\ \A u \in DOMAIN sel.inputs : u \in DOMAIN conf /\ conf[u].input # "none"
<1>1. \A u \in DOMAIN conf : conf[u].sources \in Seq(STRING) /\ conf[u].roots \in Seq(Seq(Segments))
  BY ProfileAssumption DEF Upstreams
<1>2. PICK base :
        /\ DOMAIN base = {"upstreams", "explicit", "inputs"}
        /\ sel = BindInputs(base, q.inputs, conf)
        /\ base.upstreams \subseteq DOMAIN conf
        /\ base.upstreams # {} \/ q.selectors = <<>>
        /\ base.explicit # {} => \A u \in base.upstreams : \E t \in Tokens(q) : t[2] = u
        /\ (\E x \in SeqSet(q.selectors) : x[1] = "upstreams") =>
              \A t \in Tokens(q) : t[1] = "!" => t[2] \notin base.upstreams
  BY Selected
<1>3. BoundBy(sel, base, q.inputs, conf)
  <2>1. /\ DOMAIN base = {"upstreams", "explicit", "inputs"}
        /\ sel = BindInputs(base, q.inputs, conf) /\ base.upstreams \subseteq DOMAIN conf
    BY <1>2
  <2>2. \A u \in base.upstreams : conf[u].sources \in Seq(STRING)
    BY <1>1, <2>1
  <2> QED
    BY <2>1, <2>2, Bound
<1>4. ASSUME NEW u \in DOMAIN sel.inputs
      PROVE  /\ u \in sel.upstreams /\ \E t \in Tokens(q) : t[2] = u
             /\ \E x \in SeqSet(q.inputs) :
                 x[1] \in SeqSet(conf[u].sources) /\ Canonical[x[2]] = sel.inputs[u]
             /\ \E root \in SeqSet(conf[u].roots) : Covers(CanonicalPattern(root), sel.inputs[u])
  <2>1. u \in base.upstreams /\ u \in DOMAIN conf /\ base.explicit # {}
    BY <1>2, <1>3, <1>4 DEF BoundBy
  <2>2. PICK x \in SeqSet(q.inputs) :
           /\ x[1] \in SeqSet(conf[u].sources)
           /\ sel.inputs[u] = Canonical[x[2]] /\ Allowed(x[2], conf[u].roots)
    BY <1>3, <1>4 DEF BoundBy
  <2>3. PICK i \in DOMAIN conf[u].roots : Covers(CanonicalPattern(conf[u].roots[i]), Canonical[x[2]])
    BY <1>1, <2>1, <2>2, AllowedIsCovered
  <2>4. conf[u].roots[i] \in SeqSet(conf[u].roots)
    BY DEF SeqSet
  <2> QED
    BY <1>2, <1>3, <2>1, <2>2, <2>3, <2>4 DEF BoundBy
<1> QED
  BY <1>2, <1>3, <1>4 DEF Honours, BoundBy

(* A query is refused or selects what it says: excluded upstreams are out, *)
(* and a workspace goes only to upstreams that were named, that list its   *)
(* source and whose roots cover it.  selection.py:49-212.                  *)
THEOREM SelectionClosed == Spec => []SelectionFailsClosed
<1>1. SelectionFailsClosed
  BY AskedAssumption, OrderIrrelevant, SelectionHonours DEF SelectionFailsClosed
<1> QED
  BY <1>1, PTL

-----------------------------------------------------------------------------
(* The inputs of a session *)

(* A profile in force, and one that a reload prepares, is valid.           *)
Validated ==
    /\ server \notin {"loading", "refused"} => Valid(Profiles[cfg])
    /\ watch.pc \in Reloading => Valid(Profiles[watch.next])

Handling(s) == {r \in Requests : SessionOf[r] = s /\ request[r].pc = "handling"}

Shaped(V) ==
    /\ session \in [Sessions -> [state : {"none", "opening", "open"}, inputs : V, served : SUBSET V]]
    /\ request \in [Requests -> [pc : {"new", "handling", "done"}, inputs : V,
                                 under : DOMAIN Profiles \union {None}]]

(* A session that is being opened has the one request that opens it.       *)
SessionBound(s) ==
    /\ session[s].state = "none" => session[s].served = {} /\ Handling(s) = {}
    /\ session[s].state = "opening" =>
          \E r \in Requests : Handling(s) = {r} /\ session[s].served = {request[r].inputs}
    /\ session[s].state = "open" =>
          /\ session[s].served = {session[s].inputs}
          /\ \A r \in Handling(s) : request[r].inputs = session[s].inputs

WasAllowed(inputs, p) ==
    \A u \in DOMAIN inputs : LET upstream == Upstreams(p)[u] IN
        /\ ~upstream.shareable
        /\ \E root \in SeqSet(upstream.roots) : Covers(CanonicalPattern(root), inputs[u])

EntryInv ==
    /\ Validated
    /\ \E V : Shaped(V)
    /\ \A s \in Sessions : SessionBound(s)
    /\ \A r \in Requests : request[r].pc = "handling" => WasAllowed(request[r].inputs, request[r].under)

(* The invariant holds initially ...                                       *)
LEMMA EntryInit == Init => EntryInv
<1> SUFFICES ASSUME Init PROVE EntryInv
  OBVIOUS
<1>1. Validated
  BY DEF Init, Validated, Asleep, Reloading, Launching
<1>2. Shaped({<<>>})
  BY DEF Init, Shaped, Idle
<1>3. \A r \in Requests : request[r].pc = "new"
  BY DEF Init, Idle
<1>4. \A s \in Sessions : session[s].state = "none" /\ session[s].served = {}
  BY DEF Init
<1>5. \A s \in Sessions : SessionBound(s)
  BY <1>3, <1>4 DEF SessionBound, Handling
<1> QED
  BY <1>1, <1>2, <1>3, <1>5 DEF EntryInv

(* A step inside a reload, or out of it, keeps what is validated.          *)
LEMMA ValidatedKept ==
    ASSUME Validated, UNCHANGED <<cfg, server>>,
           watch'.pc \in Reloading => watch.pc \in Reloading /\ watch'.next = watch.next
    PROVE  Validated'
<1>1. server' \notin {"loading", "refused"} => Valid(Profiles[cfg'])
  BY DEF Validated
<1>2. watch'.pc \in Reloading => Valid(Profiles[watch'.next])
  BY DEF Validated
<1> QED
  BY <1>1, <1>2 DEF Validated

(* Only load_config() brings in a profile.                                 *)
LEMMA ValidatedStep == ASSUME Inv, Validated, Next PROVE Validated'
<1>0. /\ watch \in Watch /\ cfg \in DOMAIN Profiles
      /\ server \in BeforeStart => watch.pc = "off"
  BY DEF Inv, TypeOK, Phases
<1>1. CASE UNCHANGED <<cfg, watch>> /\ (server' \notin {"loading", "refused"} => server \notin {"loading", "refused"})
  BY <1>1 DEF Validated
<1>2. CASE Load
  BY <1>0, <1>2 DEF Load, Validated, BeforeStart, Reloading, Launching
<1>3. CASE Read
  <2>1. UNCHANGED <<cfg, server>>
    BY <1>3 DEF Read, Rest
  <2>2. \/ watch'.pc = "waiting"
        \/ Accept(disk.profile) /\ watch'.next = disk.profile
    BY <1>0, <1>3 DEF Read, Watcher, Watch
  <2> QED
    BY <2>1, <2>2 DEF Validated, Accept, Reloading, Launching
<1>4. CASE Commit
  <2>1. UNCHANGED server /\ cfg' = watch.next /\ watch.pc \in Reloading /\ watch'.pc = "retiring"
    BY <1>0, <1>4 DEF Commit, Rest, Watch, Reloading
  <2> QED
    BY <2>1 DEF Validated, Reloading, Launching
<1>5. CASE /\ UNCHANGED cfg /\ watch'.next = watch.next
           /\ watch'.pc \in Reloading => watch.pc \in Reloading
           /\ server' \notin {"loading", "refused"} => server \notin {"loading", "refused"}
  BY <1>5 DEF Validated
<1>6. CASE Startup \/ WatcherCancelled
  BY <1>0, <1>5, <1>6, ZenonT(60) DEF Startup, WatcherCancelled, CancelWatcher, Watch, Reloading, Launching
<1>7. CASE Polls \/ Woken \/ Stat \/ Retired \/ Aborted
  <2>1. UNCHANGED <<cfg, server>>
    BY <1>7 DEF Polls, Woken, Stat, Retired, Aborted, Rest
  <2>2. watch'.pc \in {"stat", "read", "waiting", "ended"}
    BY <1>0, <1>7 DEF Polls, Woken, Stat, Retired, Aborted, Watcher, Watch
  <2>3. watch'.pc \notin Reloading
    BY <2>2 DEF Reloading, Launching
  <2> QED
    BY <2>1, <2>3, ValidatedKept
<1>8. CASE \/ \E u \in AllUpstreams : Prepare(u)
           \/ Qualified \/ Launched \/ LaunchFails \/ Discarded \/ WaitForLock
  <2>1. UNCHANGED <<cfg, server>> /\ watch.pc \in Reloading
    BY <1>8 DEF Prepare, Qualified, Launched, LaunchFails, Discarded, WaitForLock, Watcher, Rest,
       Reloading, Launching
  <2>2. ASSUME NEW u \in AllUpstreams, Prepare(u) PROVE watch'.next = watch.next
    BY <1>0, <2>2 DEF Prepare, Watcher, Watch
  <2>3. watch'.next = watch.next
    BY <1>0, <1>8, <2>2 DEF Prepare, Qualified, Launched, LaunchFails, Discarded, WaitForLock, Watcher, Watch
  <2>4. UNCHANGED <<cfg, server>>
    BY <2>1
  <2>5. watch'.pc \in Reloading => watch.pc \in Reloading /\ watch'.next = watch.next
    BY <2>1, <2>3
  <2> QED
    BY <2>4, <2>5, ValidatedKept
<1>9. CASE \/ \E p \in DOMAIN Profiles \union {Missing} : Edit(p)
           \/ Signal \/ Spawn \/ Spawned \/ Create \/ ShutdownBegins \/ BrokerCloses \/ BrokerClosed
           \/ \E r \in Requests, q \in Queries : Enter(r, q)
           \/ \E r \in Requests : Respond(r)
  BY <1>1, <1>9 DEF Edit, Signal, Spawn, Spawned, Create, ShutdownBegins, BrokerCloses, BrokerClosed,
     Enter, Respond
<1> QED
  BY <1>2, <1>3, <1>4, <1>6, <1>7, <1>8, <1>9 DEF Next, Reload

(* A request that was let in may use the workspaces it names.              *)
LEMMA Admitted ==
    ASSUME NEW p \in DOMAIN Profiles, Valid(Profiles[p]), NEW q \in QueryRecord,
           NEW sel, sel = ParseSelection(q, Upstreams(p)), sel # Rejected
    PROVE  WasAllowed(sel.inputs, p)
<1>1. /\ Honours(sel, q, Upstreams(p))
      /\ \A u \in DOMAIN sel.inputs : u \in DOMAIN Upstreams(p) /\ Upstreams(p)[u].input # "none"
  BY SelectionHonours
<1>2. \A u \in DOMAIN Upstreams(p) : Upstreams(p)[u].input # "none" => ~Upstreams(p)[u].shareable
  BY DEF Valid, ValidConfig, ValidUpstream, Upstreams
<1> QED
  BY <1>1, <1>2 DEF WasAllowed, Honours

(* A request that arrives binds nobody but itself and its session ...      *)
LEMMA EnterKeeps ==
    ASSUME Inv, EntryInv, NEW r \in Requests, NEW q \in Queries, Enter(r, q)
    PROVE  /\ \E V : Shaped(V)'
           /\ \A s \in Sessions : SessionBound(s)'
           /\ \A x \in Requests : request'[x].pc = "handling" => WasAllowed(request'[x].inputs, request'[x].under)
<1> DEFINE s == SessionOf[r]
           sel == ParseSelection(q, Upstreams(cfg))
<1>0. s \in Sessions /\ q \in QueryRecord /\ cfg \in DOMAIN Profiles /\ Valid(Profiles[cfg])
  BY RequestAssumption, QueryAssumption DEF Inv, TypeOK, EntryInv, Validated, Enter
<1>1. PICK V : Shaped(V)
  BY DEF EntryInv
<1>2. request[r].pc = "new" /\ session[s].state # "opening"
  BY DEF Enter
<1>3. CASE request' = [request EXCEPT ![r].pc = "done"] /\ UNCHANGED session
  <2>1. Shaped(V)'
    BY <1>1, <1>3 DEF Shaped
  <2>2. /\ request'[r].pc = "done"
        /\ \A x \in Requests : x # r => request'[x] = request[x]
    BY <1>1, <1>3 DEF Shaped
  <2>3. \A y \in Sessions : Handling(y)' = Handling(y)
    BY <1>2, <2>2 DEF Handling
  <2>4. ASSUME NEW y \in Sessions PROVE SessionBound(y)'
    <3>1. SessionBound(y) /\ Handling(y)' = Handling(y)
      BY <2>3 DEF EntryInv
    <3>2. \A x \in Handling(y) : request'[x] = request[x]
      BY <1>2, <2>2 DEF Handling
    <3> QED
      BY <1>3, <3>1, <3>2 DEF SessionBound
  <2> QED
    BY <2>1, <2>2, <2>4 DEF EntryInv
<1>4. CASE /\ sel # Rejected /\ ~ChangesInputs(s, sel.inputs)
           /\ request' = [request EXCEPT
                 ![r] = [pc |-> "handling", inputs |-> sel.inputs, under |-> cfg]]
           /\ session' = [session EXCEPT
                 ![s].state = IF @ = "none" THEN "opening" ELSE @,
                 ![s].served = @ \union {sel.inputs}]
  <2> DEFINE W == V \union {sel.inputs}
  <2> HIDE DEF sel
  <2>1. Shaped(W)'
    BY <1>0, <1>1, <1>4 DEF Shaped
  <2>2. /\ request'[r] = [pc |-> "handling", inputs |-> sel.inputs, under |-> cfg]
        /\ \A x \in Requests : x # r => request'[x] = request[x]
    BY <1>1, <1>4 DEF Shaped
  <2>3. /\ session'[s].state = IF session[s].state = "none" THEN "opening" ELSE session[s].state
        /\ session'[s].inputs = session[s].inputs
        /\ session'[s].served = session[s].served \union {sel.inputs}
        /\ \A y \in Sessions : y # s => session'[y] = session[y]
    BY <1>0, <1>1, <1>4 DEF Shaped
  <2>4. WasAllowed(sel.inputs, cfg)
    BY <1>0, <1>4, Admitted DEF sel
  <2>5. /\ Handling(s)' = Handling(s) \union {r}
        /\ \A y \in Sessions : y # s => Handling(y)' = Handling(y)
    BY <2>2 DEF Handling
  <2>6. ASSUME NEW y \in Sessions, y # s PROVE SessionBound(y)'
    <3>1. SessionBound(y) /\ Handling(y)' = Handling(y) /\ session'[y] = session[y]
      BY <2>3, <2>5, <2>6 DEF EntryInv
    <3>2. \A x \in Handling(y) : request'[x] = request[x]
      BY <1>2, <2>2 DEF Handling
    <3> QED
      BY <3>1, <3>2 DEF SessionBound
  <2>7. SessionBound(s) /\ session[s].state \in {"none", "open"}
    BY <1>0, <1>1, <1>2 DEF EntryInv, Shaped
  <2>8. \A x \in Handling(s) : request'[x] = request[x]
    BY <1>2, <2>2 DEF Handling
  <2>9. request'[r].inputs = sel.inputs
    BY <2>2
  <2>10. \A y \in Sessions : y = s => SessionBound(y)'
    <3>1. CASE session[s].state = "none"
      BY <1>0, <2>3, <2>5, <2>7, <2>9, <3>1 DEF SessionBound
    <3>2. CASE session[s].state = "open"
      <4>1. sel.inputs = session[s].inputs
        BY <1>4, <3>2 DEF ChangesInputs
      <4> QED
        BY <2>3, <2>5, <2>7, <2>8, <2>9, <3>2, <4>1 DEF SessionBound
    <3> QED
      BY <2>7, <3>1, <3>2
  <2>11. \A x \in Requests : request'[x].pc = "handling" => WasAllowed(request'[x].inputs, request'[x].under)
    BY <2>2, <2>4 DEF EntryInv
  <2> QED
    BY <2>1, <2>6, <2>10, <2>11
<1> QED
  BY <1>3, <1>4 DEF Enter

(* ... and one that ends frees at most the session it was opening.         *)
LEMMA RespondKeeps ==
    ASSUME Inv, EntryInv, NEW r \in Requests, Respond(r)
    PROVE  /\ \E V : Shaped(V)'
           /\ \A s \in Sessions : SessionBound(s)'
           /\ \A x \in Requests : request'[x].pc = "handling" => WasAllowed(request'[x].inputs, request'[x].under)
<1> DEFINE s == SessionOf[r]
<1>0. s \in Sessions
  BY RequestAssumption
<1>1. PICK V : Shaped(V)
  BY DEF EntryInv
<1>2. /\ request[r].pc = "handling" /\ request' = [request EXCEPT ![r] = Idle("done")]
      /\ \/ /\ session[s].state = "opening"
            /\ session' = [session EXCEPT ![s].state = "open", ![s].inputs = request[r].inputs]
         \/ /\ session[s].state = "opening"
            /\ session' = [session EXCEPT ![s].state = "none", ![s].served = {}]
         \/ session[s].state = "open" /\ UNCHANGED session
  BY DEF Respond
<1>3. Shaped(V \union {<<>>})'
  <2>1. request' \in [Requests -> [pc : {"new", "handling", "done"}, inputs : V \union {<<>>},
                                   under : DOMAIN Profiles \union {None}]]
    BY <1>1, <1>2 DEF Shaped, Idle
  <2>2. request[r].inputs \in V
    BY <1>1 DEF Shaped
  <2>3. session' \in [Sessions -> [state : {"none", "opening", "open"}, inputs : V \union {<<>>},
                                   served : SUBSET (V \union {<<>>})]]
    BY <1>0, <1>1, <1>2, <2>2 DEF Shaped
  <2> QED
    BY <2>1, <2>3 DEF Shaped
<1>4. /\ request'[r].pc = "done"
      /\ \A x \in Requests : x # r => request'[x] = request[x]
  BY <1>1, <1>2 DEF Shaped, Idle
<1>5. \A y \in Sessions : Handling(y)' = Handling(y) \ {r}
  BY <1>4 DEF Handling
<1>6. \A y \in Sessions : \A x \in Handling(y)' : request'[x] = request[x]
  BY <1>4 DEF Handling
<1>7. ASSUME NEW y \in Sessions, y # s PROVE SessionBound(y)'
  <2>1. session'[y] = session[y]
    BY <1>0, <1>1, <1>2, <1>7 DEF Shaped
  <2>2. r \notin Handling(y)
    BY <1>7 DEF Handling
  <2>3. SessionBound(y) /\ Handling(y)' = Handling(y)
    BY <1>5, <2>2 DEF EntryInv
  <2> QED
    BY <1>6, <2>1, <2>3 DEF SessionBound
<1>8. r \in Handling(s) /\ SessionBound(s)
  BY <1>0, <1>2 DEF Handling, EntryInv
<1>9. \A y \in Sessions : y = s => SessionBound(y)'
  <2>1. CASE session[s].state = "opening"
    <3>1. Handling(s) = {r} /\ session[s].served = {request[r].inputs}
      BY <1>8, <2>1 DEF SessionBound
    <3>2. Handling(s)' = {}
      BY <1>0, <1>5, <3>1
    <3>3. \/ /\ session'[s].state = "open" /\ session'[s].inputs = request[r].inputs
             /\ session'[s].served = session[s].served
          \/ session'[s].state = "none" /\ session'[s].served = {}
      BY <1>0, <1>1, <1>2, <2>1 DEF Shaped
    <3> HIDE DEF s
    <3> QED
      BY <3>1, <3>2, <3>3 DEF SessionBound
  <2>2. CASE session[s].state = "open" /\ UNCHANGED session
    <3>1. Handling(s)' \subseteq Handling(s) /\ \A x \in Handling(s)' : request'[x] = request[x]
      BY <1>0, <1>5, <1>6
    <3> HIDE DEF s
    <3> QED
      BY <1>8, <2>2, <3>1 DEF SessionBound
  <2> QED
    BY <1>2, <2>1, <2>2
<1>10. \A x \in Requests : request'[x].pc = "handling" => WasAllowed(request'[x].inputs, request'[x].under)
  BY <1>4 DEF EntryInv
<1> QED
  BY <1>3, <1>7, <1>9, <1>10

(* No other step touches sessions and requests.                            *)
LEMMA EntryStep == ASSUME Inv, EntryInv, [Next]_vars PROVE EntryInv'
<1>1. CASE UNCHANGED vars
  BY <1>1, ZenonT(60) DEF vars, EntryInv, Validated, Shaped, SessionBound, Handling
<1>2. CASE Next
  <2>1. Validated'
    BY <1>2, ValidatedStep DEF EntryInv
  <2>2. CASE \E r \in Requests, q \in Queries : Enter(r, q)
    BY <2>1, <2>2, EnterKeeps DEF EntryInv
  <2>3. CASE \E r \in Requests : Respond(r)
    BY <2>1, <2>3, RespondKeeps DEF EntryInv
  <2>4. CASE UNCHANGED <<session, request>>
    <3>1. \A s \in Sessions : Handling(s)' = Handling(s)
      BY <2>4 DEF Handling
    <3>2. \A s \in Sessions : SessionBound(s)'
      BY <2>4, <3>1 DEF EntryInv, SessionBound
    <3>3. \A V : Shaped(V) => Shaped(V)'
      BY <2>4 DEF Shaped
    <3>4. \A r \in Requests : request'[r].pc = "handling" => WasAllowed(request'[r].inputs, request'[r].under)
      BY <2>4 DEF EntryInv
    <3> QED
      BY <2>1, <3>2, <3>3, <3>4 DEF EntryInv
  <2>5. \/ UNCHANGED <<session, request>>
        \/ \E r \in Requests, q \in Queries : Enter(r, q)
        \/ \E r \in Requests : Respond(r)
    BY <1>2 DEF Next, Reload, Edit, Signal, Spawn, Spawned, Load, Create, Startup, Polls, Woken, Stat,
       Read, Prepare, Qualified, Launched, LaunchFails, Discarded, Aborted, WaitForLock, Retired, Commit,
       ShutdownBegins, WatcherCancelled, CancelWatcher, BrokerCloses, BrokerClosed, Rest
  <2> QED
    BY <2>2, <2>3, <2>4, <2>5
<1> QED
  BY <1>1, <1>2

(* The invariant of sessions and requests holds in every reachable state.  *)
THEOREM EntryInvariant == Spec => []EntryInv
  BY EntryInit, EntryStep, WatcherInvariant, PTL DEF Spec

(* The requests of a session that reach the MCP server carry the inputs it *)
(* was opened with, and each was allowed by the profile in force when it   *)
(* arrived, for upstreams that share their process with nobody.            *)
(* app.py:78-97, models.py:152-175.                                        *)
THEOREM SessionsKeepInputs == Spec => []SessionInputsFixed
<1>1. EntryInv => SessionInputsFixed
  <2> SUFFICES ASSUME EntryInv PROVE SessionInputsFixed
    OBVIOUS
  <2>1. PICK V : Shaped(V)
    BY DEF EntryInv
  <2>2. ASSUME NEW s \in Sessions
        PROVE  /\ Cardinality(session[s].served) <= 1
               /\ session[s].state = "open" => session[s].served = {session[s].inputs}
    <3>1. session[s].state \in {"none", "opening", "open"} /\ SessionBound(s)
      BY <2>1 DEF EntryInv, Shaped
    <3>2. session[s].served = {} \/ \E i : session[s].served = {i}
      BY <3>1 DEF SessionBound
    <3>3. Cardinality(session[s].served) \in {0, 1}
      <4>1. CASE session[s].served = {}
        BY <4>1, FS_EmptySet
      <4>2. CASE \E i : session[s].served = {i}
        <5>1. PICK i : session[s].served = {i}
          BY <4>2
        <5>2. Cardinality({i}) = 1
          BY FS_Singleton
        <5> QED
          BY <5>1, <5>2
      <4> QED
        BY <3>2, <4>1, <4>2
    <3> QED
      BY <3>1, <3>3 DEF SessionBound
  <2>3. \A r \in Requests : request[r].pc = "handling" => WasAllowed(request[r].inputs, request[r].under)
    BY DEF EntryInv
  <2> QED
    BY <2>2, <2>3 DEF SessionInputsFixed, WasAllowed
<1> QED
  BY <1>1, EntryInvariant, PTL
=============================================================================
