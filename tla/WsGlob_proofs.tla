---------------------------- MODULE WsGlob_proofs ----------------------------
(***************************************************************************)
(* The matcher decides what its pattern language means: for every pattern  *)
(* and every string, GlobMatch, which goes back to the last * only, says   *)
(* what Matches says.                                                      *)
(***************************************************************************)
EXTENDS WsGlob, WellFoundedInduction, TLAPS

-----------------------------------------------------------------------------
(* Recursive functions.  A property of all numbers is shown by contradiction: *)
(* among the counterexamples there would be a least one.                      *)

\* Every nonempty set of natural numbers has a least element.
LEMMA LeastElement ==
    ASSUME NEW T \in SUBSET Nat, T # {}
    PROVE  \E x \in T : \A y \in T : x <= y
<1>1. PICK R : /\ IsWellFoundedOn(R, Nat)
               /\ R = {ss \in Nat \X Nat : ss[1] < ss[2]}
    <2> DEFINE Q == OpToRel(<, Nat)
    <2>1. IsWellFoundedOn(Q, Nat)
        BY NatLessThanWellFounded
    <2>2. Q = {ss \in Nat \X Nat : ss[1] < ss[2]}
        BY DEF OpToRel
    <2> HIDE DEF Q
    <2> QED  BY <2>1, <2>2
<1>2. PICK x \in T : \A y \in T : ~ (<<y, x>> \in R)
    BY <1>1, WFMin
<1>3. \A y \in T : x <= y
    <2> TAKE y \in T
    <2>1. x \in Nat /\ y \in Nat
        OBVIOUS
    <2>2. ~ (y < x)
        BY <1>1, <1>2, <2>1
    <2> QED  BY <2>1, <2>2
<1> QED  BY <1>3

\* Induction over 0 .. n, with the set T of the numbers that have the property.
LEMMA Induct ==
    ASSUME NEW n \in Nat, NEW T, 0 \in T,
           \A k \in 1 .. n : k - 1 \in T => k \in T
    PROVE  0 .. n \subseteq T
<1> DEFINE Bad == (0 .. n) \ T
<1>1. SUFFICES ASSUME Bad # {} PROVE FALSE
    OBVIOUS
<1>2. Bad \in SUBSET Nat
    OBVIOUS
<1> HIDE DEF Bad
<1>3. PICK m \in Bad : \A j \in Bad : m <= j
    BY <1>1, <1>2, LeastElement
<1> USE DEF Bad
<1>4. m \in 1 .. n
    BY <1>3
<1>5. m - 1 \in T
    BY <1>3, <1>4
<1> QED  BY <1>3, <1>4, <1>5

\* Among the elements of a set one has the least measure.
LEMMA LeastMeasure ==
    ASSUME NEW S, S # {}, NEW m \in [S -> Nat]
    PROVE  \E x \in S : \A y \in S : m[x] <= m[y]
<1> DEFINE T == {m[x] : x \in S}
<1>1. T \in SUBSET Nat /\ T # {}
    OBVIOUS
<1>2. PICK t \in T : \A u \in T : t <= u
    <2> HIDE DEF T
    <2> QED  BY <1>1, LeastElement
<1>3. PICK x \in S : m[x] = t
    BY <1>2
<1>4. \A y \in S : m[y] \in T
    OBVIOUS
<1> QED  BY <1>2, <1>3, <1>4

\* Induction from the end of a range to its beginning.
LEMMA InductDown ==
    ASSUME NEW lo \in Nat, NEW hi \in Nat, NEW T,
           \A k \in lo .. hi : (\A j \in lo .. hi : j > k => j \in T) => k \in T
    PROVE  lo .. hi \subseteq T
<1> DEFINE Bad == (lo .. hi) \ T
           m == [k \in Bad |-> hi - k]
<1>1. SUFFICES ASSUME Bad # {} PROVE FALSE
    OBVIOUS
<1>2. m \in [Bad -> Nat]
    OBVIOUS
<1> HIDE DEF Bad, m
<1>3. PICK x \in Bad : \A y \in Bad : m[x] <= m[y]
    BY <1>1, <1>2, LeastMeasure
<1>4. x \in lo .. hi /\ x \notin T
    BY DEF Bad
<1>5. ASSUME NEW j \in lo .. hi, j > x PROVE j \in T
    <2>1. SUFFICES ASSUME j \in Bad PROVE FALSE
        BY DEF Bad
    <2>2. m[x] = hi - x /\ m[j] = hi - j
        BY <2>1 DEF m
    <2>3. hi - x <= hi - j
        BY <1>3, <2>1, <2>2
    <2> QED  BY <1>4, <1>5, <2>3
<1> QED  BY <1>4, <1>5

\* The value of F[f] at x depends on the values of f at lower ranks only, r being the rank.
Descends(F, D, V, r) ==
    \A f, g \in [D -> V], x \in D :
        (\A y \in D : r[y] < r[x] => f[y] = g[y]) => F[f][x] = F[g][x]

Ranked(F, D, V) == \E m \in Nat : \E r \in [D -> 0 .. m] : Descends(F, D, V, r)

\* An equation between functions, and that it has a solution.
Functional(F, D, V) == F \in [[D -> V] -> [D -> V]]
Solvable(F, D, V) == \E f \in [D -> V] : f = F[f]

LEMMA RankedEquation ==
    ASSUME NEW D, NEW V, NEW F, V # {}, Functional(F, D, V), Ranked(F, D, V)
    PROVE  Solvable(F, D, V)
<1> USE DEF Functional
<1>v. PICK v0 : v0 \in V
    OBVIOUS
<1>m. PICK m \in Nat : \E r \in [D -> 0 .. m] : Descends(F, D, V, r)
    BY DEF Ranked
<1>r. PICK r \in [D -> 0 .. m] : Descends(F, D, V, r)
    BY <1>m
<1> DEFINE Upto(f, n) == f \in [D -> V] /\ \A x \in D : r[x] < n => f[x] = F[f][x]
           T == {n \in 0 .. m + 1 : \E f : Upto(f, n)}
<1>1. 0 \in T
    <2>1. [x \in D |-> v0] \in [D -> V] /\ \A x \in D : ~ (r[x] < 0)
        BY <1>v
    <2>2. Upto([x \in D |-> v0], 0)
        BY <2>1
    <2> QED  BY <2>2
<1>2. ASSUME NEW n \in 1 .. m + 1, n - 1 \in T PROVE n \in T
    <2>1. PICK f : Upto(f, n - 1)
        BY <1>2
    <2> DEFINE g == F[f]
    <2>2. f \in [D -> V] /\ g \in [D -> V]
        BY <2>1
    <2>3. ASSUME NEW x \in D, r[x] < n PROVE g[x] = F[g][x]
        <3>1. ASSUME NEW y \in D, r[y] < r[x] PROVE f[y] = g[y]
            <4>1. r[y] \in Nat /\ r[x] \in Nat /\ n \in Nat
                OBVIOUS
            <4>2. r[y] < n - 1
                BY <2>3, <3>1, <4>1
            <4> QED  BY <2>1, <4>2
        <3> QED  BY <1>r, <2>2, <3>1 DEF Descends
    <2>4. Upto(g, n)
        BY <2>2, <2>3
    <2> QED  BY <2>4
<1> HIDE DEF T
<1>3. 0 .. m + 1 \subseteq T
    BY <1>1, <1>2, Induct
<1>4. PICK f : Upto(f, m + 1)
    <2> HIDE DEF Upto
    <2>1. m + 1 \in 0 .. m + 1
        BY ONLY m \in Nat
    <2>2. m + 1 \in T
        BY ONLY <1>3, <2>1
    <2> QED  BY ONLY <2>2 DEF T
<1>5. F[f] \in [D -> V] /\ \A x \in D : f[x] = F[f][x]
    BY <1>4
<1>6. f = F[f]
    BY <1>4, <1>5
<1> QED  BY <1>4, <1>6 DEF Solvable

\* What is left of n positions from position k on.
Left(n, k) == IF k <= n THEN n + 1 - k ELSE 0

LEMMA LeftFacts ==
    ASSUME NEW n \in Nat, NEW k \in Nat
    PROVE  /\ Left(n, k) \in 0 .. n + 1
           /\ k \in 1 .. n => \A j \in Nat : j > k => Left(n, j) < Left(n, k)
BY DEF Left

\* A monotone function between sets has a fixpoint (Knaster and Tarski).
LEMMA MonotoneFixpoint ==
    ASSUME NEW D, NEW F \in [SUBSET D -> SUBSET D],
           \A S, T \in SUBSET D : S \subseteq T => F[S] \subseteq F[T]
    PROVE  \E S \in SUBSET D : F[S] = S
<1> DEFINE Closed == {S \in SUBSET D : F[S] \subseteq S}
           L == {x \in D : \A S \in Closed : x \in S}
<1>1. L \in SUBSET D /\ F[L] \in SUBSET D /\ F[F[L]] \in SUBSET D
    OBVIOUS
<1>2. \A S \in Closed : L \subseteq S
    OBVIOUS
<1>3. \A S \in Closed : F[L] \subseteq S
    <2> TAKE S \in Closed
    <2> QED  BY <1>1, <1>2
<1>4. F[L] \subseteq L
    BY <1>1, <1>3
<1>5. F[L] \in Closed
    BY <1>1, <1>4
<1>6. L \subseteq F[L]
    BY <1>2, <1>5
<1> QED  BY <1>1, <1>4, <1>6

-----------------------------------------------------------------------------
(* Characters.                                                                *)

\* A character is known by its code.
LEMMA CodeFacts ==
    /\ Len(Chars) \in Nat
    /\ \A k \in 1 .. Len(Chars) : Chars[k] \in Alphabet /\ Code(Chars[k]) = k
    /\ \A ch \in Alphabet : Code(ch) \in 1 .. Len(Chars) /\ Chars[Code(ch)] = ch
<1>1. Len(Chars) \in Nat /\ DOMAIN Chars = 1 .. Len(Chars)
    <2>1. Chars \in Seq(STRING)
        BY CharsAssumption
    <2> QED  BY ONLY <2>1
<1>2. \A j, k \in 1 .. Len(Chars) : Chars[j] = Chars[k] => j = k
    BY <1>1, CharsAssumption DEF IsInjective
<1>3. ASSUME NEW k \in 1 .. Len(Chars) PROVE Code(Chars[k]) = k
    BY <1>2 DEF Code
<1>4. \A k \in 1 .. Len(Chars) : Chars[k] \in Alphabet
    BY DEF Alphabet
<1>5. ASSUME NEW ch \in Alphabet PROVE Code(ch) \in 1 .. Len(Chars) /\ Chars[Code(ch)] = ch
    BY DEF Alphabet, Code
<1> QED  BY <1>1, <1>3, <1>4, <1>5

\* A range of a class, as a set.
LEMMA RangeSet ==
    ASSUME NEW a \in Alphabet, NEW b \in Alphabet
    PROVE  /\ {Chars[c] : c \in Code(a) .. Code(b)} \subseteq Alphabet
           /\ \A ch \in Alphabet :
                  InRange(ch, a, b) <=> ch \in {Chars[c] : c \in Code(a) .. Code(b)}
<1>1. Code(a) .. Code(b) \subseteq 1 .. Len(Chars)
    BY CodeFacts
<1>2. ASSUME NEW ch \in Alphabet
      PROVE  InRange(ch, a, b) <=> \E c \in Code(a) .. Code(b) : ch = Chars[c]
    <2>1. /\ Code(ch) \in Int /\ Chars[Code(ch)] = ch /\ Code(a) \in Int /\ Code(b) \in Int
          /\ \A c \in Code(a) .. Code(b) : Code(Chars[c]) = c
        BY <1>1, CodeFacts
    <2>2. ASSUME InRange(ch, a, b) PROVE \E c \in Code(a) .. Code(b) : ch = Chars[c]
        BY <2>1, <2>2 DEF InRange
    <2>3. ASSUME NEW c \in Code(a) .. Code(b), ch = Chars[c] PROVE InRange(ch, a, b)
        <3>1. Code(ch) = c
            BY <2>1, <2>3
        <3> QED  BY <2>1, <3>1 DEF InRange
    <2> QED  BY <2>2, <2>3
<1> QED  BY <1>1, <1>2, CodeFacts

LEMMA RangeOne ==
    ASSUME NEW a \in Alphabet, NEW ch \in Alphabet
    PROVE  InRange(ch, a, a) <=> ch = a
<1>1. /\ Code(a) \in Int /\ Code(ch) \in Int
      /\ Chars[Code(a)] = a /\ Chars[Code(ch)] = ch
    BY CodeFacts
<1> QED  BY <1>1 DEF InRange

\* The terminating nul is where the characters end.
LEMMA AtFacts ==
    ASSUME NEW s \in Seq(Alphabet)
    PROVE  /\ Len(s) \in Nat
           /\ \A k \in 1 .. Len(s) : At(s, k) = s[k] /\ s[k] \in Alphabet /\ s[k] # ""
           /\ \A k \in Nat : At(s, k) = "" <=> k \notin 1 .. Len(s)
<1>1. Len(s) \in Nat /\ \A k \in 1 .. Len(s) : s[k] \in Alphabet
    <2> HIDE DEF Alphabet
    <2> QED  OBVIOUS
<1>2. "" \notin Alphabet
    BY CharsAssumption
<1>3. \A k \in 1 .. Len(s) : At(s, k) = s[k] /\ s[k] # ""
    BY ONLY <1>1, <1>2 DEF At
<1>4. \A k \in Nat : k \notin 1 .. Len(s) => At(s, k) = ""
    BY ONLY <1>1 DEF At
<1> QED  BY ONLY <1>1, <1>3, <1>4

-----------------------------------------------------------------------------
(* A class.                                                                   *)

SpanOut == [bad : BOOLEAN, match : BOOLEAN, next : Nat]
SpanDom == Nat \X BOOLEAN
Unclosed == [bad |-> TRUE, match |-> FALSE, next |-> 0]
Closed(hit, next) == [bad |-> FALSE, match |-> hit, next |-> next + 1]

\* The range that begins at k: a character, or two with a dash between them.
IsRange(pat, k) == At(pat, k + 1) = "-" /\ At(pat, k + 2) # "]"
Upper(pat, k) == IF IsRange(pat, k) THEN At(pat, k + 2) ELSE At(pat, k)
After(pat, k) == IF IsRange(pat, k) THEN k + 3 ELSE k + 1

\* One round of the loop of Span, with f for the rest of the loop.
SpanStep(pat, ch, f, v) ==
    IF At(pat, v[1]) = "" \/ Upper(pat, v[1]) = "" THEN Unclosed
    ELSE IF At(pat, After(pat, v[1])) = "]"
         THEN Closed(v[2] \/ InRange(ch, At(pat, v[1]), Upper(pat, v[1])), After(pat, v[1]))
         ELSE f[<<After(pat, v[1]), v[2] \/ InRange(ch, At(pat, v[1]), Upper(pat, v[1]))>>]

\* The loop of Span ends.
LEMMA SpanLoop ==
    ASSUME NEW pat \in Seq(Alphabet), NEW ch
    PROVE  \E span : /\ \A q \in Nat : Span(pat, ch, q) = span[<<q, FALSE>>]
                     /\ \A v \in SpanDom : span[v] = SpanStep(pat, ch, span, v)
<1> DEFINE n == Len(pat)
           F == [f \in [SpanDom -> SpanOut] |-> [v \in SpanDom |-> SpanStep(pat, ch, f, v)]]
           r == [v \in SpanDom |-> Left(n, v[1])]
           IsLoop(f) == f = [v \in SpanDom |-> SpanStep(pat, ch, f, v)]
           span == CHOOSE f : IsLoop(f)
           Hit(v) == v[2] \/ InRange(ch, At(pat, v[1]), Upper(pat, v[1]))
<1>1. n \in Nat /\ \A k \in Nat : At(pat, k) = "" <=> k \notin 1 .. n
    BY AtFacts
<1>2. \A v \in SpanDom : v[1] \in Nat /\ v[2] \in BOOLEAN
    BY DEF SpanDom
<1>3. \A q \in Nat : Span(pat, ch, q) = span[<<q, FALSE>>]
    BY DEF Span, SpanStep, SpanDom, Unclosed, Closed, IsRange, Upper, After
<1> HIDE DEF n
<1>4. Unclosed \in SpanOut /\ \A hit \in BOOLEAN, k \in Nat : Closed(hit, k) \in SpanOut
    BY DEF SpanOut, Unclosed, Closed
<1>5. \A v \in SpanDom : /\ After(pat, v[1]) \in Nat /\ After(pat, v[1]) > v[1]
                         /\ <<After(pat, v[1]), Hit(v)>> \in SpanDom
                         /\ Hit(v) \in BOOLEAN
    <2> SUFFICES ASSUME NEW v \in SpanDom
                 PROVE  /\ After(pat, v[1]) \in Nat /\ After(pat, v[1]) > v[1]
                        /\ <<After(pat, v[1]), Hit(v)>> \in SpanDom
                        /\ Hit(v) \in BOOLEAN
        OBVIOUS
    <2>1. After(pat, v[1]) \in Nat /\ After(pat, v[1]) > v[1]
        BY <1>2 DEF After
    <2>2. Hit(v) \in BOOLEAN
        BY DEF InRange
    <2> HIDE DEF Hit
    <2> QED  BY <2>1, <2>2 DEF SpanDom
<1>6. \A f, v : SpanStep(pat, ch, f, v) =
                    IF At(pat, v[1]) = "" \/ Upper(pat, v[1]) = "" THEN Unclosed
                    ELSE IF At(pat, After(pat, v[1])) = "]" THEN Closed(Hit(v), After(pat, v[1]))
                    ELSE f[<<After(pat, v[1]), Hit(v)>>]
    BY DEF SpanStep
<1> HIDE DEF Hit
<1>7. \A f \in [SpanDom -> SpanOut], v \in SpanDom : SpanStep(pat, ch, f, v) \in SpanOut
    <2> TAKE f \in [SpanDom -> SpanOut], v \in SpanDom
    <2> QED  BY <1>4, <1>5, <1>6
<1>8. F \in [[SpanDom -> SpanOut] -> [SpanDom -> SpanOut]]
    BY <1>7
<1>9. r \in [SpanDom -> 0 .. n + 1] /\ n + 1 \in Nat
    <2>1. \A v \in SpanDom : Left(n, v[1]) \in 0 .. n + 1
        BY <1>1, <1>2, LeftFacts
    <2>2. r \in [SpanDom -> 0 .. n + 1]
        BY <2>1
    <2> HIDE DEF r
    <2>3. n \in Nat
        BY ONLY <1>1
    <2>4. n + 1 \in Nat
        BY ONLY <2>3
    <2> QED  BY ONLY <2>2, <2>4
<1>10. ASSUME NEW f \in [SpanDom -> SpanOut], NEW g \in [SpanDom -> SpanOut], NEW v \in SpanDom,
             \A y \in SpanDom : r[y] < r[v] => f[y] = g[y]
      PROVE  SpanStep(pat, ch, f, v) = SpanStep(pat, ch, g, v)
    <2>1. CASE v[1] \notin 1 .. n
        <3>1. At(pat, v[1]) = ""
            BY <1>1, <1>2, <2>1
        <3> QED  BY <1>6, <3>1
    <2>2. CASE v[1] \in 1 .. n
        <3> DEFINE w == <<After(pat, v[1]), Hit(v)>>
        <3>1. w \in SpanDom /\ w[1] \in Nat /\ w[1] > v[1]
            BY <1>5
        <3>2. r[w] < r[v]
            <4>1. r[w] = Left(n, w[1]) /\ r[v] = Left(n, v[1])
                BY <3>1
            <4>2. v[1] \in Nat
                BY <1>2
            <4> QED  BY <1>1, <2>2, <3>1, <4>1, <4>2, LeftFacts
        <3>3. f[w] = g[w]
            BY <1>10, <3>1, <3>2
        <3> QED  BY <1>6, <3>3
    <2> QED  BY <2>1, <2>2
<1>11. \A f \in [SpanDom -> SpanOut], v \in SpanDom : F[f][v] = SpanStep(pat, ch, f, v)
    BY <1>8
<1> HIDE DEF F, r
<1>12. PICK f \in [SpanDom -> SpanOut] : f = F[f]
    <2>1. Descends(F, SpanDom, SpanOut, r)
        BY <1>10, <1>11 DEF Descends
    <2>2. Ranked(F, SpanDom, SpanOut) /\ SpanOut # {}
        BY <1>4, <1>9, <2>1 DEF Ranked
    <2>3. Functional(F, SpanDom, SpanOut)
        BY <1>8 DEF Functional
    <2>4. Solvable(F, SpanDom, SpanOut)
        BY ONLY <2>2, <2>3, RankedEquation
    <2> QED  BY <2>4 DEF Solvable
<1>13. IsLoop(f)
    <2>1. f = [v \in SpanDom |-> f[v]] /\ \A v \in SpanDom : f[v] = SpanStep(pat, ch, f, v)
        BY <1>11, <1>12
    <2> QED  BY <2>1
<1>14. IsLoop(span)
    BY <1>13
<1> HIDE DEF span
<1>15. \A v \in SpanDom : span[v] = SpanStep(pat, ch, span, v)
    BY <1>14
<1> QED  BY <1>3, <1>15

\* One step of Denoted, with f for what follows.
DenotedStep(pat, hi, f, k) ==
    IF k = hi THEN {}
    ELSE IF k + 2 < hi /\ pat[k + 1] = "-"
         THEN {Chars[c] : c \in Code(pat[k]) .. Code(pat[k + 2])} \cup f[k + 3]
         ELSE {pat[k]} \cup f[k + 1]

LEMMA DenotedLoop ==
    ASSUME NEW pat \in Seq(Alphabet), NEW hi \in 1 .. Len(pat)
    PROVE  \E from : /\ \A k \in 1 .. hi : Denoted(pat, k, hi) = from[k]
                     /\ \A k \in 1 .. hi : from[k] = DenotedStep(pat, hi, from, k)
<1> DEFINE D == 1 .. hi
           V == SUBSET Alphabet
           F == [f \in [D -> V] |-> [k \in D |-> DenotedStep(pat, hi, f, k)]]
           r == [k \in D |-> Left(hi, k)]
           IsLoop(f) == f = [k \in D |-> DenotedStep(pat, hi, f, k)]
           from == CHOOSE f : IsLoop(f)
<1>1. /\ hi \in Nat /\ D \subseteq Nat
      /\ \A k \in D : pat[k] \in Alphabet
      /\ \A k \in D : k # hi => k + 1 \in D
      /\ \A k \in D : k # hi /\ k + 2 < hi => k + 2 \in D /\ k + 3 \in D
    <2>1. Len(pat) \in Nat /\ \A k \in 1 .. Len(pat) : pat[k] \in Alphabet
        BY AtFacts
    <2> QED  BY <2>1
<1>2. \A k \in D : Denoted(pat, k, hi) = from[k]
    BY DEF Denoted, DenotedStep
<1> HIDE DEF D
<1>3. ASSUME NEW f \in [D -> V], NEW k \in D PROVE DenotedStep(pat, hi, f, k) \in V
    <2>1. CASE k = hi
        BY <2>1 DEF DenotedStep
    <2>2. CASE k # hi /\ k + 2 < hi /\ pat[k + 1] = "-"
        <3>1. {Chars[c] : c \in Code(pat[k]) .. Code(pat[k + 2])} \subseteq Alphabet
            BY <1>1, <2>2, RangeSet
        <3>2. f[k + 3] \in V
            BY <1>1, <2>2
        <3> QED  BY <2>2, <3>1, <3>2 DEF DenotedStep
    <2>3. CASE k # hi /\ ~ (k + 2 < hi /\ pat[k + 1] = "-")
        <3>1. f[k + 1] \in V /\ pat[k] \in Alphabet
            BY <1>1, <2>3
        <3> QED  BY <2>3, <3>1 DEF DenotedStep
    <2> QED  BY <2>1, <2>2, <2>3
<1>4. Functional(F, D, V)
    <2>1. \A f \in [D -> V] : [k \in D |-> DenotedStep(pat, hi, f, k)] \in [D -> V]
        BY <1>3
    <2> HIDE DEF V
    <2> QED  BY <2>1 DEF Functional
<1>5. r \in [D -> 0 .. hi + 1] /\ hi + 1 \in Nat
    <2>1. \A k \in D : Left(hi, k) \in 0 .. hi + 1
        BY <1>1, LeftFacts
    <2> QED  BY <1>1, <2>1
<1>6. ASSUME NEW f \in [D -> V], NEW g \in [D -> V], NEW k \in D,
             \A y \in D : r[y] < r[k] => f[y] = g[y]
      PROVE  DenotedStep(pat, hi, f, k) = DenotedStep(pat, hi, g, k)
    <2>1. \A y \in D : y > k => f[y] = g[y]
        <3>1. \A y \in D : r[y] = Left(hi, y)
            OBVIOUS
        <3>2. k \in 1 .. hi
            BY DEF D
        <3> HIDE DEF r
        <3> QED  BY <1>1, <1>6, <3>1, <3>2, LeftFacts
    <2>2. k # hi => f[k + 1] = g[k + 1]
        BY <1>1, <2>1
    <2>3. k # hi /\ k + 2 < hi => f[k + 3] = g[k + 3]
        BY <1>1, <2>1
    <2> QED  BY <2>2, <2>3 DEF DenotedStep
<1>7. \A f \in [D -> V], k \in D : F[f][k] = DenotedStep(pat, hi, f, k)
    OBVIOUS
<1> HIDE DEF F, r
<1>8. PICK f \in [D -> V] : f = F[f]
    <2>1. Descends(F, D, V, r)
        BY <1>6, <1>7 DEF Descends
    <2>2. Ranked(F, D, V) /\ V # {}
        BY <1>5, <2>1 DEF Ranked
    <2> HIDE DEF V
    <2>3. Solvable(F, D, V)
        BY ONLY <1>4, <2>2, RankedEquation
    <2> QED  BY <2>3 DEF Solvable
<1>9. IsLoop(f)
    <2>1. f = [k \in D |-> f[k]] /\ \A k \in D : f[k] = DenotedStep(pat, hi, f, k)
        BY <1>7, <1>8
    <2> QED  BY <2>1
<1>10. IsLoop(from)
    BY <1>9
<1> HIDE DEF from
<1>11. \A k \in D : from[k] = DenotedStep(pat, hi, from, k)
    BY <1>10
<1> QED  BY <1>2, <1>11 DEF D

\* The brackets that may end the class that begins at q: its first character never does.
ClassEnds(pat, q) == {e \in q + 1 .. Len(pat) : pat[e] = "]"}

\* A class that is not closed is none.
LEMMA ClassUnclosed ==
    ASSUME NEW pat \in Seq(Alphabet), NEW ch, NEW q \in Nat, ClassEnds(pat, q) = {}
    PROVE  Span(pat, ch, q).bad = TRUE
<1> DEFINE n == Len(pat)
<1>1. n \in Nat /\ \A k \in Nat : At(pat, k) = "" <=> k \notin 1 .. n
    BY AtFacts
<1>n. n \in Nat
    BY <1>1
<1>2. \A e \in Nat : e >= q + 1 => At(pat, e) # "]"
    <2> SUFFICES ASSUME NEW e \in Nat, e >= q + 1, At(pat, e) = "]" PROVE FALSE
        OBVIOUS
    <2>1. e \in 1 .. n
        BY <1>1
    <2>2. e \in q + 1 .. Len(pat) /\ pat[e] = "]"
        BY <2>1 DEF At
    <2> QED  BY <2>2 DEF ClassEnds
<1>3. PICK span : /\ Span(pat, ch, q) = span[<<q, FALSE>>]
                  /\ \A v \in SpanDom : span[v] = SpanStep(pat, ch, span, v)
    BY SpanLoop
<1> HIDE DEF n
<1> DEFINE T == {k \in Nat : \A m \in BOOLEAN : span[<<k, m>>].bad = TRUE}
<1>4. ASSUME NEW k \in Nat, k >= q, k \in 1 .. n => After(pat, k) \in T PROVE k \in T
    <2> SUFFICES ASSUME NEW m \in BOOLEAN PROVE span[<<k, m>>].bad = TRUE
        OBVIOUS
    <2>1. <<k, m>> \in SpanDom /\ <<k, m>>[1] = k /\ <<k, m>>[2] = m
        BY DEF SpanDom
    <2>2. span[<<k, m>>] = SpanStep(pat, ch, span, <<k, m>>)
        BY <1>3, <2>1
    <2>3. After(pat, k) \in Nat /\ At(pat, After(pat, k)) # "]"
        BY <1>2, <1>4 DEF After
    <2> DEFINE hit == m \/ InRange(ch, At(pat, k), Upper(pat, k))
    <2>4. hit \in BOOLEAN
        BY DEF InRange
    <2>5. SpanStep(pat, ch, span, <<k, m>>) =
              IF At(pat, k) = "" \/ Upper(pat, k) = "" THEN Unclosed
              ELSE IF At(pat, After(pat, k)) = "]" THEN Closed(hit, After(pat, k))
              ELSE span[<<After(pat, k), hit>>]
        BY <2>1 DEF SpanStep
    <2> HIDE DEF hit
    <2>6. Unclosed.bad = TRUE
        BY DEF Unclosed
    <2>7. CASE k \in 1 .. n
        <3>1. span[<<After(pat, k), hit>>].bad = TRUE
            BY <1>4, <2>4, <2>7
        <3> QED  BY <2>2, <2>3, <2>5, <2>6, <3>1
    <2>8. CASE k \notin 1 .. n
        <3>1. At(pat, k) = ""
            BY <1>1, <2>8
        <3> QED  BY <2>2, <2>5, <2>6, <3>1
    <2> QED  BY <2>7, <2>8
<1>5. \A k \in Nat : After(pat, k) \in Nat /\ After(pat, k) > k
    BY DEF After
<1>6. \A k \in Nat : k >= q /\ k \notin 1 .. n => k \in T
    BY <1>4
<1>7. \A k \in q .. n : (\A j \in q .. n : j > k => j \in T) => k \in T
    <2> SUFFICES ASSUME NEW k \in q .. n, \A j \in q .. n : j > k => j \in T PROVE k \in T
        OBVIOUS
    <2> HIDE DEF T
    <2>1. After(pat, k) \in T
        <3>1. After(pat, k) \in Nat /\ After(pat, k) > k
            BY <1>5
        <3> QED  BY <1>n, <1>6, <3>1
    <2> QED  BY <1>n, <1>4, <2>1
<1> HIDE DEF T
<1>8. q .. n \subseteq T
    BY <1>n, <1>7, InductDown
<1>9. q \in T
    BY <1>n, <1>6, <1>8
<1> QED  BY <1>3, <1>9 DEF T

\* A class that is closed: what it denotes, and where it ends.
LEMMA ClassClosed ==
    ASSUME NEW pat \in Seq(Alphabet), NEW ch \in Alphabet, NEW q \in Nat \ {0},
           NEW hi \in ClassEnds(pat, q), \A e \in ClassEnds(pat, q) : hi <= e
    PROVE  Span(pat, ch, q) = Closed(ch \in Denoted(pat, q, hi), hi)
<1> DEFINE n == Len(pat)
<1>1. /\ \A k \in 1 .. n : At(pat, k) = pat[k] /\ pat[k] \in Alphabet /\ pat[k] # ""
      /\ n \in Nat
    BY AtFacts
<1>n. n \in Nat
    BY <1>1
<1>2. hi \in 1 .. n /\ q < hi /\ hi \in Nat /\ pat[hi] = "]" /\ q \in Nat
    <2>1. hi \in q + 1 .. n /\ pat[hi] = "]"
        BY DEF ClassEnds
    <2>2. q \in Nat /\ q > 0
        OBVIOUS
    <2> HIDE DEF n
    <2>3. hi \in 1 .. n /\ q < hi /\ hi \in Nat
        BY ONLY <1>n, <2>1, <2>2
    <2> QED  BY ONLY <2>1, <2>2, <2>3
<1>3. \A e \in q + 1 .. hi - 1 : pat[e] # "]"
    <2> SUFFICES ASSUME NEW e \in q + 1 .. hi - 1, pat[e] = "]" PROVE FALSE
        OBVIOUS
    <2>1. hi \in 1 .. n /\ hi \in Nat /\ q \in Nat
        BY <1>2
    <2>2. e \in q + 1 .. n /\ e < hi
        BY ONLY <1>n, <2>1, e \in q + 1 .. hi - 1
    <2>3. e \in ClassEnds(pat, q)
        BY <2>2 DEF ClassEnds
    <2>4. hi <= e
        BY <2>3
    <2> QED  BY ONLY <2>1, <2>2, <2>4, e \in q + 1 .. hi - 1
<1>4. PICK span : /\ Span(pat, ch, q) = span[<<q, FALSE>>]
                  /\ \A v \in SpanDom : span[v] = SpanStep(pat, ch, span, v)
    <2>1. q \in Nat
        BY <1>2
    <2> QED  BY ONLY <2>1, SpanLoop, pat \in Seq(Alphabet)
<1>5. PICK from : /\ \A k \in 1 .. hi : Denoted(pat, k, hi) = from[k]
                  /\ \A k \in 1 .. hi : from[k] = DenotedStep(pat, hi, from, k)
    <2> HIDE DEF n
    <2>1. hi \in 1 .. Len(pat)
        BY <1>2 DEF n
    <2> QED  BY <2>1, DenotedLoop
<1> HIDE DEF n
<1> DEFINE T == {k \in Nat : \A m \in BOOLEAN : span[<<k, m>>] = Closed(m \/ ch \in from[k], hi)}
<1>h. hi \in Nat /\ hi > q /\ q \in Nat
    BY <1>2
<1>6. from[hi] = {}
    <2>1. hi \in 1 .. hi
        BY ONLY <1>h
    <2>2. from[hi] = DenotedStep(pat, hi, from, hi)
        BY <1>5, <2>1
    <2> QED  BY <2>2 DEF DenotedStep
<1>7. ASSUME NEW k \in q .. hi - 1, After(pat, k) \in q .. hi - 1 => After(pat, k) \in T
      PROVE  k \in T
    <2>1. k \in 1 .. hi /\ k \in 1 .. n /\ k \in Nat /\ k # hi /\ k + 1 \in 1 .. hi /\ k + 1 \in 1 .. n
        BY <1>n, <1>2
    <2>2. IsRange(pat, k) <=> k + 2 < hi /\ pat[k + 1] = "-"
        <3>1. At(pat, k + 1) = pat[k + 1]
            BY <1>1, <2>1
        <3>2. CASE pat[k + 1] # "-"
            BY <3>1, <3>2 DEF IsRange
        <3>3. CASE pat[k + 1] = "-"
            <4>1. k + 1 # hi
                BY <1>2, <3>3
            <4>2. k + 2 \in 1 .. n /\ (k + 2 < hi \/ k + 2 = hi) /\ (k + 2 < hi => k + 2 \in q + 1 .. hi - 1)
                BY <1>n, <1>2, <2>1, <4>1
            <4>3. At(pat, k + 2) = pat[k + 2]
                BY <1>1, <4>2
            <4>4. k + 2 < hi => pat[k + 2] # "]"
                BY <1>3, <4>2
            <4>5. k + 2 = hi => pat[k + 2] = "]"
                BY <1>2
            <4>6. ~ (k + 2 < hi /\ k + 2 = hi)
                BY <1>2, <2>1
            <4> QED  BY <3>1, <3>3, <4>2, <4>3, <4>4, <4>5, <4>6 DEF IsRange
        <3> QED  BY <3>2, <3>3
    <2> DEFINE set == IF IsRange(pat, k) THEN {Chars[c] : c \in Code(pat[k]) .. Code(pat[k + 2])}
                      ELSE {pat[k]}
               a == After(pat, k)
    <2>3. from[k] = set \cup from[a]
        BY <1>5, <2>1, <2>2 DEF DenotedStep, After
    <2>4. /\ At(pat, k) \in Alphabet /\ At(pat, k) # ""
          /\ Upper(pat, k) \in Alphabet /\ Upper(pat, k) # ""
          /\ InRange(ch, At(pat, k), Upper(pat, k)) <=> ch \in set
        <3>1. At(pat, k) = pat[k] /\ pat[k] \in Alphabet /\ pat[k] # ""
            BY <1>1, <2>1
        <3>2. CASE IsRange(pat, k)
            <4>1. k + 2 \in 1 .. n
                BY <1>n, <1>2, <2>1, <2>2, <3>2
            <4>2. Upper(pat, k) = pat[k + 2] /\ pat[k + 2] \in Alphabet /\ pat[k + 2] # ""
                BY <1>1, <3>2, <4>1 DEF Upper
            <4>3. InRange(ch, pat[k], pat[k + 2])
                  <=> ch \in {Chars[c] : c \in Code(pat[k]) .. Code(pat[k + 2])}
                BY <3>1, <4>2, RangeSet
            <4> QED  BY <3>1, <3>2, <4>2, <4>3
        <3>3. CASE ~IsRange(pat, k)
            <4>1. Upper(pat, k) = pat[k]
                BY <3>1, <3>3 DEF Upper
            <4>2. InRange(ch, pat[k], pat[k]) <=> ch = pat[k]
                BY <3>1, RangeOne
            <4> QED  BY <3>1, <3>3, <4>1, <4>2
        <3> QED  BY <3>2, <3>3
    <2>5. a \in k + 1 .. hi /\ a \in Nat /\ a \in 1 .. hi
        BY <1>2, <2>1, <2>2 DEF After
    <2>6. At(pat, a) = "]" <=> a = hi
        <3>1. a \in 1 .. n /\ (a # hi => a \in q + 1 .. hi - 1)
            BY <1>n, <1>2, <2>5
        <3>2. At(pat, a) = pat[a]
            BY <1>1, <3>1
        <3> HIDE DEF a
        <3> QED  BY <1>2, <1>3, <3>1, <3>2
    <2> HIDE DEF set, a
    <2> SUFFICES ASSUME NEW m \in BOOLEAN
                 PROVE  span[<<k, m>>] = Closed(m \/ ch \in from[k], hi)
        BY <2>1
    <2> DEFINE hit == m \/ InRange(ch, At(pat, k), Upper(pat, k))
    <2>7. <<k, m>> \in SpanDom /\ <<k, m>>[1] = k /\ <<k, m>>[2] = m
        BY <2>1 DEF SpanDom
    <2>8. span[<<k, m>>] = SpanStep(pat, ch, span, <<k, m>>)
        BY <1>4, <2>7
    <2>9. SpanStep(pat, ch, span, <<k, m>>) =
              IF At(pat, k) = "" \/ Upper(pat, k) = "" THEN Unclosed
              ELSE IF At(pat, a) = "]" THEN Closed(hit, a)
              ELSE span[<<a, hit>>]
        BY <2>7 DEF SpanStep, a
    <2>10. hit \in BOOLEAN /\ hit = (m \/ ch \in set)
        BY <2>4
    <2> HIDE DEF hit
    <2>11. CASE a = hi
        <3>1. span[<<k, m>>] = Closed(hit, hi)
            BY <2>4, <2>6, <2>8, <2>9, <2>11
        <3>2. hit = (m \/ ch \in from[k])
            BY <1>6, <2>3, <2>10, <2>11
        <3> QED  BY <3>1, <3>2
    <2>12. CASE a # hi
        <3>1. a \in q .. hi - 1
            BY <1>2, <2>1, <2>5, <2>12
        <3>2. a \in T
            BY <1>7, <3>1 DEF a
        <3>3. span[<<a, hit>>] = Closed(hit \/ ch \in from[a], hi)
            BY <2>10, <3>2
        <3>4. span[<<k, m>>] = span[<<a, hit>>]
            BY <2>4, <2>6, <2>8, <2>9, <2>12
        <3>5. (hit \/ ch \in from[a]) = (m \/ ch \in from[k])
            BY <2>3, <2>10
        <3> QED  BY <3>3, <3>4, <3>5
    <2> QED  BY <2>11, <2>12
<1>8. \A k \in q .. hi - 1 : (\A j \in q .. hi - 1 : j > k => j \in T) => k \in T
    <2> SUFFICES ASSUME NEW k \in q .. hi - 1, \A j \in q .. hi - 1 : j > k => j \in T PROVE k \in T
        OBVIOUS
    <2> HIDE DEF T
    <2>1. After(pat, k) > k
        BY <1>2 DEF After
    <2>2. After(pat, k) \in q .. hi - 1 => After(pat, k) \in T
        BY <2>1
    <2> QED  BY <1>7, <2>2
<1> HIDE DEF T
<1>9. q .. hi - 1 \subseteq T
    <2>1. hi - 1 \in Nat /\ q \in Nat
        BY ONLY <1>h
    <2> QED  BY ONLY <1>8, <2>1, InductDown
<1>10. q \in T
    BY <1>2, <1>9
<1>11. span[<<q, FALSE>>] = Closed(FALSE \/ ch \in from[q], hi)
    BY <1>10 DEF T
<1>12. (FALSE \/ ch \in from[q]) = (ch \in Denoted(pat, q, hi))
    BY <1>2, <1>5
<1> QED  BY <1>4, <1>11, <1>12

-----------------------------------------------------------------------------
(* The meaning of a pattern.                                                  *)

ClassBegin(pat, p) == IF At(pat, p + 1) = "!" THEN p + 2 ELSE p + 1

ClassEnd(pat, q) == CHOOSE e \in ClassEnds(pat, q) : \A f \in ClassEnds(pat, q) : e <= f

ClassSet(pat, p) ==
    IF ClassBegin(pat, p) = p + 2
    THEN Alphabet \ Denoted(pat, p + 2, ClassEnd(pat, p + 2))
    ELSE Denoted(pat, p + 1, ClassEnd(pat, p + 1))

IsClass(pat, p) == pat[p] = "[" /\ ClassEnds(pat, ClassBegin(pat, p)) # {}

\* A token, told with the operators of these proofs.
LEMMA TokenForm ==
    ASSUME NEW pat, NEW p
    PROVE  /\ pat[p] = "?" => Token(pat, p) = [is |-> Alphabet, next |-> p + 1]
           /\ IsClass(pat, p) =>
                  Token(pat, p) =
                      [is |-> ClassSet(pat, p), next |-> ClassEnd(pat, ClassBegin(pat, p)) + 1]
           /\ pat[p] = "\\" => Token(pat, p) = [is |-> {pat[p + 1]}, next |-> p + 2]
           /\ pat[p] # "?" /\ ~ IsClass(pat, p) /\ pat[p] # "\\" =>
                  Token(pat, p) = [is |-> {pat[p]}, next |-> p + 1]
<1>1. ClassBegin(pat, p) = p + 2 \/ ClassBegin(pat, p) = p + 1
    BY DEF ClassBegin
<1>2. Token(pat, p) =
          CASE pat[p] = "?" -> [is |-> Alphabet, next |-> p + 1]
            [] pat[p] = "[" /\ ClassEnds(pat, ClassBegin(pat, p)) # {} ->
                  [is |-> IF ClassBegin(pat, p) = p + 2
                          THEN Alphabet \ Denoted(pat, ClassBegin(pat, p),
                                                  ClassEnd(pat, ClassBegin(pat, p)))
                          ELSE Denoted(pat, ClassBegin(pat, p),
                                       ClassEnd(pat, ClassBegin(pat, p))),
                   next |-> ClassEnd(pat, ClassBegin(pat, p)) + 1]
            [] pat[p] = "\\" -> [is |-> {pat[p + 1]}, next |-> p + 2]
            [] OTHER -> [is |-> {pat[p]}, next |-> p + 1]
    BY DEF Token, ClassBegin, ClassEnds, ClassEnd
<1>3. ClassSet(pat, p) =
          IF ClassBegin(pat, p) = p + 2
          THEN Alphabet \ Denoted(pat, ClassBegin(pat, p), ClassEnd(pat, ClassBegin(pat, p)))
          ELSE Denoted(pat, ClassBegin(pat, p), ClassEnd(pat, ClassBegin(pat, p)))
    BY <1>1 DEF ClassSet
<1> QED  BY ONLY <1>2, <1>3 DEF IsClass

\* The first bracket that ends a class.
LEMMA ClassEndFacts ==
    ASSUME NEW pat \in Seq(Alphabet), NEW q \in Nat, ClassEnds(pat, q) # {}
    PROVE  /\ ClassEnd(pat, q) \in ClassEnds(pat, q)
           /\ \A e \in ClassEnds(pat, q) : ClassEnd(pat, q) <= e
           /\ ClassEnd(pat, q) \in q + 1 .. Len(pat)
<1>1. ClassEnds(pat, q) \subseteq q + 1 .. Len(pat)
    BY DEF ClassEnds
<1>2. Len(pat) \in Nat
    BY AtFacts
<1>3. ClassEnds(pat, q) \in SUBSET Nat
    BY ONLY <1>1, <1>2, q \in Nat
<1>4. \E e \in ClassEnds(pat, q) : \A f \in ClassEnds(pat, q) : e <= f
    BY <1>3, LeastElement
<1>5. /\ ClassEnd(pat, q) \in ClassEnds(pat, q)
      /\ \A e \in ClassEnds(pat, q) : ClassEnd(pat, q) <= e
    BY <1>4 DEF ClassEnd
<1> QED  BY ONLY <1>1, <1>5

\* A token ends behind its beginning and before the end of the pattern.
LEMMA TokenNext ==
    ASSUME NEW pat \in Seq(Alphabet), NEW p \in 1 .. Len(pat), ~ Ended(pat, p)
    PROVE  Token(pat, p).next \in p + 1 .. Len(pat) + 1
<1>1. Len(pat) \in Nat /\ p \in Nat /\ p <= Len(pat)
    <2>1. Len(pat) \in Nat
        BY AtFacts
    <2> QED  BY ONLY <2>1, p \in 1 .. Len(pat)
<1>2. CASE pat[p] = "?"
    <2>1. Token(pat, p).next = p + 1
        BY <1>2, TokenForm
    <2> QED  BY ONLY <1>1, <2>1
<1>3. CASE pat[p] # "?" /\ IsClass(pat, p)
    <2>1. ClassBegin(pat, p) \in Nat /\ ClassBegin(pat, p) > p
        BY ONLY <1>1 DEF ClassBegin
    <2>2. ClassEnds(pat, ClassBegin(pat, p)) # {}
        BY <1>3 DEF IsClass
    <2>3. ClassEnd(pat, ClassBegin(pat, p)) \in ClassBegin(pat, p) + 1 .. Len(pat)
        BY <2>1, <2>2, ClassEndFacts
    <2>4. Token(pat, p).next = ClassEnd(pat, ClassBegin(pat, p)) + 1
        BY <1>3, TokenForm
    <2> QED  BY ONLY <1>1, <2>1, <2>3, <2>4
<1>4. CASE pat[p] # "?" /\ ~ IsClass(pat, p) /\ pat[p] = "\\"
    <2>1. Token(pat, p).next = p + 2
        BY <1>4, TokenForm
    <2>2. p < Len(pat)
        BY <1>1, <1>4 DEF Ended
    <2> QED  BY ONLY <1>1, <2>1, <2>2
<1>5. CASE pat[p] # "?" /\ ~ IsClass(pat, p) /\ pat[p] # "\\"
    <2>1. Token(pat, p).next = p + 1
        BY <1>5, TokenForm
    <2> QED  BY ONLY <1>1, <2>1
<1> QED  BY <1>2, <1>3, <1>4, <1>5

\* One step of Matches, with f for the rest of the pattern.
MatchesStep(pat, str, f, p) ==
    IF Ended(pat, p) THEN {Len(str) + 1}
    ELSE IF pat[p] = "*" THEN {k \in 1 .. Len(str) + 1 : \E l \in f[p + 1] : k <= l}
    ELSE {k \in 1 .. Len(str) : /\ str[k] \in Token(pat, p).is
                                /\ k + 1 \in f[Token(pat, p).next]}

LEMMA MatchesLoop ==
    ASSUME NEW pat \in Seq(Alphabet), NEW str \in Seq(Alphabet)
    PROVE  \E from : /\ Matches(pat, str) <=> 1 \in from[1]
                     /\ \A p \in 1 .. Len(pat) + 1 : from[p] = MatchesStep(pat, str, from, p)
<1> DEFINE n == Len(pat)
           D == 1 .. Len(pat) + 1
           V == SUBSET (1 .. Len(str) + 1)
           F == [f \in [D -> V] |-> [p \in D |-> MatchesStep(pat, str, f, p)]]
           r == [p \in D |-> Left(Len(pat) + 1, p)]
           IsLoop(f) == f = [p \in D |-> MatchesStep(pat, str, f, p)]
           from == CHOOSE f : IsLoop(f)
<1>1. n \in Nat
    BY AtFacts
<1>2. Len(str) \in Nat
    BY AtFacts
<1>3. Matches(pat, str) <=> 1 \in from[1]
    BY DEF Matches, MatchesStep
<1> HIDE DEF n
<1>4. ASSUME NEW p \in D, ~ Ended(pat, p)
      PROVE  /\ p + 1 \in D
             /\ Token(pat, p).next \in D /\ Token(pat, p).next > p
    <2>1. p \in 1 .. n + 1
        BY DEF n
    <2>2. p # n + 1
        BY <1>1, <1>4 DEF Ended, n
    <2>3. p \in 1 .. n /\ p \in Nat
        BY ONLY <1>1, <2>1, <2>2
    <2>4. Token(pat, p).next \in p + 1 .. n + 1
        BY <1>4, <2>3, TokenNext DEF n
    <2>5. /\ p + 1 \in 1 .. n + 1
          /\ Token(pat, p).next \in 1 .. n + 1 /\ Token(pat, p).next > p
        BY ONLY <1>1, <2>3, <2>4
    <2> QED  BY <2>5 DEF n
<1>5. D \subseteq Nat /\ D = 1 .. n + 1
    BY <1>1 DEF n
<1> HIDE DEF D
<1>6. \A f, p : MatchesStep(pat, str, f, p) \in V
    <2> TAKE f, p
    <2> DEFINE next == Token(pat, p).next
               set == Token(pat, p).is
    <2>1. MatchesStep(pat, str, f, p) =
              IF Ended(pat, p) THEN {Len(str) + 1}
              ELSE IF pat[p] = "*" THEN {k \in 1 .. Len(str) + 1 : \E l \in f[p + 1] : k <= l}
              ELSE {k \in 1 .. Len(str) : str[k] \in set /\ k + 1 \in f[next]}
        BY DEF MatchesStep
    <2> HIDE DEF set, next
    <2>2. 1 .. Len(str) \subseteq 1 .. Len(str) + 1 /\ Len(str) + 1 \in 1 .. Len(str) + 1
        BY ONLY <1>2
    <2>3. {k \in 1 .. Len(str) : str[k] \in set /\ k + 1 \in f[next]} \subseteq 1 .. Len(str) + 1
        BY ONLY <2>2
    <2> QED  BY <2>1, <2>2, <2>3
<1>7. Functional(F, D, V)
    <2>1. \A f \in [D -> V] : [p \in D |-> MatchesStep(pat, str, f, p)] \in [D -> V]
        BY <1>6
    <2> HIDE DEF V
    <2> QED  BY <2>1 DEF Functional
<1>8. r \in [D -> 0 .. n + 2] /\ n + 2 \in Nat
    <2>1. n + 1 \in Nat /\ n + 1 + 1 = n + 2 /\ n + 2 \in Nat
        BY ONLY <1>1
    <2>2. \A p \in D : Left(n + 1, p) \in 0 .. n + 1 + 1
        BY <1>5, <2>1, LeftFacts
    <2> QED  BY <2>1, <2>2 DEF n
<1>9. ASSUME NEW f \in [D -> V], NEW g \in [D -> V], NEW p \in D,
             \A y \in D : r[y] < r[p] => f[y] = g[y]
      PROVE  MatchesStep(pat, str, f, p) = MatchesStep(pat, str, g, p)
    <2>1. \A y \in D : y > p => f[y] = g[y]
        <3>1. \A y \in D : r[y] = Left(n + 1, y)
            BY DEF n
        <3>2. n + 1 \in Nat
            BY ONLY <1>1
        <3> HIDE DEF r
        <3>3. \A y \in D : y > p => Left(n + 1, y) < Left(n + 1, p)
            BY <1>5, <3>2, LeftFacts
        <3> QED  BY <1>9, <3>1, <3>3
    <2>2. CASE Ended(pat, p)
        BY <2>2 DEF MatchesStep
    <2>3. CASE ~ Ended(pat, p)
        <3>1. p \in Nat /\ p + 1 > p
            BY <1>5
        <3>2. f[p + 1] = g[p + 1] /\ f[Token(pat, p).next] = g[Token(pat, p).next]
            BY <1>4, <2>1, <2>3, <3>1
        <3> QED  BY <3>2 DEF MatchesStep
    <2> QED  BY <2>2, <2>3
<1>10. \A f \in [D -> V], p \in D : F[f][p] = MatchesStep(pat, str, f, p)
    OBVIOUS
<1> HIDE DEF F, r
<1>11. PICK f \in [D -> V] : f = F[f]
    <2>1. Descends(F, D, V, r)
        BY <1>9, <1>10 DEF Descends
    <2>2. Ranked(F, D, V) /\ V # {}
        BY <1>8, <2>1 DEF Ranked
    <2> HIDE DEF V
    <2>3. Solvable(F, D, V)
        BY ONLY <1>7, <2>2, RankedEquation
    <2> QED  BY <2>3 DEF Solvable
<1>12. IsLoop(f)
    <2>1. f = [p \in D |-> f[p]] /\ \A p \in D : f[p] = MatchesStep(pat, str, f, p)
        BY <1>10, <1>11
    <2> QED  BY <2>1
<1>13. IsLoop(from)
    BY <1>12
<1> HIDE DEF from
<1>14. \A p \in D : from[p] = MatchesStep(pat, str, from, p)
    BY <1>13
<1> QED  BY <1>3, <1>14 DEF D

-----------------------------------------------------------------------------
(* The loop.                                                                  *)

\* What Span finds is what the token says.
LEMMA ClassFacts ==
    ASSUME NEW pat \in Seq(Alphabet), NEW ch \in Alphabet, NEW p \in Nat
    PROVE  LET class == Span(pat, ch, IF At(pat, p + 1) = "!" THEN p + 2 ELSE p + 1)
               q == ClassBegin(pat, p)
           IN  /\ ClassEnds(pat, q) = {} => class.bad = TRUE
               /\ ClassEnds(pat, q) # {} =>
                      /\ class.bad = FALSE /\ class.next = ClassEnd(pat, q) + 1
                      /\ class.next \in Nat
                      /\ class.match = (At(pat, p + 1) = "!") <=> ch \notin ClassSet(pat, p)
<1> DEFINE q == ClassBegin(pat, p)
           class == Span(pat, ch, q)
           hi == ClassEnd(pat, q)
           inverted == At(pat, p + 1) = "!"
<1>1. q = IF inverted THEN p + 2 ELSE p + 1
    BY DEF ClassBegin
<1>2. q \in Nat \ {0} /\ (inverted <=> q = p + 2) /\ (q # p + 2 => q = p + 1)
    BY <1>1
<1>3. class = Span(pat, ch, IF inverted THEN p + 2 ELSE p + 1)
    BY <1>1
<1>4. CASE ClassEnds(pat, q) = {}
    <2>1. class.bad = TRUE
        BY <1>2, <1>4, ClassUnclosed
    <2> QED  BY <1>3, <1>4, <2>1
<1>5. CASE ClassEnds(pat, q) # {}
    <2>1. /\ hi \in ClassEnds(pat, q) /\ \A e \in ClassEnds(pat, q) : hi <= e
          /\ hi \in q + 1 .. Len(pat)
        BY <1>2, <1>5, ClassEndFacts
    <2>2. class = Closed(ch \in Denoted(pat, q, hi), hi)
        BY <1>2, <2>1, ClassClosed
    <2>3. Len(pat) \in Nat
        BY AtFacts
    <2>4. hi + 1 \in Nat
        BY ONLY <1>2, <2>1, <2>3
    <2>5. ClassSet(pat, p) = IF q = p + 2 THEN Alphabet \ Denoted(pat, q, hi)
                             ELSE Denoted(pat, q, hi)
        BY <1>2 DEF ClassSet
    <2>6. /\ class.bad = FALSE /\ class.next = hi + 1
          /\ class.match = (ch \in Denoted(pat, q, hi))
        BY <2>2 DEF Closed
    <2> HIDE DEF class, inverted, hi, q
    <2>7. class.match = inverted <=> ch \notin ClassSet(pat, p)
        <3>1. inverted \in BOOLEAN /\ (inverted <=> q = p + 2)
            BY <1>2 DEF inverted
        <3> QED  BY <2>5, <2>6, <3>1
    <2> QED  BY <1>3, <1>5, <2>4, <2>6, <2>7 DEF inverted, hi, q
<1> QED  BY <1>4, <1>5

ScanDom == Nat \X Nat \X Nat \X Nat

\* One round of the loop of GlobMatch, with f for the rest of the loop; v is the
\* position in the pattern, in the string, and the two to go back to.
ScanBack(str, f, v) ==
    At(str, v[2]) # "" /\ v[3] # 0 /\ f[<<v[3], v[4] + 1, v[3], v[4] + 1>>]

ScanLiteral(str, f, v, x, next) ==
    IF At(str, v[2]) = x THEN x = "" \/ f[<<next, v[2] + 1, v[3], v[4]>>]
    ELSE ScanBack(str, f, v)

ScanClass(pat, str, f, v, inverted, class) ==
    IF class.bad THEN ScanLiteral(str, f, v, "[", v[1] + 1)
    ELSE IF class.match = inverted THEN ScanBack(str, f, v)
    ELSE f[<<class.next, v[2] + 1, v[3], v[4]>>]

ScanStep(pat, str, f, v) ==
    CASE At(pat, v[1]) = "?" ->
            At(str, v[2]) # "" /\ f[<<v[1] + 1, v[2] + 1, v[3], v[4]>>]
      [] At(pat, v[1]) = "*" ->
            At(pat, v[1] + 1) = "" \/ f[<<v[1] + 1, v[2], v[1] + 1, v[2]>>]
      [] At(pat, v[1]) = "[" ->
            /\ At(str, v[2]) # ""
            /\ ScanClass(pat, str, f, v, At(pat, v[1] + 1) = "!",
                         Span(pat, At(str, v[2]),
                              IF At(pat, v[1] + 1) = "!" THEN v[1] + 2 ELSE v[1] + 1))
      [] At(pat, v[1]) = "\\" -> ScanLiteral(str, f, v, At(pat, v[1] + 1), v[1] + 2)
      [] OTHER -> ScanLiteral(str, f, v, At(pat, v[1]), v[1] + 1)

\* What a round reads: nothing but f, at states of the loop, and the more f holds of the
\* more the round finds.
LEMMA ScanMonotone ==
    ASSUME NEW pat \in Seq(Alphabet), NEW str \in Seq(Alphabet), NEW v \in ScanDom,
           NEW f \in [ScanDom -> BOOLEAN], NEW g \in [ScanDom -> BOOLEAN],
           \A w \in ScanDom : f[w] => g[w]
    PROVE  /\ ScanStep(pat, str, f, v) \in BOOLEAN
           /\ ScanStep(pat, str, f, v) => ScanStep(pat, str, g, v)
<1>1. /\ v[1] \in Nat /\ v[2] \in Nat /\ v[3] \in Nat /\ v[4] \in Nat
      /\ v[1] + 1 \in Nat /\ v[2] + 1 \in Nat /\ v[4] + 1 \in Nat
    BY DEF ScanDom
<1>2. \A a, b, c, d \in Nat : <<a, b, c, d>> \in ScanDom
    BY DEF ScanDom
<1> HIDE DEF ScanDom
<1>3. /\ ScanBack(str, f, v) \in BOOLEAN
      /\ ScanBack(str, f, v) => ScanBack(str, g, v)
    <2>1. <<v[3], v[4] + 1, v[3], v[4] + 1>> \in ScanDom
        BY ONLY <1>1, <1>2
    <2> QED  BY <2>1 DEF ScanBack
<1>4. \A x : \A next \in Nat :
          /\ ScanLiteral(str, f, v, x, next) \in BOOLEAN
          /\ ScanLiteral(str, f, v, x, next) => ScanLiteral(str, g, v, x, next)
    <2> TAKE x
    <2> TAKE next \in Nat
    <2>1. <<next, v[2] + 1, v[3], v[4]>> \in ScanDom
        BY ONLY <1>1, <1>2
    <2> QED  BY <1>3, <2>1 DEF ScanLiteral
<1>5. CASE At(pat, v[1]) = "?"
    <2>1. <<v[1] + 1, v[2] + 1, v[3], v[4]>> \in ScanDom
        BY ONLY <1>1, <1>2
    <2> QED  BY <1>5, <2>1 DEF ScanStep
<1>6. CASE At(pat, v[1]) = "*"
    <2>1. <<v[1] + 1, v[2], v[1] + 1, v[2]>> \in ScanDom
        BY ONLY <1>1, <1>2
    <2> QED  BY <1>6, <2>1 DEF ScanStep
<1>7. CASE At(pat, v[1]) = "["
    <2> DEFINE inverted == At(pat, v[1] + 1) = "!"
               class == Span(pat, At(str, v[2]), IF inverted THEN v[1] + 2 ELSE v[1] + 1)
    <2>1. \A h : ScanStep(pat, str, h, v)
                     = (At(str, v[2]) # "" /\ ScanClass(pat, str, h, v, inverted, class))
        BY <1>7 DEF ScanStep
    <2>2. CASE At(str, v[2]) = ""
        BY <2>1, <2>2
    <2>3. CASE At(str, v[2]) # ""
        <3>1. At(str, v[2]) \in Alphabet
            BY <1>1, <2>3, AtFacts
        <3>2. class.bad = TRUE \/ (class.bad = FALSE /\ class.next \in Nat)
            BY <1>1, <3>1, ClassFacts
        <3>3. CASE class.bad = TRUE
            <4>1. \A h : ScanClass(pat, str, h, v, inverted, class)
                             = ScanLiteral(str, h, v, "[", v[1] + 1)
                BY <3>3 DEF ScanClass
            <4>2. /\ ScanLiteral(str, f, v, "[", v[1] + 1) \in BOOLEAN
                  /\ ScanLiteral(str, f, v, "[", v[1] + 1) => ScanLiteral(str, g, v, "[", v[1] + 1)
                BY <1>1, <1>4
            <4> HIDE DEF class, inverted
            <4> QED  BY ONLY <2>1, <4>1, <4>2
        <3>4. CASE class.bad = FALSE /\ class.next \in Nat
            <4>1. <<class.next, v[2] + 1, v[3], v[4]>> \in ScanDom
                BY ONLY <1>1, <1>2, <3>4
            <4>2. \A h : ScanClass(pat, str, h, v, inverted, class)
                             = IF class.match = inverted THEN ScanBack(str, h, v)
                               ELSE h[<<class.next, v[2] + 1, v[3], v[4]>>]
                BY <3>4 DEF ScanClass
            <4> HIDE DEF class, inverted
            <4> QED  BY <1>3, <2>1, <4>1, <4>2
        <3> QED  BY <3>2, <3>3, <3>4
    <2> QED  BY <2>2, <2>3
<1>8. CASE At(pat, v[1]) = "\\"
    <2>1. \A h : ScanStep(pat, str, h, v) = ScanLiteral(str, h, v, At(pat, v[1] + 1), v[1] + 2)
        BY <1>8 DEF ScanStep
    <2>2. v[1] + 2 \in Nat
        BY <1>1
    <2> QED  BY <1>4, <2>1, <2>2
<1>9. CASE At(pat, v[1]) \notin {"?", "*", "[", "\\"}
    <2>1. \A h : ScanStep(pat, str, h, v) = ScanLiteral(str, h, v, At(pat, v[1]), v[1] + 1)
        BY <1>9 DEF ScanStep
    <2>2. v[1] + 1 \in Nat
        BY <1>1
    <2> QED  BY <1>4, <2>1, <2>2
<1> QED  BY <1>5, <1>6, <1>7, <1>8, <1>9

\* The loop has an outcome.
LEMMA ScanLoop ==
    ASSUME NEW pat \in Seq(Alphabet), NEW str \in Seq(Alphabet)
    PROVE  \E scan : /\ GlobMatch(pat, str) <=> scan[<<1, 1, 0, 0>>]
                     /\ \A v \in ScanDom : scan[v] = ScanStep(pat, str, scan, v)
<1> DEFINE D == ScanDom
           Char(S) == [d \in D |-> d \in S]
           F == [S \in SUBSET D |-> {v \in D : ScanStep(pat, str, Char(S), v)}]
           IsLoop(f) == f = [v \in D |-> ScanStep(pat, str, f, v)]
           scan == CHOOSE f : IsLoop(f)
<1>1. GlobMatch(pat, str) <=> scan[<<1, 1, 0, 0>>]
    BY DEF GlobMatch, ScanStep, ScanBack, ScanLiteral, ScanClass, ScanDom
<1>2. \A S \in SUBSET D : Char(S) \in [D -> BOOLEAN] /\ \A w \in D : Char(S)[w] <=> w \in S
    <2> HIDE DEF D
    <2> TAKE S \in SUBSET D
    <2>1. \A w \in D : Char(S)[w] <=> w \in S
        OBVIOUS
    <2>2. Char(S) \in [D -> BOOLEAN]
        OBVIOUS
    <2> QED  BY ONLY <2>1, <2>2
<1>3. ASSUME NEW S \in SUBSET D, NEW T \in SUBSET D, S \subseteq T
      PROVE  F[S] \subseteq F[T]
    <2>1. \A w \in D : Char(S)[w] => Char(T)[w]
        BY <1>2, <1>3
    <2>2. Char(S) \in [D -> BOOLEAN] /\ Char(T) \in [D -> BOOLEAN]
        BY <1>2
    <2> HIDE DEF Char
    <2>3. \A v \in D : ScanStep(pat, str, Char(S), v) => ScanStep(pat, str, Char(T), v)
        BY <2>1, <2>2, ScanMonotone
    <2> QED  BY <2>3
<1>4. F \in [SUBSET D -> SUBSET D]
    <2> HIDE DEF D, Char
    <2> QED  OBVIOUS
<1>5. \A S \in SUBSET D : F[S] = {v \in D : ScanStep(pat, str, Char(S), v)}
    <2> HIDE DEF D, Char
    <2> QED  OBVIOUS
<1> HIDE DEF F
<1>6. PICK S \in SUBSET D : F[S] = S
    <2> HIDE DEF D
    <2> QED  BY <1>3, <1>4, MonotoneFixpoint
<1> DEFINE f == Char(S)
<1>7. ASSUME NEW v \in D PROVE f[v] = ScanStep(pat, str, f, v)
    <2>1. f \in [D -> BOOLEAN]
        BY <1>2
    <2>2. f[v] <=> v \in S
        BY <1>2
    <2>3. v \in S <=> ScanStep(pat, str, f, v)
        BY <1>5, <1>6
    <2>4. f[v] \in BOOLEAN
        BY <2>1
    <2> HIDE DEF f
    <2>5. ScanStep(pat, str, f, v) \in BOOLEAN
        BY <2>1, ScanMonotone
    <2> QED  BY <2>2, <2>3, <2>4, <2>5
<1>8. IsLoop(f)
    <2>1. f = [v \in D |-> f[v]]
        OBVIOUS
    <2> HIDE DEF f
    <2> QED  BY <1>7, <2>1
<1>9. IsLoop(scan)
    BY <1>8
<1> HIDE DEF scan
<1>10. \A v \in D : scan[v] = ScanStep(pat, str, scan, v)
    BY <1>9
<1> QED  BY <1>1, <1>10

\* The three kinds of a round, in terms of the meaning of the pattern.
LEMMA RoundEnded ==
    ASSUME NEW pat \in Seq(Alphabet), NEW str \in Seq(Alphabet), NEW f, NEW v \in ScanDom,
           v[1] \in 1 .. Len(pat) + 1, Ended(pat, v[1])
    PROVE  ScanStep(pat, str, f, v) <=> At(str, v[2]) = "" \/ ScanBack(str, f, v)
<1>1. /\ Len(pat) \in Nat
      /\ \A k \in Nat : At(pat, k) = "" <=> k \notin 1 .. Len(pat)
      /\ \A k \in 1 .. Len(pat) : At(pat, k) = pat[k]
    BY AtFacts
<1>n. Len(pat) \in Nat
    BY <1>1
<1>2. CASE v[1] > Len(pat)
    <2>1. v[1] \in Nat /\ v[1] \notin 1 .. Len(pat)
        BY ONLY <1>n, <1>2, v[1] \in 1 .. Len(pat) + 1
    <2>2. At(pat, v[1]) = ""
        BY <1>1, <2>1
    <2>3. ScanStep(pat, str, f, v) = ScanLiteral(str, f, v, "", v[1] + 1)
        BY <2>2 DEF ScanStep
    <2> QED  BY <2>3 DEF ScanLiteral
<1>3. CASE v[1] = Len(pat) /\ pat[v[1]] = "\\"
    <2>1. v[1] \in 1 .. Len(pat) /\ v[1] + 1 \in Nat /\ v[1] + 1 \notin 1 .. Len(pat)
        BY ONLY <1>n, <1>3, v[1] \in 1 .. Len(pat) + 1
    <2>2. At(pat, v[1]) = "\\" /\ At(pat, v[1] + 1) = ""
        BY <1>1, <1>3, <2>1
    <2>3. ScanStep(pat, str, f, v) = ScanLiteral(str, f, v, At(pat, v[1] + 1), v[1] + 2)
        BY <2>2 DEF ScanStep
    <2> QED  BY <2>2, <2>3 DEF ScanLiteral
<1> QED  BY <1>2, <1>3 DEF Ended

LEMMA RoundStar ==
    ASSUME NEW pat \in Seq(Alphabet), NEW str \in Seq(Alphabet), NEW f, NEW v \in ScanDom,
           v[1] \in 1 .. Len(pat), pat[v[1]] = "*"
    PROVE  ScanStep(pat, str, f, v)
               <=> v[1] = Len(pat) \/ f[<<v[1] + 1, v[2], v[1] + 1, v[2]>>]
<1>1. /\ Len(pat) \in Nat
      /\ \A k \in Nat : At(pat, k) = "" <=> k \notin 1 .. Len(pat)
      /\ \A k \in 1 .. Len(pat) : At(pat, k) = pat[k]
    BY AtFacts
<1>n. Len(pat) \in Nat
    BY <1>1
<1>2. v[1] + 1 \in Nat /\ (v[1] + 1 \notin 1 .. Len(pat) <=> v[1] = Len(pat))
    BY ONLY <1>n, v[1] \in 1 .. Len(pat)
<1>3. At(pat, v[1]) = "*" /\ (At(pat, v[1] + 1) = "" <=> v[1] = Len(pat))
    BY <1>1, <1>2
<1> QED  BY <1>3 DEF ScanStep

LEMMA RoundToken ==
    ASSUME NEW pat \in Seq(Alphabet), NEW str \in Seq(Alphabet), NEW f, NEW v \in ScanDom,
           v[1] \in 1 .. Len(pat), ~ Ended(pat, v[1]), pat[v[1]] # "*"
    PROVE  ScanStep(pat, str, f, v)
               <=> /\ At(str, v[2]) # ""
                   /\ IF At(str, v[2]) \in Token(pat, v[1]).is
                      THEN f[<<Token(pat, v[1]).next, v[2] + 1, v[3], v[4]>>]
                      ELSE ScanBack(str, f, v)
<1> DEFINE p == v[1]
           ch == At(str, v[2])
<1>1. /\ Len(pat) \in Nat /\ \A k \in 1 .. Len(pat) : At(pat, k) = pat[k] /\ pat[k] # ""
      /\ At(pat, p) = pat[p]
    BY AtFacts
<1>n. Len(pat) \in Nat
    BY <1>1
<1>2. v[2] \in Nat /\ p \in Nat
    BY DEF ScanDom
<1>3. ch # "" => ch \in Alphabet
    BY <1>2, AtFacts
<1>4. ch = "" => ScanBack(str, f, v) = FALSE
    BY DEF ScanBack
<1>5. \A x, next : x # "" =>
          (ScanLiteral(str, f, v, x, next)
               <=> /\ ch # ""
                   /\ IF ch \in {x} THEN f[<<next, v[2] + 1, v[3], v[4]>>]
                      ELSE ScanBack(str, f, v))
    BY <1>4 DEF ScanLiteral
<1>6. CASE pat[p] = "?"
    <2>1. Token(pat, p).is = Alphabet /\ Token(pat, p).next = p + 1
        BY <1>6, TokenForm
    <2>2. ScanStep(pat, str, f, v) <=> ch # "" /\ f[<<p + 1, v[2] + 1, v[3], v[4]>>]
        BY <1>1, <1>6 DEF ScanStep
    <2> HIDE DEF ch, p
    <2>3. ScanStep(pat, str, f, v)
              <=> ch # "" /\ IF ch \in Token(pat, p).is
                             THEN f[<<Token(pat, p).next, v[2] + 1, v[3], v[4]>>]
                             ELSE ScanBack(str, f, v)
        BY ONLY <1>3, <2>1, <2>2
    <2> QED  BY <2>3 DEF ch, p
<1>7. CASE pat[p] = "["
    <2> DEFINE inverted == At(pat, p + 1) = "!"
               class == Span(pat, ch, IF inverted THEN p + 2 ELSE p + 1)
    <2>1. ScanStep(pat, str, f, v) <=> ch # "" /\ ScanClass(pat, str, f, v, inverted, class)
        BY <1>1, <1>7 DEF ScanStep
    <2>2. CASE ch = ""
        BY <2>1, <2>2
    <2>3. CASE ch # "" /\ IsClass(pat, p)
        <3>1. Token(pat, p).is = ClassSet(pat, p)
              /\ Token(pat, p).next = ClassEnd(pat, ClassBegin(pat, p)) + 1
            <4>1. IsClass(pat, p)
                BY <2>3
            <4> HIDE DEF class, inverted, ch, p
            <4>2. Token(pat, p) =
                      [is |-> ClassSet(pat, p), next |-> ClassEnd(pat, ClassBegin(pat, p)) + 1]
                BY ONLY <4>1, TokenForm
            <4> QED  BY ONLY <4>2
        <3>2. ClassEnds(pat, ClassBegin(pat, p)) # {}
            BY <2>3 DEF IsClass
        <3>3. /\ class.bad = FALSE /\ class.next = ClassEnd(pat, ClassBegin(pat, p)) + 1
              /\ class.match = inverted <=> ch \notin ClassSet(pat, p)
            BY <1>2, <1>3, <2>3, <3>2, ClassFacts
        <3>4. ScanClass(pat, str, f, v, inverted, class)
                  <=> IF class.match = inverted THEN ScanBack(str, f, v)
                      ELSE f[<<class.next, v[2] + 1, v[3], v[4]>>]
            BY <3>3 DEF ScanClass
        <3> HIDE DEF class, inverted, ch, p
        <3>5. ScanStep(pat, str, f, v)
                  <=> ch # "" /\ IF ch \in Token(pat, p).is
                                 THEN f[<<Token(pat, p).next, v[2] + 1, v[3], v[4]>>]
                                 ELSE ScanBack(str, f, v)
            BY ONLY <2>1, <3>1, <3>3, <3>4
        <3> QED  BY <3>5 DEF ch, p
    <2>4. CASE ch # "" /\ ~ IsClass(pat, p)
        <3>1. Token(pat, p).is = {pat[p]} /\ Token(pat, p).next = p + 1
            <4>1. pat[p] # "?" /\ ~ IsClass(pat, p) /\ pat[p] # "\\"
                BY <1>7, <2>4
            <4> HIDE DEF class, inverted, ch, p
            <4>2. Token(pat, p) = [is |-> {pat[p]}, next |-> p + 1]
                BY ONLY <4>1, TokenForm
            <4> QED  BY ONLY <4>2
        <3>2. class.bad = TRUE
            BY <1>2, <1>3, <1>7, <2>4, ClassFacts DEF IsClass
        <3>3. ScanClass(pat, str, f, v, inverted, class)
                  <=> ScanLiteral(str, f, v, "[", p + 1)
            BY <3>2 DEF ScanClass
        <3> HIDE DEF class, inverted, ch, p
        <3>4. ScanStep(pat, str, f, v)
                  <=> ch # "" /\ IF ch \in Token(pat, p).is
                                 THEN f[<<Token(pat, p).next, v[2] + 1, v[3], v[4]>>]
                                 ELSE ScanBack(str, f, v)
            BY ONLY <1>5, <1>7, <2>1, <3>1, <3>3
        <3> QED  BY <3>4 DEF ch, p
    <2> QED  BY <2>2, <2>3, <2>4
<1>8. CASE pat[p] = "\\"
    <2>1. Token(pat, p).is = {pat[p + 1]} /\ Token(pat, p).next = p + 2
        BY <1>8, TokenForm
    <2>2. p + 1 \in 1 .. Len(pat)
        <3>1. p # Len(pat)
            BY <1>8 DEF Ended
        <3> QED  BY ONLY <1>n, <3>1, v[1] \in 1 .. Len(pat)
    <2>3. At(pat, p + 1) = pat[p + 1] /\ pat[p + 1] # ""
        BY <1>1, <2>2
    <2>4. ScanStep(pat, str, f, v) <=> ScanLiteral(str, f, v, pat[p + 1], p + 2)
        BY <1>1, <1>8, <2>3 DEF ScanStep
    <2> HIDE DEF ch, p
    <2>5. ScanStep(pat, str, f, v)
              <=> ch # "" /\ IF ch \in Token(pat, p).is
                             THEN f[<<Token(pat, p).next, v[2] + 1, v[3], v[4]>>]
                             ELSE ScanBack(str, f, v)
        BY ONLY <1>5, <2>1, <2>3, <2>4
    <2> QED  BY <2>5 DEF ch, p
<1>9. CASE pat[p] \notin {"?", "[", "\\"}
    <2>1. Token(pat, p).is = {pat[p]} /\ Token(pat, p).next = p + 1
        BY <1>9, TokenForm DEF IsClass
    <2>2. pat[p] # "" /\ pat[p] # "*"
        BY <1>1
    <2>3. ScanStep(pat, str, f, v) <=> ScanLiteral(str, f, v, pat[p], p + 1)
        BY <1>1, <1>9, <2>2 DEF ScanStep
    <2> HIDE DEF ch, p
    <2>4. ScanStep(pat, str, f, v)
              <=> ch # "" /\ IF ch \in Token(pat, p).is
                             THEN f[<<Token(pat, p).next, v[2] + 1, v[3], v[4]>>]
                             ELSE ScanBack(str, f, v)
        BY ONLY <1>5, <2>1, <2>2, <2>3
    <2> QED  BY <2>4 DEF ch, p
<1> QED  BY <1>6, <1>7, <1>8, <1>9

-----------------------------------------------------------------------------
(* One star is enough.  Behind a star the loop has consumed one character for *)
(* each token, so a match of what follows the star, from a later position, is *)
(* a match of the rest of the pattern from a position as much later: nothing  *)
(* is lost by never going back to an earlier star.                            *)

\* A state of the loop, from being the positions Matches computes for each place.
Kept(from, n, end, v) ==
    /\ v \in ScanDom /\ v[1] \in 1 .. n + 1 /\ v[2] \in 1 .. end /\ v[4] <= v[2]
    /\ v[3] # 0 => /\ v[3] \in 1 .. n + 1
                   /\ \A l \in from[v[3]] : l >= v[4] => l + (v[2] - v[4]) \in from[v[1]]

\* What the loop finds from there: a match here, or one from a later position of the star.
Later(from, v) == v[3] # 0 /\ \E l \in from[v[3]] : l > v[4]

FoundFrom(from, v) == v[2] \in from[v[1]] \/ Later(from, v)

\* The positions of Matches are positions, and those of a star are closed downwards.
LEMMA MatchesFacts ==
    ASSUME NEW pat \in Seq(Alphabet), NEW str \in Seq(Alphabet), NEW from,
           \A p \in 1 .. Len(pat) + 1 : from[p] = MatchesStep(pat, str, from, p)
    PROVE  \A p \in 1 .. Len(pat) + 1 :
               /\ from[p] \subseteq 1 .. Len(str) + 1
               /\ Ended(pat, p) => from[p] = {Len(str) + 1}
               /\ ~ Ended(pat, p) /\ pat[p] # "*" =>
                      from[p] = {k \in 1 .. Len(str) : /\ str[k] \in Token(pat, p).is
                                                       /\ k + 1 \in from[Token(pat, p).next]}
               /\ ~ Ended(pat, p) /\ pat[p] = "*" =>
                      from[p] = {k \in 1 .. Len(str) + 1 : \E l \in from[p + 1] : k <= l}
<1> TAKE p \in 1 .. Len(pat) + 1
<1>1. Len(str) \in Nat
    BY AtFacts
<1>2. from[p] = MatchesStep(pat, str, from, p)
    OBVIOUS
<1>3. /\ Ended(pat, p) => from[p] = {Len(str) + 1}
      /\ ~ Ended(pat, p) /\ pat[p] # "*" =>
             from[p] = {k \in 1 .. Len(str) : /\ str[k] \in Token(pat, p).is
                                              /\ k + 1 \in from[Token(pat, p).next]}
      /\ ~ Ended(pat, p) /\ pat[p] = "*" =>
             from[p] = {k \in 1 .. Len(str) + 1 : \E l \in from[p + 1] : k <= l}
    BY ONLY <1>2 DEF MatchesStep
<1>4. from[p] \subseteq 1 .. Len(str) + 1
    <2>1. Len(str) + 1 \in 1 .. Len(str) + 1 /\ 1 .. Len(str) \subseteq 1 .. Len(str) + 1
        BY ONLY <1>1
    <2>2. \/ from[p] \subseteq {Len(str) + 1}
          \/ from[p] \subseteq 1 .. Len(str)
          \/ from[p] \subseteq 1 .. Len(str) + 1
        BY ONLY <1>3
    <2> QED  BY ONLY <2>1, <2>2
<1> QED  BY ONLY <1>3, <1>4

\* Going back: the round that follows decides for the later positions.
LEMMA BackMeans ==
    ASSUME NEW str \in Seq(Alphabet), NEW n \in Nat, NEW scan, NEW from, NEW v,
           \A p \in 1 .. n + 1 : from[p] \subseteq 1 .. Len(str) + 1,
           Kept(from, n, Len(str) + 1, v), v[2] \in 1 .. Len(str),
           \A w : Kept(from, n, Len(str) + 1, w) /\ w[4] > v[4] => (scan[w] <=> FoundFrom(from, w))
    PROVE  ScanBack(str, scan, v) <=> Later(from, v)
<1> DEFINE w == <<v[3], v[4] + 1, v[3], v[4] + 1>>
<1>1. At(str, v[2]) # ""
    BY AtFacts
<1>2. CASE v[3] = 0
    BY <1>2 DEF ScanBack, Later
<1>3. CASE v[3] # 0
    <2>1. v[3] \in 1 .. n + 1 /\ v[4] \in Nat /\ v[4] <= v[2] /\ v[3] \in Nat
        BY <1>3 DEF Kept, ScanDom
    <2>2. Len(str) \in Nat
        BY AtFacts
    <2>3. v[4] + 1 \in 1 .. Len(str) + 1 /\ v[4] + 1 \in Nat /\ v[4] + 1 <= v[4] + 1
          /\ v[4] + 1 > v[4]
        BY ONLY <2>1, <2>2, v[2] \in 1 .. Len(str)
    <2>4. from[v[3]] \subseteq Nat
        <3>1. from[v[3]] \subseteq 1 .. Len(str) + 1
            BY <2>1
        <3> QED  BY ONLY <2>2, <3>1
    <2>5. \A l \in from[v[3]] : l + ((v[4] + 1) - (v[4] + 1)) = l
        BY ONLY <2>1, <2>4
    <2>6. w \in ScanDom
        BY <2>1, <2>3 DEF ScanDom
    <2>7. w[1] = v[3] /\ w[2] = v[4] + 1 /\ w[3] = v[3] /\ w[4] = v[4] + 1
        OBVIOUS
    <2> HIDE DEF w
    <2>8. Kept(from, n, Len(str) + 1, w)
        BY ONLY <2>1, <2>3, <2>5, <2>6, <2>7 DEF Kept
    <2>9. scan[w] <=> FoundFrom(from, w)
        BY <2>3, <2>7, <2>8
    <2>10. FoundFrom(from, w) <=> Later(from, v)
        <3>1. \A l \in from[v[3]] : l > v[4] <=> l = v[4] + 1 \/ l > v[4] + 1
            BY ONLY <2>1, <2>4
        <3>2. FoundFrom(from, w) <=> \/ v[4] + 1 \in from[v[3]]
                                 \/ \E l \in from[v[3]] : l > v[4] + 1
            BY ONLY <1>3, <2>7 DEF FoundFrom, Later
        <3>3. Later(from, v) <=> \E l \in from[v[3]] : l > v[4]
            BY ONLY <1>3 DEF Later
        <3> QED  BY ONLY <3>1, <3>2, <3>3
    <2>11. ScanBack(str, scan, v) <=> scan[w]
        BY ONLY <1>1, <1>3 DEF ScanBack, w
    <2> QED  BY ONLY <2>9, <2>10, <2>11
<1> QED  BY <1>2, <1>3

\* The states that come later: those of a later position to go back to, and among those
\* of none that is earlier the ones further on in the pattern.
RoundsAfter(scan, from, n, end, v) ==
    \A w : /\ Kept(from, n, end, w)
           /\ w[4] > v[4] \/ (w[4] >= v[4] /\ w[1] > v[1])
           => (scan[w] <=> FoundFrom(from, w))

\* A round says what Matches says, if the later ones do.
LEMMA RoundMeans ==
    ASSUME NEW pat \in Seq(Alphabet), NEW str \in Seq(Alphabet), NEW scan, NEW from, NEW v,
           \A w \in ScanDom : scan[w] = ScanStep(pat, str, scan, w),
           \A p \in 1 .. Len(pat) + 1 : from[p] = MatchesStep(pat, str, from, p),
           Kept(from, Len(pat), Len(str) + 1, v),
           RoundsAfter(scan, from, Len(pat), Len(str) + 1, v)
    PROVE  scan[v] <=> FoundFrom(from, v)
<1> DEFINE n == Len(pat)
           end == Len(str) + 1
           p == v[1]
           s == v[2]
           bp == v[3]
           bs == v[4]
<1>1. n \in Nat
    BY AtFacts
<1>2. Len(str) \in Nat
    BY AtFacts
<1>3. /\ p \in 1 .. n + 1 /\ s \in 1 .. end /\ bs <= s /\ bs \in Nat /\ bp \in Nat
      /\ v \in ScanDom
      /\ bp # 0 => bp \in 1 .. n + 1
      /\ bp # 0 => \A l \in from[bp] : l >= bs => l + (s - bs) \in from[p]
    BY DEF Kept, ScanDom
<1>4. scan[v] = ScanStep(pat, str, scan, v)
    BY <1>3
<1>s. from[p] = MatchesStep(pat, str, from, p)
    BY <1>3
<1>5. At(str, s) = "" <=> s = end
    <2>1. At(str, s) = "" <=> s \notin 1 .. Len(str)
        <3>1. \A k \in 1 .. Len(str) : str[k] # ""
            BY AtFacts
        <3> QED  BY ONLY <3>1 DEF At
    <2>2. s \in 1 .. end
        BY <1>3
    <2>3. s \notin 1 .. Len(str) <=> s = end
        BY ONLY <1>2, <2>2
    <2> QED  BY ONLY <2>1, <2>3
<1>6. s # end => s \in 1 .. Len(str) /\ At(str, s) = str[s]
    <2>1. s # end => s \in 1 .. Len(str)
        BY ONLY <1>2, <1>3
    <2> QED  BY <2>1 DEF At
<1>7. \A k \in 1 .. n + 1 : from[k] \subseteq 1 .. end
    BY MatchesFacts
<1>8. \A l \in from[p] : l \in 1 .. end
    BY ONLY <1>3, <1>7
<1>9. bp # 0 => \A l \in from[bp] : l \in 1 .. end
    BY ONLY <1>3, <1>7
<1>10. Later(from, v) <=> bp # 0 /\ \E l \in from[bp] : l > bs
    BY DEF Later
<1>11. FoundFrom(from, v) <=> s \in from[p] \/ Later(from, v)
    BY DEF FoundFrom
\* A later match of what follows the star is a match from behind s.
<1>12. Later(from, v) => \E l \in from[p] : l > s
    <2>1. \A l : l \in 1 .. end /\ l > bs => l >= bs /\ l + (s - bs) > s
        BY ONLY <1>2, <1>3
    <2> QED  BY ONLY <1>3, <1>9, <1>10, <2>1
<1>13. s = end => ~ Later(from, v)
    BY ONLY <1>2, <1>8, <1>12
<1>14. s # end => (ScanBack(str, scan, v) <=> Later(from, v))
    <2> SUFFICES ASSUME s # end PROVE ScanBack(str, scan, v) <=> Later(from, v)
        OBVIOUS
    <2>1. \A w : Kept(from, n, end, w) /\ w[4] > v[4] => (scan[w] <=> FoundFrom(from, w))
        BY DEF RoundsAfter
    <2>2. Kept(from, n, end, v) /\ v[2] \in 1 .. Len(str)
        BY <1>6
    <2> HIDE DEF n
    <2> QED  BY ONLY <1>1, <1>7, <2>1, <2>2, BackMeans, str \in Seq(Alphabet)
<1>15. s = end => ScanBack(str, scan, v) = FALSE
    BY <1>5 DEF ScanBack
<1>16. CASE Ended(pat, p)
    <2>1. from[p] = {end}
        BY ONLY <1>s, <1>16 DEF MatchesStep
    <2>2. ScanStep(pat, str, scan, v) <=> At(str, v[2]) = "" \/ ScanBack(str, scan, v)
        BY <1>3, <1>16, RoundEnded
    <2> HIDE DEF n, end, p, s, bp, bs
    <2>3. scan[v] <=> s = end \/ ScanBack(str, scan, v)
        BY ONLY <1>4, <1>5, <2>2 DEF s
    <2> QED  BY ONLY <1>11, <1>13, <1>14, <2>1, <2>3
<1>17. ~ Ended(pat, p) => p \in 1 .. n
    BY <1>1, <1>3 DEF Ended
<1>18. CASE ~ Ended(pat, p) /\ pat[p] = "*"
    <2> DEFINE w == <<p + 1, s, p + 1, s>>
    <2>1. from[p] = {k \in 1 .. end : \E l \in from[p + 1] : k <= l}
        BY ONLY <1>s, <1>18 DEF MatchesStep
    <2>2. scan[v] <=> p = n \/ scan[w]
        <3>1. ScanStep(pat, str, scan, v)
                  <=> v[1] = Len(pat) \/ scan[<<v[1] + 1, v[2], v[1] + 1, v[2]>>]
            BY <1>3, <1>17, <1>18, RoundStar
        <3> QED  BY <1>4, <3>1
    <2>3. Later(from, v) => s \in from[p]
        <3>1. ASSUME NEW l \in from[p], l > s PROVE s \in from[p]
            <4> HIDE DEF n, end, p, s, bp, bs
            <4>1. PICK k \in from[p + 1] : l <= k
                BY ONLY <2>1, l \in from[p]
            <4>2. p + 1 \in 1 .. n + 1
                BY ONLY <1>1, <1>17, <1>18
            <4>3. k \in 1 .. end
                BY ONLY <1>7, <4>1, <4>2
            <4>4. s <= k
                BY ONLY <1>2, <1>3, <1>8, <3>1, <4>1, <4>3 DEF end
            <4> QED  BY ONLY <1>3, <2>1, <4>1, <4>4
        <3> QED  BY ONLY <1>12, <3>1
    <2>4. CASE p = n
        <3>1. from[p + 1] = {end}
            <4>1. p + 1 \in 1 .. Len(pat) + 1 /\ p + 1 > Len(pat)
                BY ONLY <1>1, <1>17, <1>18, <2>4
            <4> HIDE DEF p, n, end
            <4>2. Ended(pat, p + 1)
                BY ONLY <4>1 DEF Ended
            <4> QED  BY <4>1, <4>2, MatchesFacts DEF end
        <3> HIDE DEF n, end, p, s, bp, bs
        <3>2. s <= end
            BY ONLY <1>2, <1>3 DEF end
        <3>3. s \in from[p]
            BY ONLY <1>3, <2>1, <3>1, <3>2
        <3> QED  BY ONLY <1>11, <2>2, <2>4, <3>3
    <2>5. CASE p # n
        <3> HIDE DEF n, end, p, s, bp, bs
        <3>1. p + 1 \in Nat /\ p + 1 \in 1 .. n + 1 /\ p + 1 # 0 /\ s \in Nat /\ p + 1 > p /\ s <= s
            BY ONLY <1>1, <1>2, <1>3, <1>17, <1>18
        <3>2. \A l \in from[p + 1] : l + (s - s) = l
            <4>1. from[p + 1] \subseteq Nat
                BY ONLY <1>2, <1>7, <3>1 DEF end
            <4> QED  BY ONLY <3>1, <4>1
        <3>3. w \in ScanDom
            BY ONLY <3>1 DEF ScanDom
        <3>4. w[1] = p + 1 /\ w[2] = s /\ w[3] = p + 1 /\ w[4] = s
            OBVIOUS
        <3> HIDE DEF w
        <3>5. Kept(from, n, end, w)
            BY ONLY <1>3, <3>1, <3>2, <3>3, <3>4 DEF Kept
        <3>6. w[4] >= v[4] /\ w[1] > v[1]
            BY ONLY <1>3, <3>1, <3>4 DEF p, bs
        <3>7. RoundsAfter(scan, from, n, end, v)
            BY DEF n, end
        <3>8. scan[w] <=> FoundFrom(from, w)
            BY ONLY <3>5, <3>6, <3>7 DEF RoundsAfter
        <3>9. FoundFrom(from, w) <=> \E l \in from[p + 1] : s <= l
            <4>1. \A l \in from[p + 1] : s <= l <=> s = l \/ l > s
                BY ONLY <1>2, <1>7, <3>1 DEF end
            <4> QED  BY ONLY <3>1, <3>4, <4>1 DEF FoundFrom, Later
        <3>10. FoundFrom(from, w) <=> s \in from[p]
            BY ONLY <1>3, <2>1, <3>9
        <3> QED  BY ONLY <1>11, <2>2, <2>3, <2>5, <3>8, <3>10
    <2> QED  BY <2>4, <2>5
<1>19. CASE ~ Ended(pat, p) /\ pat[p] # "*"
    <2> DEFINE next == Token(pat, p).next
               is == Token(pat, p).is
               w == <<next, s + 1, bp, bs>>
    <2>1. from[p] = {k \in 1 .. Len(str) : str[k] \in is /\ k + 1 \in from[next]}
        BY ONLY <1>s, <1>19 DEF MatchesStep
    <2>2. scan[v] <=> /\ At(str, s) # ""
                      /\ IF At(str, s) \in is THEN scan[w] ELSE ScanBack(str, scan, v)
        <3>1. ScanStep(pat, str, scan, v)
                  <=> /\ At(str, v[2]) # ""
                      /\ IF At(str, v[2]) \in Token(pat, v[1]).is
                         THEN scan[<<Token(pat, v[1]).next, v[2] + 1, v[3], v[4]>>]
                         ELSE ScanBack(str, scan, v)
            BY <1>3, <1>17, <1>19, RoundToken
        <3> QED  BY <1>4, <3>1
    <2>3. next \in p + 1 .. n + 1
        BY <1>17, <1>19, TokenNext
    <2> HIDE DEF n, p, s, bp, bs, next, is
    <2>4. CASE s = end
        <3>1. s \notin 1 .. Len(str)
            BY ONLY <1>2, <2>4
        <3> HIDE DEF end
        <3>2. s \notin from[p]
            BY ONLY <2>1, <3>1
        <3> QED  BY ONLY <1>5, <1>11, <1>13, <2>2, <2>4, <3>2
    <2> HIDE DEF end
    <2>5. CASE s # end /\ str[s] \notin is
        <3>1. s \notin from[p]
            BY ONLY <2>1, <2>5
        <3> QED  BY ONLY <1>5, <1>6, <1>11, <1>14, <2>2, <2>5, <3>1
    <2>6. CASE s # end /\ str[s] \in is
        <3>1. /\ s \in 1 .. Len(str) /\ s + 1 \in 1 .. end /\ s + 1 \in Nat /\ bs <= s + 1
              /\ next \in Nat /\ next \in 1 .. n + 1 /\ next > p /\ bs >= bs
            BY ONLY <1>1, <1>2, <1>3, <1>6, <2>3, <2>6 DEF end
        <3>2. w \in ScanDom
            BY ONLY <1>3, <3>1 DEF ScanDom
        <3>3. w[1] = next /\ w[2] = s + 1 /\ w[3] = bp /\ w[4] = bs
            OBVIOUS
        <3> HIDE DEF w
        <3>4. ASSUME bp # 0, NEW l \in from[bp], l >= bs PROVE l + ((s + 1) - bs) \in from[next]
            <4>1. l + (s - bs) \in from[p]
                BY ONLY <1>3, <3>4
            <4>2. l + (s - bs) + 1 \in from[next]
                BY ONLY <2>1, <4>1
            <4>3. l + (s - bs) + 1 = l + ((s + 1) - bs)
                BY ONLY <1>3, <1>9, <3>1, <3>4
            <4> QED  BY ONLY <4>2, <4>3
        <3>5. Kept(from, n, end, w)
            BY ONLY <1>3, <3>1, <3>2, <3>3, <3>4 DEF Kept
        <3>6. w[4] >= v[4] /\ w[1] > v[1]
            BY ONLY <3>1, <3>3 DEF p, bs
        <3>7. RoundsAfter(scan, from, n, end, v)
            BY DEF n, end
        <3>8. scan[w] <=> FoundFrom(from, w)
            BY ONLY <3>5, <3>6, <3>7 DEF RoundsAfter
        <3>9. FoundFrom(from, w) <=> s + 1 \in from[next] \/ Later(from, v)
            BY ONLY <1>10, <3>3 DEF FoundFrom, Later
        <3>10. s \in from[p] <=> s + 1 \in from[next]
            BY ONLY <2>1, <2>6, <3>1
        <3> QED  BY ONLY <1>5, <1>6, <1>11, <2>2, <2>6, <3>8, <3>9, <3>10
    <2> QED  BY <2>4, <2>5, <2>6
<1> QED  BY <1>16, <1>18, <1>19

\* For every pattern and every string: the loop, which goes back to the last * only,
\* accepts what the pattern means.
THEOREM GlobMatchesMeaning ==
    ASSUME NEW pat \in Seq(Alphabet), NEW str \in Seq(Alphabet)
    PROVE  GlobMatch(pat, str) <=> Matches(pat, str)
<1> DEFINE n == Len(pat)
           end == Len(str) + 1
<1>1. n \in Nat
    BY AtFacts
<1>2. Len(str) \in Nat
    BY AtFacts
<1>3. PICK scan : /\ GlobMatch(pat, str) <=> scan[<<1, 1, 0, 0>>]
                  /\ \A v \in ScanDom : scan[v] = ScanStep(pat, str, scan, v)
    BY ScanLoop
<1>4. PICK from : /\ Matches(pat, str) <=> 1 \in from[1]
                  /\ \A p \in 1 .. Len(pat) + 1 : from[p] = MatchesStep(pat, str, from, p)
    BY MatchesLoop
<1> DEFINE Wrong == {v \in ScanDom : Kept(from, n, end, v) /\ ~ (scan[v] <=> FoundFrom(from, v))}
<1>5. \A v : Kept(from, n, end, v) /\ RoundsAfter(scan, from, n, end, v) => (scan[v] <=> FoundFrom(from, v))
    BY <1>3, <1>4, RoundMeans
<1> HIDE DEF n, end
<1>6. \A v \in ScanDom : Kept(from, n, end, v) =>
          v[4] \in Nat /\ end - v[4] \in Nat /\ v[1] \in Nat /\ n + 1 - v[1] \in Nat
    <2> SUFFICES ASSUME NEW v \in ScanDom, Kept(from, n, end, v)
                 PROVE  v[4] \in Nat /\ end - v[4] \in Nat /\ v[1] \in Nat /\ n + 1 - v[1] \in Nat
        OBVIOUS
    <2>1. v[4] \in Nat
        BY DEF ScanDom
    <2>2. v[1] \in 1 .. n + 1 /\ v[2] \in 1 .. end /\ v[4] <= v[2]
        BY DEF Kept
    <2>3. end \in Nat
        BY <1>2 DEF end
    <2>4. \A k, l \in Nat : k \in 1 .. end /\ l <= k => end - l \in Nat
        BY ONLY <2>3
    <2>5. end - v[4] \in Nat
        <3>1. v[2] \in Nat
            BY DEF ScanDom
        <3> QED  BY ONLY <2>1, <2>2, <2>4, <3>1
    <2>6. \A k \in 1 .. n + 1 : k \in Nat /\ n + 1 - k \in Nat
        BY ONLY <1>1
    <2>7. v[1] \in Nat /\ n + 1 - v[1] \in Nat
        BY ONLY <2>2, <2>6
    <2> QED  BY ONLY <2>1, <2>5, <2>7
<1>7. Wrong = {}
    <2> SUFFICES ASSUME Wrong # {} PROVE FALSE
        OBVIOUS
    <2>1. \A v \in Wrong : /\ v \in ScanDom /\ Kept(from, n, end, v)
                           /\ v[4] \in Nat /\ end - v[4] \in Nat
                           /\ v[1] \in Nat /\ n + 1 - v[1] \in Nat
        BY <1>6
    <2>2. PICK x1 \in Wrong : \A y \in Wrong : end - x1[4] <= end - y[4]
        <3> DEFINE m == [v \in Wrong |-> end - v[4]]
        <3> HIDE DEF Wrong
        <3>1. m \in [Wrong -> Nat]
            BY <2>1
        <3>2. \A v \in Wrong : m[v] = end - v[4]
            OBVIOUS
        <3> HIDE DEF m
        <3>3. \E x \in Wrong : \A y \in Wrong : m[x] <= m[y]
            BY ONLY <3>1, Wrong # {}, LeastMeasure
        <3> QED  BY ONLY <3>2, <3>3
    <2> DEFINE Last == {v \in Wrong : v[4] = x1[4]}
    <2>3. PICK x \in Last : \A y \in Last : n + 1 - x[1] <= n + 1 - y[1]
        <3> DEFINE m == [v \in Last |-> n + 1 - v[1]]
        <3> HIDE DEF Wrong
        <3>1. m \in [Last -> Nat] /\ Last # {}
            BY <2>1
        <3>2. \A v \in Last : m[v] = n + 1 - v[1]
            OBVIOUS
        <3> HIDE DEF m, Last
        <3>3. \E x \in Last : \A y \in Last : m[x] <= m[y]
            BY ONLY <3>1, LeastMeasure
        <3> QED  BY ONLY <3>2, <3>3
    <2>4. x \in Wrong /\ x[4] = x1[4]
        OBVIOUS
    <2>5. end \in Int
        BY <1>2 DEF end
    <2>6. ASSUME NEW w \in Wrong, w[4] > x[4] \/ (w[4] >= x[4] /\ w[1] > x[1]) PROVE FALSE
        <3>1. w[4] \in Nat /\ w[1] \in Nat /\ x[4] \in Nat /\ x[1] \in Nat
            BY <2>1, <2>4
        <3>2. end - x[4] <= end - w[4]
            BY <2>2, <2>4
        <3>3. w[4] <= x[4]
            BY ONLY <2>5, <3>1, <3>2
        <3>4. w[4] = x[4] /\ w[1] > x[1]
            BY ONLY <2>6, <3>1, <3>3
        <3>5. w \in Last
            BY <2>4, <3>4
        <3>6. n + 1 - x[1] <= n + 1 - w[1]
            BY <2>3, <3>5
        <3> QED  BY ONLY <1>1, <3>1, <3>4, <3>6
    <2>7. RoundsAfter(scan, from, n, end, x)
        <3>1. \A w : Kept(from, n, end, w) => w \in ScanDom
            BY DEF Kept
        <3> QED  BY <2>6, <3>1 DEF RoundsAfter
    <2> QED  BY <1>5, <2>4, <2>7
<1> DEFINE v == <<1, 1, 0, 0>>
<1>8. v \in ScanDom /\ v[1] = 1 /\ v[2] = 1 /\ v[3] = 0 /\ v[4] = 0
    BY DEF ScanDom
<1> HIDE DEF v
<1>9. 1 \in 1 .. n + 1 /\ 1 \in 1 .. end /\ 0 <= 1
    BY ONLY <1>1, <1>2 DEF end
<1>10. Kept(from, n, end, v)
    BY ONLY <1>8, <1>9 DEF Kept
<1>11. scan[v] <=> FoundFrom(from, v)
    BY <1>7, <1>8, <1>10
<1>12. FoundFrom(from, v) <=> 1 \in from[1]
    BY ONLY <1>8 DEF FoundFrom, Later
<1> QED  BY <1>3, <1>4, <1>11, <1>12 DEF v

\* A pattern of plain characters and a final * accepts what begins with these characters.
THEOREM PrefixPattern ==
    ASSUME NEW x \in Seq(Alphabet), NEW str \in Seq(Alphabet),
           \A k \in 1 .. Len(x) : x[k] \notin {"*", "?", "[", "\\"}
    PROVE  GlobMatch(x \o <<"*">>, str)
               <=> Len(x) <= Len(str) /\ \A k \in 1 .. Len(x) : str[k] = x[k]
<1> DEFINE pat == x \o <<"*">>
           n == Len(x)
           m == Len(str)
<1>1. n \in Nat
    BY AtFacts
<1>2. m \in Nat
    BY AtFacts
<1>3. pat \in Seq(Alphabet) /\ Len(pat) = n + 1 /\ pat[n + 1] = "*"
      /\ \A k \in 1 .. n : pat[k] = x[k]
    <2>1. "*" \in Alphabet
        BY CharsAssumption
    <2> HIDE DEF Alphabet
    <2> QED  BY <2>1
<1>4. \A k \in 1 .. n : x[k] \notin {"*", "?", "[", "\\"}
    OBVIOUS
<1> HIDE DEF pat, n, m
<1>5. GlobMatch(pat, str) <=> Matches(pat, str)
    BY <1>3, GlobMatchesMeaning
<1>6. PICK from : /\ Matches(pat, str) <=> 1 \in from[1]
                  /\ \A p \in 1 .. Len(pat) + 1 : from[p] = MatchesStep(pat, str, from, p)
    BY <1>3, MatchesLoop
<1>7. \A p \in 1 .. n + 1 : from[p] = MatchesStep(pat, str, from, p) /\ p \in Nat
    <2>1. \A p \in 1 .. n + 1 : p \in 1 .. n + 1 + 1 /\ p \in Nat
        BY ONLY <1>1
    <2> QED  BY <1>3, <1>6, <2>1
<1> DEFINE Fits(k, p) == k + (n + 1 - p) <= m + 1 /\ \A j \in p .. n : str[k + (j - p)] = x[j]
           T == {p \in 1 .. n + 1 : \A k \in 1 .. m + 1 : k \in from[p] <=> Fits(k, p)}
<1>8. n + 1 \in T
    <2>1. from[n + 1 + 1] = {m + 1}
        <3>1. n + 1 + 1 \in 1 .. n + 1 + 1 /\ n + 1 + 1 > n + 1 /\ n + 1 + 1 # n + 1
            BY ONLY <1>1
        <3>2. Ended(pat, n + 1 + 1)
            BY <1>3, <3>1 DEF Ended
        <3>3. from[n + 1 + 1] = MatchesStep(pat, str, from, n + 1 + 1)
            BY <1>3, <1>6, <3>1
        <3> QED  BY <3>2, <3>3 DEF MatchesStep, m
    <2>2. n + 1 \in 1 .. n + 1 /\ ~ (n + 1 > n + 1)
        BY ONLY <1>1
    <2>3. ~ Ended(pat, n + 1)
        BY <1>3, <2>2 DEF Ended
    <2>4. from[n + 1] = MatchesStep(pat, str, from, n + 1)
        BY <1>7, <2>2
    <2>5. from[n + 1] = {k \in 1 .. m + 1 : \E l \in from[n + 1 + 1] : k <= l}
        BY ONLY <1>3, <2>3, <2>4 DEF MatchesStep, m
    <2>6. \A k \in 1 .. m + 1 : k <= m + 1 /\ k + (n + 1 - (n + 1)) <= m + 1
        BY ONLY <1>1, <1>2
    <2>7. \A j : j \notin n + 1 .. n
        BY ONLY <1>1
    <2>8. \A k \in 1 .. m + 1 : k \in from[n + 1] /\ Fits(k, n + 1)
        BY ONLY <2>1, <2>5, <2>6, <2>7
    <2> QED  BY <2>2, <2>8
<1>9. ASSUME NEW p \in 1 .. n, p + 1 \in T PROVE p \in T
    <2>1. /\ p \in 1 .. n + 1 /\ p # n + 1 /\ ~ (p > n + 1) /\ p \in Nat
          /\ p + 1 \in 1 .. n + 1 /\ p \in p .. n
          /\ \A k : k \in p .. n <=> k = p \/ k \in p + 1 .. n
        BY ONLY <1>1, p \in 1 .. n
    <2>2. ~ Ended(pat, p)
        BY <1>3, <2>1 DEF Ended
    <2>3. pat[p] = x[p] /\ x[p] \notin {"*", "?", "[", "\\"}
        BY <1>3, <1>4
    <2>4. Token(pat, p) = [is |-> {x[p]}, next |-> p + 1]
        BY <2>3, TokenForm DEF IsClass
    <2>5. from[p] = MatchesStep(pat, str, from, p)
        BY <1>7, <2>1
    <2>6. from[p] = {k \in 1 .. m : str[k] \in {x[p]} /\ k + 1 \in from[p + 1]}
        BY ONLY <2>2, <2>3, <2>4, <2>5 DEF MatchesStep, m
    <2>7. ASSUME NEW k \in 1 .. m PROVE k + 1 \in from[p + 1] <=> Fits(k + 1, p + 1)
        <3>1. k + 1 \in 1 .. m + 1
            BY ONLY <1>2, k \in 1 .. m
        <3> HIDE DEF Fits
        <3> QED  BY <1>9, <3>1
    <2>8. ASSUME NEW k \in 1 .. m PROVE str[k] = x[p] /\ Fits(k + 1, p + 1) <=> Fits(k, p)
        <3>1. k + 1 + (n + 1 - (p + 1)) = k + (n + 1 - p) /\ k + (p - p) = k
            BY ONLY <1>1, <1>2, <2>1, k \in 1 .. m
        <3>2. \A j \in p + 1 .. n : k + 1 + (j - (p + 1)) = k + (j - p)
            BY ONLY <1>1, <1>2, <2>1, k \in 1 .. m
        <3>3. Fits(k + 1, p + 1) <=> /\ k + (n + 1 - p) <= m + 1
                                     /\ \A j \in p + 1 .. n : str[k + (j - p)] = x[j]
            BY ONLY <3>1, <3>2
        <3> QED  BY ONLY <2>1, <3>1, <3>3
    <2>9. \A k \in 1 .. m + 1 : k \notin 1 .. m => ~ (k + (n + 1 - p) <= m + 1)
        BY ONLY <1>1, <1>2, <2>1, p \in 1 .. n
    <2>10. \A k \in 1 .. m + 1 : k \in from[p] <=> Fits(k, p)
        <3> TAKE k \in 1 .. m + 1
        <3>1. CASE k \in 1 .. m
            <4>1. k \in from[p] <=> str[k] = x[p] /\ k + 1 \in from[p + 1]
                BY ONLY <2>6, <3>1
            <4> HIDE DEF Fits
            <4> QED  BY <2>7, <2>8, <3>1, <4>1
        <3>2. CASE k \notin 1 .. m
            BY ONLY <2>6, <2>9, <3>2, k \in 1 .. m + 1
        <3> QED  BY <3>1, <3>2
    <2> QED  BY <2>1, <2>10
<1> HIDE DEF T
<1>10. 1 .. n + 1 \subseteq T
    <2>1. ASSUME NEW p \in 1 .. n + 1, \A j \in 1 .. n + 1 : j > p => j \in T PROVE p \in T
        <3>1. CASE p = n + 1
            BY <1>8, <3>1
        <3>2. CASE p # n + 1
            <4>1. p \in 1 .. n /\ p + 1 \in 1 .. n + 1 /\ p + 1 > p
                BY ONLY <1>1, <3>2, p \in 1 .. n + 1
            <4> QED  BY <1>9, <2>1, <4>1
        <3> QED  BY <3>1, <3>2
    <2>2. 1 \in Nat /\ n + 1 \in Nat
        BY ONLY <1>1
    <2> QED  BY ONLY <2>1, <2>2, InductDown
<1>11. 1 \in from[1] <=> Fits(1, 1)
    <2>1. 1 \in 1 .. n + 1 /\ 1 \in 1 .. m + 1
        BY ONLY <1>1, <1>2
    <2> HIDE DEF Fits
    <2> QED  BY <1>10, <2>1 DEF T
<1>12. Fits(1, 1) <=> n <= m /\ \A k \in 1 .. n : str[k] = x[k]
    <2>1. \A j \in 1 .. n : 1 + (j - 1) = j
        BY ONLY <1>1
    <2>2. 1 + (n + 1 - 1) <= m + 1 <=> n <= m
        BY ONLY <1>1, <1>2
    <2> QED  BY ONLY <2>1, <2>2
<1> QED  BY <1>5, <1>6, <1>11, <1>12 DEF pat, n, m
=============================================================================
