---------------------------- MODULE WsSite_proofs ----------------------------
(***************************************************************************)
(* Proofs about WsConfig and WsSite.                                       *)
(***************************************************************************)
EXTENDS WsSiteInvariant, WsGlob_proofs, SequenceTheorems, FiniteSetTheorems, TLAPS

-----------------------------------------------------------------------------
(* Recursive functions.                                                       *)

\* A value is computed by stepping through 1 .. n from v0.
LEMMA Recursion ==
    ASSUME NEW V, NEW v0 \in V, NEW n \in Nat, NEW G \in [1 .. n -> [V -> V]]
    PROVE  \E f \in [0 .. n -> V] : f[0] = v0 /\ \A k \in 1 .. n : f[k] = G[k][f[k - 1]]
<1> DEFINE Upto(f, m) == /\ f \in [0 .. m -> V] /\ f[0] = v0
                         /\ \A k \in 1 .. m : f[k] = G[k][f[k - 1]]
           T == {m \in 0 .. n : \E f : Upto(f, m)}
<1>1. 0 \in T
    <2> DEFINE z == [k \in 0 .. 0 |-> v0]
    <2>1. Upto(z, 0)
        OBVIOUS
    <2> HIDE DEF z
    <2> QED  BY <2>1
<1>2. ASSUME NEW m \in 1 .. n, m - 1 \in T PROVE m \in T
    <2>1. PICK f : Upto(f, m - 1)
        BY <1>2
    <2>2. f[m - 1] \in V
        BY <2>1
    <2> DEFINE v == G[m][f[m - 1]]
    <2>3. v \in V
        BY <2>2
    <2> HIDE DEF v
    <2> DEFINE g == [k \in 0 .. m |-> IF k = m THEN v ELSE f[k]]
    <2>4. g \in [0 .. m -> V] /\ g[0] = v0
        BY <2>1, <2>3
    <2>5. \A k \in 1 .. m : g[k] = G[k][g[k - 1]]
        <3> TAKE k \in 1 .. m
        <3>1. CASE k = m
            <4>1. g[k] = v /\ g[k - 1] = f[m - 1]
                BY <3>1
            <4> QED  BY <4>1, <3>1 DEF v
        <3>2. CASE k # m
            <4>1. g[k] = f[k] /\ g[k - 1] = f[k - 1] /\ k \in 1 .. (m - 1)
                BY <3>2
            <4> QED  BY <4>1, <2>1
        <3> QED  BY <3>1, <3>2
    <2>6. Upto(g, m)
        BY <2>4, <2>5
    <2> HIDE DEF g, Upto
    <2> QED  BY <2>6
<1> HIDE DEF T
<1>3. 0 .. n \subseteq T
    BY <1>1, <1>2, Induct
<1>4. n \in T
    BY <1>3
<1> QED  BY <1>4 DEF T

-----------------------------------------------------------------------------
(* Among: the filesystems of a set, in the order of names.                    *)

LEMMA FsOrderSeq ==
    /\ Len(FsOrder) \in Nat /\ DOMAIN FsOrder = 1 .. Len(FsOrder)
    /\ FsOrder \in [1 .. Len(FsOrder) -> Fs]
BY ConfigAssumption DEF Fs, ToSet

\* The loop of Among, as a function of the number of filesystems met.
LEMMA AmongLoop ==
    ASSUME NEW S
    PROVE  \E met \in [0 .. Len(FsOrder) -> Seq(Fs)] :
            /\ met[0] = <<>> /\ Among(S) = met[Len(FsOrder)]
            /\ \A k \in 1 .. Len(FsOrder) :
                met[k] = IF FsOrder[k] \in S THEN Append(met[k - 1], FsOrder[k]) ELSE met[k - 1]
<1> DEFINE n == Len(FsOrder)
           V == Seq(Fs)
           v0 == <<>>
           Step(v, k) == IF FsOrder[k] \in S THEN Append(v, FsOrder[k]) ELSE v
           G == [k \in 1 .. n |-> [v \in V |-> Step(v, k)]]
           IsLoop(h) == h = [k \in 0 .. n |-> IF k = 0 THEN v0 ELSE Step(h[k - 1], k)]
           met == CHOOSE h : IsLoop(h)
<1>1. \A k \in 1 .. n : \A v \in V : Step(v, k) \in V
    BY FsOrderSeq
<1>2. n \in Nat /\ v0 \in V
    BY FsOrderSeq
<1>3. Among(S) = met[n]
    BY DEF Among
<1> HIDE DEF n, Step, V, v0
<1>4. G \in [1 .. n -> [V -> V]]
    BY <1>1
<1>5. \A k \in 1 .. n : \A v \in V : G[k][v] = Step(v, k)
    OBVIOUS
<1> HIDE DEF G
<1>6. PICK f \in [0 .. n -> V] :
            f[0] = v0 /\ \A k \in 1 .. n : f[k] = G[k][f[k - 1]]
    BY <1>2, <1>4, Recursion
<1>7. \A k \in 1 .. n : f[k] = Step(f[k - 1], k)
    <2> TAKE k \in 1 .. n
    <2>1. f[k - 1] \in V
        BY <1>2, <1>6
    <2> QED  BY <2>1, <1>5, <1>6
<1>8. IsLoop(f)
    BY <1>2, <1>6, <1>7
<1>9. IsLoop(met)
    BY <1>8
<1> HIDE DEF met
<1>10. met[0] = v0 /\ \A k \in 1 .. n : met[k] = Step(met[k - 1], k)
    BY <1>2, <1>9
<1> DEFINE T == {k \in 0 .. n : met[k] \in V}
<1>11. 0 \in T
    BY <1>2, <1>10
<1>12. ASSUME NEW k \in 1 .. n, k - 1 \in T PROVE k \in T
    BY <1>1, <1>10, <1>12
<1> HIDE DEF T
<1>13. 0 .. n \subseteq T
    BY <1>2, <1>11, <1>12, Induct
<1>14. met \in [0 .. n -> V]
    <2>1. \A k \in 0 .. n : met[k] \in V
        BY <1>13 DEF T
    <2>2. met = [k \in 0 .. n |-> met[k]]
        BY <1>9
    <2> QED  BY <2>1, <2>2
<1> QED  BY <1>3, <1>10, <1>14 DEF n, Step, V, v0

\* A position of a sequence with one more element.
LEMMA AppendAt ==
    ASSUME NEW V, NEW v \in Seq(V), NEW x \in V
    PROVE  /\ Append(v, x) \in Seq(V) /\ Len(v) \in Nat /\ Len(Append(v, x)) = Len(v) + 1
           /\ \A i \in 1 .. Len(v) : Append(v, x)[i] = v[i]
           /\ Append(v, x)[Len(v) + 1] = x
OBVIOUS

\* Among(S) holds every filesystem of S exactly once.
LEMMA AmongContents ==
    ASSUME NEW S
    PROVE  /\ Among(S) \in Seq(Fs) /\ ToSet(Among(S)) = S \cap Fs
           /\ \A i, j \in 1 .. Len(Among(S)) : Among(S)[i] = Among(S)[j] => i = j
<1> DEFINE n == Len(FsOrder)
<1>1. PICK met \in [0 .. n -> Seq(Fs)] :
            /\ met[0] = <<>> /\ Among(S) = met[n]
            /\ \A k \in 1 .. n :
                met[k] = IF FsOrder[k] \in S THEN Append(met[k - 1], FsOrder[k]) ELSE met[k - 1]
    BY AmongLoop
<1>2. n \in Nat /\ FsOrder \in [1 .. n -> Fs] /\ DOMAIN FsOrder = 1 .. n
    BY FsOrderSeq
<1> HIDE DEF n
<1> DEFINE Holds(v, k) == \A f : (\E i \in 1 .. Len(v) : v[i] = f)
                                 <=> f \in S /\ \E j \in 1 .. k : FsOrder[j] = f
           Once(v) == \A i, j \in 1 .. Len(v) : v[i] = v[j] => i = j
           T == {k \in 0 .. n : Holds(met[k], k) /\ Once(met[k])}
<1>3. 0 \in T
    <2>1. Holds(<<>>, 0) /\ Once(<<>>)
        OBVIOUS
    <2> HIDE DEF Holds, Once
    <2> QED  BY <1>1, <1>2, <2>1
<1>4. ASSUME NEW k \in 1 .. n, k - 1 \in T PROVE k \in T
    <2> DEFINE v == met[k - 1]
               x == FsOrder[k]
    <2>1. v \in Seq(Fs) /\ x \in Fs /\ k - 1 \in 0 .. n /\ k \in 0 .. n
        BY <1>1, <1>2
    <2>2. Holds(v, k - 1) /\ Once(v)
        BY <1>4
    <2>3. \A j \in 1 .. k : j \in 1 .. (k - 1) \/ j = k
        OBVIOUS
    <2>4. met[k] = IF x \in S THEN Append(v, x) ELSE v
        BY <1>1
    <2>5. \A j \in 1 .. (k - 1) : FsOrder[j] # x
        <3>1. \A j \in 1 .. (k - 1) : j \in 1 .. n /\ j # k
            BY <1>2
        <3> QED  BY <3>1, <1>2, ConfigAssumption DEF IsInjective
    <2> HIDE DEF v, x
    <2>6. CASE x \in S
        <3> DEFINE w == Append(v, x)
        <3>1. /\ Len(v) \in Nat /\ Len(w) = Len(v) + 1 /\ w[Len(v) + 1] = x
              /\ \A i \in 1 .. Len(v) : w[i] = v[i]
            BY <2>1, AppendAt
        <3> HIDE DEF w
        <3>2. Holds(w, k)
            <4> TAKE f
            <4>1. (\E i \in 1 .. Len(w) : w[i] = f) <=> f = x \/ \E i \in 1 .. Len(v) : v[i] = f
                BY <3>1
            <4>2. (\E j \in 1 .. k : FsOrder[j] = f)
                  <=> f = x \/ \E j \in 1 .. (k - 1) : FsOrder[j] = f
                BY <2>3 DEF x
            <4> QED  BY <4>1, <4>2, <2>2, <2>6
        <3>3. \A i \in 1 .. Len(v) : v[i] # x
            BY <2>2, <2>5
        <3>4. Once(w)
            BY <3>1, <3>3, <2>2
        <3> HIDE DEF Holds, Once
        <3> QED  BY <3>2, <3>4, <2>1, <2>4, <2>6 DEF w
    <2>7. CASE x \notin S
        <3>1. Holds(v, k)
            <4> TAKE f
            <4>1. f \in S => ((\E j \in 1 .. k : FsOrder[j] = f)
                              <=> \E j \in 1 .. (k - 1) : FsOrder[j] = f)
                BY <2>3, <2>7 DEF x
            <4> QED  BY <4>1, <2>2
        <3> HIDE DEF Holds, Once
        <3> QED  BY <3>1, <2>1, <2>2, <2>4, <2>7
    <2> QED  BY <2>6, <2>7
<1> HIDE DEF T
<1>5. 0 .. n \subseteq T
    BY <1>2, <1>3, <1>4, Induct
<1>6. Holds(met[n], n) /\ Once(met[n]) /\ met[n] \in Seq(Fs)
    <2>1. n \in T /\ met[n] \in Seq(Fs)
        BY <1>1, <1>2, <1>5
    <2> HIDE DEF Holds, Once
    <2> QED  BY <2>1 DEF T
<1>7. ToSet(met[n]) = S \cap Fs
    <2>1. ToSet(met[n]) = {met[n][i] : i \in 1 .. Len(met[n])}
        BY <1>6 DEF ToSet
    <2>2. \A f : f \in Fs <=> \E j \in 1 .. n : FsOrder[j] = f
        BY <1>2 DEF Fs, ToSet
    <2> QED  BY <2>1, <2>2, <1>6
<1> QED  BY <1>1, <1>6, <1>7

\* Concatenation adds the elements of the second sequence behind those of the first.
LEMMA ConcatContents ==
    ASSUME NEW a \in Seq(Fs), NEW b \in Seq(Fs)
    PROVE  a \o b \in Seq(Fs) /\ ToSet(a \o b) = ToSet(a) \cup ToSet(b)
<1>1. /\ a \o b \in Seq(Fs) /\ Len(a \o b) = Len(a) + Len(b) /\ Len(a) \in Nat /\ Len(b) \in Nat
      /\ \A i \in 1 .. Len(a) : (a \o b)[i] = a[i]
      /\ \A i \in 1 .. Len(b) : (a \o b)[Len(a) + i] = b[i]
    OBVIOUS
<1>2. /\ ToSet(a) = {a[i] : i \in 1 .. Len(a)} /\ ToSet(b) = {b[i] : i \in 1 .. Len(b)}
      /\ ToSet(a \o b) = {(a \o b)[i] : i \in 1 .. Len(a \o b)}
    BY <1>1 DEF ToSet
<1> DEFINE c == a \o b
<1> HIDE DEF c
<1>3. /\ Len(c) = Len(a) + Len(b) /\ Len(a) \in Nat /\ Len(b) \in Nat
      /\ \A i \in 1 .. Len(a) : c[i] = a[i]
      /\ \A i \in 1 .. Len(b) : c[Len(a) + i] = b[i]
    BY <1>1 DEF c
<1>4. ASSUME NEW i \in 1 .. Len(c) PROVE c[i] \in ToSet(a) \cup ToSet(b)
    <2>1. CASE i \in 1 .. Len(a)
        BY <2>1, <1>2, <1>3
    <2>2. CASE i \notin 1 .. Len(a)
        <3>1. i - Len(a) \in 1 .. Len(b) /\ c[i] = b[i - Len(a)]
            BY <2>2, <1>3
        <3> QED  BY <3>1, <1>2
    <2> QED  BY <2>1, <2>2
<1>5. ASSUME NEW x \in ToSet(a) \cup ToSet(b) PROVE \E i \in 1 .. Len(c) : x = c[i]
    <2>1. CASE x \in ToSet(a)
        BY <2>1, <1>2, <1>3
    <2>2. CASE x \in ToSet(b)
        <3>1. PICK j \in 1 .. Len(b) : x = b[j]
            BY <2>2, <1>2
        <3>2. Len(a) + j \in 1 .. Len(c) /\ c[Len(a) + j] = x
            BY <3>1, <1>3
        <3> QED  BY <3>2
    <2> QED  BY <2>1, <2>2
<1>6. ToSet(c) = ToSet(a) \cup ToSet(b)
    <2>1. ToSet(c) = {c[i] : i \in 1 .. Len(c)}
        BY <1>2 DEF c
    <2> QED  BY <2>1, <1>4, <1>5
<1> QED  BY <1>1, <1>6 DEF c

\* FirstFs(S) is a filesystem of S, or nothing if there is none.
LEMMA FirstFsContents ==
    ASSUME NEW S
    PROVE  /\ FirstFs(S) \in Seq(Fs)
           /\ \/ FirstFs(S) = <<>> /\ S \cap Fs = {} /\ ToSet(FirstFs(S)) = {}
              \/ \E f \in S \cap Fs : FirstFs(S) = <<f>> /\ ToSet(FirstFs(S)) = {f}
<1> DEFINE a == Among(S)
<1>1. a \in Seq(Fs) /\ ToSet(a) = S \cap Fs /\ FirstFs(S) = IF a = <<>> THEN <<>> ELSE <<Head(a)>>
    BY AmongContents DEF FirstFs
<1> HIDE DEF a
<1>2. ToSet(<<>>) = {}
    BY DEF ToSet
<1>3. CASE a = <<>>
    BY <1>1, <1>2, <1>3
<1>4. CASE a # <<>>
    <2>1. Head(a) \in ToSet(a) /\ Head(a) \in Fs
        BY <1>1, <1>4, HeadTailProperties DEF ToSet
    <2>2. \A f \in Fs : <<f>> \in Seq(Fs) /\ ToSet(<<f>>) = {f}
        BY DEF ToSet
    <2> QED  BY <1>1, <1>4, <2>1, <2>2
<1> QED  BY <1>3, <1>4

\* What validFilesystems puts together: the user default a, the group default b, the global
\* default g, each at most one filesystem and not again, and all the others, r.
Parts(c, u, groups, ok, a, b, g, r) ==
    /\ \/ /\ a = <<>> /\ ToSet(a) = {}
          /\ ~ \E f \in ok : Contains(c.fs[f].userdefault, u)
       \/ \E f \in ok : /\ a = <<f>> /\ ToSet(a) = {f}
                        /\ Contains(c.fs[f].userdefault, u)
    /\ \/ /\ b = <<>> /\ ToSet(b) = {}
          /\ ~ \E f \in ok \ ToSet(a) :
                \E h \in groups : Contains(c.fs[f].groupdefault, h)
       \/ \E f \in ok \ ToSet(a) :
                /\ b = <<f>> /\ ToSet(b) = {f}
                /\ \E h \in groups : Contains(c.fs[f].groupdefault, h)
    /\ \/ /\ g = <<>> /\ ToSet(g) = {}
          /\ c.global.default \notin ok \ (ToSet(a) \cup ToSet(b))
       \/ /\ c.global.default \in ok \ (ToSet(a) \cup ToSet(b))
          /\ g = <<c.global.default>> /\ ToSet(g) = {c.global.default}
    /\ ToSet(r) = ok \ (ToSet(a) \cup ToSet(b) \cup ToSet(g))
    /\ \A i, j \in 1 .. Len(r) : r[i] = r[j] => i = j

LEMMA ValidParts ==
    ASSUME NEW c, NEW u, NEW groups, NEW intent, NEW ok,
           ok = {f \in DOMAIN c.fs : HasAccess(c, u, groups, f, intent)}, ok \subseteq Fs
    PROVE  \E a, b, g, r \in Seq(Fs) :
            /\ ValidFilesystems(c, u, groups, intent) = ((a \o b) \o g) \o r
            /\ Parts(c, u, groups, ok, a, b, g, r)
<1> DEFINE A == {f \in ok : Contains(c.fs[f].userdefault, u)}
           a == FirstFs(A)
           B == {f \in ok \ ToSet(a) : \E h \in groups : Contains(c.fs[f].groupdefault, h)}
           b == FirstFs(B)
           G == (ok \cap {c.global.default}) \ ToSet(a \o b)
           g == FirstFs(G)
           R == ok \ ToSet(a \o b \o g)
           r == Among(R)
<1>1. ValidFilesystems(c, u, groups, intent) = ((a \o b) \o g) \o r
    BY DEF ValidFilesystems
<1>2. /\ a \in Seq(Fs)
      /\ \/ a = <<>> /\ A = {} /\ ToSet(a) = {}
         \/ \E f \in A : a = <<f>> /\ ToSet(a) = {f}
    <2>1. A \cap Fs = A
        OBVIOUS
    <2> HIDE DEF A
    <2> QED  BY <2>1, FirstFsContents
<1>3. /\ b \in Seq(Fs)
      /\ \/ b = <<>> /\ B = {} /\ ToSet(b) = {}
         \/ \E f \in B : b = <<f>> /\ ToSet(b) = {f}
    <2>1. B \cap Fs = B
        OBVIOUS
    <2> HIDE DEF B
    <2> QED  BY <2>1, FirstFsContents
<1>4. /\ g \in Seq(Fs)
      /\ \/ g = <<>> /\ G = {} /\ ToSet(g) = {}
         \/ \E f \in G : g = <<f>> /\ ToSet(g) = {f}
    <2>1. G \cap Fs = G
        OBVIOUS
    <2> HIDE DEF G
    <2> QED  BY <2>1, FirstFsContents
<1>5. /\ r \in Seq(Fs) /\ ToSet(r) = R
      /\ \A i, j \in 1 .. Len(r) : r[i] = r[j] => i = j
    <2>1. R \cap Fs = R
        OBVIOUS
    <2> HIDE DEF R
    <2> QED  BY <2>1, AmongContents
<1>6. ToSet(a \o b) = ToSet(a) \cup ToSet(b) /\ a \o b \in Seq(Fs)
    BY <1>2, <1>3, ConcatContents
<1>7. ToSet((a \o b) \o g) = ToSet(a) \cup ToSet(b) \cup ToSet(g)
    BY ZenonT(40), <1>4, <1>6, ConcatContents
<1> HIDE DEF a, b, g, r
<1>8. \/ /\ a = <<>> /\ ToSet(a) = {}
         /\ ~ \E f \in ok : Contains(c.fs[f].userdefault, u)
      \/ \E f \in ok : /\ a = <<f>> /\ ToSet(a) = {f}
                       /\ Contains(c.fs[f].userdefault, u)
    BY <1>2
<1>9. \/ /\ b = <<>> /\ ToSet(b) = {}
         /\ ~ \E f \in ok \ ToSet(a) :
               \E h \in groups : Contains(c.fs[f].groupdefault, h)
      \/ \E f \in ok \ ToSet(a) :
               /\ b = <<f>> /\ ToSet(b) = {f}
               /\ \E h \in groups : Contains(c.fs[f].groupdefault, h)
    BY <1>3
<1>10. \/ /\ g = <<>> /\ ToSet(g) = {}
          /\ c.global.default \notin ok \ (ToSet(a) \cup ToSet(b))
       \/ /\ c.global.default \in ok \ (ToSet(a) \cup ToSet(b))
          /\ g = <<c.global.default>> /\ ToSet(g) = {c.global.default}
    BY <1>4, <1>6
<1>11. ToSet(r) = ok \ (ToSet(a) \cup ToSet(b) \cup ToSet(g))
    BY <1>5, <1>7
<1>12. Parts(c, u, groups, ok, a, b, g, r)
    BY <1>5, <1>8, <1>9, <1>10, <1>11 DEF Parts
<1> QED  BY <1>1, <1>2, <1>3, <1>4, <1>5, <1>12

\* Whatever the configuration says, validFilesystems lists names of filesystems.
LEMMA ValidSeq ==
    ASSUME NEW c, NEW u, NEW groups, NEW intent
    PROVE  ValidFilesystems(c, u, groups, intent) \in Seq(Fs)
<1> DEFINE ok == {f \in DOMAIN c.fs : HasAccess(c, u, groups, f, intent)}
           a == FirstFs({f \in ok : Contains(c.fs[f].userdefault, u)})
           b == FirstFs({f \in ok \ ToSet(a) : \E h \in groups : Contains(c.fs[f].groupdefault, h)})
           g == FirstFs((ok \cap {c.global.default}) \ ToSet(a \o b))
           r == Among(ok \ ToSet(a \o b \o g))
<1>1. ValidFilesystems(c, u, groups, intent) = ((a \o b) \o g) \o r
    BY DEF ValidFilesystems
<1>2. a \in Seq(Fs) /\ b \in Seq(Fs) /\ g \in Seq(Fs) /\ r \in Seq(Fs)
    BY FirstFsContents, AmongContents
<1> HIDE DEF a, b, g, r
<1>3. a \o b \in Seq(Fs)
    BY <1>2
<1>4. (a \o b) \o g \in Seq(Fs)
    BY <1>2, <1>3
<1> QED  BY <1>1, <1>2, <1>4

\* No element occurs twice; the ranks do not decrease.
Once(v) == \A j, k \in 1 .. Len(v) : v[j] = v[k] => j = k

Sorted(v, rank) == \A j, k \in 1 .. Len(v) : j < k => rank[v[j]] <= rank[v[k]]

\* In which of two sequences, one behind the other, a position lies.
LEMMA ConcatAt ==
    ASSUME NEW a \in Seq(Fs), NEW b \in Seq(Fs), NEW c, c = a \o b, NEW k \in 1 .. Len(c)
    PROVE  /\ Len(a) \in Nat /\ Len(b) \in Nat /\ k \in Nat
           /\ \/ k \in 1 .. Len(a) /\ c[k] = a[k] /\ c[k] \in ToSet(a)
              \/ k - Len(a) \in 1 .. Len(b) /\ c[k] = b[k - Len(a)] /\ c[k] \in ToSet(b)
<1>1. /\ Len(c) = Len(a) + Len(b) /\ Len(a) \in Nat /\ Len(b) \in Nat
      /\ c[k] = IF k <= Len(a) THEN a[k] ELSE b[k - Len(a)]
    OBVIOUS
<1>2. DOMAIN a = 1 .. Len(a) /\ DOMAIN b = 1 .. Len(b)
    OBVIOUS
<1>3. CASE k <= Len(a)
    BY <1>1, <1>2, <1>3 DEF ToSet
<1>4. CASE ~ (k <= Len(a))
    <2>1. k - Len(a) \in 1 .. Len(b) /\ c[k] = b[k - Len(a)]
        BY <1>1, <1>4
    <2> QED  BY <2>1, <1>1, <1>2 DEF ToSet
<1> QED  BY <1>3, <1>4

LEMMA ConcatOnce ==
    ASSUME NEW a \in Seq(Fs), NEW b \in Seq(Fs), Once(a), Once(b), ToSet(a) \cap ToSet(b) = {}
    PROVE  Once(a \o b)
<1> DEFINE c == a \o b
<1>1. SUFFICES ASSUME NEW j \in 1 .. Len(c), NEW k \in 1 .. Len(c), c[j] = c[k] PROVE j = k
    BY DEF Once
<1> DEFINE At1(m) == m \in 1 .. Len(a) /\ c[m] = a[m] /\ c[m] \in ToSet(a)
           At2(m) == m - Len(a) \in 1 .. Len(b) /\ c[m] = b[m - Len(a)] /\ c[m] \in ToSet(b)
<1>2. Len(a) \in Nat /\ Len(b) \in Nat /\ j \in Nat /\ (At1(j) \/ At2(j))
    BY ConcatAt
<1>3. k \in Nat /\ (At1(k) \/ At2(k))
    BY ConcatAt
<1> HIDE DEF c
<1>4. CASE At1(j) /\ At1(k)
    BY <1>1, <1>4 DEF Once
<1>5. CASE At2(j) /\ At2(k)
    <2>1. j - Len(a) = k - Len(a)
        BY <1>1, <1>5 DEF Once
    <2> QED  BY <2>1, <1>2, <1>3
<1> QED  BY <1>1, <1>2, <1>3, <1>4, <1>5

LEMMA ConcatSorted ==
    ASSUME NEW a \in Seq(Fs), NEW b \in Seq(Fs), NEW rank \in [Fs -> Nat],
           Sorted(a, rank), Sorted(b, rank),
           \A x \in ToSet(a) : \A y \in ToSet(b) : rank[x] <= rank[y]
    PROVE  Sorted(a \o b, rank)
<1> DEFINE c == a \o b
<1>1. SUFFICES ASSUME NEW j \in 1 .. Len(c), NEW k \in 1 .. Len(c), j < k
               PROVE  rank[c[j]] <= rank[c[k]]
    BY DEF Sorted
<1> DEFINE At1(m) == m \in 1 .. Len(a) /\ c[m] = a[m] /\ c[m] \in ToSet(a)
           At2(m) == m - Len(a) \in 1 .. Len(b) /\ c[m] = b[m - Len(a)] /\ c[m] \in ToSet(b)
<1>2. Len(a) \in Nat /\ Len(b) \in Nat /\ j \in Nat /\ (At1(j) \/ At2(j))
    BY ConcatAt
<1>3. k \in Nat /\ (At1(k) \/ At2(k))
    BY ConcatAt
<1> HIDE DEF c
<1>4. CASE At1(j) /\ At1(k)
    BY <1>1, <1>4 DEF Sorted
<1>5. CASE At2(j) /\ At2(k)
    <2>1. j - Len(a) < k - Len(a)
        BY <1>1, <1>2, <1>3
    <2> QED  BY <2>1, <1>5 DEF Sorted
<1>6. CASE At1(j) /\ At2(k)
    BY <1>6
<1>7. CASE At2(j) /\ At1(k)
    BY <1>1, <1>2, <1>3, <1>7
<1> QED  BY <1>2, <1>3, <1>4, <1>5, <1>6, <1>7

\* A set with at most one element has no two.
LEMMA AtMostOne ==
    ASSUME NEW S, IsFiniteSet(S), Cardinality(S) <= 1, NEW x \in S, NEW y \in S
    PROVE  x = y
<1>1. Cardinality(S) \in Nat /\ S # {}
    BY FS_CardinalityType
<1>2. Cardinality(S) = 1
    BY <1>1, FS_EmptySet
<1>3. PICK z : S = {z}
    BY <1>2, FS_Singleton
<1> QED  BY <1>3

\* validFilesystems lists what the user may use, everything once.
LEMMA ValidContents ==
    ASSUME NEW c, NEW u, NEW groups, NEW intent, NEW ok,
           ok = {f \in DOMAIN c.fs : HasAccess(c, u, groups, f, intent)}, ok \subseteq Fs,
           NEW v, v = ValidFilesystems(c, u, groups, intent)
    PROVE  ToSet(v) = ok /\ Once(v)
<1>1. PICK a, b, g, r \in Seq(Fs) : v = ((a \o b) \o g) \o r /\ Parts(c, u, groups, ok, a, b, g, r)
    BY ValidParts
<1>2. Once(<<>>) /\ \A f : Once(<<f>>)
    BY DEF Once
<1>3. /\ ToSet(a) \cap ToSet(b) = {} /\ (ToSet(a) \cup ToSet(b)) \cap ToSet(g) = {}
      /\ ToSet(r) = ok \ (ToSet(a) \cup ToSet(b) \cup ToSet(g))
      /\ ToSet(a) \cup ToSet(b) \cup ToSet(g) \subseteq ok
    BY <1>1 DEF Parts
<1>4. Once(a) /\ Once(b) /\ Once(g)
    <2>1. (a = <<>> \/ \E f : a = <<f>>) /\ (b = <<>> \/ \E f : b = <<f>>)
          /\ (g = <<>> \/ \E f : g = <<f>>)
        BY <1>1 DEF Parts
    <2> QED  BY <2>1, <1>2
<1>5. Once(r)
    BY <1>1 DEF Parts, Once
<1> DEFINE ab == a \o b
           abg == ab \o g
<1>6. ab \in Seq(Fs) /\ ToSet(ab) = ToSet(a) \cup ToSet(b) /\ Once(ab)
    BY <1>3, <1>4, ConcatContents, ConcatOnce
<1> HIDE DEF ab
<1>7. abg \in Seq(Fs) /\ ToSet(abg) = ToSet(ab) \cup ToSet(g) /\ Once(abg)
    BY <1>3, <1>4, <1>6, ConcatContents, ConcatOnce
<1> HIDE DEF abg
<1>8. ToSet(abg \o r) = ToSet(abg) \cup ToSet(r) /\ Once(abg \o r)
    BY <1>3, <1>5, <1>6, <1>7, ConcatContents, ConcatOnce
<1> QED  BY <1>1, <1>3, <1>6, <1>7, <1>8 DEF ab, abg

-----------------------------------------------------------------------------
(* Processes.                                                                 *)

\* Every field of a process.
ProcFields == {"mode", "caller", "callerGroups", "euid", "egid", "groups", "eff", "perm",
               "dbset", "alive"}

LEMMA IdleProc == DOMAIN Idle.proc = ProcFields
BY DEF Idle, Started, ProcFields

\* The process of a privileged tool at its start.
LEMMA PrivilegedLowered ==
    ASSUME NEW s \in Sessions, site.mode \in Modes, NEW p,
           p = Privileged(s, {"DAC_OVERRIDE", "CHOWN", "FOWNER"})
    PROVE  Lowered(s, p) /\ p.groups = MemberOf[Me(s)]
<1> DEFINE caps == {"DAC_OVERRIDE", "CHOWN", "FOWNER"}
           q == Started(site.mode, Me(s), MemberOf[Me(s)])
<1>1. /\ DOMAIN q = ProcFields /\ q.mode = site.mode /\ q.caller = Me(s)
      /\ q.callerGroups = MemberOf[Me(s)] /\ q.egid = Me(s) /\ q.groups = MemberOf[Me(s)]
      /\ q.eff = {} /\ q.alive = TRUE
      /\ q.mode = "caps" => q.perm = FileCaps
      /\ q.mode # "setuid" => q.euid = Me(s)
    BY DEF Started, ProcFields
<1> HIDE DEF q
<1> DEFINE d == DropCaps(q, caps)
<1>2. /\ DOMAIN d = ProcFields /\ d.mode = site.mode /\ d.caller = Me(s)
      /\ d.callerGroups = MemberOf[Me(s)] /\ d.egid = Me(s) /\ d.groups = MemberOf[Me(s)]
      /\ d.eff = {} /\ d.alive = TRUE
      /\ d.mode = "caps" => d.perm = caps
      /\ d.euid = Me(s)
    <2>1. CASE site.mode = "setuid"
        BY <2>1, <1>1 DEF DropCaps, BecomeCaller, SetIdentity, ProcFields
    <2>2. CASE site.mode = "caps"
        BY <2>2, <1>1 DEF DropCaps, FileCaps, ProcFields
    <2>3. CASE site.mode = "user"
        BY <2>3, <1>1 DEF DropCaps, BecomeCaller, SetIdentity, ProcFields
    <2> QED  BY <2>1, <2>2, <2>3 DEF Modes
<1>3. p = SetDbIdentity(d)
    BY DEF Privileged, q
<1> HIDE DEF d
<1> QED  BY <1>2, <1>3, IdleProc DEF SetDbIdentity, Lowered, ProcFields

\* A process of s with the capabilities C raised.
Raised(s, p, C) ==
    /\ DOMAIN p = ProcFields
    /\ p.mode = site.mode /\ p.caller = Me(s) /\ p.callerGroups = MemberOf[Me(s)]
    /\ p.dbset = TRUE /\ p.alive = TRUE
    /\ p.mode = "caps" => p.perm = {"DAC_OVERRIDE", "CHOWN", "FOWNER"}
    /\ CASE site.mode = "setuid" -> p.euid = Root /\ p.egid = Root /\ p.eff = {}
         [] site.mode = "caps" -> /\ p.euid = Me(s) /\ p.egid = Me(s) /\ p.eff = C
                                  /\ p.groups = MemberOf[Me(s)]
         [] OTHER -> /\ p.euid = Me(s) /\ p.egid = Me(s) /\ p.eff = {}
                     /\ p.groups = MemberOf[Me(s)]

LEMMA Raise ==
    ASSUME NEW s \in Sessions, site.mode \in Modes, NEW p, Lowered(s, p),
           NEW C, C \subseteq {"DAC_OVERRIDE", "CHOWN", "FOWNER"}
    PROVE  Raised(s, RaiseCap(p, C), C)
<1>1. DOMAIN p = ProcFields
    BY IdleProc DEF Lowered
<1>2. CASE site.mode = "setuid"
    BY <1>1, <1>2 DEF Lowered, Raised, RaiseCap, BecomeRoot, SetIdentity, ProcFields
<1>3. CASE site.mode = "caps"
    BY <1>1, <1>3 DEF Lowered, Raised, RaiseCap, ProcFields
<1>4. CASE site.mode = "user"
    BY <1>1, <1>4 DEF Lowered, Raised, RaiseCap, BecomeRoot, SetIdentity, ProcFields
<1> QED  BY <1>2, <1>3, <1>4 DEF Modes

LEMMA Lower ==
    ASSUME NEW s \in Sessions, site.mode \in Modes, NEW p, NEW C, NEW D, Raised(s, p, C),
           C \subseteq D
    PROVE  /\ Lowered(s, LowerCap(p, D))
           /\ site.mode = "setuid" => LowerCap(p, D).euid = Db
<1>2. CASE site.mode = "setuid"
    BY <1>2, IdleProc DEF Lowered, Raised, LowerCap, SetIdentity, ProcFields
<1>3. CASE site.mode = "caps"
    BY <1>3, IdleProc DEF Lowered, Raised, LowerCap, ProcFields
<1>4. CASE site.mode = "user"
    BY <1>4, IdleProc DEF Lowered, Raised, LowerCap, SetIdentity, ProcFields
<1> QED  BY <1>2, <1>3, <1>4 DEF Modes

\* With the capability raised the kernel lets the process do what it wants to do.
LEMMA MayRaised ==
    ASSUME NEW s \in Sessions, site.mode \in Modes, NEW p, NEW C, Raised(s, p, C), NEW cap \in C
    PROVE  May(p, cap)
<1>2. CASE site.mode = "setuid"
    BY <1>2 DEF Raised, May
<1>3. CASE site.mode = "caps"
    BY <1>3 DEF Raised, May
<1>4. CASE site.mode = "user"
    BY <1>4 DEF Raised, May
<1> QED  BY <1>2, <1>3, <1>4 DEF Modes

\* createEntry() and release() act as the database user where they can.
LEMMA AsDatabase ==
    ASSUME NEW s \in Sessions, site.mode \in Modes, NEW p, NEW C, Raised(s, p, C)
    PROVE  /\ BecomeDb(p).alive = TRUE
           /\ BecomeDb(p).euid = IF site.mode = "setuid" THEN Db ELSE Me(s)
           /\ site.mode = "setuid" => Lowered(s, BecomeDb(p))
           /\ site.mode # "setuid" => BecomeDb(p) = p
<1>2. CASE site.mode = "setuid"
    BY <1>2, IdleProc DEF Lowered, Raised, BecomeDb, SetIdentity, ProcFields
<1>3. CASE site.mode = "caps"
    BY <1>3 DEF Raised, BecomeDb, SetIdentity, ProcFields
<1>4. CASE site.mode = "user"
    BY <1>4 DEF Raised, BecomeDb, SetIdentity, ProcFields
<1> QED  BY <1>2, <1>3, <1>4 DEF Modes

\* The process after createWorkspace(): all raises succeed.
LEMMA MkdirProcess ==
    ASSUME NEW s \in Sessions, site.mode \in Modes, NEW p, Lowered(s, p),
           NEW made, made = RaiseCap(p, {"DAC_OVERRIDE"}),
           NEW opened, opened = RaiseCap(LowerCap(made, {"DAC_OVERRIDE"}), {"DAC_OVERRIDE"}),
           NEW given, given = RaiseCap(LowerCap(opened, {"DAC_OVERRIDE"}), {"CHOWN"}),
           NEW set, set = RaiseCap(LowerCap(given, {"CHOWN"}), {"FOWNER"})
    PROVE  /\ May(made, "DAC_OVERRIDE") /\ May(given, "CHOWN") /\ May(set, "FOWNER")
           /\ Lowered(s, LowerCap(set, {"FOWNER"}))
<1>1. Raised(s, made, {"DAC_OVERRIDE"})
    BY Raise
<1>2. Lowered(s, LowerCap(made, {"DAC_OVERRIDE"}))
    BY <1>1, Lower
<1>3. Raised(s, opened, {"DAC_OVERRIDE"})
    BY <1>2, Raise
<1>4. Lowered(s, LowerCap(opened, {"DAC_OVERRIDE"}))
    BY <1>3, Lower
<1>5. Raised(s, given, {"CHOWN"})
    BY <1>4, Raise
<1>6. Lowered(s, LowerCap(given, {"CHOWN"}))
    BY <1>5, Lower
<1>7. Raised(s, set, {"FOWNER"})
    BY <1>6, Raise
<1>8. Lowered(s, LowerCap(set, {"FOWNER"}))
    BY <1>7, Lower
<1> QED  BY <1>1, <1>5, <1>7, <1>8, MayRaised

\* The processes of createEntry(): all raises succeed, and the file ends up with the
\* database user unless the tool is in user mode.
LEMMA EntryProcess ==
    ASSUME NEW s \in Sessions, site.mode \in Modes, NEW p, Lowered(s, p),
           NEW w, w = BecomeDb(RaiseCap(p, {"DAC_OVERRIDE"})),
           NEW m, m = LowerCap(RaiseCap(w, {"FOWNER"}), {"FOWNER", "DAC_OVERRIDE"}),
           NEW o, o = IF m.mode = "caps" THEN RaiseCap(m, {"CHOWN"}) ELSE m
    PROVE  /\ w.alive = TRUE /\ o.alive = TRUE /\ m.mode = site.mode
           /\ site.mode = "setuid" => w.euid = Db
           /\ site.mode = "user" => w.euid = Me(s)
           /\ Lowered(s, IF m.mode = "caps" THEN LowerCap(o, {"CHOWN"}) ELSE o)
<1> DEFINE p1 == RaiseCap(p, {"DAC_OVERRIDE"})
<1>1. Raised(s, p1, {"DAC_OVERRIDE"})
    BY Raise
<1> HIDE DEF p1
<1>2. w = BecomeDb(p1)
    BY DEF p1
<1>3. /\ w.alive = TRUE /\ w.euid = IF site.mode = "setuid" THEN Db ELSE Me(s)
      /\ site.mode = "setuid" => Lowered(s, w)
      /\ site.mode # "setuid" => w = p1
    BY <1>1, <1>2, AsDatabase
<1>4. \E C : Raised(s, RaiseCap(w, {"FOWNER"}), C) /\ C \subseteq {"FOWNER", "DAC_OVERRIDE"}
    <2>1. CASE site.mode = "setuid"
        <3>1. Raised(s, RaiseCap(w, {"FOWNER"}), {"FOWNER"})
            BY <2>1, <1>3, Raise
        <3> QED  BY <3>1
    <2>2. CASE site.mode = "caps"
        <3>1. w = p1 /\ w.mode = "caps" /\ w.perm = {"DAC_OVERRIDE", "CHOWN", "FOWNER"}
              /\ w.eff = {"DAC_OVERRIDE"} /\ DOMAIN w = ProcFields
            BY <2>2, <1>1, <1>3 DEF Raised
        <3>2. RaiseCap(w, {"FOWNER"}) = [w EXCEPT !.eff = @ \cup {"FOWNER"}]
            BY <3>1 DEF RaiseCap
        <3>3. Raised(s, RaiseCap(w, {"FOWNER"}), {"FOWNER", "DAC_OVERRIDE"})
            BY <2>2, <1>1, <3>1, <3>2 DEF Raised, ProcFields
        <3> QED  BY <3>3
    <2>3. CASE site.mode = "user"
        <3>1. Lowered(s, w)
            BY <2>3, <1>1, <1>3, IdleProc DEF Raised, Lowered
        <3>2. Raised(s, RaiseCap(w, {"FOWNER"}), {"FOWNER"})
            BY <3>1, Raise
        <3> QED  BY <3>2
    <2> QED  BY <2>1, <2>2, <2>3 DEF Modes
<1>5. Lowered(s, m) /\ m.mode = site.mode /\ m.alive = TRUE
    <2>1. Lowered(s, m)
        BY <1>4, Lower
    <2> QED  BY <2>1 DEF Lowered
<1>6. CASE site.mode = "caps"
    <2>1. Raised(s, o, {"CHOWN"})
        BY <1>5, <1>6, Raise
    <2>2. Lowered(s, LowerCap(o, {"CHOWN"})) /\ o.alive = TRUE
        BY <2>1, Lower DEF Raised
    <2> QED  BY <1>3, <1>5, <1>6, <2>2
<1>7. CASE site.mode # "caps"
    BY <1>3, <1>5, <1>7
<1> QED  BY <1>6, <1>7

\* The process of release() when entry and directory are moved.
LEMMA ReleaseProcess ==
    ASSUME NEW s \in Sessions, site.mode \in Modes, NEW p, Lowered(s, p),
           NEW C, C = {"FOWNER", "DAC_OVERRIDE"}
    PROVE  Lowered(s, LowerCap(BecomeDb(RaiseCap(p, C)), C))
<1> DEFINE r == RaiseCap(p, C)
<1>1. Raised(s, r, C)
    BY Raise
<1> HIDE DEF r
<1> DEFINE w == BecomeDb(r)
<1>2. /\ site.mode = "setuid" => Lowered(s, w)
      /\ site.mode # "setuid" => w = r
    BY <1>1, AsDatabase
<1> HIDE DEF w
<1>3. CASE site.mode = "setuid"
    BY <1>2, <1>3, IdleProc DEF Lowered, LowerCap, SetIdentity, ProcFields, w, r
<1>4. CASE site.mode # "setuid"
    BY <1>1, <1>2, <1>4, Lower DEF w, r
<1> QED  BY <1>3, <1>4

-----------------------------------------------------------------------------
(* Ids.                                                                       *)

\* Names are sequences of characters.
LEMMA NameStrings ==
    /\ Alphabet \subseteq STRING
    /\ Users \subseteq Seq(STRING) /\ WsNames \subseteq Seq(STRING)
<1>1. Alphabet \subseteq STRING
    <2>1. Chars \in Seq(STRING)
        BY CharsAssumption
    <2>2. \A k \in 1 .. Len(Chars) : Chars[k] \in STRING
        BY ONLY <2>1
    <2> QED  BY <2>2 DEF Alphabet
<1>2. Users \subseteq Seq(Alphabet) /\ WsNames \subseteq Seq(Alphabet)
    BY NamesAssumption
<1> HIDE DEF Alphabet
<1>3. Seq(Alphabet) \subseteq Seq(STRING)
    BY <1>1, SeqMonotonic
<1> QED  BY <1>1, <1>2, <1>3

\* The first dash of an id ends the name of its owner.
LEMMA IdParts ==
    ASSUME NEW u \in Users, NEW n \in WsNames, NEW i, i = WsId(u, n)
    PROVE  /\ Len(u) \in Nat /\ Len(i) \in Nat /\ Len(u) + 1 <= Len(i) /\ i[Len(u) + 1] = "-"
           /\ \A k \in 1 .. Len(u) : i[k] = u[k] /\ u[k] # "-"
<1> DEFINE V == STRING \cup {"-"}
<1>1. u \in Seq(V) /\ n \in Seq(V) /\ <<"-">> \in Seq(V)
    <2>1. u \in Seq(STRING) /\ n \in Seq(STRING)
        BY NameStrings
    <2> QED  BY <2>1, SeqMonotonic
<1> HIDE DEF V
<1> DEFINE ud == u \o <<"-">>
<1>2. /\ ud \in Seq(V) /\ Len(ud) = Len(u) + 1 /\ Len(u) \in Nat
      /\ ud[Len(u) + 1] = "-" /\ \A k \in 1 .. Len(u) : ud[k] = u[k]
    BY <1>1
<1>3. i = ud \o n
    BY DEF WsId
<1> HIDE DEF ud
<1>4. Len(i) = Len(ud) + Len(n) /\ Len(n) \in Nat /\ \A k \in 1 .. Len(ud) : i[k] = ud[k]
    <2>1. n \in Seq(V) /\ ud \in Seq(V)
        BY <1>1, <1>2
    <2> QED  BY <2>1, <1>3
<1>5. \A k \in 1 .. Len(u) : u[k] # "-"
    BY NamesAssumption DEF Contains
<1> QED  BY <1>2, <1>4, <1>5

\* An id has one owner.
LEMMA IdOwner ==
    ASSUME NEW u \in Users, NEW v \in Users, NEW n \in WsNames, NEW m \in WsNames,
           WsId(u, n) = WsId(v, m)
    PROVE  u = v
<1> DEFINE i == WsId(u, n)
<1>1. /\ Len(u) \in Nat /\ Len(i) \in Nat /\ Len(u) + 1 <= Len(i) /\ i[Len(u) + 1] = "-"
      /\ \A k \in 1 .. Len(u) : i[k] = u[k] /\ u[k] # "-"
    BY IdParts
<1>2. /\ Len(v) \in Nat /\ i[Len(v) + 1] = "-"
      /\ \A k \in 1 .. Len(v) : i[k] = v[k] /\ v[k] # "-"
    BY IdParts
<1> HIDE DEF i
<1>3. ~ (Len(u) < Len(v)) /\ ~ (Len(v) < Len(u))
    BY <1>1, <1>2
<1>4. Len(u) = Len(v) /\ \A k \in 1 .. Len(u) : u[k] = v[k]
    BY <1>1, <1>2, <1>3
<1>5. u \in Seq(STRING) /\ v \in Seq(STRING)
    BY NameStrings
<1> QED  BY <1>4, <1>5, SeqEqual

LEMMA IdIn ==
    ASSUME NEW u \in Users, NEW n \in WsNames
    PROVE  WsId(u, n) \in WsIds
BY DEF WsIds

\* Ids are strings the matcher can be given, and so are the patterns made of a name.
LEMMA IdStrings ==
    /\ \A u \in Users \cup {<<"*">>} : \A n \in WsNames \cup Patterns \cup {<<"*">>} :
           WsId(u, n) \in Seq(Alphabet)
    /\ WsIds \subseteq Seq(Alphabet)
<1>1. {"*", "-"} \subseteq Alphabet
    BY CharsAssumption
<1>2. /\ Users \subseteq Seq(Alphabet) /\ WsNames \subseteq Seq(Alphabet)
      /\ Patterns \subseteq Seq(Alphabet)
    BY NamesAssumption
<1> HIDE DEF Alphabet
<1>3. <<"*">> \in Seq(Alphabet) /\ <<"-">> \in Seq(Alphabet)
    BY <1>1
<1>4. \A x, y \in Seq(Alphabet) : WsId(x, y) \in Seq(Alphabet)
    <2> TAKE x, y \in Seq(Alphabet)
    <2>1. x \o <<"-">> \in Seq(Alphabet)
        BY <1>3
    <2> QED  BY <2>1 DEF WsId
<1>5. \A u \in Users \cup {<<"*">>} : \A n \in WsNames \cup Patterns \cup {<<"*">>} :
          u \in Seq(Alphabet) /\ n \in Seq(Alphabet)
    BY <1>2, <1>3
<1>6. WsIds \subseteq Seq(Alphabet)
    BY <1>4, <1>5 DEF WsIds
<1> QED  BY ONLY <1>4, <1>5, <1>6

\* The patterns of the tools mean what Matches says.
LEMMA PatternMeans ==
    ASSUME NEW u \in Users \cup {<<"*">>}, NEW n \in Patterns \cup {<<"*">>}, NEW i \in WsIds
    PROVE  GlobMatch(WsId(u, n), i) <=> Matches(WsId(u, n), i)
<1>1. WsId(u, n) \in Seq(Alphabet) /\ i \in Seq(Alphabet)
    BY IdStrings
<1> QED  BY <1>1, GlobMatchesMeaning

\* The matcher shows a user exactly his own workspaces.
LEMMA OwnPattern ==
    ASSUME NEW u \in Users, NEW i \in WsIds
    PROVE  GlobMatch(WsId(u, <<"*">>), i) <=> \E n \in WsNames : i = WsId(u, n)
<1> DEFINE x == u \o <<"-">>
<1>1. u \in Seq(Alphabet) /\ <<"-">> \in Seq(Alphabet) /\ i \in Seq(Alphabet)
    <2>1. u \in Seq(Alphabet) /\ "-" \in Alphabet /\ i \in Seq(Alphabet)
        BY NamesAssumption, CharsAssumption, IdStrings
    <2> HIDE DEF Alphabet
    <2> QED  BY <2>1
<1>2. /\ x \in Seq(Alphabet) /\ Len(x) = Len(u) + 1 /\ Len(u) \in Nat
      /\ x[Len(u) + 1] = "-" /\ \A k \in 1 .. Len(u) : x[k] = u[k]
    <2> HIDE DEF Alphabet
    <2> QED  BY <1>1
<1>3. WsId(u, <<"*">>) = x \o <<"*">>
    BY DEF WsId
<1> HIDE DEF x
<1>4. ASSUME NEW k \in 1 .. Len(x) PROVE x[k] \notin {"*", "?", "[", "\\"}
    <2>1. CASE k \in 1 .. Len(u)
        <3>1. u[k] \notin {"*", "?", "[", "\\"}
            BY <2>1, NamesAssumption DEF Contains
        <3> QED  BY <1>2, <2>1, <3>1
    <2>2. CASE k \notin 1 .. Len(u)
        <3>1. k = Len(u) + 1
            BY ONLY <1>2, <2>2, k \in 1 .. Len(x)
        <3> QED  BY <1>2, <3>1
    <2> QED  BY <2>1, <2>2
<1>5. GlobMatch(WsId(u, <<"*">>), i) <=> Len(x) <= Len(i) /\ \A k \in 1 .. Len(x) : i[k] = x[k]
    BY <1>1, <1>2, <1>3, <1>4, PrefixPattern
<1>6. ASSUME NEW n \in WsNames, i = WsId(u, n)
      PROVE  Len(x) <= Len(i) /\ \A k \in 1 .. Len(x) : i[k] = x[k]
    <2>1. /\ Len(i) \in Nat /\ Len(u) + 1 <= Len(i) /\ i[Len(u) + 1] = "-"
          /\ \A k \in 1 .. Len(u) : i[k] = u[k]
        BY <1>6, IdParts
    <2>2. \A k \in 1 .. Len(x) : k \in 1 .. Len(u) \/ k = Len(u) + 1
        BY ONLY <1>2
    <2> QED  BY <1>2, <2>1, <2>2
<1>7. ASSUME Len(x) <= Len(i), \A k \in 1 .. Len(x) : i[k] = x[k]
      PROVE  \E n \in WsNames : i = WsId(u, n)
    <2>1. PICK v \in Users, n \in WsNames : i = WsId(v, n)
        BY DEF WsIds
    <2>2. /\ Len(v) \in Nat /\ i[Len(v) + 1] = "-"
          /\ \A k \in 1 .. Len(v) : i[k] = v[k] /\ v[k] # "-"
        BY <2>1, IdParts
    <2>3. \A k \in 1 .. Len(u) : u[k] # "-"
        BY NamesAssumption DEF Contains
    <2>4. i[Len(u) + 1] = "-" /\ \A k \in 1 .. Len(u) : i[k] = u[k]
        <3>1. Len(u) + 1 \in 1 .. Len(x) /\ \A k \in 1 .. Len(u) : k \in 1 .. Len(x)
            BY ONLY <1>2
        <3> QED  BY <1>2, <1>7, <3>1
    <2>5. Len(u) \in Nat
        BY <1>2
    <2>6. ~ (Len(u) < Len(v)) /\ ~ (Len(v) < Len(u))
        BY ONLY <2>2, <2>3, <2>4, <2>5
    <2>7. Len(u) = Len(v) /\ \A k \in 1 .. Len(u) : u[k] = v[k]
        BY ONLY <2>2, <2>4, <2>5, <2>6
    <2>8. u \in Seq(STRING) /\ v \in Seq(STRING)
        BY NameStrings
    <2>9. u = v
        BY <2>7, <2>8, SeqEqual
    <2> QED  BY <2>1, <2>9
<1> QED  BY <1>5, <1>6, <1>7

-----------------------------------------------------------------------------
(* The initial states.                                                        *)

\* The workspaces there from the start have the owner their id names.
LEMMA SeedOf ==
    ASSUME NEW f \in Fs, NEW i \in WsIds, Seed(f, i) # {},
           NEW w, w = CHOOSE x \in Seed(f, i) : TRUE
    PROVE  /\ w[2] \in Users /\ w[4] \in Groups \cup {NoGroup} /\ w[4] \in MemberOf[w[2]] \cup {NoGroup}
           /\ \A u \in Users : \A n \in WsNames : i = WsId(u, n) => w[2] = u
<1>1. w \in Seeded /\ w[1] = f /\ WsId(w[2], w[3]) = i
    BY DEF Seed
<1>2. w \in Fs \X Users \X WsNames \X (Groups \cup {NoGroup})
      /\ w[4] \in MemberOf[w[2]] \cup {NoGroup}
    BY <1>1, NamesAssumption
<1>3. w[2] \in Users /\ w[3] \in WsNames /\ w[4] \in Groups \cup {NoGroup}
    BY <1>2
<1>4. ASSUME NEW u \in Users, NEW n \in WsNames, i = WsId(u, n) PROVE w[2] = u
    BY <1>1, <1>3, <1>4, IdOwner
<1> QED  BY <1>2, <1>3, <1>4

LEMMA IdleShape ==
    ASSUME NEW s \in Sessions
    PROVE  Process(s, Idle) /\ Shape(s, Idle)
<1>1. /\ Idle.pc = "idle" /\ Idle.tool = "" /\ Idle.todo = <<>> /\ Idle.hits = {}
      /\ Idle.to = NoFs /\ Idle.out = ""
    BY DEF Idle
<1>2. <<>> \in Seq(Fs)
    OBVIOUS
<1> QED  BY <1>1, <1>2 DEF Process, Shape, Outcomes

\* The lists of valid filesystems are sequences of filesystems.
LEMMA OrderSeq ==
    ASSUME Settled, NEW u \in Users, NEW intent \in Intents
    PROVE  order[u][intent] \in Seq(Fs)
BY ValidSeq DEF Settled

LEMMA SettledMode ==
    ASSUME Settled
    PROVE  site.mode \in Modes
BY SiteAssumption DEF Settled

LEMMA InitBase ==
    ASSUME SiteInit
    PROVE  SiteBase
<1>1. Settled
    BY DEF SiteInit, Settled
<1>2. \A s \in Sessions : Process(s, sess[s]) /\ Shape(s, sess[s])
    BY IdleShape DEF SiteInit
<1> DEFINE w(f, i) == CHOOSE w \in Seed(f, i) : TRUE
<1>3. \A f \in Fs : \A i \in WsIds :
        /\ db[f][i] = IF Seed(f, i) = {} THEN NoWs
                      ELSE [group |-> w(f, i)[4],
                            owner |-> IF site.mode = "user" THEN w(f, i)[2] ELSE Db]
        /\ dirs[f][i] = IF Seed(f, i) = {} THEN Nobody ELSE w(f, i)[2]
    BY DEF SiteInit
<1>4. \A f \in Fs : \A i \in WsIds : Seed(f, i) # {} =>
        /\ w(f, i)[2] \in Users /\ w(f, i)[4] \in Groups \cup {NoGroup}
        /\ w(f, i)[4] \in MemberOf[w(f, i)[2]] \cup {NoGroup}
        /\ \A u \in Users : \A n \in WsNames : i = WsId(u, n) => w(f, i)[2] = u
    BY SeedOf
<1> HIDE DEF w
<1>5. \A f \in Fs : \A i \in WsIds :
        /\ db[f][i] \in [group : Groups \cup {NoGroup}, owner : Users \cup {Nobody, Db, Root}]
        /\ dirs[f][i] \in Users \cup {Nobody, Db, Root}
    <2> TAKE f \in Fs
    <2> TAKE i \in WsIds
    <2>1. CASE Seed(f, i) = {}
        <3>1. NoWs = [group |-> NoGroup, owner |-> Nobody]
            BY DEF NoWs, Nobody
        <3>2. db[f][i] = [group |-> NoGroup, owner |-> Nobody] /\ dirs[f][i] = Nobody
            BY <2>1, <1>3, <3>1
        <3> QED  BY <3>2
    <2>2. CASE Seed(f, i) # {}
        <3> DEFINE g == w(f, i)[4]
                   o == IF site.mode = "user" THEN w(f, i)[2] ELSE Db
        <3>1. g \in Groups \cup {NoGroup} /\ o \in Users \cup {Nobody, Db, Root}
            BY <2>2, <1>4
        <3>2. db[f][i] = [group |-> g, owner |-> o] /\ dirs[f][i] = w(f, i)[2]
            BY <2>2, <1>3
        <3>3. w(f, i)[2] \in Users
            BY <2>2, <1>4
        <3> HIDE DEF g, o
        <3> QED  BY <3>1, <3>2, <3>3
    <2> QED  BY <2>1, <2>2
<1>6. db \in [Fs -> [WsIds -> [group : Groups \cup {NoGroup},
                                owner : Users \cup {Nobody, Db, Root}]]]
    <2>1. db = [f \in Fs |-> db[f]] /\ \A f \in Fs : db[f] = [i \in WsIds |-> db[f][i]]
        BY DEF SiteInit
    <2>2. \A f \in Fs : db[f] \in [WsIds -> [group : Groups \cup {NoGroup},
                                             owner : Users \cup {Nobody, Db, Root}]]
        BY <2>1, <1>5
    <2> QED  BY <2>1, <2>2
<1>7. dirs \in [Fs -> [WsIds -> Users \cup {Nobody, Db, Root}]]
    <2>1. dirs = [f \in Fs |-> dirs[f]] /\ \A f \in Fs : dirs[f] = [i \in WsIds |-> dirs[f][i]]
        BY DEF SiteInit
    <2>2. \A f \in Fs : dirs[f] \in [WsIds -> Users \cup {Nobody, Db, Root}]
        BY <2>1, <1>5
    <2> QED  BY <2>1, <2>2
<1>8. ASSUME NEW f \in Fs, NEW u \in Users, NEW n \in WsNames PROVE OwnedBy(f, u, n)
    <2> DEFINE i == WsId(u, n)
    <2>1. i \in WsIds
        BY IdIn
    <2> HIDE DEF i
    <2>2. CASE Seed(f, i) = {}
        BY <2>1, <2>2, <1>3 DEF OwnedBy, Exists, i
    <2>3. CASE Seed(f, i) # {}
        <3>1. w(f, i)[2] = u /\ w(f, i)[4] \in MemberOf[u] \cup {NoGroup}
            BY <2>1, <2>3, <1>4 DEF i
        <3>2. /\ dirs[f][i] = u
              /\ db[f][i].owner = IF site.mode = "user" THEN u ELSE Db
              /\ db[f][i].group \in MemberOf[u] \cup {NoGroup}
            <4> DEFINE g == w(f, i)[4]
                       o == IF site.mode = "user" THEN w(f, i)[2] ELSE Db
            <4>1. db[f][i] = [group |-> g, owner |-> o] /\ dirs[f][i] = w(f, i)[2]
                BY <2>1, <2>3, <1>3
            <4> HIDE DEF g, o
            <4>2. db[f][i].group = g /\ db[f][i].owner = o
                BY <4>1
            <4> QED  BY <3>1, <4>1, <4>2 DEF g, o
        <3> QED  BY <3>2 DEF OwnedBy, i
    <2> QED  BY <2>2, <2>3
<1>9. Tables
    <2>1. up = Fs /\ links \in [Users -> SUBSET (Fs \X WsIds)] /\ DOMAIN sess = Sessions
        BY DEF SiteInit
    <2>2. started \in 0 .. MaxTools /\ outages \in 0 .. MaxOutages /\ steady \subseteq Sessions
        BY SiteAssumption DEF SiteInit
    <2> QED  BY <1>6, <1>7, <1>8, <2>1, <2>2 DEF Tables
<1> QED  BY <1>1, <1>2, <1>9 DEF SiteBase

-----------------------------------------------------------------------------
(* The steps.  A step of s changes its own state to r; what remains is that r *)
(* is a state such a tool can be in, and what the step does to the tables.    *)

SessFields == {"pc", "tool", "word", "on", "byGroup", "grp", "todo", "hits", "to", "proc", "out"}

LEMMA IdleFields ==
    /\ DOMAIN Idle = SessFields
    /\ Idle.pc = "idle" /\ Idle.tool = "" /\ Idle.todo = <<>> /\ Idle.hits = {}
    /\ Idle.to = NoFs /\ Idle.out = "" /\ Idle.on = NoFs /\ Idle.word = <<>>
    /\ Idle.grp = NoGroup /\ Idle.byGroup = FALSE
BY DEF Idle, SessFields

LEMMA StepBase ==
    ASSUME SiteBase, NEW s \in Sessions, NEW r, sess' = [sess EXCEPT ![s] = r],
           UNCHANGED <<site, conf, order>>, Tables', Process(s, r), Shape(s, r)
    PROVE  SiteBase'
<1>1. Settled'
    BY DEF SiteBase, Settled
<1>2. DOMAIN sess = Sessions /\ sess'[s] = r /\ \A t \in Sessions \ {s} : sess'[t] = sess[t]
    BY DEF SiteBase, Tables
<1>3. Process(s, sess[s])' /\ Shape(s, sess[s])'
    BY <1>2 DEF Process, Shape, Lowered, Plain, Me
<1>4. ASSUME NEW t \in Sessions \ {s} PROVE Process(t, sess[t])' /\ Shape(t, sess[t])'
    <2>1. Process(t, sess[t]) /\ Shape(t, sess[t]) /\ sess'[t] = sess[t]
        BY <1>2 DEF SiteBase
    <2> QED  BY ZenonT(40), <2>1 DEF Process, Shape, Lowered, Plain, Me
<1> QED  BY <1>1, <1>3, <1>4 DEF SiteBase

LEMMA TablesSame ==
    ASSUME SiteBase, NEW s \in Sessions, NEW r, sess' = [sess EXCEPT ![s] = r],
           UNCHANGED <<site, db, dirs, up, outages>>,
           links' \in [Users -> SUBSET (Fs \X WsIds)], steady' \subseteq Sessions,
           started' \in 0 .. MaxTools
    PROVE  Tables'
BY DEF SiteBase, Tables, OwnedBy, Exists

LEMMA GoesBase ==
    ASSUME SiteBase, NEW s \in Sessions, NEW r, Goes(s, r), Process(s, r), Shape(s, r)
    PROVE  SiteBase'
<1>1. sess' = [sess EXCEPT ![s] = r]
    BY DEF Goes
<1>2. Tables'
    <2>1. /\ links \in [Users -> SUBSET (Fs \X WsIds)] /\ steady \subseteq Sessions
          /\ started \in 0 .. MaxTools
        BY DEF SiteBase, Tables
    <2> QED  BY <1>1, <2>1, TablesSame DEF Goes, Store
<1> QED  BY <1>1, <1>2, StepBase DEF Goes

\* A tool that ends with an outcome other than these two.
LEMMA EndsBase ==
    ASSUME SiteBase, NEW s \in Sessions, NEW out \in Outcomes \ {"created", "registered"},
           sess[s].pc # "idle", Ends(s, out)
    PROVE  SiteBase'
<1> DEFINE q == sess[s]
           r == [q EXCEPT !.pc = "done", !.out = out]
<1>1. Process(s, q) /\ Shape(s, q) /\ q # Idle
    BY IdleFields DEF SiteBase
<1> HIDE DEF q
<1>2. DOMAIN q = SessFields
    BY <1>1, IdleFields DEF Shape
<1>3. /\ DOMAIN r = SessFields /\ r.pc = "done" /\ r.out = out /\ r.tool = q.tool /\ r.word = q.word
      /\ r.on = q.on /\ r.grp = q.grp /\ r.todo = q.todo /\ r.hits = q.hits /\ r.to = q.to
      /\ r.proc = q.proc
    BY <1>2 DEF SessFields
<1>4. Goes(s, r)
    BY DEF Ends, q
<1> HIDE DEF r
<1>5. Process(s, r)
    BY <1>1, <1>3 DEF Process
<1>6. Shape(s, r)
    BY <1>1, <1>3, IdleFields DEF Shape
<1> QED  BY <1>4, <1>5, <1>6, GoesBase

LEMMA SeqTail ==
    ASSUME NEW v \in Seq(Fs), v # <<>>
    PROVE  /\ Head(v) \in Fs /\ Tail(v) \in Seq(Fs)
           /\ ToSet(v) = {Head(v)} \cup ToSet(Tail(v))
<1>1. /\ Head(v) \in Fs /\ Tail(v) \in Seq(Fs) /\ Len(v) \in Nat \ {0} /\ Head(v) = v[1]
      /\ Len(Tail(v)) = Len(v) - 1 /\ \A i \in 1 .. Len(Tail(v)) : Tail(v)[i] = v[i + 1]
    BY HeadTailProperties, EmptySeq
<1> DEFINE w == Tail(v)
<1>2. DOMAIN v = 1 .. Len(v) /\ DOMAIN w = 1 .. Len(w)
    BY <1>1
<1> HIDE DEF w
<1>3. /\ Len(w) = Len(v) - 1 /\ \A i \in 1 .. Len(w) : w[i] = v[i + 1]
    BY <1>1 DEF w
<1>4. ASSUME NEW x \in ToSet(v) PROVE x \in {Head(v)} \cup ToSet(w)
    <2>1. PICK i \in 1 .. Len(v) : x = v[i]
        BY <1>2 DEF ToSet
    <2>2. CASE i = 1
        BY <1>1, <2>1, <2>2
    <2>3. CASE i # 1
        <3>1. i - 1 \in 1 .. Len(w) /\ w[i - 1] = x
            BY <1>1, <1>3, <2>1, <2>3
        <3> QED  BY <3>1, <1>2 DEF ToSet
    <2> QED  BY <2>2, <2>3
<1>5. ASSUME NEW x \in ToSet(w) PROVE x \in ToSet(v)
    <2>1. PICK i \in 1 .. Len(w) : x = w[i]
        BY <1>2 DEF ToSet
    <2>2. i + 1 \in 1 .. Len(v) /\ v[i + 1] = x
        BY <1>1, <1>3, <2>1
    <2> QED  BY <2>2, <1>2 DEF ToSet
<1>6. Head(v) \in ToSet(v)
    BY <1>1, <1>2 DEF ToSet
<1> QED  BY <1>1, <1>4, <1>5, <1>6 DEF w

\* What is known of the tool of s that is not idle.
LEMMA Known ==
    ASSUME SiteBase, NEW s \in Sessions
    PROVE  /\ Process(s, sess[s]) /\ Shape(s, sess[s]) /\ DOMAIN sess[s] = SessFields
           /\ sess[s].pc # "idle" => sess[s] # Idle
           /\ sess[s].todo \in Seq(Fs) /\ Me(s) \in Users /\ site.mode \in Modes
<1>1. Process(s, sess[s]) /\ Shape(s, sess[s]) /\ Settled
    BY DEF SiteBase
<1>2. DOMAIN sess[s] = SessFields /\ sess[s].todo \in Seq(Fs)
    BY <1>1, IdleFields DEF Shape
<1> QED  BY <1>1, <1>2, IdleFields, SettledMode, SiteAssumption DEF Me

LEMMA AllocCountBase ==
    ASSUME SiteBase, NEW s \in Sessions, AllocCount(s)
    PROVE  SiteBase'
<1> DEFINE q == sess[s]
           r == [q EXCEPT !.pc = "search"]
<1>1. Process(s, q) /\ Shape(s, q) /\ DOMAIN q = SessFields /\ q # Idle
    BY Known DEF AllocCount
<1>2. CASE Ends(s, "limit")
    BY <1>2, EndsBase DEF AllocCount, Outcomes
<1>3. CASE Goes(s, r)
    <2>1. q.pc = "count"
        BY DEF AllocCount
    <2> HIDE DEF q
    <2>2. /\ DOMAIN r = SessFields /\ r.pc = "search" /\ r.out = q.out /\ r.tool = q.tool
          /\ r.word = q.word /\ r.on = q.on /\ r.grp = q.grp /\ r.todo = q.todo
          /\ r.hits = q.hits /\ r.to = q.to /\ r.proc = q.proc
        BY <1>1 DEF SessFields
    <2> HIDE DEF r
    <2>3. q.tool = "allocate"
        BY <1>1, <2>1 DEF Shape
    <2>4. Process(s, r)
        BY <1>1, <2>2, <2>3 DEF Process
    <2>5. Shape(s, r)
        BY <1>1, <2>1, <2>2, <2>3, IdleFields DEF Shape
    <2> QED  BY <1>3, <2>4, <2>5, GoesBase
<1> QED  BY <1>2, <1>3 DEF AllocCount

LEMMA SearchOneBase ==
    ASSUME SiteBase, NEW s \in Sessions, SearchOne(s)
    PROVE  SiteBase'
<1> DEFINE q == sess[s]
           f == Head(q.todo)
           i == WsId(Me(s), q.word)
           hits == IF OpenDB(f) /\ Exists(f, i) THEN q.hits \cup {<<f, i>>} ELSE q.hits
           r == [q EXCEPT !.todo = Tail(q.todo), !.hits = hits]
<1>1. Process(s, q) /\ Shape(s, q) /\ DOMAIN q = SessFields /\ q # Idle /\ Me(s) \in Users
    BY Known DEF SearchOne
<1>2. q.pc = "search" /\ q.todo # <<>> /\ Goes(s, r)
    BY DEF SearchOne
<1>3. q.todo \in Seq(Fs)
    BY Known
<1>4. f \in Fs /\ Tail(q.todo) \in Seq(Fs)
    BY <1>2, <1>3, SeqTail
<1> HIDE DEF q
<1>5. (q.tool = "allocate" \/ q.tool = "release") /\ q.word \in WsNames
    BY <1>1, <1>2 DEF Shape
<1>6. hits \subseteq Fs \X WsIds /\ hits \subseteq Fs \X {i}
    <2>1. i \in WsIds
        BY <1>1, <1>5, IdIn
    <2>2. q.hits \subseteq Fs \X {i}
        BY <1>1, <1>5 DEF Shape
    <2> HIDE DEF i, f
    <2> QED  BY <2>1, <2>2, <1>4
<1> HIDE DEF hits
<1>7. /\ DOMAIN r = SessFields /\ r.pc = "search" /\ r.out = q.out /\ r.tool = q.tool
      /\ r.word = q.word /\ r.on = q.on /\ r.grp = q.grp /\ r.todo = Tail(q.todo)
      /\ r.hits = hits /\ r.to = q.to /\ r.proc = q.proc
    BY <1>1, <1>2 DEF SessFields
<1> HIDE DEF r
<1>8. Process(s, r)
    BY <1>1, <1>5, <1>7 DEF Process
<1>9. Shape(s, r)
    BY <1>1, <1>2, <1>4, <1>5, <1>6, <1>7, IdleFields DEF Shape
<1> QED  BY <1>2, <1>8, <1>9, GoesBase

LEMMA AllocDecideBase ==
    ASSUME SiteBase, NEW s \in Sessions, AllocDecide(s)
    PROVE  SiteBase'
<1> DEFINE q == sess[s]
           new == Head(Search(order[Me(s)]["create"], q.on))
           r == [q EXCEPT !.pc = "mkdir", !.to = new]
<1>1. Process(s, q) /\ Shape(s, q) /\ DOMAIN q = SessFields /\ q # Idle /\ q.pc # "idle"
    BY Known DEF AllocDecide
<1>2. q.pc = "search" /\ q.tool = "allocate"
    BY DEF AllocDecide
<1>3. \/ \E out \in {"ambiguous", "reused", "closed", "down"} : Ends(s, out)
      \/ Goes(s, r)
    BY DEF AllocDecide
<1>4. CASE \E out \in {"ambiguous", "reused", "closed", "down"} : Ends(s, out)
    BY <1>1, <1>4, EndsBase DEF Outcomes
<1>5. CASE Goes(s, r)
    <2> HIDE DEF q
    <2>1. new \in Fs
        BY <1>1, <1>2, SeqTail DEF Shape
    <2> HIDE DEF new
    <2>2. /\ DOMAIN r = SessFields /\ r.pc = "mkdir" /\ r.out = q.out /\ r.tool = q.tool
          /\ r.word = q.word /\ r.on = q.on /\ r.grp = q.grp /\ r.todo = q.todo
          /\ r.hits = q.hits /\ r.to = new /\ r.proc = q.proc
        BY <1>1 DEF SessFields
    <2> HIDE DEF r
    <2>3. Process(s, r)
        BY <1>1, <1>2, <2>2 DEF Process
    <2>4. Shape(s, r)
        BY <1>1, <1>2, <2>1, <2>2, IdleFields DEF Shape
    <2> QED  BY <1>5, <2>3, <2>4, GoesBase
<1> QED  BY <1>3, <1>4, <1>5

LEMMA ReleaseDecideBase ==
    ASSUME SiteBase, NEW s \in Sessions, ReleaseDecide(s)
    PROVE  SiteBase'
<1> DEFINE q == sess[s]
           r == [q EXCEPT !.pc = "take"]
<1>1. Process(s, q) /\ Shape(s, q) /\ DOMAIN q = SessFields /\ q # Idle /\ q.pc # "idle"
    BY Known DEF ReleaseDecide
<1>2. q.pc = "search" /\ q.tool = "release"
    BY DEF ReleaseDecide
<1>3. \/ \E out \in {"ambiguous", "absent"} : Ends(s, out)
      \/ q.hits # {} /\ Goes(s, r)
    BY DEF ReleaseDecide
<1>4. CASE \E out \in {"ambiguous", "absent"} : Ends(s, out)
    BY <1>1, <1>4, EndsBase DEF Outcomes
<1>5. CASE q.hits # {} /\ Goes(s, r)
    <2> HIDE DEF q
    <2>2. /\ DOMAIN r = SessFields /\ r.pc = "take" /\ r.out = q.out /\ r.tool = q.tool
          /\ r.word = q.word /\ r.on = q.on /\ r.grp = q.grp /\ r.todo = q.todo
          /\ r.hits = q.hits /\ r.to = q.to /\ r.proc = q.proc
        BY <1>1 DEF SessFields
    <2> HIDE DEF r
    <2>3. Process(s, r)
        BY <1>1, <1>2, <2>2 DEF Process
    <2>4. Shape(s, r)
        BY <1>1, <1>2, <1>5, <2>2, IdleFields DEF Shape
    <2> QED  BY <1>5, <2>3, <2>4, GoesBase
<1> QED  BY <1>3, <1>4, <1>5

\* A listing shows ids of entries that are there.
LEMMA MatchIds ==
    ASSUME NEW f, NEW pat, NEW owner, NEW p, NEW byGroup
    PROVE  MatchPattern(f, pat, owner, p, byGroup) \subseteq WsIds
BY DEF MatchPattern

LEMMA FindNextBase ==
    ASSUME SiteBase, NEW s \in Sessions, FindNext(s)
    PROVE  SiteBase'
<1> DEFINE q == sess[s]
           f == Head(q.todo)
           found == IF OpenDB(f) THEN MatchPattern(f, q.word, UserPattern(s), q.proc, q.byGroup)
                    ELSE {}
           r1 == [q EXCEPT !.todo = Tail(q.todo)]
           r2(i) == [q EXCEPT !.pc = "done", !.out = "found", !.hits = {<<f, i>>}]
<1>1. Process(s, q) /\ Shape(s, q) /\ DOMAIN q = SessFields /\ q # Idle /\ q.pc # "idle"
    BY Known DEF FindNext
<1>2. q.pc = "look" /\ q.tool = "find"
    BY DEF FindNext
<1>3. \/ Ends(s, "absent")
      \/ q.todo # <<>> /\ Goes(s, r1)
      \/ q.todo # <<>> /\ \E i \in found : Goes(s, r2(i))
    BY DEF FindNext
<1>4. CASE Ends(s, "absent")
    BY <1>1, <1>4, EndsBase DEF Outcomes
<1>5. q.todo # <<>> => f \in Fs /\ Tail(q.todo) \in Seq(Fs)
    BY Known, SeqTail
<1>6. found \subseteq WsIds
    BY MatchIds
<1> HIDE DEF q, found, f
<1>7. CASE q.todo # <<>> /\ Goes(s, r1)
    <2>2. /\ DOMAIN r1 = SessFields /\ r1.pc = "look" /\ r1.out = q.out /\ r1.tool = q.tool
          /\ r1.word = q.word /\ r1.on = q.on /\ r1.grp = q.grp /\ r1.todo = Tail(q.todo)
          /\ r1.hits = q.hits /\ r1.to = q.to /\ r1.proc = q.proc
        BY <1>1, <1>2 DEF SessFields
    <2> HIDE DEF r1
    <2>3. Process(s, r1)
        BY <1>1, <1>2, <2>2 DEF Process
    <2>4. Shape(s, r1)
        BY <1>1, <1>2, <1>5, <1>7, <2>2, IdleFields DEF Shape
    <2> QED  BY <1>7, <2>3, <2>4, GoesBase
<1>8. CASE q.todo # <<>> /\ \E i \in found : Goes(s, r2(i))
    <2>1. PICK i \in found : Goes(s, r2(i))
        BY <1>8
    <2> DEFINE r == r2(i)
    <2>2. /\ DOMAIN r = SessFields /\ r.pc = "done" /\ r.out = "found" /\ r.tool = q.tool
          /\ r.word = q.word /\ r.on = q.on /\ r.grp = q.grp /\ r.todo = q.todo
          /\ r.hits = {<<f, i>>} /\ r.to = q.to /\ r.proc = q.proc
        BY <1>1, <1>2 DEF SessFields
    <2>p. Goes(s, r)
        BY <2>1
    <2> HIDE DEF r
    <2>3. Process(s, r)
        BY <1>1, <1>2, <2>2 DEF Process
    <2>5. {<<f, i>>} \subseteq Fs \X WsIds
        BY <1>5, <1>6, <1>8, <2>1
    <2>4. Shape(s, r)
        BY <1>1, <1>2, <2>5, <2>2, IdleFields DEF Shape, Outcomes
    <2> QED  BY <2>p, <2>3, <2>4, GoesBase
<1> QED  BY <1>3, <1>4, <1>7, <1>8

LEMMA ListNextBase ==
    ASSUME SiteBase, NEW s \in Sessions, ListNext(s)
    PROVE  SiteBase'
<1> DEFINE q == sess[s]
           f == Head(q.todo)
           found == IF OpenDB(f)
                    THEN {f} \X MatchPattern(f, q.word, UserPattern(s), q.proc, q.byGroup) ELSE {}
           r == [q EXCEPT !.todo = Tail(q.todo), !.hits = q.hits \cup found]
<1>1. Process(s, q) /\ Shape(s, q) /\ DOMAIN q = SessFields /\ q # Idle /\ q.pc # "idle"
    BY Known DEF ListNext
<1>2. q.pc = "look" /\ q.tool = "list"
    BY DEF ListNext
<1>3. Ends(s, "listed") \/ (q.todo # <<>> /\ Goes(s, r))
    BY DEF ListNext
<1>4. CASE Ends(s, "listed")
    BY <1>1, <1>4, EndsBase DEF Outcomes
<1>5. q.todo # <<>> => f \in Fs /\ Tail(q.todo) \in Seq(Fs)
    BY Known, SeqTail
<1>6. q.todo # <<>> => found \subseteq Fs \X WsIds
    <2>1. MatchPattern(f, q.word, UserPattern(s), q.proc, q.byGroup) \subseteq WsIds
        BY MatchIds
    <2> HIDE DEF f
    <2> QED  BY <1>5, <2>1
<1> HIDE DEF q, found, f
<1>7. CASE q.todo # <<>> /\ Goes(s, r)
    <2>2. /\ DOMAIN r = SessFields /\ r.pc = "look" /\ r.out = q.out /\ r.tool = q.tool
          /\ r.word = q.word /\ r.on = q.on /\ r.grp = q.grp /\ r.todo = Tail(q.todo)
          /\ r.hits = q.hits \cup found /\ r.to = q.to /\ r.proc = q.proc
        BY <1>1, <1>2 DEF SessFields
    <2> HIDE DEF r
    <2>3. Process(s, r)
        BY <1>1, <1>2, <2>2 DEF Process
    <2>5. q.hits \cup found \subseteq Fs \X WsIds
        BY <1>1, <1>6, <1>7 DEF Shape
    <2>4. Shape(s, r)
        BY <1>1, <1>2, <1>5, <1>7, <2>2, <2>5, IdleFields DEF Shape
    <2> QED  BY <1>7, <2>3, <2>4, GoesBase
<1> QED  BY <1>3, <1>4, <1>7

LEMMA FinishBase ==
    ASSUME SiteBase, NEW s \in Sessions, Finish(s)
    PROVE  SiteBase'
BY IdleShape, GoesBase DEF Finish

LEMMA RegisterLinkBase ==
    ASSUME SiteBase, NEW s \in Sessions, RegisterLink(s)
    PROVE  SiteBase'
<1> DEFINE q == sess[s]
           f == Head(q.todo)
           mine == {f} \X MatchPattern(f, <<"*">>, Me(s), q.proc, FALSE)
           r1 == [q EXCEPT !.todo = Tail(q.todo)]
           r2 == [q EXCEPT !.pc = "prune", !.hits = mine]
<1>1. Process(s, q) /\ Shape(s, q) /\ DOMAIN q = SessFields /\ q # Idle /\ q.pc # "idle"
    BY Known DEF RegisterLink
<1>2. q.pc = "link"
    BY DEF RegisterLink
<1>3. \/ Ends(s, "registered")
      \/ q.todo # <<>> /\ Goes(s, r1)
      \/ /\ q.todo # <<>> /\ links' = [links EXCEPT ![Me(s)] = @ \cup mine]
         /\ sess' = [sess EXCEPT ![s] = r2] /\ steady' \subseteq steady
         /\ UNCHANGED <<site, conf, order, db, dirs, up, started, outages>>
    BY DEF RegisterLink, Interferes
<1>4. q.todo # <<>> => f \in Fs /\ Tail(q.todo) \in Seq(Fs)
    BY Known, SeqTail
<1>5. q.todo # <<>> => mine \subseteq Fs \X WsIds
    <2>1. MatchPattern(f, <<"*">>, Me(s), q.proc, FALSE) \subseteq WsIds
        BY MatchIds
    <2> HIDE DEF f
    <2> QED  BY <1>4, <2>1
<1>e. q = sess[s]
    OBVIOUS
<1> HIDE DEF q, mine, f
<1>6. q.tool = "register" /\ q.out = ""
    BY <1>1, <1>2 DEF Shape
<1>7. CASE Ends(s, "registered")
    <2> DEFINE r == [q EXCEPT !.pc = "done", !.out = "registered"]
    <2>1. Goes(s, r)
        BY <1>7 DEF Ends, q
    <2>2. /\ DOMAIN r = SessFields /\ r.pc = "done" /\ r.out = "registered" /\ r.tool = q.tool
          /\ r.word = q.word /\ r.on = q.on /\ r.grp = q.grp /\ r.todo = q.todo
          /\ r.hits = q.hits /\ r.to = q.to /\ r.proc = q.proc
        BY <1>1 DEF SessFields
    <2> HIDE DEF r
    <2>3. Process(s, r)
        BY <1>1, <1>6, <2>2 DEF Process
    <2>4. Shape(s, r)
        BY <1>1, <1>6, <2>2, IdleFields DEF Shape, Outcomes
    <2> QED  BY <2>1, <2>3, <2>4, GoesBase
<1>8. CASE q.todo # <<>> /\ Goes(s, r1)
    <2>2. /\ DOMAIN r1 = SessFields /\ r1.pc = "link" /\ r1.out = q.out /\ r1.tool = q.tool
          /\ r1.word = q.word /\ r1.on = q.on /\ r1.grp = q.grp /\ r1.todo = Tail(q.todo)
          /\ r1.hits = q.hits /\ r1.to = q.to /\ r1.proc = q.proc
        BY <1>1, <1>2 DEF SessFields
    <2> HIDE DEF r1
    <2>3. Process(s, r1)
        BY <1>1, <1>6, <2>2 DEF Process
    <2>4. Shape(s, r1)
        BY <1>1, <1>4, <1>6, <1>8, <2>2, IdleFields DEF Shape
    <2> QED  BY <1>8, <2>3, <2>4, GoesBase
<1>9. CASE /\ q.todo # <<>> /\ links' = [links EXCEPT ![Me(s)] = @ \cup mine]
           /\ sess' = [sess EXCEPT ![s] = r2] /\ steady' \subseteq steady
           /\ UNCHANGED <<site, conf, order, db, dirs, up, started, outages>>
    <2>2. /\ DOMAIN r2 = SessFields /\ r2.pc = "prune" /\ r2.out = q.out /\ r2.tool = q.tool
          /\ r2.word = q.word /\ r2.on = q.on /\ r2.grp = q.grp /\ r2.todo = q.todo
          /\ r2.hits = mine /\ r2.to = q.to /\ r2.proc = q.proc
        BY <1>1, <1>2 DEF SessFields
    <2>5. sess' = [sess EXCEPT ![s] = r2]
        BY <1>9
    <2> HIDE DEF r2
    <2>3. Process(s, r2)
        BY <1>1, <1>6, <2>2 DEF Process
    <2>4. Shape(s, r2)
        BY <1>1, <1>5, <1>6, <1>9, <2>2, IdleFields DEF Shape
    <2>6. Tables'
        <3>1. /\ links \in [Users -> SUBSET (Fs \X WsIds)] /\ steady \subseteq Sessions
              /\ started \in 0 .. MaxTools
            BY DEF SiteBase, Tables
        <3>2. links' \in [Users -> SUBSET (Fs \X WsIds)]
            BY <1>5, <1>9, <3>1
        <3> QED  BY <1>9, <2>5, <3>1, <3>2, TablesSame
    <2> QED  BY <1>9, <2>3, <2>4, <2>5, <2>6, StepBase
<1> QED  BY <1>3, <1>7, <1>8, <1>9

LEMMA RegisterPruneBase ==
    ASSUME SiteBase, NEW s \in Sessions, RegisterPrune(s)
    PROVE  SiteBase'
<1> DEFINE q == sess[s]
           r == [q EXCEPT !.pc = "link", !.hits = {}, !.todo = Tail(q.todo)]
           kept == {l \in links[Me(s)] : l[1] = Head(q.todo) => l \in q.hits}
<1>1. Process(s, q) /\ Shape(s, q) /\ DOMAIN q = SessFields /\ q # Idle /\ q.pc = "prune"
    BY Known DEF RegisterPrune
<1>2. /\ links' = [links EXCEPT ![Me(s)] = kept] /\ sess' = [sess EXCEPT ![s] = r]
      /\ steady' \subseteq steady
      /\ UNCHANGED <<site, conf, order, db, dirs, up, started, outages>>
    <2>1. links' = [links EXCEPT ![Me(s)] = kept]
        BY Zenon DEF RegisterPrune
    <2>2. sess' = [sess EXCEPT ![s] = r]
        BY Zenon DEF RegisterPrune
    <2>3. steady' \subseteq steady
        BY DEF RegisterPrune, Interferes
    <2>4. UNCHANGED <<site, conf, order, db, dirs, up, started, outages>>
        BY DEF RegisterPrune
    <2> QED  BY <2>1, <2>2, <2>3, <2>4
<1>3. q.todo # <<>>
    BY <1>1 DEF Shape
<1>4. Tail(q.todo) \in Seq(Fs) /\ Me(s) \in Users
    BY <1>3, Known, SeqTail
<1>e. q = sess[s]
    OBVIOUS
<1> HIDE DEF q
<1>5. q.tool = "register" /\ q.out = ""
    BY <1>1 DEF Shape
<1>6. /\ DOMAIN r = SessFields /\ r.pc = "link" /\ r.out = q.out /\ r.tool = q.tool
      /\ r.word = q.word /\ r.on = q.on /\ r.grp = q.grp /\ r.todo = Tail(q.todo)
      /\ r.hits = {} /\ r.to = q.to /\ r.proc = q.proc
    BY <1>1 DEF SessFields
<1>7. sess' = [sess EXCEPT ![s] = r]
    BY <1>2
<1> HIDE DEF r
<1>8. Process(s, r)
    BY <1>1, <1>5, <1>6 DEF Process
<1>9. Shape(s, r)
    BY <1>1, <1>4, <1>5, <1>6, IdleFields DEF Shape
<1>10. Tables'
    <2>1. /\ links \in [Users -> SUBSET (Fs \X WsIds)] /\ steady \subseteq Sessions
          /\ started \in 0 .. MaxTools
        BY DEF SiteBase, Tables
    <2>2. kept \subseteq links[Me(s)]
        OBVIOUS
    <2> HIDE DEF kept
    <2>3. links' \in [Users -> SUBSET (Fs \X WsIds)]
        BY <1>2, <1>4, <2>1, <2>2
    <2> QED  BY <1>2, <1>7, <2>1, <2>3, TablesSame
<1> QED  BY <1>2, <1>7, <1>8, <1>9, <1>10, StepBase

\* One entry and one directory change, and still belong to whom their id says.
LEMMA TablesChange ==
    ASSUME SiteBase, NEW s \in Sessions, NEW r, sess' = [sess EXCEPT ![s] = r],
           NEW f \in Fs, NEW i \in WsIds,
           NEW e \in [group : Groups \cup {NoGroup}, owner : Users \cup {Nobody, Db, Root}],
           NEW d \in Users \cup {Nobody, Db, Root},
           db' = [db EXCEPT ![f][i] = e], dirs' = [dirs EXCEPT ![f][i] = d],
           \A u \in Users : \A n \in WsNames : i = WsId(u, n) =>
                /\ d \in {u, Nobody}
                /\ e # NoWs => /\ e.owner = IF site.mode = "user" THEN u ELSE Db
                               /\ e.group \in MemberOf[u] \cup {NoGroup},
           UNCHANGED <<site, up, links, started, outages>>, steady' \subseteq Sessions
    PROVE  Tables'
<1>1. Tables
    BY DEF SiteBase
<1>2. /\ db' \in [Fs -> [WsIds -> [group : Groups \cup {NoGroup},
                                   owner : Users \cup {Nobody, Db, Root}]]]
      /\ dirs' \in [Fs -> [WsIds -> Users \cup {Nobody, Db, Root}]]
    BY <1>1 DEF Tables
<1>3. /\ db'[f][i] = e /\ dirs'[f][i] = d
      /\ \A g \in Fs : \A j \in WsIds : g # f \/ j # i =>
            db'[g][j] = db[g][j] /\ dirs'[g][j] = dirs[g][j]
    BY <1>1 DEF Tables
<1>4. ASSUME NEW g \in Fs, NEW u \in Users, NEW n \in WsNames PROVE OwnedBy(g, u, n)'
    <2> DEFINE j == WsId(u, n)
    <2>1. j \in WsIds /\ OwnedBy(g, u, n)
        BY <1>1, IdIn DEF Tables
    <2>2. CASE g = f /\ j = i
        BY <1>3, <2>2 DEF OwnedBy, Exists
    <2>3. CASE g # f \/ j # i
        <3>1. db'[g][j] = db[g][j] /\ dirs'[g][j] = dirs[g][j]
            BY <1>3, <2>1, <2>3
        <3> QED  BY <2>1, <3>1 DEF OwnedBy, Exists
    <2> QED  BY <2>2, <2>3
<1>5. DOMAIN sess' = Sessions
    BY <1>1 DEF Tables
<1> QED  BY <1>1, <1>2, <1>4, <1>5 DEF Tables

LEMMA AllocMkdirBase ==
    ASSUME SiteBase, NEW s \in Sessions, AllocMkdir(s)
    PROVE  /\ SiteBase'
           /\ dirs' = [dirs EXCEPT ![sess[s].to][Target(s)] = Me(s)]
           /\ sess'[s].pc = "write" /\ sess'[s].out = sess[s].out
<1> DEFINE q == sess[s]
           f == q.to
           i == WsId(Me(s), q.word)
           made == RaiseCap(q.proc, {"DAC_OVERRIDE"})
           opened == RaiseCap(LowerCap(made, {"DAC_OVERRIDE"}), {"DAC_OVERRIDE"})
           given == RaiseCap(LowerCap(opened, {"DAC_OVERRIDE"}), {"CHOWN"})
           set == RaiseCap(LowerCap(given, {"CHOWN"}), {"FOWNER"})
           proc == LowerCap(set, {"FOWNER"})
           r == [q EXCEPT !.pc = "write", !.out = q.out, !.proc = proc]
<1>1. Process(s, q) /\ Shape(s, q) /\ DOMAIN q = SessFields /\ q # Idle /\ q.pc = "mkdir"
    BY Known DEF AllocMkdir
<1>2. q.tool = "allocate" /\ q.word \in WsNames /\ f \in Fs /\ q.out = ""
    BY <1>1 DEF Shape
<1>3. Lowered(s, q.proc) /\ site.mode \in Modes /\ Me(s) \in Users
    BY <1>1, <1>2, Known DEF Process
<1>4. /\ May(made, "DAC_OVERRIDE") /\ May(given, "CHOWN") /\ May(set, "FOWNER")
      /\ Lowered(s, proc)
    BY <1>3, MkdirProcess
<1>5. /\ dirs' = [dirs EXCEPT ![f][i] = Me(s)]
      /\ sess' = [sess EXCEPT ![s] = r]
      /\ UNCHANGED <<site, conf, order, db, up, links, started, outages, steady>>
    <2> HIDE DEF made, given, set, proc
    <2>1. dirs' = [dirs EXCEPT ![f][i] = Me(s)]
        BY <1>4 DEF AllocMkdir, made, opened, given
    <2>2. sess' = [sess EXCEPT ![s] = r]
        BY <1>4 DEF AllocMkdir, made, opened, given, set, proc
    <2>3. UNCHANGED <<site, conf, order, db, up, links, started, outages, steady>>
        BY DEF AllocMkdir
    <2> QED  BY <2>1, <2>2, <2>3
<1> HIDE DEF proc
<1>6. i \in WsIds
    BY <1>2, <1>3, IdIn
<1>o. \A u \in Users : \A n \in WsNames : i = WsId(u, n) => u = Me(s)
    BY <1>2, <1>3, IdOwner
<1>7. sess[s] = q /\ f = sess[s].to /\ i = Target(s)
    BY DEF Target
<1>e. Tables
    BY DEF SiteBase
<1> HIDE DEF q, f, i
<1>8. /\ DOMAIN r = SessFields /\ r.pc = "write" /\ r.out = q.out /\ r.tool = q.tool
      /\ r.word = q.word /\ r.on = q.on /\ r.grp = q.grp /\ r.todo = q.todo
      /\ r.hits = q.hits /\ r.to = q.to /\ r.proc = proc
    BY <1>1 DEF SessFields
<1>p. sess' = [sess EXCEPT ![s] = r]
    BY <1>5
<1> HIDE DEF r
<1>9. Process(s, r)
    BY <1>2, <1>4, <1>8 DEF Process
<1>10. Shape(s, r)
    BY <1>1, <1>2, <1>8, IdleFields DEF Shape
<1>11. Tables'
    <2> DEFINE e == db[f][i]
               E == [group : Groups \cup {NoGroup}, owner : Users \cup {Nobody, Db, Root}]
               d == Me(s)
    <2>0. db \in [Fs -> [WsIds -> E]] /\ steady \subseteq Sessions
        BY <1>e DEF Tables
    <2>3. ASSUME NEW u \in Users, NEW n \in WsNames, i = WsId(u, n)
          PROVE  /\ d \in {u, Nobody}
                 /\ e # NoWs => /\ e.owner = IF site.mode = "user" THEN u ELSE Db
                                /\ e.group \in MemberOf[u] \cup {NoGroup}
        <3>1. OwnedBy(f, u, n)
            BY <1>2, <1>e DEF Tables
        <3> QED  BY <3>1, <1>o, <2>3 DEF OwnedBy, Exists
    <2>1. e \in E
        <3> HIDE DEF E
        <3> QED  BY <1>2, <1>6, <2>0
    <2>2. db' = [db EXCEPT ![f][i] = e]
        <3> HIDE DEF E
        <3>1. db' = db
            BY <1>5
        <3> QED  BY <1>2, <1>6, <2>0, <3>1
    <2>4. d \in Users \cup {Nobody, Db, Root} /\ steady' \subseteq Sessions
        BY <1>3, <1>5, <2>0
    <2>5. dirs' = [dirs EXCEPT ![f][i] = d] /\ UNCHANGED <<site, up, links, started, outages>>
        BY <1>5
    <2>6. e \in [group : Groups \cup {NoGroup}, owner : Users \cup {Nobody, Db, Root}]
        BY <2>1
    <2>7. \A u \in Users : \A n \in WsNames : i = WsId(u, n) =>
                /\ d \in {u, Nobody}
                /\ e # NoWs => /\ e.owner = IF site.mode = "user" THEN u ELSE Db
                               /\ e.group \in MemberOf[u] \cup {NoGroup}
        BY <2>3
    <2>8. f \in Fs /\ i \in WsIds
        BY <1>2, <1>6
    <2> HIDE DEF e, d, E
    <2> QED  BY <1>p, <2>8, <2>6, <2>2, <2>7, <2>4, <2>5, TablesChange, Zenon
<1> QED  BY <1>5, <1>7, <1>8, <1>p, <1>9, <1>10, <1>11, <1>e, StepBase DEF Tables

LEMMA MyGroups ==
    ASSUME NEW u \in Users
    PROVE  MemberOf[u] \subseteq Groups
BY DEF Groups

LEMMA AllocEntryBase ==
    ASSUME SiteBase, NEW s \in Sessions, AllocEntry(s)
    PROVE  /\ SiteBase' /\ UNCHANGED <<order, up>> /\ steady' = steady \cap {s}
           /\ sess[s].tool = "allocate" /\ sess[s].pc = "write"
           /\ sess[s].to \in Fs /\ Target(s) \in WsIds
           /\ \A f \in Fs : \A i \in WsIds : f # sess[s].to \/ i # Target(s) =>
                db'[f][i] = db[f][i]
           /\ sess'[s].out = "created" /\ sess'[s].pc = "done" /\ sess'[s].tool = sess[s].tool
           /\ sess'[s].on = sess[s].on /\ sess'[s].word = sess[s].word
           /\ sess'[s].to = sess[s].to
           /\ \A t \in Sessions \ {s} : sess'[t] = sess[t]
<1> DEFINE q == sess[s]
           f == q.to
           i == WsId(Me(s), q.word)
           w == BecomeDb(RaiseCap(q.proc, {"DAC_OVERRIDE"}))
           m == LowerCap(RaiseCap(w, {"FOWNER"}), {"FOWNER", "DAC_OVERRIDE"})
           o == IF m.mode = "caps" THEN RaiseCap(m, {"CHOWN"}) ELSE m
           proc == IF m.mode = "caps" THEN LowerCap(o, {"CHOWN"}) ELSE o
           owner == IF m.mode = "caps" /\ o.alive THEN Db
                    ELSE IF Exists(f, i) THEN db[f][i].owner ELSE w.euid
           e == [group |-> q.grp, owner |-> owner]
           r == [q EXCEPT !.pc = "done", !.out = "created", !.proc = proc]
           E == [group : Groups \cup {NoGroup}, owner : Users \cup {Nobody, Db, Root}]
           d == dirs[f][i]
<1>1. Process(s, q) /\ Shape(s, q) /\ DOMAIN q = SessFields /\ q # Idle /\ q.pc = "write"
    BY Known DEF AllocEntry
<1>2. /\ q.tool = "allocate" /\ q.word \in WsNames /\ f \in Fs /\ q.out = ""
      /\ q.grp \in MemberOf[Me(s)] \cup {NoGroup}
    BY <1>1 DEF Shape
<1>3. Lowered(s, q.proc) /\ site.mode \in Modes /\ Me(s) \in Users
    BY <1>1, <1>2, Known DEF Process
<1>4. /\ w.alive = TRUE /\ o.alive = TRUE /\ m.mode = site.mode
      /\ site.mode = "setuid" => w.euid = Db
      /\ site.mode = "user" => w.euid = Me(s)
      /\ Lowered(s, proc)
    BY ZenonT(40), <1>3, EntryProcess
<1>5. /\ db' = [db EXCEPT ![f][i] = e]
      /\ sess' = [sess EXCEPT ![s] = r]
      /\ steady' = steady \cap {s}
      /\ UNCHANGED <<site, conf, order, dirs, up, links, started, outages>>
    <2> HIDE DEF w, m, o
    <2>1. db' = [db EXCEPT ![f][i] = e]
        BY <1>4 DEF AllocEntry, w, m, o
    <2>2. sess' = [sess EXCEPT ![s] = r]
        BY <1>4 DEF AllocEntry, w, m, o
    <2>3. /\ steady' = steady \cap {s}
          /\ UNCHANGED <<site, conf, order, dirs, up, links, started, outages>>
        BY DEF AllocEntry, Disturbs
    <2> QED  BY <2>1, <2>2, <2>3
<1>6. i \in WsIds
    BY <1>2, <1>3, IdIn
<1>o. \A u \in Users : \A n \in WsNames : i = WsId(u, n) => u = Me(s)
    BY <1>2, <1>3, IdOwner
<1>7. sess[s] = q /\ f = sess[s].to /\ i = Target(s)
    BY DEF Target
<1>e. Tables
    BY DEF SiteBase
<1>8. OwnedBy(f, Me(s), q.word)
    BY <1>2, <1>3, <1>e DEF Tables
<1>9. owner = IF site.mode = "user" THEN Me(s) ELSE Db
    <2> HIDE DEF w, m, o, q
    <2>1. Exists(f, i) => db[f][i].owner = IF site.mode = "user" THEN Me(s) ELSE Db
        BY <1>8 DEF OwnedBy
    <2> QED  BY <1>3, <1>4, <2>1 DEF Modes
<1> HIDE DEF owner
<1>10. q.grp \in Groups \cup {NoGroup} /\ owner \in Users \cup {Nobody, Db, Root}
    BY <1>2, <1>3, <1>9, MyGroups
<1>11. e \in E /\ e.owner = owner /\ e.group = q.grp
    <2> DEFINE g == q.grp
    <2>1. g \in Groups \cup {NoGroup}
        BY <1>10
    <2> HIDE DEF g, q
    <2> QED  BY <1>10, <2>1 DEF g
<1>12. db \in [Fs -> [WsIds -> E]] /\ dirs \in [Fs -> [WsIds -> Users \cup {Nobody, Db, Root}]]
       /\ steady \subseteq Sessions /\ DOMAIN sess = Sessions
    <2>1. DOMAIN sess = Sessions /\ sess' = [sess EXCEPT ![s] = r]
        BY <1>e, <1>5 DEF Tables
    <2> QED  BY <1>e DEF Tables
<1> HIDE DEF proc, q, f, i, e, E
<1>13. /\ DOMAIN r = SessFields /\ r.pc = "done" /\ r.out = "created" /\ r.tool = q.tool
       /\ r.word = q.word /\ r.on = q.on /\ r.grp = q.grp /\ r.todo = q.todo
       /\ r.hits = q.hits /\ r.to = q.to /\ r.proc = proc
    BY <1>1 DEF SessFields
<1>p. sess' = [sess EXCEPT ![s] = r]
    BY <1>5
<1> HIDE DEF r
<1>14. Process(s, r)
    BY <1>2, <1>4, <1>13 DEF Process
<1>15. Shape(s, r)
    BY <1>1, <1>2, <1>13, IdleFields DEF Shape, Outcomes
<1>16. Tables'
    <2>1. d \in Users \cup {Nobody, Db, Root} /\ steady' \subseteq Sessions
        BY <1>2, <1>5, <1>6, <1>12
    <2>2. dirs' = [dirs EXCEPT ![f][i] = d]
        <3>1. dirs' = dirs
            BY <1>5
        <3> QED  BY <1>2, <1>6, <1>12, <3>1
    <2>3. d \in {Me(s), Nobody}
        BY <1>8, <1>7 DEF OwnedBy, Target
    <2>4. UNCHANGED <<site, up, links, started, outages>>
        BY <1>5
    <2>5. e \in [group : Groups \cup {NoGroup}, owner : Users \cup {Nobody, Db, Root}]
        BY <1>11 DEF E
    <2>6. db' = [db EXCEPT ![f][i] = e]
        BY <1>5
    <2>7. \A u \in Users : \A n \in WsNames : i = WsId(u, n) =>
                /\ d \in {u, Nobody}
                /\ e # NoWs => /\ e.owner = IF site.mode = "user" THEN u ELSE Db
                               /\ e.group \in MemberOf[u] \cup {NoGroup}
        BY <1>o, <1>2, <1>9, <1>11, <2>3
    <2>8. f \in Fs /\ i \in WsIds
        BY <1>2, <1>6
    <2> HIDE DEF d
    <2> QED  BY <1>p, <2>8, <2>5, <2>1, <2>2, <2>6, <2>7, <2>4, TablesChange, Zenon
<1>17. SiteBase'
    BY <1>5, <1>p, <1>14, <1>15, <1>16, StepBase
<1>18. \A g \in Fs : \A j \in WsIds : g # f \/ j # i => db'[g][j] = db[g][j]
    <2>1. db' = [db EXCEPT ![f][i] = e]
        BY <1>5
    <2> QED  BY <1>2, <1>6, <1>12, <2>1
<1>19. sess'[s] = r /\ \A t \in Sessions \ {s} : sess'[t] = sess[t]
    BY <1>p, <1>12
<1> QED  BY <1>1, <1>2, <1>5, <1>6, <1>7, <1>13, <1>17, <1>18, <1>19

LEMMA ReleaseTakeBase ==
    ASSUME SiteBase, NEW s \in Sessions, ReleaseTake(s)
    PROVE  /\ SiteBase' /\ UNCHANGED <<order, up>> /\ steady' = steady \cap {s}
           /\ sess[s].tool = "release"
           /\ \A f \in Fs : \A i \in WsIds : db'[f][i] \in {db[f][i], NoWs}
           /\ \E x \in sess[s].hits : db'[x[1]][x[2]] = NoWs
           /\ sess'[s].out = "released" /\ sess'[s].pc = "done" /\ sess'[s].tool = "release"
           /\ sess'[s].word = sess[s].word /\ sess'[s].on = sess[s].on
           /\ \A t \in Sessions \ {s} : sess'[t] = sess[t]
<1> DEFINE q == sess[s]
           x == CHOOSE y \in q.hits : TRUE
           C == {"FOWNER", "DAC_OVERRIDE"}
           proc == LowerCap(BecomeDb(RaiseCap(q.proc, C)), C)
           r == [q EXCEPT !.pc = "done", !.out = "released", !.proc = proc]
           E == [group : Groups \cup {NoGroup}, owner : Users \cup {Nobody, Db, Root}]
           f == x[1]
           i == x[2]
           e == NoWs
           d == Nobody
<1>1. Process(s, q) /\ Shape(s, q) /\ DOMAIN q = SessFields /\ q # Idle /\ q.pc = "take"
    BY Known DEF ReleaseTake
<1>2. /\ q.tool = "release" /\ q.hits # {} /\ q.out = "" /\ q.hits \subseteq Fs \X WsIds
    BY <1>1 DEF Shape
<1>3. Lowered(s, q.proc) /\ site.mode \in Modes
    BY <1>1, <1>2, Known DEF Process
<1>4. Lowered(s, proc)
    BY <1>3, ReleaseProcess
<1>5. /\ db' = [db EXCEPT ![f][i] = e] /\ dirs' = [dirs EXCEPT ![f][i] = d]
      /\ sess' = [sess EXCEPT ![s] = r]
      /\ steady' = steady \cap {s}
      /\ UNCHANGED <<site, conf, order, up, links, started, outages>>
    BY DEF ReleaseTake, Disturbs
<1>6. f \in Fs /\ i \in WsIds
    <2>1. x \in q.hits
        BY <1>2
    <2> HIDE DEF x, q
    <2> QED  BY <1>2, <2>1
<1>e. Tables
    BY DEF SiteBase
<1> HIDE DEF proc, q, f, i, E
<1>12. db \in [Fs -> [WsIds -> E]] /\ steady \subseteq Sessions /\ DOMAIN sess = Sessions
    BY <1>e DEF Tables, E
<1>13. /\ DOMAIN r = SessFields /\ r.pc = "done" /\ r.out = "released" /\ r.tool = q.tool
       /\ r.word = q.word /\ r.on = q.on /\ r.grp = q.grp /\ r.todo = q.todo
       /\ r.hits = q.hits /\ r.to = q.to /\ r.proc = proc
    BY <1>1 DEF SessFields
<1>p. sess' = [sess EXCEPT ![s] = r]
    BY <1>5
<1> HIDE DEF r
<1>14. Process(s, r)
    BY <1>2, <1>4, <1>13 DEF Process
<1>15. Shape(s, r)
    BY <1>1, <1>2, <1>13, IdleFields DEF Shape, Outcomes
<1>16. Tables'
    <2>1. d \in Users \cup {Nobody, Db, Root} /\ steady' \subseteq Sessions
        BY <1>5, <1>12
    <2>4. UNCHANGED <<site, up, links, started, outages>>
        BY <1>5
    <2>5. e \in [group : Groups \cup {NoGroup}, owner : Users \cup {Nobody, Db, Root}]
        BY DEF NoWs, Nobody
    <2>6. db' = [db EXCEPT ![f][i] = e] /\ dirs' = [dirs EXCEPT ![f][i] = d]
        BY <1>5
    <2>7. \A u \in Users : \A n \in WsNames : i = WsId(u, n) =>
                /\ d \in {u, Nobody}
                /\ e # NoWs => /\ e.owner = IF site.mode = "user" THEN u ELSE Db
                               /\ e.group \in MemberOf[u] \cup {NoGroup}
        OBVIOUS
    <2> HIDE DEF d, e
    <2> QED  BY <1>p, <1>6, <2>5, <2>1, <2>6, <2>7, <2>4, TablesChange, Zenon
<1>17. SiteBase'
    BY <1>5, <1>p, <1>14, <1>15, <1>16, StepBase
<1>18. \A g \in Fs : \A j \in WsIds : db'[g][j] \in {db[g][j], NoWs}
    <2>1. db' = [db EXCEPT ![f][i] = NoWs]
        BY <1>5
    <2> QED  BY <1>6, <1>12, <2>1
<1>20. \E y \in q.hits : db'[y[1]][y[2]] = NoWs
    <2>1. db' = [db EXCEPT ![f][i] = NoWs]
        BY <1>5
    <2>2. db'[f][i] = NoWs
        BY <1>6, <1>12, <2>1
    <2>3. x \in q.hits
        BY <1>2
    <2> QED  BY <2>2, <2>3, Zenon DEF f, i
<1>19. sess'[s] = r /\ \A t \in Sessions \ {s} : sess'[t] = sess[t]
    BY <1>p, <1>12
<1> QED  BY <1>2, <1>5, <1>13, <1>17, <1>18, <1>19, <1>20 DEF q

-----------------------------------------------------------------------------
(* Starting.                                                                  *)

StartedAs(s, tool, r) ==
    /\ r.tool = tool /\ r.hits = {} /\ r.proc = IF tool \in {"allocate", "release"}
                        THEN Privileged(s, {"DAC_OVERRIDE", "CHOWN", "FOWNER"}) ELSE Plain(s)
    /\ r.out \in {"", "denied"} /\ r.to = NoFs /\ DOMAIN r = SessFields

\* What a tool that starts as k changes.
Begun(s, k) ==
    /\ UNCHANGED <<order, db, dirs, up, links, outages>> /\ steady' = steady \cup {s}
    /\ sess'[s].tool = k.tool /\ sess'[s].on = k.on /\ sess'[s].hits = {}
    /\ sess'[s].word = k.word /\ sess'[s].todo = k.todo /\ sess'[s].byGroup = k.byGroup
    /\ \/ sess'[s].pc = "done" /\ sess'[s].out \in {"invalid", k.out}
       \/ sess'[s].pc = k.pc /\ sess'[s].out = k.out
    /\ \A t \in Sessions \ {s} : sess'[t] = sess[t]

\* A tool starts as k, or not if the configuration is invalid.
LEMMA StartsBase ==
    ASSUME SiteBase, NEW s \in Sessions, NEW tool, NEW r, Starts(s, tool, r),
           NEW k, k = [r EXCEPT !.tool = tool], StartedAs(s, tool, k),
           tool \in {"allocate", "release", "find", "list", "register"},
           Process(s, k), Shape(s, k)
    PROVE  SiteBase' /\ Begun(s, k)
<1> DEFINE v == [r EXCEPT !.tool = tool, !.pc = "done", !.out = "invalid"]
<1>1. DOMAIN k = SessFields /\ k.tool = tool /\ k.hits = {}
    BY DEF StartedAs
<1>2. DOMAIN r = SessFields
    BY <1>1
<1>3. /\ DOMAIN v = SessFields /\ v.pc = "done" /\ v.out = "invalid" /\ v.tool = tool
      /\ v.word = k.word /\ v.on = k.on /\ v.grp = k.grp /\ v.todo = k.todo
      /\ v.hits = k.hits /\ v.to = k.to /\ v.proc = k.proc /\ v.byGroup = k.byGroup
    BY <1>2 DEF SessFields
<1>4. sess' = [sess EXCEPT ![s] = IF Valid(conf) THEN k ELSE v]
    BY DEF Starts
<1>5. /\ started < MaxTools /\ started' = started + 1 /\ steady' = steady \cup {s}
      /\ UNCHANGED <<site, conf, order, db, dirs, up, links, outages>>
    BY DEF Starts, Store
<1> HIDE DEF v
<1>6. Process(s, v)
    BY <1>1, <1>3 DEF Process
<1>7. Shape(s, v)
    BY <1>1, <1>3, IdleFields DEF Shape, Outcomes
<1> DEFINE z == IF Valid(conf) THEN k ELSE v
<1>8. /\ sess' = [sess EXCEPT ![s] = z] /\ Process(s, z) /\ Shape(s, z)
      /\ z.tool = tool /\ z.on = k.on /\ z.hits = {} /\ z.word = k.word /\ z.todo = k.todo
      /\ z.byGroup = k.byGroup
      /\ \/ z.pc = "done" /\ z.out \in {"invalid", k.out}
         \/ z.pc = k.pc /\ z.out = k.out
    BY <1>1, <1>3, <1>4, <1>6, <1>7
<1> HIDE DEF z
<1>9. /\ links \in [Users -> SUBSET (Fs \X WsIds)] /\ steady \subseteq Sessions
      /\ started \in 0 .. MaxTools /\ MaxTools \in Nat /\ DOMAIN sess = Sessions
    BY SiteAssumption DEF SiteBase, Tables
<1>10. Tables'
    <2>1. started' \in 0 .. MaxTools /\ steady' \subseteq Sessions
        BY <1>5, <1>9
    <2> QED  BY <1>5, <1>8, <1>9, <2>1, TablesSame
<1>11. SiteBase'
    BY <1>5, <1>8, <1>10, StepBase
<1> QED  BY <1>1, <1>5, <1>8, <1>9, <1>11 DEF Begun

LEMMA SearchSeq ==
    ASSUME NEW v \in Seq(Fs), NEW on, on # NoFs => Contains(v, on)
    PROVE  /\ Search(v, on) \in Seq(Fs)
           /\ v # <<>> => Search(v, on) # <<>>
           /\ ToSet(Search(v, on)) = IF on = NoFs THEN ToSet(v) ELSE {on}
<1>1. on # NoFs => on \in Fs
    BY DEF Contains
<1> QED  BY <1>1 DEF Search, ToSet

LEMMA Ordered ==
    ASSUME SiteBase, NEW s \in Sessions, NEW intent \in Intents
    PROVE  order[Me(s)][intent] \in Seq(Fs)
BY OrderSeq, Known DEF SiteBase

\* The states in which the tools start, as far as the properties depend on it.
AllocBegins(s, k) ==
    /\ k.tool = "allocate"
    /\ \/ k.pc = "done" /\ k.out = "denied"
       \/ k.pc = "count" /\ k.out = "" /\ k.todo = Search(order[Me(s)]["create"], k.on)

ReleaseBegins(s, k) ==
    /\ k.tool = "release"
    /\ \/ k.pc = "done" /\ k.out = "denied"
       \/ k.pc = "search" /\ k.out = "" /\ k.todo = Search(order[Me(s)]["release"], k.on)

FindBegins(s, k) ==
    /\ k.tool = "find"
    /\ \/ k.pc = "done" /\ k.out = "denied"
       \/ /\ k.pc = "look" /\ k.out = ""
          /\ k.todo = Search(order[Me(s)]["use"], k.on) /\ k.todo \in Seq(Fs)

ListBegins(s, k) ==
    /\ k.tool = "list" /\ k.pc = "look" /\ k.out = "" /\ k.todo \in Seq(Fs)
    /\ LET may == ToSet(order[Me(s)]["list"])
       IN  ToSet(k.todo) = IF k.on = NoFs THEN may ELSE may \cap {k.on}

LEMMA AllocStartBase ==
    ASSUME SiteBase, NEW s \in Sessions, NEW n \in WsNames, NEW on, NEW g, AllocStart(s, n, on, g)
    PROVE  SiteBase' /\ \E k : Begun(s, k) /\ AllocBegins(s, k)
<1> DEFINE p == Privileged(s, {"DAC_OVERRIDE", "CHOWN", "FOWNER"})
           valid == order[Me(s)]["create"]
           refused == \/ valid = <<>>
                      \/ on # NoFs /\ ~Contains(valid, on)
                      \/ g # NoGroup /\ g \notin p.groups
           r == [Idle EXCEPT !.pc = IF refused THEN "done" ELSE "count",
                             !.out = IF refused THEN "denied" ELSE "",
                             !.word = n, !.on = on, !.grp = g, !.proc = p,
                             !.todo = IF refused THEN <<>> ELSE Search(valid, on)]
           tool == "allocate"
           k == [r EXCEPT !.tool = tool]
<1>1. Starts(s, tool, r)
    BY DEF AllocStart
<1>s. tool \in ToolsOf[s]
    BY <1>1 DEF Starts
<1>2. site.mode \in Modes /\ valid \in Seq(Fs)
    BY Known, Ordered DEF Intents
<1>3. Lowered(s, p) /\ p.groups = MemberOf[Me(s)]
    BY <1>2, PrivilegedLowered
<1>4. p = Privileged(s, {"DAC_OVERRIDE", "CHOWN", "FOWNER"})
    OBVIOUS
<1>5. ~refused => /\ Search(valid, on) \in Seq(Fs) /\ Search(valid, on) # <<>>
                  /\ g \in MemberOf[Me(s)] \cup {NoGroup}
    BY <1>2, <1>3, SearchSeq
<1>v. valid = order[Me(s)]["create"]
    OBVIOUS
<1> HIDE DEF p, refused, valid
<1>6. /\ DOMAIN k = SessFields /\ k.pc = (IF refused THEN "done" ELSE "count")
      /\ k.out = (IF refused THEN "denied" ELSE "") /\ k.word = n /\ k.on = on
      /\ k.grp = g /\ k.proc = p /\ k.todo = (IF refused THEN <<>> ELSE Search(valid, on))
      /\ k.tool = tool /\ k.hits = {} /\ k.to = NoFs
    BY IdleFields DEF SessFields
<1>7. k = [r EXCEPT !.tool = tool]
    OBVIOUS
<1> HIDE DEF r, k
<1>8. StartedAs(s, tool, k)
    BY <1>4, <1>6 DEF StartedAs
<1>9. Process(s, k)
    BY <1>3, <1>6 DEF Process
<1>10. Shape(s, k)
    <2>1. CASE refused
        <3>1. k.pc = "done" /\ k.out = "denied" /\ k.todo \in Seq(Fs)
            BY <2>1, <1>6
        <3> QED  BY <3>1, <1>s, <1>6, IdleFields DEF Shape, Outcomes
    <2>2. CASE ~refused
        <3>1. k.pc = "count" /\ k.out = "" /\ k.todo \in Seq(Fs) /\ k.grp \in MemberOf[Me(s)] \cup {NoGroup}
            BY <2>2, <1>5, <1>6
        <3>2. Search(order[Me(s)]["create"], k.on) \in Seq(Fs) \ {<<>>}
            BY <2>2, <1>5, <1>6, <1>v
        <3> QED  BY <3>1, <3>2, <1>s, <1>6, IdleFields DEF Shape, Outcomes
    <2> QED  BY <2>1, <2>2
<1>t. tool \in {"allocate", "release", "find", "list", "register"} /\ tool = "allocate"
    OBVIOUS
<1> HIDE DEF tool
<1>11. SiteBase' /\ Begun(s, k)
    BY <1>1, <1>7, <1>8, <1>9, <1>10, <1>t, StartsBase
<1> QED  BY <1>6, <1>11, <1>v, <1>t DEF AllocBegins

LEMMA ReleaseStartBase ==
    ASSUME SiteBase, NEW s \in Sessions, NEW n \in WsNames, NEW on, ReleaseStart(s, n, on)
    PROVE  SiteBase' /\ \E k : Begun(s, k) /\ ReleaseBegins(s, k)
<1> DEFINE p == Privileged(s, {"DAC_OVERRIDE", "CHOWN", "FOWNER"})
           valid == order[Me(s)]["release"]
           refused == valid = <<>> \/ (on # NoFs /\ ~Contains(valid, on))
           r == [Idle EXCEPT !.pc = IF refused THEN "done" ELSE "search",
                             !.out = IF refused THEN "denied" ELSE "",
                             !.word = n, !.on = on, !.proc = p,
                             !.todo = IF refused THEN <<>> ELSE Search(valid, on)]
           tool == "release"
           k == [r EXCEPT !.tool = tool]
<1>1. Starts(s, tool, r)
    BY DEF ReleaseStart
<1>s. tool \in ToolsOf[s]
    BY <1>1 DEF Starts
<1>2. site.mode \in Modes /\ valid \in Seq(Fs)
    BY Known, Ordered DEF Intents
<1>3. Lowered(s, p)
    BY <1>2, PrivilegedLowered
<1>4. p = Privileged(s, {"DAC_OVERRIDE", "CHOWN", "FOWNER"})
    OBVIOUS
<1>5. ~refused => Search(valid, on) \in Seq(Fs)
    BY <1>2, SearchSeq
<1>v. valid = order[Me(s)]["release"]
    OBVIOUS
<1> HIDE DEF p, refused, valid
<1>6. /\ DOMAIN k = SessFields /\ k.pc = (IF refused THEN "done" ELSE "search")
      /\ k.out = (IF refused THEN "denied" ELSE "") /\ k.word = n /\ k.on = on
      /\ k.proc = p /\ k.todo = (IF refused THEN <<>> ELSE Search(valid, on))
      /\ k.tool = tool /\ k.hits = {} /\ k.to = NoFs
    BY IdleFields DEF SessFields
<1>7. k = [r EXCEPT !.tool = tool]
    OBVIOUS
<1> HIDE DEF r, k
<1>8. StartedAs(s, tool, k)
    BY <1>4, <1>6 DEF StartedAs
<1>9. Process(s, k)
    BY <1>3, <1>6 DEF Process
<1>10. Shape(s, k)
    <2>1. CASE refused
        <3>1. k.pc = "done" /\ k.out = "denied" /\ k.todo \in Seq(Fs)
            BY <2>1, <1>6
        <3> QED  BY <3>1, <1>s, <1>6, IdleFields DEF Shape, Outcomes
    <2>2. CASE ~refused
        <3>1. k.pc = "search" /\ k.out = "" /\ k.todo \in Seq(Fs)
            BY <2>2, <1>5, <1>6
        <3> QED  BY <3>1, <1>s, <1>6, IdleFields DEF Shape, Outcomes
    <2> QED  BY <2>1, <2>2
<1>t. tool \in {"allocate", "release", "find", "list", "register"} /\ tool = "release"
    OBVIOUS
<1> HIDE DEF tool
<1>11. SiteBase' /\ Begun(s, k)
    BY <1>1, <1>7, <1>8, <1>9, <1>10, <1>t, StartsBase
<1> QED  BY <1>6, <1>11, <1>v, <1>t DEF ReleaseBegins

LEMMA FindStartBase ==
    ASSUME SiteBase, NEW s \in Sessions, NEW pat \in Patterns, NEW on, NEW byGroup,
           FindStart(s, pat, on, byGroup)
    PROVE  SiteBase' /\ \E k : Begun(s, k) /\ FindBegins(s, k)
<1> DEFINE valid == order[Me(s)]["use"]
           refused == on # NoFs /\ ~Contains(valid, on)
           r == [Idle EXCEPT !.pc = IF refused THEN "done" ELSE "look",
                             !.out = IF refused THEN "denied" ELSE "",
                             !.word = pat, !.on = on, !.byGroup = byGroup, !.proc = Plain(s),
                             !.todo = IF refused THEN <<>> ELSE Search(valid, on)]
           tool == "find"
           k == [r EXCEPT !.tool = tool]
<1>1. Starts(s, tool, r)
    BY DEF FindStart
<1>s. tool \in ToolsOf[s]
    BY <1>1 DEF Starts
<1>2. valid \in Seq(Fs)
    BY Ordered DEF Intents
<1>5. ~refused => Search(valid, on) \in Seq(Fs)
    BY <1>2, SearchSeq
<1>v. valid = order[Me(s)]["use"]
    OBVIOUS
<1> HIDE DEF refused, valid
<1>6. /\ DOMAIN k = SessFields /\ k.pc = (IF refused THEN "done" ELSE "look")
      /\ k.out = (IF refused THEN "denied" ELSE "") /\ k.word = pat /\ k.on = on
      /\ k.proc = Plain(s) /\ k.todo = (IF refused THEN <<>> ELSE Search(valid, on))
      /\ k.tool = tool /\ k.hits = {} /\ k.to = NoFs
    BY IdleFields DEF SessFields
<1>7. k = [r EXCEPT !.tool = tool]
    OBVIOUS
<1> HIDE DEF r, k
<1>8. StartedAs(s, tool, k)
    BY <1>6 DEF StartedAs
<1>9. Process(s, k)
    BY <1>6 DEF Process
<1>10. Shape(s, k)
    <2>1. CASE refused
        <3>1. k.pc = "done" /\ k.out = "denied" /\ k.todo \in Seq(Fs)
            BY <2>1, <1>6
        <3> QED  BY <3>1, <1>s, <1>6, IdleFields DEF Shape, Outcomes
    <2>2. CASE ~refused
        <3>1. k.pc = "look" /\ k.out = "" /\ k.todo \in Seq(Fs)
            BY <2>2, <1>5, <1>6
        <3> QED  BY <3>1, <1>s, <1>6, IdleFields DEF Shape, Outcomes
    <2> QED  BY <2>1, <2>2
<1>t. tool \in {"allocate", "release", "find", "list", "register"} /\ tool = "find"
    OBVIOUS
<1> HIDE DEF tool
<1>11. SiteBase' /\ Begun(s, k)
    BY <1>1, <1>7, <1>8, <1>9, <1>10, <1>t, StartsBase
<1> QED  BY <1>5, <1>6, <1>11, <1>v, <1>t DEF FindBegins

LEMMA ListStartBase ==
    ASSUME SiteBase, NEW s \in Sessions, NEW pat \in Patterns, NEW on, NEW byGroup,
           ListStart(s, pat, on, byGroup)
    PROVE  SiteBase' /\ \E k : Begun(s, k) /\ ListBegins(s, k)
<1> DEFINE valid == order[Me(s)]["list"]
           refused == on # NoFs /\ ~Contains(valid, on)
           list == IF refused THEN <<>> ELSE Search(valid, on)
           r == [Idle EXCEPT !.pc = "look", !.word = pat, !.on = on, !.byGroup = byGroup,
                             !.proc = Plain(s), !.todo = list]
           tool == "list"
           k == [r EXCEPT !.tool = tool]
<1>1. Starts(s, tool, r)
    BY DEF ListStart
<1>s. tool \in ToolsOf[s]
    BY <1>1 DEF Starts
<1>2. valid \in Seq(Fs)
    BY Ordered DEF Intents
<1>5. list \in Seq(Fs) /\ ToSet(list) = IF on = NoFs THEN ToSet(valid) ELSE ToSet(valid) \cap {on}
    <2>1. ~refused => /\ Search(valid, on) \in Seq(Fs)
                      /\ ToSet(Search(valid, on)) = IF on = NoFs THEN ToSet(valid) ELSE {on}
        BY <1>2, SearchSeq
    <2>2. Contains(valid, on) <=> on \in ToSet(valid)
        BY <1>2 DEF Contains, ToSet
    <2>3. <<>> \in Seq(Fs) /\ ToSet(<<>>) = {}
        BY DEF ToSet
    <2> HIDE DEF valid
    <2>4. CASE refused
        BY <2>4, <2>2, <2>3
    <2>5. CASE ~refused
        BY <2>5, <2>1, <2>2
    <2> QED  BY <2>4, <2>5
<1>v. valid = order[Me(s)]["list"]
    OBVIOUS
<1> HIDE DEF list, valid
<1>6. /\ DOMAIN k = SessFields /\ k.pc = "look"
      /\ k.out = "" /\ k.word = pat /\ k.on = on
      /\ k.proc = Plain(s) /\ k.todo = list
      /\ k.tool = tool /\ k.hits = {} /\ k.to = NoFs
    BY IdleFields DEF SessFields
<1>7. k = [r EXCEPT !.tool = tool]
    OBVIOUS
<1> HIDE DEF r, k
<1>8. StartedAs(s, tool, k)
    BY <1>6 DEF StartedAs
<1>9. Process(s, k)
    BY <1>6 DEF Process
<1>10. Shape(s, k)
    BY <1>5, <1>6, <1>s, IdleFields DEF Shape, Outcomes
<1>t. tool \in {"allocate", "release", "find", "list", "register"} /\ tool = "list"
    OBVIOUS
<1> HIDE DEF tool
<1>11. SiteBase' /\ Begun(s, k)
    BY <1>1, <1>7, <1>8, <1>9, <1>10, <1>t, StartsBase
<1> QED  BY <1>5, <1>6, <1>11, <1>v, <1>t DEF ListBegins

LEMMA RegisterStartBase ==
    ASSUME SiteBase, NEW s \in Sessions, RegisterStart(s)
    PROVE  /\ SiteBase'
           /\ \E k : /\ Begun(s, k) /\ k.tool = "register" /\ k.pc = "link" /\ k.out = ""
                     /\ k.todo = order[Me(s)]["list"]
<1> DEFINE valid == order[Me(s)]["list"]
           r == [Idle EXCEPT !.pc = "link", !.proc = Plain(s), !.todo = valid]
           tool == "register"
           k == [r EXCEPT !.tool = tool]
<1>1. Starts(s, tool, r)
    BY DEF RegisterStart
<1>s. tool \in ToolsOf[s]
    BY <1>1 DEF Starts
<1>2. valid \in Seq(Fs)
    BY Ordered DEF Intents
<1>v. valid = order[Me(s)]["list"]
    OBVIOUS
<1> HIDE DEF valid
<1>6. /\ DOMAIN k = SessFields /\ k.pc = "link"
      /\ k.out = "" /\ k.proc = Plain(s) /\ k.todo = valid
      /\ k.tool = tool /\ k.hits = {} /\ k.to = NoFs
    BY IdleFields DEF SessFields
<1>7. k = [r EXCEPT !.tool = tool]
    OBVIOUS
<1> HIDE DEF r, k
<1>8. StartedAs(s, tool, k)
    BY <1>6 DEF StartedAs
<1>9. Process(s, k)
    BY <1>6 DEF Process
<1>10. Shape(s, k)
    BY <1>2, <1>6, <1>s, IdleFields DEF Shape, Outcomes
<1>t. tool \in {"allocate", "release", "find", "list", "register"} /\ tool = "register"
    OBVIOUS
<1> HIDE DEF tool
<1>11. SiteBase' /\ Begun(s, k)
    BY <1>1, <1>7, <1>8, <1>9, <1>10, <1>t, StartsBase
<1> QED  BY <1>6, <1>11, <1>v, <1>t

-----------------------------------------------------------------------------
(* The invariant that underlies the others.                                  *)

\* What a database's going and coming changes.
LEMMA UpDownBase ==
    ASSUME SiteBase, NEW f \in Fs, Outage(f) \/ Repair(f)
    PROVE  SiteBase' /\ steady' = {} /\ outages' # 0
<1>1. /\ UNCHANGED <<site, conf, order, db, dirs, links, sess, started>> /\ steady' = {}
      /\ up' \subseteq Fs /\ outages' \in 0 .. MaxOutages
      /\ outages' # 0
    <2>1. up \subseteq Fs /\ outages \in 0 .. MaxOutages /\ MaxOutages \in Nat
          /\ (outages = 0 => up = Fs)
        BY SiteAssumption DEF SiteBase, Tables
    <2> QED  BY <2>1 DEF Outage, Repair, Disturbs
<1>2. Settled' /\ Tables'
    BY <1>1 DEF SiteBase, Settled, Tables, OwnedBy, Exists
<1>3. ASSUME NEW s \in Sessions PROVE Process(s, sess[s])' /\ Shape(s, sess[s])'
    <2>1. Process(s, sess[s]) /\ Shape(s, sess[s])
        BY DEF SiteBase
    <2>2. Process(s, sess[s])'
        BY <1>1, <2>1 DEF Process, Lowered, Plain, Me
    <2>3. Shape(s, sess[s])'
        BY ZenonT(40), <1>1, <2>1 DEF Shape, Me
    <2> QED  BY <2>2, <2>3
<1> QED  BY <1>1, <1>2, <1>3 DEF SiteBase

LEMMA StutterBase ==
    ASSUME SiteBase, UNCHANGED siteVars
    PROVE  SiteBase'
<1>1. UNCHANGED <<site, conf, order, db, dirs, up, links, sess, started, outages, steady>>
    BY DEF siteVars
<1>2. Settled' /\ Tables'
    BY <1>1 DEF SiteBase, Settled, Tables, OwnedBy, Exists
<1>3. ASSUME NEW s \in Sessions PROVE Process(s, sess[s])' /\ Shape(s, sess[s])'
    <2>1. Process(s, sess[s]) /\ Shape(s, sess[s])
        BY DEF SiteBase
    <2>2. Process(s, sess[s])'
        BY <1>1, <2>1 DEF Process, Lowered, Plain, Me
    <2>3. Shape(s, sess[s])'
        BY ZenonT(40), <1>1, <2>1 DEF Shape, Me
    <2> QED  BY <2>2, <2>3
<1> QED  BY <1>2, <1>3 DEF SiteBase

LEMMA NextBase ==
    ASSUME SiteBase, [SiteNext]_siteVars
    PROVE  SiteBase'
<1>1. ASSUME NEW s \in Sessions, Starting(s) PROVE SiteBase'
    BY <1>1, AllocStartBase, ReleaseStartBase, FindStartBase, ListStartBase, RegisterStartBase
       DEF Starting
<1>2. ASSUME NEW s \in Sessions, Running(s) PROVE SiteBase'
    BY <1>2, AllocCountBase, SearchOneBase, AllocDecideBase, AllocMkdirBase, AllocEntryBase,
       ReleaseDecideBase, ReleaseTakeBase, FindNextBase, ListNextBase, RegisterLinkBase,
       RegisterPruneBase, FinishBase DEF Running
<1>3. ASSUME NEW f \in Fs, Outage(f) \/ Repair(f) PROVE SiteBase'
    BY <1>3, UpDownBase
<1> QED  BY <1>1, <1>2, <1>3, StutterBase DEF SiteNext

\* The type invariant together with what keeps entries and processes in order, for every
\* site: any number of filesystems, users, shells and configurations.
THEOREM SiteBaseInvariant == SiteSpec => []SiteBase
<1>1. SiteInit => SiteBase
    BY InitBase
<1>2. SiteBase /\ [SiteNext]_siteVars => SiteBase'
    BY NextBase
<1> QED  BY <1>1, <1>2, PTL DEF SiteSpec

\* Every variable has the values declared for it.
THEOREM SiteTypes == SiteSpec => []SiteTypeOK
<1>1. SiteBase => SiteTypeOK
    <2> SUFFICES ASSUME SiteBase PROVE SiteTypeOK
        OBVIOUS
    <2>1. Tables /\ site \in Sites
        BY DEF SiteBase, Settled
    <2>2. ASSUME NEW s \in Sessions
          PROVE  /\ sess[s].hits \subseteq Fs \X WsIds /\ sess[s].out \in Outcomes
                 /\ sess[s].to \in Fs \cup {NoFs} /\ sess[s].todo \in Seq(Fs)
        BY Known DEF Shape
    <2> QED  BY <2>1, <2>2 DEF SiteTypeOK, Tables
<1> QED  BY <1>1, SiteBaseInvariant, PTL

\* Cap: between its steps ws_allocate and ws_release are wholly the caller or wholly the
\* database user, with nothing raised and never root, in whatever way they are installed.
THEOREM ProcessesPaired == SiteSpec => []Paired
<1>1. SiteBase => Paired
    <2> SUFFICES ASSUME SiteBase, NEW s \in Sessions, sess[s].tool \in {"allocate", "release"}
                 PROVE  LET p == sess[s].proc
                        IN  /\ p.eff = {}
                            /\ <<p.euid, p.egid, p.groups>> \in
                                    {<<p.caller, p.caller, p.callerGroups>>, <<Db, Db, {}>>}
        BY DEF Paired
    <2>1. Lowered(s, sess[s].proc)
        BY Known DEF Process
    <2> QED  BY <2>1 DEF Lowered
<1> QED  BY <1>1, SiteBaseInvariant, PTL

\* createEntry() and createWorkspace(): an entry ends up with the database user, or in user
\* mode with the caller, and the directory with the owner its id names.
THEOREM EntriesOwned == SiteSpec => []Owned
<1>1. SiteBase => Owned
    BY DEF SiteBase, Tables, OwnedBy, Owned
<1> QED  BY <1>1, SiteBaseInvariant, PTL

-----------------------------------------------------------------------------
(* What the tools conclude.  A session that is steady, before and after a     *)
(* step of another one, sees the same; its own steps keep what it has seen    *)
(* right.                                                                     *)

Right(s) == Searched(s) /\ Looked(s) /\ Listed(s) /\ Linked(s)

\* What a tool sees depends on the databases, not on how far it is.
LEMMA SameViews ==
    ASSUME NEW s \in Sessions, UNCHANGED <<conf, order, db, up>>,
           sess'[s].word = sess[s].word, sess'[s].on = sess[s].on,
           sess'[s].byGroup = sess[s].byGroup
    PROVE  /\ Target(s)' = Target(s) /\ Holding(s)' = Holding(s) /\ Shows(s)' = Shows(s)
           /\ Findable(s)' = Findable(s) /\ Listable(s)' = Listable(s)
           /\ Readable(s)' = Readable(s) /\ \A u : Owning(u)' = Owning(u)
<1>1. Target(s)' = Target(s)
    BY DEF Target, Me
<1>2. Holding(s)' = Holding(s)
    BY <1>1 DEF Holding, Exists, Me
<1>3. ASSUME NEW f \in Fs PROVE Shown(s, f)' = Shown(s, f)
    BY DEF Shown, Exists, IsAdmin, Me
<1>4. Shows(s)' = Shows(s)
    BY <1>3 DEF Shows
<1>5. Findable(s)' = Findable(s) /\ Listable(s)' = Listable(s) /\ Readable(s)' = Readable(s)
    BY DEF Findable, Listable, Readable, Search, Me
<1>6. ASSUME NEW u PROVE Owning(u)' = Owning(u)
    <2>1. \A f \in Fs : Owns(u, {f})' = Owns(u, {f})
        BY DEF Owns, Exists
    <2> QED  BY <2>1 DEF Owning
<1> QED  BY <1>1, <1>2, <1>4, <1>5, <1>6

\* A step that a session does not notice.
LEMMA RightSame ==
    ASSUME NEW s \in Sessions, Right(s), UNCHANGED <<conf, order, db, up>>,
           sess'[s] = sess[s], sess[s].tool = "register" => links'[Me(s)] = links[Me(s)]
    PROVE  Right(s)'
<1>1. /\ Target(s)' = Target(s) /\ Holding(s)' = Holding(s) /\ Shows(s)' = Shows(s)
      /\ Findable(s)' = Findable(s) /\ Listable(s)' = Listable(s)
      /\ Readable(s)' = Readable(s) /\ Owning(Me(s))' = Owning(Me(s))
    BY SameViews
<1>2. Searched(s)'
    BY <1>1 DEF Right, Searched
<1>3. Looked(s)' /\ Listed(s)'
    BY <1>1 DEF Right, Looked, Listed
<1>4. Linked(s)'
    <2>1. CASE sess[s].tool = "register"
        BY <1>1, <2>1 DEF Right, Linked, Me
    <2>2. CASE sess[s].tool # "register"
        BY <2>2 DEF Linked, Linking
    <2> QED  BY <2>1, <2>2
<1> QED  BY <1>2, <1>3, <1>4 DEF Right

\* The tool of a session goes on; nothing else changes.
LEMMA GoesTo ==
    ASSUME SiteBase, NEW s \in Sessions, NEW r, Goes(s, r)
    PROVE  /\ sess'[s] = r /\ \A t \in Sessions \ {s} : sess'[t] = sess[t]
           /\ UNCHANGED <<site, conf, order, db, dirs, up, links, outages, steady>>
BY DEF Goes, Store, SiteBase, Tables

LEMMA EndsTo ==
    ASSUME SiteBase, NEW s \in Sessions, NEW out, Ends(s, out)
    PROVE  /\ sess'[s].pc = "done" /\ sess'[s].out = out /\ sess'[s].tool = sess[s].tool
           /\ sess'[s].word = sess[s].word /\ sess'[s].on = sess[s].on
           /\ sess'[s].byGroup = sess[s].byGroup /\ sess'[s].todo = sess[s].todo
           /\ sess'[s].hits = sess[s].hits /\ sess'[s].to = sess[s].to
           /\ \A t \in Sessions \ {s} : sess'[t] = sess[t]
           /\ UNCHANGED <<site, conf, order, db, dirs, up, links, outages, steady>>
<1> DEFINE q == sess[s]
           r == [q EXCEPT !.pc = "done", !.out = out]
<1>1. Goes(s, r)
    BY DEF Ends
<1>2. DOMAIN q = SessFields
    BY Known
<1> HIDE DEF q
<1>3. /\ r.pc = "done" /\ r.out = out /\ r.tool = q.tool /\ r.word = q.word /\ r.on = q.on
      /\ r.byGroup = q.byGroup /\ r.todo = q.todo /\ r.hits = q.hits /\ r.to = q.to
    BY <1>2 DEF SessFields
<1> HIDE DEF r
<1> QED  BY <1>1, <1>3, GoesTo DEF q

\* Another session's step, unless it interferes, goes unnoticed.
LEMMA OthersQuiet ==
    ASSUME SiteBase, NEW s \in Sessions, NEW t \in Sessions \ {s},
           Starting(t) \/ Running(t), s \in steady'
    PROVE  /\ s \in steady /\ UNCHANGED <<conf, order, db, up>> /\ sess'[s] = sess[s]
           /\ sess[s].tool = "register" => links'[Me(s)] = links[Me(s)]
<1> DEFINE Quiet == /\ s \in steady /\ UNCHANGED <<conf, order, db, up>> /\ sess'[s] = sess[s]
                    /\ sess[s].tool = "register" => links'[Me(s)] = links[Me(s)]
<1>1. DOMAIN sess = Sessions /\ DOMAIN links = Users /\ Me(t) \in Users
    BY Known DEF SiteBase, Tables
<1>2. ASSUME NEW tool, NEW r, Starts(t, tool, r) PROVE Quiet
    <2>1. /\ steady' = steady \cup {t} /\ UNCHANGED <<conf, order, db, up, links>>
          /\ \E z : sess' = [sess EXCEPT ![t] = z]
        BY <1>2 DEF Starts, Store
    <2> QED  BY <1>1, <2>1
<1>3. ASSUME NEW r, Goes(t, r) PROVE Quiet
    BY <1>3, GoesTo
<1>4. ASSUME NEW out, Ends(t, out) PROVE Quiet
    BY <1>4, EndsTo
<1>5. ASSUME NEW r, NEW l, sess' = [sess EXCEPT ![t] = r], links' = [links EXCEPT ![Me(t)] = l],
             Interferes(t), UNCHANGED <<conf, order, db, up>>
      PROVE  Quiet
    <2>1. sess'[s] = sess[s] /\ s \in steady
        BY <1>1, <1>5 DEF Interferes
    <2>2. CASE Me(s) = Me(t)
        <3>1. sess[s].tool # "register"
            BY <1>5, <2>2 DEF Interferes
        <3> QED  BY <1>5, <2>1, <3>1
    <2>3. CASE Me(s) # Me(t)
        <3>1. links'[Me(s)] = links[Me(s)]
            BY <1>1, <1>5, <2>3, Known DEF SiteBase, Tables
        <3> QED  BY <1>5, <2>1, <3>1
    <2> QED  BY <2>2, <2>3
<1>6. CASE Starting(t)
    BY <1>2, <1>6 DEF Starting, AllocStart, ReleaseStart, FindStart, ListStart, RegisterStart
<1>7. CASE AllocCount(t) \/ SearchOne(t) \/ AllocDecide(t) \/ ReleaseDecide(t) \/ FindNext(t)
           \/ ListNext(t) \/ Finish(t)
    BY <1>3, <1>4, <1>7 DEF AllocCount, SearchOne, AllocDecide, ReleaseDecide, FindNext,
       ListNext, Finish
<1>8. CASE AllocMkdir(t)
    BY <1>1, <1>8 DEF AllocMkdir
<1>9. CASE AllocEntry(t) \/ ReleaseTake(t)
    BY <1>9 DEF AllocEntry, ReleaseTake, Disturbs
<1>10. CASE RegisterLink(t)
    BY <1>3, <1>4, <1>5, <1>10 DEF RegisterLink
<1>11. CASE RegisterPrune(t)
    BY <1>5, <1>11 DEF RegisterPrune
<1> QED  BY <1>6, <1>7, <1>8, <1>9, <1>10, <1>11 DEF Running

\* Each of the four is about one tool.
LEMMA OtherTools ==
    ASSUME NEW s \in Sessions
    PROVE  /\ sess'[s].tool # "allocate" => Searched(s)'
           /\ sess'[s].tool # "find" => Looked(s)'
           /\ sess'[s].tool # "list" => Listed(s)'
           /\ sess'[s].tool # "register" => Linked(s)'
BY DEF Searched, Looked, Listed, Linked, Searching, Finding, Listing, Linking

\* The configuration is read once.
LEMMA ConfSame ==
    ASSUME [SiteNext]_siteVars
    PROVE  UNCHANGED <<site, conf, order>>
<1>1. ASSUME NEW s \in Sessions, Starting(s) PROVE UNCHANGED <<site, conf, order>>
    <2>1. \A tool, r : Starts(s, tool, r) => UNCHANGED <<site, conf, order>>
        BY DEF Starts
    <2>2. \A n, on, g : AllocStart(s, n, on, g) => UNCHANGED <<site, conf, order>>
        BY ONLY <2>1 DEF AllocStart
    <2>3. \A n, on : ReleaseStart(s, n, on) => UNCHANGED <<site, conf, order>>
        BY ONLY <2>1 DEF ReleaseStart
    <2>4. \A pat, on, byGroup : FindStart(s, pat, on, byGroup) => UNCHANGED <<site, conf, order>>
        BY ONLY <2>1 DEF FindStart
    <2>5. \A pat, on, byGroup : ListStart(s, pat, on, byGroup) => UNCHANGED <<site, conf, order>>
        BY ONLY <2>1 DEF ListStart
    <2>6. RegisterStart(s) => UNCHANGED <<site, conf, order>>
        BY ONLY <2>1 DEF RegisterStart
    <2> QED  BY ONLY <1>1, <2>2, <2>3, <2>4, <2>5, <2>6 DEF Starting
<1>2. ASSUME NEW s \in Sessions, Running(s) PROVE UNCHANGED <<site, conf, order>>
    <2>1. \A r : Goes(s, r) => UNCHANGED <<site, conf, order>>
        BY DEF Goes
    <2>2. \A out : Ends(s, out) => UNCHANGED <<site, conf, order>>
        BY ONLY <2>1 DEF Ends
    <2>3. CASE AllocCount(s) \/ SearchOne(s)
        BY ONLY <2>1, <2>2, <2>3 DEF AllocCount, SearchOne
    <2>4. CASE AllocDecide(s) \/ ReleaseDecide(s)
        BY ONLY <2>1, <2>2, <2>4 DEF AllocDecide, ReleaseDecide
    <2>5. CASE AllocMkdir(s)
        BY ONLY <2>1, <2>2, <2>5 DEF AllocMkdir
    <2>6. CASE AllocEntry(s)
        BY ONLY <2>1, <2>2, <2>6 DEF AllocEntry
    <2>7. CASE ReleaseTake(s)
        BY ONLY <2>1, <2>2, <2>7 DEF ReleaseTake
    <2>8. CASE FindNext(s) \/ ListNext(s)
        BY ONLY <2>1, <2>2, <2>8 DEF FindNext, ListNext
    <2>9. CASE RegisterLink(s) \/ RegisterPrune(s) \/ Finish(s)
        BY ONLY <2>1, <2>2, <2>9 DEF RegisterLink, RegisterPrune, Finish
    <2> QED  BY ONLY <1>2, <2>3, <2>4, <2>5, <2>6, <2>7, <2>8, <2>9 DEF Running
<1>3. ASSUME NEW f \in Fs, Outage(f) \/ Repair(f) PROVE UNCHANGED <<site, conf, order>>
    BY <1>3 DEF Outage, Repair
<1> QED  BY <1>1, <1>2, <1>3 DEF SiteNext, siteVars

LEMMA AllocStartRight ==
    ASSUME SiteBase, NEW s \in Sessions, NEW n \in WsNames, NEW on, NEW g, AllocStart(s, n, on, g)
    PROVE  Right(s)'
<1>1. PICK k : Begun(s, k) /\ AllocBegins(s, k)
    BY AllocStartBase
<1>2. sess'[s].tool = "allocate"
    BY <1>1 DEF Begun, AllocBegins
<1> DEFINE q == sess'[s]
<1>3. \/ q.pc = "done" /\ q.out \in {"invalid", "denied", ""}
      \/ q.pc = "count" /\ q.out = "" /\ q.todo = Search(order[Me(s)]["create"], q.on)
    BY <1>1 DEF Begun, AllocBegins
<1>4. order' = order
    BY <1>1 DEF Begun, AllocBegins
<1>5. Searched(s)'
    <2>1. \A f \in Holding(s)' : q.on = NoFs /\ q.pc = "count" => f \in ToSet(q.todo)
        BY <1>3, <1>4 DEF Holding, Search, Me
    <2>2. Searched(s)' <=> Searching(q, Target(s)', Holding(s)')
        BY DEF Searched
    <2> DEFINE i == Target(s)'
               E == Holding(s)'
    <2> HIDE DEF q, i, E
    <2>3. Searching(q, i, E)
        BY <1>3, <2>1 DEF Searching, E
    <2> QED  BY <2>2, <2>3 DEF i, E
<1> QED  BY <1>2, <1>5, OtherTools DEF Right

LEMMA ReleaseStartRight ==
    ASSUME SiteBase, NEW s \in Sessions, NEW n \in WsNames, NEW on, ReleaseStart(s, n, on)
    PROVE  Right(s)'
<1>1. sess'[s].tool = "release"
    BY ReleaseStartBase DEF Begun, ReleaseBegins
<1> QED  BY <1>1, OtherTools DEF Right

LEMMA FindStartRight ==
    ASSUME SiteBase, NEW s \in Sessions, NEW pat \in Patterns, NEW on, NEW byGroup,
           FindStart(s, pat, on, byGroup)
    PROVE  Right(s)'
<1>1. PICK k : Begun(s, k) /\ FindBegins(s, k)
    BY FindStartBase
<1> DEFINE q == sess'[s]
           among == Findable(s)'
           V == Shows(s)'
<1>2. sess'[s].tool = "find"
    BY <1>1 DEF Begun, FindBegins
<1>3. \/ q.pc = "done" /\ q.out \in {"invalid", "denied", ""}
      \/ q.pc = "look" /\ q.out = "" /\ q.todo = among /\ q.hits = {} /\ among \in Seq(Fs)
    BY <1>1 DEF Begun, FindBegins, Findable, Me
<1> HIDE DEF q, among, V
<1>4. Finding(q, among, V)
    <2>1. CASE q.pc = "done" /\ q.out \in {"invalid", "denied", ""}
        BY <2>1 DEF Finding
    <2>2. CASE q.pc = "look" /\ q.out = "" /\ q.todo = among /\ q.hits = {} /\ among \in Seq(Fs)
        <3>1. /\ Len(among) \in Nat /\ 0 \in 0 .. Len(among) /\ Len(q.todo) = Len(among) - 0
              /\ \A j \in 1 .. Len(q.todo) : q.todo[j] = among[0 + j]
              /\ \A j \in 1 .. 0 : V[among[j]] = {}
            <4>1. q.todo = among /\ among \in Seq(Fs)
                BY <2>2
            <4> QED  BY <4>1
        <3> QED  BY <2>2, <3>1 DEF Finding
    <2> QED  BY <1>3, <2>1, <2>2
<1>5. Looked(s)'
    BY <1>4 DEF Looked, q, among, V
<1> QED  BY <1>2, <1>5, OtherTools DEF Right

LEMMA ListStartRight ==
    ASSUME SiteBase, NEW s \in Sessions, NEW pat \in Patterns, NEW on, NEW byGroup,
           ListStart(s, pat, on, byGroup)
    PROVE  Right(s)'
<1>1. PICK k : Begun(s, k) /\ ListBegins(s, k)
    BY ListStartBase
<1> DEFINE q == sess'[s]
           all == Listable(s)'
           V == Shows(s)'
<1>2. sess'[s].tool = "list"
    BY <1>1 DEF Begun, ListBegins
<1>3. \/ q.pc = "done" /\ q.out \in {"invalid", ""}
      \/ q.pc = "look" /\ q.out = "" /\ ToSet(q.todo) = all /\ q.hits = {} /\ all \subseteq Fs
    <2>1. k.todo \in Seq(Fs) => ToSet(k.todo) \subseteq Fs
        BY DEF ToSet
    <2>2. all = ToSet(k.todo)
        BY <1>1 DEF Begun, ListBegins, Listable, Me
    <2> HIDE DEF all
    <2> QED  BY <1>1, <2>1, <2>2 DEF Begun, ListBegins
<1> HIDE DEF q, all, V
<1>4. Listing(q, all, V)
    BY <1>3 DEF Listing
<1>5. Listed(s)'
    BY <1>4 DEF Listed, q, all, V
<1> QED  BY <1>2, <1>5, OtherTools DEF Right

LEMMA RegisterStartRight ==
    ASSUME SiteBase, NEW s \in Sessions, RegisterStart(s)
    PROVE  Right(s)'
<1>1. PICK k : /\ Begun(s, k) /\ k.tool = "register" /\ k.pc = "link" /\ k.out = ""
               /\ k.todo = order[Me(s)]["list"]
    BY RegisterStartBase
<1> DEFINE q == sess'[s]
           S == Readable(s)'
           L == links'[Me(s)]
           O == Owning(Me(s))'
<1>2. sess'[s].tool = "register"
    BY <1>1 DEF Begun
<1>3. \/ q.pc = "done" /\ q.out \in {"invalid", ""}
      \/ q.pc = "link" /\ q.out = "" /\ S \subseteq ToSet(q.todo)
    BY <1>1 DEF Begun, Readable, Me
<1> HIDE DEF q, S, L, O
<1>4. Linking(q, S, L, O)
    BY <1>3 DEF Linking
<1>5. Linked(s)'
    BY <1>4 DEF Linked, Me, q, S, L, O
<1> QED  BY <1>2, <1>5, OtherTools DEF Right

\* What a step of the session itself has to keep, if it changes no database.
LEMMA OwnStep ==
    ASSUME NEW s \in Sessions, UNCHANGED <<conf, order, db, up>>,
           sess'[s].word = sess[s].word, sess'[s].on = sess[s].on,
           sess'[s].byGroup = sess[s].byGroup,
           Searching(sess'[s], Target(s), Holding(s)),
           Finding(sess'[s], Findable(s), Shows(s)),
           Listing(sess'[s], Listable(s), Shows(s)),
           Linking(sess'[s], Readable(s), links'[Me(s)], Owning(Me(s)))
    PROVE  Right(s)'
<1>1. /\ Target(s)' = Target(s) /\ Holding(s)' = Holding(s) /\ Shows(s)' = Shows(s)
      /\ Findable(s)' = Findable(s) /\ Listable(s)' = Listable(s)
      /\ Readable(s)' = Readable(s) /\ Owning(Me(s))' = Owning(Me(s))
    BY SameViews
<1>2. Searched(s)'
    BY <1>1 DEF Searched
<1>3. Looked(s)' /\ Listed(s)'
    BY <1>1 DEF Looked, Listed
<1>4. Linked(s)'
    BY <1>1 DEF Linked, Me
<1> QED  BY <1>2, <1>3, <1>4 DEF Right

\* The tools that are not concerned.
LEMMA NotOf ==
    ASSUME NEW q
    PROVE  /\ q.tool # "allocate" => \A i, E : Searching(q, i, E)
           /\ q.tool # "find" => \A among, V : Finding(q, among, V)
           /\ q.tool # "list" => \A on, V : Listing(q, on, V)
           /\ q.tool # "register" => \A S, L, O : Linking(q, S, L, O)
BY DEF Searching, Finding, Listing, Linking

\* ws_allocate ends with nothing created.
LEMMA AllocEndsRight ==
    ASSUME SiteBase, NEW s \in Sessions, sess[s].tool = "allocate", NEW out, Ends(s, out),
           out # "created"
    PROVE  Right(s)'
<1> DEFINE q == sess'[s]
<1>1. /\ q.pc = "done" /\ q.out = out /\ q.tool = "allocate"
      /\ q.word = sess[s].word /\ q.on = sess[s].on /\ q.byGroup = sess[s].byGroup
      /\ UNCHANGED <<conf, order, db, up, links>>
    BY EndsTo
<1>2. Searching(q, Target(s), Holding(s))
    <2> HIDE DEF q
    <2> QED  BY <1>1 DEF Searching
<1> QED  BY <1>1, <1>2, NotOf, OwnStep

LEMMA AllocCountRight ==
    ASSUME SiteBase, NEW s \in Sessions, Right(s), AllocCount(s)
    PROVE  Right(s)'
<1> DEFINE q == sess[s]
           r == [q EXCEPT !.pc = "search"]
<1>1. Shape(s, q) /\ DOMAIN q = SessFields /\ q # Idle /\ q.pc = "count"
    BY Known DEF AllocCount
<1>2. q.tool = "allocate" /\ q.out = ""
    BY <1>1 DEF Shape
<1>3. CASE Ends(s, "limit")
    BY <1>2, <1>3, AllocEndsRight
<1>4. CASE Goes(s, r)
    <2>1. Searching(q, Target(s), Holding(s))
        BY DEF Right, Searched
    <2>2. sess'[s] = r /\ UNCHANGED <<conf, order, db, up, links>>
        BY <1>4, GoesTo
    <2>e. q = sess[s]
        OBVIOUS
    <2> HIDE DEF q
    <2>3. /\ r.pc = "search" /\ r.out = q.out /\ r.tool = q.tool /\ r.word = q.word
          /\ r.on = q.on /\ r.byGroup = q.byGroup /\ r.todo = q.todo /\ r.hits = q.hits
        BY <1>1 DEF SessFields
    <2> HIDE DEF r
    <2>4. Searching(r, Target(s), Holding(s))
        BY <1>1, <1>2, <2>1, <2>3 DEF Searching
    <2> QED  BY <1>2, <2>e, <2>2, <2>3, <2>4, NotOf, OwnStep
<1> QED  BY <1>3, <1>4 DEF AllocCount

LEMMA SearchOneRight ==
    ASSUME SiteBase, NEW s \in Sessions, Right(s), SearchOne(s)
    PROVE  Right(s)'
<1> DEFINE q == sess[s]
           f == Head(q.todo)
           i == Target(s)
           hits == IF OpenDB(f) /\ Exists(f, i) THEN q.hits \cup {<<f, i>>} ELSE q.hits
           r == [q EXCEPT !.todo = Tail(q.todo), !.hits = hits]
<1>1. Shape(s, q) /\ DOMAIN q = SessFields /\ q # Idle
    BY Known DEF SearchOne
<1>2. q.pc = "search" /\ q.todo # <<>> /\ Goes(s, r)
    BY DEF SearchOne, Target
<1>3. ToSet(q.todo) = {f} \cup ToSet(Tail(q.todo))
    BY <1>2, Known, SeqTail
<1>4. q.tool = "allocate" \/ q.tool = "release"
    BY <1>1, <1>2 DEF Shape
<1>5. sess'[s] = r /\ UNCHANGED <<conf, order, db, up, links>>
    BY <1>2, GoesTo
<1>6. Searching(q, i, Holding(s)) /\ q.out = ""
    BY <1>1, <1>2 DEF Right, Searched, Shape
<1>7. f \in Holding(s) => <<f, i>> \in hits
    BY DEF Holding, OpenDB
<1>8. q.hits \subseteq hits
    OBVIOUS
<1>e. q = sess[s]
    OBVIOUS
<1> HIDE DEF q, hits, f, i
<1>9. /\ r.pc = "search" /\ r.out = q.out /\ r.tool = q.tool /\ r.word = q.word
      /\ r.on = q.on /\ r.byGroup = q.byGroup /\ r.todo = Tail(q.todo) /\ r.hits = hits
    BY <1>1, <1>2 DEF SessFields
<1> HIDE DEF r
<1>10. Searching(r, i, Holding(s))
    BY <1>2, <1>3, <1>6, <1>7, <1>8, <1>9 DEF Searching
<1>11. Searching(r, Target(s), Holding(s))
    BY <1>10 DEF i
<1> QED  BY <1>4, <1>5, <1>e, <1>9, <1>11, NotOf, OwnStep

LEMMA AllocDecideRight ==
    ASSUME SiteBase, NEW s \in Sessions, Right(s), AllocDecide(s)
    PROVE  Right(s)'
<1> DEFINE q == sess[s]
           new == Head(Search(order[Me(s)]["create"], q.on))
           r == [q EXCEPT !.pc = "mkdir", !.to = new]
<1>1. Shape(s, q) /\ DOMAIN q = SessFields /\ q # Idle
    BY Known, IdleFields DEF AllocDecide
<1>2. q.pc = "search" /\ q.tool = "allocate" /\ q.todo = <<>>
    BY DEF AllocDecide
<1>3. \/ \E out \in {"ambiguous", "reused", "closed", "down"} : Ends(s, out)
      \/ q.hits = {} /\ Goes(s, r)
    BY DEF AllocDecide
<1>4. CASE \E out \in {"ambiguous", "reused", "closed", "down"} : Ends(s, out)
    BY <1>2, <1>4, AllocEndsRight
<1>5. CASE q.hits = {} /\ Goes(s, r)
    <2>1. Searching(q, Target(s), Holding(s)) /\ q.out = ""
        BY <1>1, <1>2 DEF Right, Searched, Shape
    <2>2. sess'[s] = r /\ UNCHANGED <<conf, order, db, up, links>>
        BY <1>5, GoesTo
    <2>e. q = sess[s]
        OBVIOUS
    <2> HIDE DEF q, new
    <2>3. /\ r.pc = "mkdir" /\ r.out = q.out /\ r.tool = q.tool /\ r.word = q.word
          /\ r.on = q.on /\ r.byGroup = q.byGroup
        BY <1>1 DEF SessFields
    <2>4. q.on = NoFs => Holding(s) = {}
        <3>1. ToSet(q.todo) = {}
            BY <1>2 DEF ToSet
        <3> QED  BY <1>2, <1>5, <2>1, <3>1 DEF Searching
    <2> HIDE DEF r
    <2>5. Searching(r, Target(s), Holding(s))
        BY <2>3, <2>4 DEF Searching
    <2> QED  BY <1>2, <2>e, <2>2, <2>3, <2>5, NotOf, OwnStep
<1> QED  BY <1>3, <1>4, <1>5

LEMMA AllocMkdirRight ==
    ASSUME SiteBase, NEW s \in Sessions, Right(s), AllocMkdir(s)
    PROVE  Right(s)'
<1> DEFINE q == sess[s]
           r == sess'[s]
<1>1. DOMAIN q = SessFields /\ Shape(s, q) /\ q # Idle /\ q.pc = "mkdir" /\ DOMAIN sess = Sessions
    BY Known DEF AllocMkdir, SiteBase, Tables
<1>2. q.tool = "allocate" /\ q.out = ""
    BY <1>1 DEF Shape
<1>3. /\ UNCHANGED <<conf, order, db, up, links>>
      /\ \E pc, out, proc : sess' = [sess EXCEPT ![s] = [q EXCEPT !.pc = pc, !.out = out, !.proc = proc]]
    BY DEF AllocMkdir
<1>4. /\ r.tool = q.tool /\ r.word = q.word /\ r.on = q.on /\ r.byGroup = q.byGroup
    <2>1. PICK pc, out, proc : sess' = [sess EXCEPT ![s] = [q EXCEPT !.pc = pc, !.out = out, !.proc = proc]]
        BY <1>3
    <2>2. r = [q EXCEPT !.pc = pc, !.out = out, !.proc = proc]
        BY <1>1, <2>1
    <2> HIDE DEF q, r
    <2> QED  BY <1>1, <2>2 DEF SessFields
<1>5. r.pc = "write" /\ r.out = q.out
    BY AllocMkdirBase
<1>6. Searching(q, Target(s), Holding(s))
    BY DEF Right, Searched
<1>e. q = sess[s] /\ r = sess'[s]
    OBVIOUS
<1> HIDE DEF q, r
<1>7. Searching(r, Target(s), Holding(s))
    BY <1>1, <1>2, <1>4, <1>5, <1>6 DEF Searching
<1> QED  BY <1>2, <1>e, <1>3, <1>4, <1>7, NotOf, OwnStep

\* Where the workspace was created there is one, and nowhere else that was searched.
LEMMA AllocEntryRight ==
    ASSUME SiteBase, NEW s \in Sessions, Right(s), AllocEntry(s)
    PROVE  Right(s)'
<1> DEFINE q == sess[s]
           r == sess'[s]
           i == Target(s)
           E == Holding(s)
           F == Holding(s)'
<1>1. /\ UNCHANGED <<order, up>> /\ q.tool = "allocate" /\ q.pc = "write"
      /\ q.to \in Fs /\ i \in WsIds
      /\ \A f \in Fs : f # q.to => db'[f][i] = db[f][i]
      /\ r.out = "created" /\ r.pc = "done" /\ r.tool = q.tool
      /\ r.on = q.on /\ r.word = q.word /\ r.to = q.to
    BY AllocEntryBase
<1>2. Searching(q, i, E)
    BY DEF Right, Searched
<1>3. Target(s)' = i
    BY <1>1 DEF Target, Me
<1>4. ASSUME NEW f \in F, f # q.to PROVE f \in E
    <2>1. f \in ToSet(order[Me(s)]["create"]) \cap up /\ db'[f][i] # NoWs
        BY <1>1, <1>3 DEF Holding, Exists, Me
    <2>2. f \in Fs
        BY <2>1 DEF SiteBase, Tables
    <2> QED  BY <1>1, <1>4, <2>1, <2>2 DEF Holding, Exists
<1>5. Searched(s)' <=> Searching(r, Target(s)', F)
    BY DEF Searched
<1>6. r.tool = "allocate"
    BY <1>1
<1>o. Looked(s)' /\ Listed(s)' /\ Linked(s)'
    BY <1>6, OtherTools
<1> HIDE DEF q, r, i, E, F
<1>7. Searching(r, i, F)
    BY <1>1, <1>2, <1>4 DEF Searching
<1> QED  BY <1>3, <1>5, <1>7, <1>o DEF Right

\* MatchPattern shows what it is meant to show: an entry that is not read because its owner
\* shares no group with the caller would not be shown anyway.
LEMMA ShownMatch ==
    ASSUME SiteBase, NEW s \in Sessions, sess[s].tool \in {"find", "list"}, NEW f \in Fs
    PROVE  Shown(s, f) = IF OpenDB(f) THEN MatchPattern(f, sess[s].word, UserPattern(s),
                                                        sess[s].proc, sess[s].byGroup) ELSE {}
<1> DEFINE q == sess[s]
           p == q.proc
           M == MatchPattern(f, q.word, UserPattern(s), p, q.byGroup)
           who == IF q.byGroup \/ IsAdmin(conf, Me(s)) THEN <<"*">> ELSE Me(s)
           pat == WsId(who, q.word)
<1>1. p = Plain(s) /\ q.word \in Patterns /\ Me(s) \in Users
    BY Known DEF Process, Shape
<1>2. p.caller = Me(s) /\ p.groups = MemberOf[Me(s)]
    BY <1>1 DEF Plain, Started
<1>3. \A i \in WsIds : GlobMatch(pat, i) <=> Matches(pat, i)
    <2>1. who \in Users \cup {<<"*">>}
        BY <1>1
    <2> HIDE DEF who
    <2> QED  BY <1>1, <2>1, PatternMeans
<1>4. WsId(IF q.byGroup THEN <<"*">> ELSE UserPattern(s), q.word) = pat
    BY DEF UserPattern
<1>5. ASSUME NEW i \in WsIds, Exists(f, i), db[f][i].group \in MemberOf[Me(s)]
      PROVE  ~Unrelated(i, Me(s))
    <2> SUFFICES ASSUME NEW v \in Users, NEW n \in WsNames, i = WsId(v, n),
                        MemberOf[v] \cap MemberOf[Me(s)] = {}
                 PROVE  FALSE
        BY DEF Unrelated
    <2>1. OwnedBy(f, v, n)
        BY DEF SiteBase, Tables
    <2>2. db[f][i].group \in MemberOf[v] \cup {NoGroup}
        BY <1>5, <2>1 DEF OwnedBy
    <2>3. db[f][i].group \in Groups /\ NoGroup \notin Groups
        BY <1>1, <1>5, MyGroups, NamesAssumption
    <2> QED  BY <1>5, <2>2, <2>3
<1> HIDE DEF pat
<1>6. M = {i \in WsIds : /\ Exists(f, i) /\ GlobMatch(pat, i)
                         /\ q.byGroup => ~Unrelated(i, p.caller) /\ db[f][i].group \in p.groups}
    BY <1>4 DEF MatchPattern
<1>7. Shown(s, f) = {i \in WsIds : /\ f \in up /\ Exists(f, i) /\ Matches(pat, i)
                                   /\ q.byGroup => db[f][i].group \in MemberOf[Me(s)]}
    BY DEF Shown, pat
<1> DEFINE g == q.byGroup
<1> HIDE DEF M, p, q, g
<1>8. \A i \in WsIds : f \in up => (i \in M <=> i \in Shown(s, f))
    <2> TAKE i \in WsIds
    <2>1. i \in M <=> /\ Exists(f, i) /\ GlobMatch(pat, i)
                      /\ g => ~Unrelated(i, Me(s)) /\ db[f][i].group \in MemberOf[Me(s)]
        BY <1>2, <1>6, Zenon DEF g
    <2>2. i \in Shown(s, f) <=> /\ f \in up /\ Exists(f, i) /\ Matches(pat, i)
                                /\ g => db[f][i].group \in MemberOf[Me(s)]
        BY <1>7, Zenon DEF g
    <2> QED  BY <1>3, <1>5, <2>1, <2>2, Zenon
<1>9. f \notin up => Shown(s, f) = {}
    BY <1>7
<1>10. M \subseteq WsIds /\ Shown(s, f) \subseteq WsIds
    BY <1>6, <1>7
<1>11. Shown(s, f) = IF OpenDB(f) THEN M ELSE {}
    BY <1>8, <1>9, <1>10 DEF OpenDB
<1> QED  BY <1>11 DEF M, p, q

\* The workspaces ws_register finds in a filesystem are the user's.
LEMMA MineOwned ==
    ASSUME NEW u \in Users, NEW f \in Fs, NEW p
    PROVE  {f} \X MatchPattern(f, <<"*">>, u, p, FALSE) = Owns(u, {f})
<1> DEFINE M == MatchPattern(f, <<"*">>, u, p, FALSE)
<1>1. M = {i \in WsIds : Exists(f, i) /\ \E n \in WsNames : i = WsId(u, n)}
    BY OwnPattern DEF MatchPattern
<1>2. ASSUME NEW x PROVE x \in {f} \X M <=> x \in Owns(u, {f})
    BY <1>1 DEF Owns
<1> QED  BY <1>2

LEMMA FindNextRight ==
    ASSUME SiteBase, NEW s \in Sessions, Right(s), FindNext(s)
    PROVE  Right(s)'
<1> DEFINE q == sess[s]
           f == Head(q.todo)
           found == IF OpenDB(f) THEN MatchPattern(f, q.word, UserPattern(s), q.proc, q.byGroup)
                    ELSE {}
           r1 == [q EXCEPT !.todo = Tail(q.todo)]
           r2(i) == [q EXCEPT !.pc = "done", !.out = "found", !.hits = {<<f, i>>}]
           among == Findable(s)
           V == Shows(s)
<1>1. Shape(s, q) /\ DOMAIN q = SessFields /\ q # Idle /\ q.todo \in Seq(Fs)
    BY Known, IdleFields DEF FindNext
<1>2. q.pc = "look" /\ q.tool = "find"
    BY DEF FindNext
<1>3. \/ q.todo = <<>> /\ Ends(s, "absent")
      \/ q.todo # <<>> /\ found = {} /\ Goes(s, r1)
      \/ q.todo # <<>> /\ \E i \in found : Goes(s, r2(i))
    BY DEF FindNext
<1>4. Finding(q, among, V) /\ q.out \notin {"absent", "found"}
    BY <1>1, <1>2 DEF Right, Looked, Shape
<1>5. q.todo # <<>> => f \in Fs /\ V[f] = found
    <2>1. q.todo # <<>> => f \in Fs
        BY <1>1, SeqTail
    <2>2. f \in Fs => Shown(s, f) = found
        BY <1>2, ShownMatch
    <2>3. f \in Fs => V[f] = Shown(s, f)
        BY DEF Shows
    <2> QED  BY <2>1, <2>2, <2>3
<1>e. q = sess[s] /\ among = Findable(s) /\ V = Shows(s)
    OBVIOUS
<1>h. q.todo # <<>> => /\ f = q.todo[1] /\ Len(q.todo) >= 1
                       /\ Len(Tail(q.todo)) = Len(q.todo) - 1
                       /\ \A j \in 1 .. Len(q.todo) - 1 : Tail(q.todo)[j] = q.todo[j + 1]
    BY <1>1, HeadTailProperties, EmptySeq
<1> HIDE DEF q, among, V, found, f
<1>6. q.hits = {} /\ among \in Seq(Fs)
    BY <1>2, <1>4 DEF Finding
<1>7. PICK k \in 0 .. Len(among) :
            /\ Len(q.todo) = Len(among) - k
            /\ \A j \in 1 .. Len(q.todo) : q.todo[j] = among[k + j]
            /\ \A j \in 1 .. k : V[among[j]] = {}
    BY <1>2, <1>4 DEF Finding
<1>8. Len(among) \in Nat /\ k \in Nat /\ Len(q.todo) \in Nat
    BY <1>1, <1>6, <1>7
<1>9. CASE q.todo = <<>> /\ Ends(s, "absent")
    <2> DEFINE r == sess'[s]
    <2>1. /\ r.pc = "done" /\ r.out = "absent" /\ r.tool = q.tool /\ r.hits = q.hits
          /\ r.word = sess[s].word /\ r.on = sess[s].on /\ r.byGroup = sess[s].byGroup
          /\ UNCHANGED <<conf, order, db, up>>
        BY <1>9, EndsTo DEF q
    <2>2. k = Len(among)
        BY <1>7, <1>8, <1>9
    <2>e. r = sess'[s]
        OBVIOUS
    <2> HIDE DEF r
    <2>3. \A j \in 1 .. Len(among) : V[among[j]] = {}
        BY <1>7, <2>2
    <2>4. Finding(r, among, V)
        BY <1>6, <2>1, <2>3 DEF Finding
    <2> QED  BY <1>2, <1>e, <2>e, <2>1, <2>4, NotOf, OwnStep
<1>10. CASE q.todo # <<>> /\ found = {} /\ Goes(s, r1)
    <2> DEFINE r == r1
    <2>1. sess'[s] = r /\ UNCHANGED <<conf, order, db, up>>
        BY <1>10, GoesTo
    <2>2. /\ r.pc = "look" /\ r.out = q.out /\ r.tool = q.tool /\ r.hits = q.hits
          /\ r.word = q.word /\ r.on = q.on /\ r.byGroup = q.byGroup /\ r.todo = Tail(q.todo)
        BY <1>1, <1>2 DEF SessFields
    <2> HIDE DEF r
    <2> DEFINE w == Tail(q.todo)
    <2>3. /\ Len(w) = Len(among) - (k + 1) /\ k + 1 \in 0 .. Len(among)
          /\ \A j \in 1 .. Len(w) : w[j] = among[(k + 1) + j]
        <3>1. q.todo # <<>>
            BY <1>10
        <3> HIDE DEF w
        <3>2. /\ Len(w) = Len(q.todo) - 1 /\ Len(q.todo) >= 1
              /\ \A j \in 1 .. Len(q.todo) - 1 : w[j] = q.todo[j + 1]
            BY <1>h, <3>1 DEF w
        <3>3. Len(w) = Len(among) - (k + 1) /\ k + 1 \in 0 .. Len(among)
            BY <1>7, <1>8, <3>2
        <3>4. ASSUME NEW j \in 1 .. Len(w) PROVE w[j] = among[(k + 1) + j]
            <4>l. Len(w) = Len(q.todo) - 1
                BY <3>2
            <4>1. j \in 1 .. Len(q.todo) - 1 /\ j + 1 \in 1 .. Len(q.todo)
                  /\ k + (j + 1) = (k + 1) + j
                BY ONLY <1>8, <4>l, j \in 1 .. Len(w)
            <4>2. w[j] = q.todo[j + 1] /\ q.todo[j + 1] = among[k + (j + 1)]
                BY <1>7, <3>2, <4>1
            <4> QED  BY <4>1, <4>2
        <3> QED  BY <3>3, <3>4
    <2>4. \A j \in 1 .. k + 1 : V[among[j]] = {}
        <3>1. among[k + 1] = f
            <4>1. f = q.todo[1] /\ Len(q.todo) >= 1
                BY <1>h, <1>10
            <4>2. 1 \in 1 .. Len(q.todo)
                BY ONLY <1>8, <4>1
            <4>3. q.todo[1] = among[k + 1]
                BY <1>7, <4>2
            <4> QED  BY ONLY <4>1, <4>3
        <3>2. V[among[k + 1]] = {}
            BY <1>5, <1>10, <3>1
        <3>3. \A j \in 1 .. k + 1 : j \in 1 .. k \/ j = k + 1
            BY ONLY <1>8
        <3>4. \A j \in 1 .. k : V[among[j]] = {}
            BY <1>7
        <3> QED  BY ONLY <3>2, <3>3, <3>4
    <2>5. Finding(r, among, V)
        <3> HIDE DEF w
        <3>1. r.todo = w
            BY <2>2 DEF w
        <3>2. \E m \in 0 .. Len(among) :
                /\ Len(r.todo) = Len(among) - m
                /\ \A j \in 1 .. Len(r.todo) : r.todo[j] = among[m + j]
                /\ \A j \in 1 .. m : V[among[j]] = {}
            BY <2>3, <2>4, <3>1
        <3> QED  BY <1>4, <1>6, <2>2, <3>2 DEF Finding
    <2> QED  BY <1>2, <1>e, <2>1, <2>2, <2>5, NotOf, OwnStep
<1>11. CASE q.todo # <<>> /\ \E i \in found : Goes(s, r2(i))
    <2>0. PICK i \in found : Goes(s, r2(i))
        BY <1>11
    <2> DEFINE r == r2(i)
    <2>1. sess'[s] = r /\ UNCHANGED <<conf, order, db, up>>
        BY <2>0, GoesTo
    <2>2. /\ r.pc = "done" /\ r.out = "found" /\ r.tool = q.tool /\ r.hits = {<<f, i>>}
          /\ r.word = q.word /\ r.on = q.on /\ r.byGroup = q.byGroup
        BY <1>1, <1>2 DEF SessFields
    <2> HIDE DEF r
    <2>3. k + 1 \in 1 .. Len(among) /\ among[k + 1] = f
        <3>1. q.todo # <<>>
            BY <1>11
        <3>2. f = q.todo[1] /\ 1 \in 1 .. Len(q.todo)
            BY <1>8, <1>h, <3>1
        <3> QED  BY <1>7, <1>8, <3>2
    <2>4. i \in V[among[k + 1]]
        BY <1>5, <1>11, <2>3
    <2>5. \A j \in 1 .. (k + 1) - 1 : V[among[j]] = {}
        BY <1>7, <1>8
    <2>6. \E m \in 1 .. Len(among) : \E x \in V[among[m]] :
                /\ \A j \in 1 .. m - 1 : V[among[j]] = {}
                /\ r.hits = {<<among[m], x>>}
        BY <2>2, <2>3, <2>4, <2>5
    <2>7. Finding(r, among, V)
        BY <1>6, <2>2, <2>6 DEF Finding
    <2> QED  BY <1>2, <1>e, <2>1, <2>2, <2>7, NotOf, OwnStep
<1> QED  BY <1>3, <1>9, <1>10, <1>11

LEMMA ListNextRight ==
    ASSUME SiteBase, NEW s \in Sessions, Right(s), ListNext(s)
    PROVE  Right(s)'
<1> DEFINE q == sess[s]
           f == Head(q.todo)
           found == IF OpenDB(f) THEN MatchPattern(f, q.word, UserPattern(s), q.proc, q.byGroup)
                    ELSE {}
           more == IF OpenDB(f)
                   THEN {f} \X MatchPattern(f, q.word, UserPattern(s), q.proc, q.byGroup) ELSE {}
           r == [q EXCEPT !.todo = Tail(q.todo), !.hits = q.hits \cup more]
           all == Listable(s)
           V == Shows(s)
<1>1. Shape(s, q) /\ DOMAIN q = SessFields /\ q # Idle /\ q.todo \in Seq(Fs)
    BY Known, IdleFields DEF ListNext
<1>2. q.pc = "look" /\ q.tool = "list"
    BY DEF ListNext
<1>3. (q.todo = <<>> /\ Ends(s, "listed")) \/ (q.todo # <<>> /\ Goes(s, r))
    BY DEF ListNext
<1>4. Listing(q, all, V) /\ q.out # "listed"
    BY <1>1, <1>2 DEF Right, Listed, Shape
<1>5. q.todo # <<>> => /\ f \in Fs /\ V[f] = found /\ found \subseteq WsIds
                       /\ ToSet(q.todo) = {f} \cup ToSet(Tail(q.todo))
    <2>1. q.todo # <<>> => f \in Fs /\ ToSet(q.todo) = {f} \cup ToSet(Tail(q.todo))
        BY <1>1, SeqTail
    <2>2. f \in Fs => Shown(s, f) = found
        BY <1>2, ShownMatch
    <2>3. f \in Fs => V[f] = Shown(s, f)
        BY DEF Shows
    <2>4. found \subseteq WsIds
        BY MatchIds
    <2> QED  BY <2>1, <2>2, <2>3, <2>4
<1>6. more = {f} \X found
    OBVIOUS
<1>e. q = sess[s] /\ all = Listable(s) /\ V = Shows(s)
    OBVIOUS
<1> HIDE DEF q, all, V, found, f, more
<1>8. all \subseteq Fs /\ q.hits \cup In(ToSet(q.todo), V) = In(all, V)
    BY <1>2, <1>4 DEF Listing
<1>9. CASE q.todo = <<>> /\ Ends(s, "listed")
    <2> DEFINE t == sess'[s]
    <2>1. /\ t.pc = "done" /\ t.out = "listed" /\ t.tool = q.tool /\ t.hits = q.hits
          /\ t.word = sess[s].word /\ t.on = sess[s].on /\ t.byGroup = sess[s].byGroup
          /\ UNCHANGED <<conf, order, db, up>>
        BY <1>9, EndsTo DEF q
    <2>2. In(ToSet(q.todo), V) = {}
        <3>1. ToSet(<<>>) = {}
            BY DEF ToSet
        <3> QED  BY <1>9, <3>1 DEF In
    <2>e. t = sess'[s]
        OBVIOUS
    <2> HIDE DEF t
    <2>3. t.hits = In(all, V)
        BY <1>8, <2>1, <2>2
    <2>4. Listing(t, all, V)
        BY <1>8, <2>1, <2>3 DEF Listing
    <2> QED  BY <1>2, <1>e, <2>e, <2>1, <2>4, NotOf, OwnStep
<1>10. CASE q.todo # <<>> /\ Goes(s, r)
    <2>1. sess'[s] = r /\ UNCHANGED <<conf, order, db, up>>
        BY <1>10, GoesTo
    <2>2. /\ r.pc = "look" /\ r.out = q.out /\ r.tool = q.tool /\ r.hits = q.hits \cup more
          /\ r.word = q.word /\ r.on = q.on /\ r.byGroup = q.byGroup /\ r.todo = Tail(q.todo)
        BY <1>1, <1>2 DEF SessFields
    <2> HIDE DEF r
    <2>3. In(ToSet(q.todo), V) = more \cup In(ToSet(Tail(q.todo)), V)
        BY <1>5, <1>6, <1>10 DEF In
    <2>4. r.hits \cup In(ToSet(r.todo), V) = In(all, V)
        BY <1>8, <2>2, <2>3
    <2>5. Listing(r, all, V)
        BY <1>4, <1>8, <2>2, <2>4 DEF Listing
    <2> QED  BY <1>2, <1>e, <2>1, <2>2, <2>5, NotOf, OwnStep
<1> QED  BY <1>3, <1>9, <1>10

LEMMA RegisterLinkRight ==
    ASSUME SiteBase, NEW s \in Sessions, Right(s), RegisterLink(s)
    PROVE  Right(s)'
<1> DEFINE q == sess[s]
           f == Head(q.todo)
           mine == {f} \X MatchPattern(f, <<"*">>, Me(s), q.proc, FALSE)
           r1 == [q EXCEPT !.todo = Tail(q.todo)]
           r2 == [q EXCEPT !.pc = "prune", !.hits = mine]
           S == Readable(s)
           L == links[Me(s)]
           O == Owning(Me(s))
<1>1. Shape(s, q) /\ DOMAIN q = SessFields /\ q # Idle /\ q.todo \in Seq(Fs) /\ Me(s) \in Users
    BY Known, IdleFields DEF RegisterLink
<1>2. q.pc = "link"
    BY DEF RegisterLink
<1>3. \/ q.todo = <<>> /\ Ends(s, "registered")
      \/ q.todo # <<>> /\ ~OpenDB(f) /\ Goes(s, r1)
      \/ /\ q.todo # <<>> /\ links' = [links EXCEPT ![Me(s)] = L \cup mine]
         /\ sess' = [sess EXCEPT ![s] = r2]
         /\ UNCHANGED <<conf, order, db, up>>
    BY DEF RegisterLink
<1>4. q.tool = "register" /\ q.out # "registered"
    BY <1>1, <1>2 DEF Shape
<1>5. Linking(q, S, L, O)
    BY DEF Right, Linked
<1>6. q.todo # <<>> => /\ f \in Fs /\ mine = O[f]
                       /\ ToSet(q.todo) = {f} \cup ToSet(Tail(q.todo))
    <2>1. q.todo # <<>> => f \in Fs /\ ToSet(q.todo) = {f} \cup ToSet(Tail(q.todo))
        BY <1>1, SeqTail
    <2>2. f \in Fs => mine = Owns(Me(s), {f})
        BY <1>1, MineOwned
    <2>3. f \in Fs => O[f] = Owns(Me(s), {f})
        BY DEF Owning
    <2> QED  BY <2>1, <2>2, <2>3
<1>7. mine \subseteq {f} \X WsIds
    <2>1. MatchPattern(f, <<"*">>, Me(s), q.proc, FALSE) \subseteq WsIds
        BY MatchIds
    <2> QED  BY <2>1
<1>8. f \in S => OpenDB(f)
    BY DEF Readable, OpenDB
<1>e. q = sess[s] /\ S = Readable(s) /\ O = Owning(Me(s))
    OBVIOUS
<1>l. DOMAIN links = Users /\ DOMAIN sess = Sessions
    BY DEF SiteBase, Tables
<1> HIDE DEF q, S, L, O, f, mine
<1>9. \A g \in S \ ToSet(q.todo) : {l \in L : l[1] = g} = O[g]
    BY <1>2, <1>4, <1>5 DEF Linking
<1>10. CASE q.todo = <<>> /\ Ends(s, "registered")
    <2> DEFINE t == sess'[s]
    <2>1. /\ t.pc = "done" /\ t.out = "registered" /\ t.tool = q.tool
          /\ t.word = sess[s].word /\ t.on = sess[s].on /\ t.byGroup = sess[s].byGroup
          /\ UNCHANGED <<conf, order, db, up, links>>
        BY <1>10, EndsTo DEF q
    <2>2. links'[Me(s)] = L
        BY <2>1 DEF L
    <2>e. t = sess'[s]
        OBVIOUS
    <2> HIDE DEF t
    <2>3. \A g \in S : {l \in L : l[1] = g} = O[g]
        <3>1. ToSet(<<>>) = {}
            BY DEF ToSet
        <3> QED  BY <1>9, <1>10, <3>1
    <2>4. Linking(t, S, links'[Me(s)], O)
        BY <2>1, <2>2, <2>3 DEF Linking
    <2> QED  BY <1>4, <1>e, <2>e, <2>1, <2>4, NotOf, OwnStep
<1>11. CASE q.todo # <<>> /\ ~OpenDB(f) /\ Goes(s, r1)
    <2> DEFINE r == r1
    <2>1. sess'[s] = r /\ UNCHANGED <<conf, order, db, up, links>>
        BY <1>11, GoesTo
    <2>2. /\ r.pc = "link" /\ r.out = q.out /\ r.tool = q.tool /\ r.hits = q.hits
          /\ r.word = q.word /\ r.on = q.on /\ r.byGroup = q.byGroup /\ r.todo = Tail(q.todo)
        BY <1>1, <1>2 DEF SessFields
    <2>3. links'[Me(s)] = L
        BY <2>1 DEF L
    <2> HIDE DEF r
    <2>4. \A g \in S \ ToSet(r.todo) : {l \in L : l[1] = g} = O[g]
        BY <1>6, <1>8, <1>9, <1>11, <2>2
    <2>5. Linking(r, S, links'[Me(s)], O)
        BY <1>4, <2>2, <2>3, <2>4 DEF Linking
    <2> QED  BY <1>4, <1>e, <2>1, <2>2, <2>5, NotOf, OwnStep
<1>12. CASE /\ q.todo # <<>> /\ links' = [links EXCEPT ![Me(s)] = L \cup mine]
            /\ sess' = [sess EXCEPT ![s] = r2]
            /\ UNCHANGED <<conf, order, db, up>>
    <2> DEFINE r == r2
    <2>1. sess'[s] = r /\ UNCHANGED <<conf, order, db, up>> /\ links'[Me(s)] = L \cup mine
        BY <1>1, <1>12, <1>l
    <2>2. /\ r.pc = "prune" /\ r.out = q.out /\ r.tool = q.tool /\ r.hits = mine
          /\ r.word = q.word /\ r.on = q.on /\ r.byGroup = q.byGroup /\ r.todo = q.todo
        BY <1>1, <1>2 DEF SessFields
    <2> HIDE DEF r
    <2> DEFINE M == L \cup mine
    <2>4. ASSUME NEW g \in S \ ToSet(q.todo) PROVE {l \in M : l[1] = g} = O[g]
        <3>1. g # f
            BY <1>6, <1>12
        <3>2. \A l \in mine : l[1] # g
            BY <1>7, <3>1
        <3> QED  BY <1>9, <3>2
    <2>3. mine \subseteq M
        OBVIOUS
    <2>m. links'[Me(s)] = M
        BY <2>1
    <2>6. mine = O[Head(q.todo)]
        BY <1>6, <1>12 DEF f
    <2> HIDE DEF M
    <2>5. Linking(r, S, M, O)
        BY <1>4, <2>2, <2>3, <2>4, <2>6 DEF Linking
    <2> QED  BY <1>4, <1>e, <2>1, <2>2, <2>5, <2>m, NotOf, OwnStep
<1> QED  BY <1>3, <1>10, <1>11, <1>12

LEMMA RegisterPruneRight ==
    ASSUME SiteBase, NEW s \in Sessions, Right(s), RegisterPrune(s)
    PROVE  Right(s)'
<1> DEFINE q == sess[s]
           f == Head(q.todo)
           r == [q EXCEPT !.pc = "link", !.hits = {}, !.todo = Tail(q.todo)]
           S == Readable(s)
           L == links[Me(s)]
           O == Owning(Me(s))
           M == {l \in L : l[1] = f => l \in q.hits}
<1>1. Shape(s, q) /\ DOMAIN q = SessFields /\ q # Idle /\ q.todo \in Seq(Fs) /\ Me(s) \in Users
    BY Known, IdleFields DEF RegisterPrune
<1>2. q.pc = "prune"
    BY DEF RegisterPrune
<1>3. /\ links' = [links EXCEPT ![Me(s)] = M] /\ sess' = [sess EXCEPT ![s] = r]
      /\ UNCHANGED <<conf, order, db, up>>
    <2>1. links' = [links EXCEPT ![Me(s)] = M]
        BY Zenon DEF RegisterPrune
    <2>2. sess' = [sess EXCEPT ![s] = r]
        BY Zenon DEF RegisterPrune
    <2> QED  BY <2>1, <2>2 DEF RegisterPrune
<1>4. q.tool = "register" /\ q.out # "registered" /\ q.todo # <<>>
    BY <1>1, <1>2 DEF Shape
<1>5. Linking(q, S, L, O)
    BY DEF Right, Linked
<1>6. f \in Fs /\ ToSet(q.todo) = {f} \cup ToSet(Tail(q.todo))
    BY <1>1, <1>4, SeqTail
<1>7. O[f] \subseteq {f} \X WsIds
    BY <1>6 DEF Owning, Owns
<1>e. q = sess[s] /\ S = Readable(s) /\ O = Owning(Me(s)) /\ f = Head(q.todo)
    OBVIOUS
<1>l. DOMAIN links = Users /\ DOMAIN sess = Sessions
    BY DEF SiteBase, Tables
<1>m. M = {l \in L : l[1] = f => l \in q.hits}
    OBVIOUS
<1>8. sess'[s] = r /\ UNCHANGED <<conf, order, db, up>> /\ links'[Me(s)] = M
    BY <1>1, <1>3, <1>l
<1> HIDE DEF q, S, L, O, f, M
<1>9. /\ \A g \in S \ ToSet(q.todo) : {l \in L : l[1] = g} = O[g]
      /\ q.hits = O[f] /\ q.hits \subseteq L
    BY <1>2, <1>4, <1>5, <1>e DEF Linking
<1>10. /\ r.pc = "link" /\ r.out = q.out /\ r.tool = q.tool
       /\ r.word = q.word /\ r.on = q.on /\ r.byGroup = q.byGroup /\ r.todo = Tail(q.todo)
    BY <1>1, <1>2 DEF SessFields
<1> HIDE DEF r
<1>11. ASSUME NEW g \in S \ ToSet(r.todo) PROVE {l \in M : l[1] = g} = O[g]
    <2>1. CASE g = f
        <3>1. \A l \in q.hits : l[1] = f
            BY <1>7, <1>9
        <3> QED  BY <1>9, <1>m, <2>1, <3>1
    <2>2. CASE g # f
        <3>1. g \in S \ ToSet(q.todo)
            BY <1>6, <1>10, <2>2
        <3>2. {l \in M : l[1] = g} = {l \in L : l[1] = g}
            BY <1>m, <2>2
        <3> QED  BY <1>9, <3>1, <3>2
    <2> QED  BY <2>1, <2>2
<1>12. Linking(r, S, M, O)
    BY <1>4, <1>10, <1>11 DEF Linking
<1> QED  BY <1>4, <1>e, <1>8, <1>10, <1>12, NotOf, OwnStep

\* The tools that none of it is about, and a shell without a tool.
LEMMA RestRight ==
    ASSUME SiteBase, NEW s \in Sessions, ReleaseDecide(s) \/ ReleaseTake(s) \/ Finish(s)
    PROVE  Right(s)'
<1>1. sess'[s].tool \in {"release", Idle.tool}
    <2>1. CASE ReleaseDecide(s)
        <3> DEFINE q == sess[s]
                   r == [q EXCEPT !.pc = "take"]
        <3>1. q.tool = "release" /\ DOMAIN q = SessFields
            BY <2>1, Known DEF ReleaseDecide
        <3>2. (\E out : Ends(s, out)) \/ Goes(s, r)
            BY <2>1 DEF ReleaseDecide
        <3>3. CASE \E out : Ends(s, out)
            BY <3>1, <3>3, EndsTo
        <3>4. CASE Goes(s, r)
            <4>1. sess'[s] = r
                BY <3>4, GoesTo
            <4> HIDE DEF q
            <4>2. r.tool = q.tool
                BY <3>1 DEF SessFields
            <4> QED  BY <3>1, <4>1, <4>2
        <3> QED  BY <3>2, <3>3, <3>4
    <2>2. CASE ReleaseTake(s)
        BY <2>2, ReleaseTakeBase
    <2>3. CASE Finish(s)
        BY <2>3, GoesTo DEF Finish
    <2> QED  BY <2>1, <2>2, <2>3
<1>2. /\ sess'[s].tool # "allocate" /\ sess'[s].tool # "find" /\ sess'[s].tool # "list"
      /\ sess'[s].tool # "register"
    BY <1>1, IdleFields
<1> QED  BY <1>2, OtherTools DEF Right

\* A session whose tool nobody has interfered with is right after its own steps ...
LEMMA OwnRight ==
    ASSUME SiteBase, NEW s \in Sessions, s \in steady => Right(s), Starting(s) \/ Running(s),
           s \in steady'
    PROVE  Right(s)'
<1>1. CASE Starting(s)
    BY <1>1, AllocStartRight, ReleaseStartRight, FindStartRight, ListStartRight,
       RegisterStartRight DEF Starting
<1>2. CASE Running(s)
    <2>1. CASE ReleaseDecide(s) \/ ReleaseTake(s) \/ Finish(s)
        BY <2>1, RestRight
    <2>2. CASE AllocCount(s) \/ SearchOne(s) \/ AllocDecide(s) \/ FindNext(s) \/ ListNext(s)
        <3>1. \/ \E out : Ends(s, out)
              \/ \E r : Goes(s, r)
            BY <2>2 DEF AllocCount, SearchOne, AllocDecide, FindNext, ListNext
        <3>2. s \in steady
            BY <3>1, EndsTo, GoesTo
        <3> QED  BY <2>2, <3>2, AllocCountRight, SearchOneRight, AllocDecideRight,
                    FindNextRight, ListNextRight
    <2>3. CASE AllocMkdir(s)
        BY <2>3, AllocMkdirRight DEF AllocMkdir
    <2>4. CASE AllocEntry(s)
        BY <2>4, AllocEntryRight DEF AllocEntry, Disturbs
    <2>5. CASE RegisterLink(s) \/ RegisterPrune(s)
        <3>1. \/ \E out : Ends(s, out)
              \/ \E r : Goes(s, r)
              \/ Interferes(s)
            BY <2>5 DEF RegisterLink, RegisterPrune
        <3>2. s \in steady
            BY <3>1, EndsTo, GoesTo DEF Interferes
        <3> QED  BY <2>5, <3>2, RegisterLinkRight, RegisterPruneRight
    <2> QED  BY <1>2, <2>1, <2>2, <2>3, <2>4, <2>5 DEF Running
<1> QED  BY <1>1, <1>2

\* ... and after those of others.
LEMMA NextRight ==
    ASSUME SiteBase, \A s \in steady : Right(s), [SiteNext]_siteVars
    PROVE  \A s \in steady' : Right(s)'
<1> SUFFICES ASSUME NEW s \in steady' PROVE Right(s)'
    OBVIOUS
<1>1. s \in Sessions
    BY NextBase DEF SiteBase, Tables
<1>2. ASSUME NEW t \in Sessions, Starting(t) \/ Running(t) PROVE Right(s)'
    <2>1. CASE t = s
        BY <1>1, <1>2, <2>1, OwnRight
    <2>2. CASE t # s
        BY <1>1, <1>2, <2>2, OthersQuiet, RightSame
    <2> QED  BY <2>1, <2>2
<1>3. ASSUME NEW f \in Fs, Outage(f) \/ Repair(f) PROVE Right(s)'
    BY <1>3, UpDownBase
<1>4. CASE UNCHANGED siteVars
    <2>1. /\ UNCHANGED <<conf, order, db, up>> /\ sess'[s] = sess[s] /\ s \in steady
          /\ links'[Me(s)] = links[Me(s)]
        BY <1>4 DEF siteVars
    <2> QED  BY <1>1, <2>1, RightSame
<1> QED  BY <1>2, <1>3, <1>4 DEF SiteNext

\* What is known of every reachable state but for the limit of workspaces.
SiteRight == SiteBase /\ \A s \in steady : Right(s)

LEMMA SiteRightInvariant == SiteSpec => []SiteRight
<1>1. SiteInit => SiteRight
    BY InitBase DEF SiteRight, SiteInit
<1>2. SiteRight /\ [SiteNext]_siteVars => SiteRight'
    BY NextBase, NextRight DEF SiteRight
<1> QED  BY <1>1, <1>2, PTL DEF SiteSpec

\* ws_allocate without -F: a workspace is created only where, of all filesystems that can be
\* searched, there is none of that name, unless another session interfered.
THEOREM NoneShadowed == SiteSpec => []NoShadow
<1>1. SiteRight => NoShadow
    <2> SUFFICES ASSUME SiteRight, NEW s \in steady, sess[s].out = "created", sess[s].on = NoFs,
                        NEW f \in ToSet(order[Me(s)]["create"]) \cap up, f # sess[s].to,
                        Exists(f, Target(s))
                 PROVE  FALSE
        BY DEF NoShadow, Target
    <2>1. s \in Sessions
        BY DEF SiteRight, SiteBase, Tables
    <2>2. sess[s].tool = "allocate"
        BY <2>1, Known DEF SiteRight, Shape
    <2>3. f \in Holding(s)
        BY DEF Holding
    <2>4. Searching(sess[s], Target(s), Holding(s))
        BY DEF SiteRight, Right, Searched
    <2> QED  BY <2>2, <2>3, <2>4 DEF Searching
<1> QED  BY <1>1, SiteRightInvariant, PTL

\* ws_find: the first workspace of the most preferred filesystem that shows one.
THEOREM FoundExactly == SiteSpec => []FindExact
<1>1. SiteRight => FindExact
    <2> SUFFICES ASSUME SiteRight, NEW s \in steady, sess[s].tool = "find",
                        sess[s].out \in {"found", "absent"}
                 PROVE  LET among == Findable(s)
                            shows == {k \in 1 .. Len(among) : Shown(s, among[k]) # {}}
                        IN  IF shows = {} THEN sess[s].hits = {}
                            ELSE \E k \in shows : \E i \in Shown(s, among[k]) :
                                    /\ \A j \in shows : k <= j
                                    /\ sess[s].hits = {<<among[k], i>>}
        BY DEF FindExact
    <2> DEFINE among == Findable(s)
               V == Shows(s)
               q == sess[s]
               shows == {k \in 1 .. Len(among) : Shown(s, among[k]) # {}}
    <2>1. Finding(q, among, V)
        BY DEF SiteRight, Right, Looked
    <2>2. among \in Seq(Fs)
        BY <2>1 DEF Finding
    <2>3. \A k \in 1 .. Len(among) : V[among[k]] = Shown(s, among[k])
        BY <2>2 DEF Shows
    <2>4. Len(among) \in Nat
        BY <2>2
    <2> HIDE DEF among, V, q
    <2>5. CASE q.out = "absent"
        <3>1. q.hits = {} /\ \A j \in 1 .. Len(among) : V[among[j]] = {}
            BY <2>1, <2>5 DEF Finding, q
        <3>2. shows = {}
            BY <2>3, <3>1
        <3> QED  BY <3>1, <3>2 DEF q, among
    <2>6. CASE q.out = "found"
        <3>1. PICK k \in 1 .. Len(among) : \E i \in V[among[k]] :
                        /\ \A j \in 1 .. k - 1 : V[among[j]] = {}
                        /\ q.hits = {<<among[k], i>>}
            BY <2>1, <2>6 DEF Finding, q
        <3>2. PICK i \in V[among[k]] : /\ \A j \in 1 .. k - 1 : V[among[j]] = {}
                                       /\ q.hits = {<<among[k], i>>}
            BY <3>1
        <3>3. k \in shows /\ i \in Shown(s, among[k])
            BY <2>3
        <3>4. ASSUME NEW j \in shows PROVE k <= j
            <4>1. j \in 1 .. Len(among) /\ V[among[j]] # {}
                BY <2>3
            <4>2. j \notin 1 .. k - 1
                BY <3>2, <4>1
            <4> QED  BY <2>4, <4>1, <4>2
        <3> HIDE DEF shows
        <3>5. \E m \in shows : \E x \in Shown(s, among[m]) :
                    (\A j \in shows : m <= j) /\ q.hits = {<<among[m], x>>}
            BY <3>2, <3>3, <3>4
        <3> QED  BY <3>5 DEF q, among, shows
    <2> QED  BY <2>5, <2>6 DEF q
<1> QED  BY <1>1, SiteRightInvariant, PTL

\* ws_list: exactly the workspaces shown by the filesystems that may be listed.
THEOREM ListedExactly == SiteSpec => []ListExact
<1>1. SiteRight => ListExact
    <2> SUFFICES ASSUME SiteRight, NEW s \in steady, sess[s].tool = "list", sess[s].out = "listed"
                 PROVE  sess[s].hits = ShownIn(s, Listable(s))
        BY DEF ListExact
    <2>1. Listing(sess[s], Listable(s), Shows(s))
        BY DEF SiteRight, Right, Listed
    <2>2. Listable(s) \subseteq Fs /\ sess[s].hits = In(Listable(s), Shows(s))
        BY <2>1 DEF Listing
    <2>3. \A f \in Fs : Shows(s)[f] = Shown(s, f)
        BY DEF Shows
    <2>4. In(Listable(s), Shows(s)) = ShownIn(s, Listable(s))
        BY <2>2, <2>3 DEF In, ShownIn
    <2> QED  BY <2>2, <2>4
<1> QED  BY <1>1, SiteRightInvariant, PTL

\* ws_register: exactly the user's workspaces are linked, in the filesystems it could read.
THEOREM LinkedExactly == SiteSpec => []LinksExact
<1>1. SiteRight => LinksExact
    <2> SUFFICES ASSUME SiteRight, NEW s \in steady, sess[s].out = "registered",
                        NEW f \in Readable(s)
                 PROVE  LinkedRight(Me(s), f)
        BY DEF LinksExact, Readable
    <2>1. s \in Sessions
        BY DEF SiteRight, SiteBase, Tables
    <2>2. sess[s].tool = "register"
        BY <2>1, Known DEF SiteRight, Shape
    <2>3. Linking(sess[s], Readable(s), links[Me(s)], Owning(Me(s)))
        BY DEF SiteRight, Right, Linked
    <2>4. {l \in links[Me(s)] : l[1] = f} = Owning(Me(s))[f]
        BY <2>2, <2>3 DEF Linking
    <2>5. f \in Fs
        BY DEF Readable, SiteRight, SiteBase, Tables
    <2> QED  BY <2>4, <2>5 DEF Owning, LinkedRight
<1> QED  BY <1>1, SiteRightInvariant, PTL

-----------------------------------------------------------------------------
(* What is read from the files.                                               *)

\* The loop over the files, as a function of the number of files read.
LEMMA ReadLoop ==
    ASSUME NEW files, Len(files) \in Nat
    PROVE  \E read : /\ read[0] = [global |-> GlobalDefaults, fs |-> <<>>]
                     /\ \A k \in 1 .. Len(files) : read[k] = ReadYAML(read[k - 1], files[k])
                     /\ LoadConfig(files) = read[Len(files)]
<1> DEFINE n == Len(files)
           v0 == [global |-> GlobalDefaults, fs |-> <<>>]
           Step(v, k) == ReadYAML(v, files[k])
           Upto(h, m) == h = [k \in 0 .. m |-> IF k = 0 THEN v0 ELSE Step(h[k - 1], k)]
           IsLoop(h) == h = [k \in 0 .. n |-> IF k = 0 THEN v0 ELSE Step(h[k - 1], k)]
           read == CHOOSE h : IsLoop(h)
           T == {m \in 0 .. n : \E h : Upto(h, m)}
<1>1. LoadConfig(files) = read[n]
    BY DEF LoadConfig
<1>2. n \in Nat
    OBVIOUS
<1> HIDE DEF n, Step, v0
<1>3. 0 \in T
    <2> DEFINE h == [k \in 0 .. 0 |-> v0]
    <2>1. Upto(h, 0)
        OBVIOUS
    <2> HIDE DEF h, Upto
    <2> QED  BY <1>2, <2>1
<1>4. ASSUME NEW m \in 1 .. n, m - 1 \in T PROVE m \in T
    <2>1. PICK h : Upto(h, m - 1)
        BY <1>4
    <2> DEFINE g == [k \in 0 .. m |-> IF k = m THEN Step(h[m - 1], m) ELSE h[k]]
    <2>2. \A k \in 0 .. m : g[k] = IF k = m THEN Step(h[m - 1], m) ELSE h[k]
        OBVIOUS
    <2>3. g = [k \in 0 .. m |-> IF k = 0 THEN v0 ELSE Step(g[k - 1], k)]
        <3>1. ASSUME NEW k \in 0 .. m PROVE g[k] = IF k = 0 THEN v0 ELSE Step(g[k - 1], k)
            <4>1. CASE k = m
                <5>1. g[k - 1] = h[m - 1] /\ k # 0
                    BY <1>2, <2>2, <4>1
                <5> QED  BY <2>2, <4>1, <5>1
            <4>2. CASE k # m
                <5>1. k \in 0 .. m - 1 /\ g[k] = h[k] /\ (k # 0 => g[k - 1] = h[k - 1])
                    BY <1>2, <2>2, <4>2
                <5>2. h[k] = IF k = 0 THEN v0 ELSE Step(h[k - 1], k)
                    BY <2>1, <5>1
                <5> QED  BY <5>1, <5>2
            <4> QED  BY <4>1, <4>2
        <3>2. g = [k \in 0 .. m |-> g[k]]
            OBVIOUS
        <3> HIDE DEF g
        <3> QED  BY <3>1, <3>2
    <2>4. Upto(g, m)
        BY <2>3
    <2> HIDE DEF g, Upto
    <2> QED  BY <2>4
<1> HIDE DEF T
<1>5. 0 .. n \subseteq T
    BY <1>2, <1>3, <1>4, Induct
<1>6. n \in T
    BY <1>2, <1>5
<1>7. \E h : IsLoop(h)
    BY <1>6 DEF T
<1>8. IsLoop(read)
    BY <1>7
<1> HIDE DEF read
<1>9. read[0] = v0 /\ \A k \in 1 .. n : read[k] = Step(read[k - 1], k)
    BY <1>2, <1>8
<1> QED  BY <1>1, <1>9 DEF n, v0, Step

\* A filesystem has the fields of a filesystem, whatever is given.
LEMMA FsConfigFields ==
    ASSUME NEW glob, NEW given, NEW c, c = FsConfig(glob, given)
    PROVE  /\ c.user_acl = IF "user_acl" \in DOMAIN given THEN given["user_acl"] ELSE <<>>
           /\ c.group_acl = IF "group_acl" \in DOMAIN given THEN given["group_acl"] ELSE <<>>
           /\ c.maxextensions = IF "maxextensions" \in DOMAIN given THEN given["maxextensions"]
                                ELSE glob.maxextensions
BY Zenon DEF FsConfig

\* The settings of a file over those read before it.
LEMMA GlobalFields ==
    ASSUME NEW glob, NEW given, NEW c, c = Global(glob, given),
           {"maxuserworkspaces", "maxextensions"} \subseteq DOMAIN glob
    PROVE  /\ DOMAIN c = DOMAIN glob
           /\ c.maxuserworkspaces = IF "maxuserworkspaces" \in DOMAIN given
                                    THEN given["maxuserworkspaces"] ELSE glob.maxuserworkspaces
           /\ c.maxextensions = IF "maxextensions" \in DOMAIN given
                                THEN given["maxextensions"] ELSE glob.maxextensions
<1> DEFINE Or(k, alias) == IF k \in DOMAIN given THEN given[k]
                           ELSE IF alias \in DOMAIN given THEN given[alias] ELSE glob[k]
<1>1. c = [k \in DOMAIN glob |-> CASE k = "default" -> Or(k, "default_workspace")
                                   [] k = "maxduration" -> Or(k, "duration")
                                   [] OTHER -> Or(k, k)]
    BY DEF Global
<1> QED  BY <1>1

LEMMA DefaultFields ==
    /\ {"maxuserworkspaces", "maxextensions"} \subseteq DOMAIN GlobalDefaults
    /\ GlobalDefaults.maxuserworkspaces = 0 /\ GlobalDefaults.maxextensions = 10
<1>1. DOMAIN GlobalDefaults = {"clustername", "default", "dbuid", "dbgid", "admins",
                               "maxextensions", "maxduration", "maxuserworkspaces"}
    BY Zenon DEF GlobalDefaults
<1>2. GlobalDefaults.maxuserworkspaces = 0 /\ GlobalDefaults.maxextensions = 10
    BY Zenon DEF GlobalDefaults
<1> QED  BY <1>1, <1>2

\* A configuration as the tools need it.
Usable(c) ==
    /\ DOMAIN c.fs \subseteq Fs
    /\ {"maxuserworkspaces", "maxextensions"} \subseteq DOMAIN c.global
    /\ c.global.maxuserworkspaces \in Int
    /\ \A f \in DOMAIN c.fs : /\ c.fs[f].user_acl \in Seq(ToSet(c.fs[f].user_acl))
                              /\ c.fs[f].group_acl \in Seq(ToSet(c.fs[f].group_acl))

\* One more file.
LEMMA ReadFields ==
    ASSUME NEW c, NEW file, NEW d, d = ReadYAML(c, file)
    PROVE  /\ d.global = Global(c.global, file.global)
           /\ DOMAIN d.fs = DOMAIN c.fs \cup DOMAIN file.fs
           /\ \A f \in DOMAIN d.fs :
                d.fs[f] = IF f \in DOMAIN file.fs THEN FsConfig(d.global, file.fs[f])
                          ELSE c.fs[f]
BY DEF ReadYAML

LEMMA ReadUsable ==
    ASSUME NEW x \in Sites, NEW k \in 1 .. Len(x.files), NEW c, Usable(c)
    PROVE  Usable(ReadYAML(c, x.files[k]))
<1> DEFINE file == x.files[k]
           d == ReadYAML(c, file)
<1>1. /\ DOMAIN file.fs \subseteq Fs
      /\ "maxuserworkspaces" \in DOMAIN file.global => file.global["maxuserworkspaces"] \in Int
      /\ \A f \in DOMAIN file.fs :
            \A a \in {"user_acl", "group_acl"} \cap DOMAIN file.fs[f] :
                file.fs[f][a] \in Seq(ToSet(file.fs[f][a]))
    BY FilesAssumption
<1> HIDE DEF file
<1>2. /\ d.global = Global(c.global, file.global)
      /\ DOMAIN d.fs = DOMAIN c.fs \cup DOMAIN file.fs
      /\ \A f \in DOMAIN d.fs :
            d.fs[f] = IF f \in DOMAIN file.fs THEN FsConfig(d.global, file.fs[f]) ELSE c.fs[f]
    BY ReadFields
<1> HIDE DEF d
<1>3. /\ DOMAIN d.global = DOMAIN c.global
      /\ d.global.maxuserworkspaces = IF "maxuserworkspaces" \in DOMAIN file.global
                                      THEN file.global["maxuserworkspaces"]
                                      ELSE c.global.maxuserworkspaces
    BY <1>2, GlobalFields DEF Usable
<1>4. ASSUME NEW f \in DOMAIN d.fs
      PROVE  /\ d.fs[f].user_acl \in Seq(ToSet(d.fs[f].user_acl))
             /\ d.fs[f].group_acl \in Seq(ToSet(d.fs[f].group_acl))
    <2>1. CASE f \in DOMAIN file.fs
        <3> DEFINE given == file.fs[f]
        <3>1. /\ d.fs[f].user_acl = IF "user_acl" \in DOMAIN given THEN given["user_acl"]
                                    ELSE <<>>
              /\ d.fs[f].group_acl = IF "group_acl" \in DOMAIN given THEN given["group_acl"]
                                     ELSE <<>>
            BY <1>2, <2>1, FsConfigFields
        <3>2. /\ "user_acl" \in DOMAIN given =>
                    given["user_acl"] \in Seq(ToSet(given["user_acl"]))
              /\ "group_acl" \in DOMAIN given =>
                    given["group_acl"] \in Seq(ToSet(given["group_acl"]))
            BY <1>1, <2>1
        <3>3. <<>> \in Seq(ToSet(<<>>))
            OBVIOUS
        <3> HIDE DEF given
        <3> QED  BY <3>1, <3>2, <3>3
    <2>2. CASE f \notin DOMAIN file.fs
        BY <1>2, <2>2 DEF Usable
    <2> QED  BY <2>1, <2>2
<1> QED  BY <1>1, <1>2, <1>3, <1>4 DEF Usable, d, file

LEMMA ConfigUsable ==
    ASSUME Settled
    PROVE  Usable(conf)
<1> DEFINE files == site.files
           n == Len(files)
<1>1. site \in Sites /\ n \in Nat /\ conf = LoadConfig(files)
    BY FilesAssumption DEF Settled
<1>2. PICK read : /\ read[0] = [global |-> GlobalDefaults, fs |-> <<>>]
                  /\ \A k \in 1 .. n : read[k] = ReadYAML(read[k - 1], files[k])
                  /\ LoadConfig(files) = read[n]
    BY <1>1, ReadLoop
<1> DEFINE T == {k \in 0 .. n : Usable(read[k])}
<1>3. 0 \in T
    <2>1. read[0].global = GlobalDefaults /\ DOMAIN read[0].fs = {}
        BY <1>2
    <2> QED  BY <1>1, <2>1, DefaultFields DEF Usable
<1>4. ASSUME NEW k \in 1 .. n, k - 1 \in T PROVE k \in T
    BY <1>1, <1>2, <1>4, ReadUsable
<1> HIDE DEF n, T
<1>5. 0 .. n \subseteq T
    BY <1>1, <1>3, <1>4, Induct
<1> QED  BY <1>1, <1>2, <1>5 DEF T

\* The last file of a set, and what the files up to the k-th say of maxextensions.
Latest(S) == CHOOSE k \in S : \A j \in S : j <= k

Saying(files, m) == {k \in 1 .. m : "maxextensions" \in DOMAIN files[k].global}
Extensions(files, m) ==
    IF Saying(files, m) = {} THEN 10
    ELSE files[Latest(Saying(files, m))].global["maxextensions"]

Defining(files, f, m) == {k \in 1 .. m : f \in DOMAIN files[k].fs}
ExtensionsOf(files, f, m) ==
    LET last == Latest(Defining(files, f, m))
    IN  IF "maxextensions" \in DOMAIN files[last].fs[f]
        THEN files[last].fs[f]["maxextensions"] ELSE Extensions(files, last)

LEMMA LastIs ==
    ASSUME NEW m \in Nat, NEW S \in SUBSET (1 .. m), m \in S
    PROVE  Latest(S) = m
<1>1. \A j \in S : j <= m
    OBVIOUS
<1>2. Latest(S) \in S /\ \A j \in S : j <= Latest(S)
    BY <1>1 DEF Latest
<1>3. Latest(S) \in 1 .. m /\ Latest(S) <= m /\ m <= Latest(S)
    BY <1>1, <1>2
<1> QED  BY <1>3

LEMMA SayingStep ==
    ASSUME NEW files, NEW k \in Nat \ {0}
    PROVE  /\ Saying(files, k) = IF "maxextensions" \in DOMAIN files[k].global
                                 THEN Saying(files, k - 1) \cup {k} ELSE Saying(files, k - 1)
           /\ Extensions(files, k) = IF "maxextensions" \in DOMAIN files[k].global
                                     THEN files[k].global["maxextensions"]
                                     ELSE Extensions(files, k - 1)
<1>1. \A j : j \in 1 .. k <=> j \in 1 .. k - 1 \/ j = k
    OBVIOUS
<1>2. Saying(files, k) = IF "maxextensions" \in DOMAIN files[k].global
                         THEN Saying(files, k - 1) \cup {k} ELSE Saying(files, k - 1)
    BY <1>1 DEF Saying
<1>3. CASE "maxextensions" \in DOMAIN files[k].global
    <2>1. k \in Saying(files, k) /\ Saying(files, k) \in SUBSET (1 .. k)
        BY <1>3 DEF Saying
    <2>2. Latest(Saying(files, k)) = k
        BY <2>1, LastIs
    <2> QED  BY <1>2, <1>3, <2>1, <2>2 DEF Extensions
<1>4. CASE "maxextensions" \notin DOMAIN files[k].global
    BY <1>2, <1>4 DEF Extensions
<1> QED  BY <1>2, <1>3, <1>4

LEMMA DefiningStep ==
    ASSUME NEW files, NEW f, NEW k \in Nat \ {0}
    PROVE  /\ f \in DOMAIN files[k].fs => Latest(Defining(files, f, k)) = k
           /\ f \notin DOMAIN files[k].fs => Defining(files, f, k) = Defining(files, f, k - 1)
<1>1. \A j : j \in 1 .. k <=> j \in 1 .. k - 1 \/ j = k
    OBVIOUS
<1>2. ASSUME f \in DOMAIN files[k].fs PROVE Latest(Defining(files, f, k)) = k
    <2>1. k \in Defining(files, f, k) /\ Defining(files, f, k) \in SUBSET (1 .. k)
        BY <1>2 DEF Defining
    <2> QED  BY <2>1, LastIs
<1>3. f \notin DOMAIN files[k].fs => Defining(files, f, k) = Defining(files, f, k - 1)
    BY <1>1 DEF Defining
<1> QED  BY <1>2, <1>3

\* What is read with the first m files.
ReadSoFar(files, f, m, c) ==
    /\ {"maxuserworkspaces", "maxextensions"} \subseteq DOMAIN c.global
    /\ c.global.maxextensions = Extensions(files, m)
    /\ f \in DOMAIN c.fs => c.fs[f].maxextensions = ExtensionsOf(files, f, m)

LEMMA ReadOne ==
    ASSUME NEW files, NEW f, NEW k \in Nat \ {0}, NEW c, ReadSoFar(files, f, k - 1, c)
    PROVE  ReadSoFar(files, f, k, ReadYAML(c, files[k]))
<1> DEFINE file == files[k]
           d == ReadYAML(c, file)
<1>1. /\ d.global = Global(c.global, file.global)
      /\ DOMAIN d.fs = DOMAIN c.fs \cup DOMAIN file.fs
      /\ \A g \in DOMAIN d.fs :
            d.fs[g] = IF g \in DOMAIN file.fs THEN FsConfig(d.global, file.fs[g]) ELSE c.fs[g]
    BY ReadFields
<1> HIDE DEF d
<1>2. /\ DOMAIN d.global = DOMAIN c.global
      /\ d.global.maxextensions = IF "maxextensions" \in DOMAIN file.global
                                  THEN file.global["maxextensions"] ELSE c.global.maxextensions
    BY <1>1, GlobalFields DEF ReadSoFar
<1>3. d.global.maxextensions = Extensions(files, k)
    BY <1>2, SayingStep DEF ReadSoFar
<1>4. ASSUME f \in DOMAIN d.fs PROVE d.fs[f].maxextensions = ExtensionsOf(files, f, k)
    <2>1. CASE f \in DOMAIN file.fs
        <3>1. d.fs[f] = FsConfig(d.global, file.fs[f])
            BY <1>1, <1>4, <2>1
        <3>2. d.fs[f].maxextensions = IF "maxextensions" \in DOMAIN file.fs[f]
                                      THEN file.fs[f]["maxextensions"]
                                      ELSE d.global.maxextensions
            BY <3>1, FsConfigFields
        <3>3. Latest(Defining(files, f, k)) = k
            BY <2>1, DefiningStep
        <3> QED  BY <1>3, <3>2, <3>3 DEF ExtensionsOf
    <2>2. CASE f \notin DOMAIN file.fs
        <3>1. d.fs[f] = c.fs[f] /\ f \in DOMAIN c.fs
            BY <1>1, <1>4, <2>2
        <3>2. Defining(files, f, k) = Defining(files, f, k - 1)
            BY <2>2, DefiningStep
        <3> QED  BY <3>1, <3>2 DEF ExtensionsOf, ReadSoFar
    <2> QED  BY <2>1, <2>2
<1> QED  BY <1>2, <1>3, <1>4 DEF ReadSoFar, d

\* readYAML() over all files: a filesystem has the extensions its last definition gives it,
\* or what the files up to that one say, or the default of the program.
LEMMA ConfigExtensions ==
    ASSUME Settled, NEW f \in DOMAIN conf.fs
    PROVE  conf.fs[f].maxextensions = ExtensionsOf(site.files, f, Len(site.files))
<1> DEFINE files == site.files
           n == Len(files)
<1>1. site \in Sites /\ n \in Nat /\ conf = LoadConfig(files)
    BY FilesAssumption DEF Settled
<1>2. PICK read : /\ read[0] = [global |-> GlobalDefaults, fs |-> <<>>]
                  /\ \A k \in 1 .. n : read[k] = ReadYAML(read[k - 1], files[k])
                  /\ LoadConfig(files) = read[n]
    BY <1>1, ReadLoop
<1> HIDE DEF files
<1> DEFINE T == {k \in 0 .. n : ReadSoFar(files, f, k, read[k])}
<1>3. 0 \in T
    <2>1. read[0].global = GlobalDefaults /\ DOMAIN read[0].fs = {}
        BY <1>2
    <2>2. Saying(files, 0) = {}
        BY DEF Saying
    <2> QED  BY <1>1, <2>1, <2>2, DefaultFields DEF ReadSoFar, Extensions
<1>4. ASSUME NEW k \in 1 .. n, k - 1 \in T PROVE k \in T
    <2>1. k \in Nat \ {0} /\ k \in 0 .. n /\ ReadSoFar(files, f, k - 1, read[k - 1])
        BY <1>1, <1>4
    <2>2. ReadSoFar(files, f, k, read[k])
        BY <1>2, <2>1, ReadOne
    <2> QED  BY <2>1, <2>2
<1> HIDE DEF n, T
<1>5. 0 .. n \subseteq T
    BY <1>1, <1>3, <1>4, Induct
<1>6. ReadSoFar(files, f, n, conf)
    BY <1>1, <1>2, <1>5 DEF T
<1> QED  BY <1>6 DEF ReadSoFar, n, files

\* Config: the global maxextensions in force for a filesystem is that of the files read
\* so far, whatever the order in which files set it and define filesystems.
THEOREM ConfigurationMerged == SiteSpec => []ConfigMerged
<1>1. SiteBase => ConfigMerged
    <2> SUFFICES ASSUME SiteBase, NEW f \in DOMAIN conf.fs
                 PROVE  LET defs == {k \in 1 .. Len(site.files) : f \in DOMAIN site.files[k].fs}
                            last == CHOOSE k \in defs : \A j \in defs : j <= k
                            says == {k \in 1 .. last :
                                        "maxextensions" \in DOMAIN site.files[k].global}
                            given == site.files[last].fs[f]
                        IN  conf.fs[f].maxextensions =
                                IF "maxextensions" \in DOMAIN given THEN given.maxextensions
                                ELSE IF says = {} THEN 10
                                ELSE site.files[CHOOSE k \in says : \A j \in says : j <= k]
                                         .global.maxextensions
        BY DEF ConfigMerged
    <2>1. conf.fs[f].maxextensions = ExtensionsOf(site.files, f, Len(site.files))
        BY ConfigExtensions DEF SiteBase
    <2> QED  BY <2>1 DEF ExtensionsOf, Extensions, Saying, Defining, Latest
<1> QED  BY <1>1, SiteBaseInvariant, PTL

-----------------------------------------------------------------------------
(* Who is let in.                                                             *)

\* The loop over an ACL, as a function of the number of entries read.
LEMMA EvaluateLoop ==
    ASSUME NEW acl, Len(acl) \in Nat, NEW who, NEW intent
    PROVE  \E step : /\ step[0] = "none" /\ Evaluate(acl, who, intent) = step[Len(acl)]
                     /\ \A k \in 1 .. Len(acl) :
                            step[k] = IF Parsed(acl[k]) /\ acl[k].id \in who
                                      THEN Verdict(step[k - 1], EntryAllows(acl[k], intent))
                                      ELSE step[k - 1]
<1> DEFINE n == Len(acl)
           V == {"none", "yes", "no"}
           v0 == "none"
           Step(v, k) == IF Parsed(acl[k]) /\ acl[k].id \in who
                         THEN Verdict(v, EntryAllows(acl[k], intent)) ELSE v
           G == [k \in 1 .. n |-> [v \in V |-> Step(v, k)]]
           IsLoop(h) == h = [k \in 0 .. n |-> IF k = 0 THEN v0 ELSE Step(h[k - 1], k)]
           step == CHOOSE h : IsLoop(h)
<1>1. \A k \in 1 .. n : \A v \in V : Step(v, k) \in V
    BY DEF Verdict
<1>2. n \in Nat /\ v0 \in V
    OBVIOUS
<1>3. Evaluate(acl, who, intent) = step[n]
    BY DEF Evaluate
<1> HIDE DEF n, Step, V, v0
<1>4. G \in [1 .. n -> [V -> V]]
    BY <1>1
<1>5. \A k \in 1 .. n : \A v \in V : G[k][v] = Step(v, k)
    OBVIOUS
<1> HIDE DEF G
<1>6. PICK f \in [0 .. n -> V] :
            f[0] = v0 /\ \A k \in 1 .. n : f[k] = G[k][f[k - 1]]
    <2>1. n \in Nat
        BY <1>2
    <2>2. v0 \in V
        BY <1>2
    <2> QED  BY <2>1, <2>2, <1>4, Recursion, SMTT(60)
<1>7. \A k \in 1 .. n : f[k] = Step(f[k - 1], k)
    <2> TAKE k \in 1 .. n
    <2>1. f[k - 1] \in V
        BY <1>2, <1>6
    <2> QED  BY <2>1, <1>5, <1>6
<1>8. IsLoop(f)
    BY <1>2, <1>6, <1>7
<1>9. IsLoop(step)
    BY <1>8
<1> HIDE DEF step
<1>10. step[0] = v0 /\ \A k \in 1 .. n : step[k] = Step(step[k - 1], k)
    BY <1>2, <1>9
<1> QED  BY <1>3, <1>10 DEF n, Step, v0

\* The entries of an ACL that are understood and concern one of the ids.
Concerned(acl, who) == {k \in DOMAIN acl : Parsed(acl[k]) /\ acl[k].id \in who}

\* The verdict of an ACL: every entry that concerns the user has to allow it.
LEMMA EvaluateMeans ==
    ASSUME NEW acl, acl \in Seq(ToSet(acl)), NEW who, NEW intent
    PROVE  /\ Evaluate(acl, who, intent) = "none" <=> Concerned(acl, who) = {}
           /\ Evaluate(acl, who, intent) = "yes" <=>
                /\ Concerned(acl, who) # {}
                /\ \A k \in Concerned(acl, who) : EntryAllows(acl[k], intent)
<1> DEFINE n == Len(acl)
           C(m) == {k \in 1 .. m : Parsed(acl[k]) /\ acl[k].id \in who}
           Allowed(m) == \A k \in C(m) : EntryAllows(acl[k], intent)
           Means(v, m) == \/ v = "none" /\ C(m) = {}
                          \/ v = "yes" /\ C(m) # {} /\ Allowed(m)
                          \/ v = "no" /\ C(m) # {} /\ ~Allowed(m)
<1>1. n \in Nat /\ DOMAIN acl = 1 .. n
    <2> DEFINE S == ToSet(acl)
    <2>1. acl \in Seq(S)
        OBVIOUS
    <2> HIDE DEF S
    <2> QED  BY <2>1
<1>2. PICK step : /\ step[0] = "none" /\ Evaluate(acl, who, intent) = step[n]
                  /\ \A k \in 1 .. n :
                        step[k] = IF Parsed(acl[k]) /\ acl[k].id \in who
                                  THEN Verdict(step[k - 1], EntryAllows(acl[k], intent))
                                  ELSE step[k - 1]
    <2>1. Len(acl) \in Nat
        BY <1>1
    <2> QED  BY ONLY <2>1, EvaluateLoop
<1> HIDE DEF n
<1> DEFINE T == {m \in 0 .. n : Means(step[m], m)}
<1>3. 0 \in T
    <2>1. C(0) = {}
        OBVIOUS
    <2> HIDE DEF C, Allowed
    <2>2. Means(step[0], 0)
        BY <1>2, <2>1
    <2> QED  BY <1>1, <2>2
<1>4. ASSUME NEW m \in 1 .. n, m - 1 \in T PROVE m \in T
    <2>1. Means(step[m - 1], m - 1) /\ m \in 0 .. n
        BY <1>1, <1>4
    <2>2. \A k : k \in 1 .. m <=> k \in 1 .. m - 1 \/ k = m
        BY <1>1
    <2>3. CASE Parsed(acl[m]) /\ acl[m].id \in who
        <3>1. step[m] = Verdict(step[m - 1], EntryAllows(acl[m], intent))
            BY <1>2, <2>3
        <3>2. C(m) = C(m - 1) \cup {m}
            BY <2>2, <2>3
        <3>3. Allowed(m) <=> Allowed(m - 1) /\ EntryAllows(acl[m], intent)
            BY <3>2
        <3>4. C(m - 1) = {} => Allowed(m - 1)
            OBVIOUS
        <3>5. C(m) # {}
            BY <3>2
        <3> HIDE DEF C, Allowed
        <3>6. Means(step[m], m)
            BY <2>1, <3>1, <3>3, <3>4, <3>5 DEF Verdict
        <3> QED  BY <2>1, <3>6
    <2>4. CASE ~ (Parsed(acl[m]) /\ acl[m].id \in who)
        <3>1. step[m] = step[m - 1]
            BY <1>2, <2>4
        <3>2. C(m) = C(m - 1)
            BY <2>2, <2>4
        <3>3. Allowed(m) <=> Allowed(m - 1)
            BY <3>2
        <3> HIDE DEF C, Allowed
        <3>4. Means(step[m], m)
            BY <2>1, <3>1, <3>2, <3>3
        <3> QED  BY <2>1, <3>4
    <2> QED  BY <2>3, <2>4
<1> HIDE DEF T
<1>5. 0 .. n \subseteq T
    BY <1>1, <1>3, <1>4, Induct
<1>6. Means(step[n], n)
    BY <1>1, <1>5 DEF T
<1>7. C(n) = Concerned(acl, who)
    BY <1>1 DEF Concerned
<1> HIDE DEF C
<1> QED  BY <1>2, <1>6, <1>7

\* The entries as the admin guide has them: which concern a user, and what they allow.
Concerning(acl, who) ==
    {e \in ToSet(acl) : e.ok /\ e.id \in who /\ (e.perms = {} \/ e.perms \cap Intents # {})}

Allows(e, intent) == CASE e.sign = "-" -> e.perms # {} /\ intent \notin e.perms
                       [] OTHER -> e.perms = {} \/ intent \in e.perms

LEMMA EntryMeans ==
    ASSUME NEW e, Parsed(e), NEW intent \in Intents
    PROVE  EntryAllows(e, intent) <=> Allows(e, intent)
<1>1. e.perms \cap Intents = {} => e.perms = {}
    BY DEF Parsed
<1>2. intent \in e.perms <=> intent \in e.perms \cap Intents
    OBVIOUS
<1> DEFINE P == e.perms
           Q == e.perms \cap Intents
           m == e.sign = "-"
           has == intent \in Q
<1>3. EntryAllows(e, intent) <=> IF Q = {} THEN ~m ELSE (~m <=> has)
    BY DEF EntryAllows
<1>4. Allows(e, intent) <=> IF m THEN P # {} /\ ~has ELSE P = {} \/ has
    BY <1>2 DEF Allows
<1>5. Q = {} => P = {} /\ ~has
    BY <1>1
<1>6. P = {} => Q = {}
    OBVIOUS
<1> HIDE DEF P, Q, m, has
<1> QED  BY <1>3, <1>4, <1>5, <1>6

LEMMA ConcerningMeans ==
    ASSUME NEW acl, acl \in Seq(ToSet(acl)), NEW who, NEW intent \in Intents
    PROVE  /\ Concerned(acl, who) = {} <=> Concerning(acl, who) = {}
           /\ (\A k \in Concerned(acl, who) : EntryAllows(acl[k], intent))
              <=> \A e \in Concerning(acl, who) : Allows(e, intent)
<1>1. ASSUME NEW k \in Concerned(acl, who)
      PROVE  /\ acl[k] \in Concerning(acl, who)
             /\ EntryAllows(acl[k], intent) <=> Allows(acl[k], intent)
    <2>1. k \in DOMAIN acl /\ Parsed(acl[k]) /\ acl[k].id \in who
        BY DEF Concerned
    <2>2. acl[k] \in ToSet(acl)
        BY <2>1 DEF ToSet
    <2> QED  BY <2>1, <2>2, EntryMeans DEF Concerning, Parsed
<1>2. ASSUME NEW e \in Concerning(acl, who)
      PROVE  \E k \in Concerned(acl, who) : e = acl[k]
    <2>1. e \in ToSet(acl) /\ e.id \in who /\ Parsed(e)
        BY DEF Concerning, Parsed
    <2>2. PICK k \in DOMAIN acl : e = acl[k]
        BY <2>1 DEF ToSet
    <2> QED  BY <2>1, <2>2 DEF Concerned
<1> DEFINE C == Concerned(acl, who)
           D == Concerning(acl, who)
<1> HIDE DEF C, D
<1>3. C = {} <=> D = {}
    BY <1>1, <1>2 DEF C, D
<1>4. (\A k \in C : EntryAllows(acl[k], intent)) <=> \A e \in D : Allows(e, intent)
    BY <1>1, <1>2 DEF C, D
<1> QED  BY <1>3, <1>4 DEF C, D

\* hasAccess(): the rule of the admin guide, for every configuration, user and intent.
THEOREM AccessGranted == SiteSpec => []AccessRule
<1>1. SiteBase => AccessRule
    <2> SUFFICES ASSUME SiteBase, NEW u \in Users, NEW f \in DOMAIN conf.fs, NEW intent \in Intents
                 PROVE  LET own == Concerning(conf.fs[f].user_acl, {u})
                            of == Concerning(conf.fs[f].group_acl, MemberOf[u])
                            decisive == IF own # {} THEN own ELSE of
                        IN  HasAccess(conf, u, MemberOf[u], f, intent)
                            <=> \/ Contains(conf.global.admins, u)
                                \/ conf.fs[f].user_acl \o conf.fs[f].group_acl = <<>>
                                \/ decisive # {} /\ \A e \in decisive : Allows(e, intent)
        BY DEF AccessRule, Concerning, Allows
    <2> DEFINE a == conf.fs[f].user_acl
               b == conf.fs[f].group_acl
               own == Concerning(a, {u})
               of == Concerning(b, MemberOf[u])
               user == Evaluate(a, {u}, intent)
               group == Evaluate(b, MemberOf[u], intent)
    <2>1. a \in Seq(ToSet(a)) /\ b \in Seq(ToSet(b))
        BY ConfigUsable DEF SiteBase, Usable
    <2>2. /\ user = "none" <=> own = {}
          /\ user = "yes" <=> own # {} /\ \A e \in own : Allows(e, intent)
        BY <2>1, EvaluateMeans, ConcerningMeans
    <2>3. /\ group = "none" <=> of = {}
          /\ group = "yes" <=> of # {} /\ \A e \in of : Allows(e, intent)
        BY <2>1, EvaluateMeans, ConcerningMeans
    <2>4. a \o b = <<>> <=> a = <<>> /\ b = <<>>
        <3> DEFINE S == ToSet(a) \cup ToSet(b)
        <3>1. a \in Seq(S) /\ b \in Seq(S)
            BY <2>1, SeqMonotonic
        <3> HIDE DEF a, b, S
        <3> QED  BY <3>1
    <2>5. HasAccess(conf, u, MemberOf[u], f, intent)
          <=> \/ a = <<>> /\ b = <<>>
              \/ user = "yes"
              \/ user = "none" /\ group = "yes"
              \/ Contains(conf.global.admins, u)
        BY DEF HasAccess, IsAdmin
    <2> HIDE DEF a, b, own, of, user, group
    <2>6. HasAccess(conf, u, MemberOf[u], f, intent)
          <=> \/ Contains(conf.global.admins, u)
              \/ a \o b = <<>>
              \/ IF own # {} THEN \A e \in own : Allows(e, intent)
                 ELSE of # {} /\ \A e \in of : Allows(e, intent)
        BY <2>2, <2>3, <2>4, <2>5
    <2> QED  BY <2>6 DEF a, b, own, of
<1> QED  BY <1>1, SiteBaseInvariant, PTL

-----------------------------------------------------------------------------
(* The order of preference.                                                   *)

LEMMA FiniteFs == IsFiniteSet(Fs)
<1> DEFINE n == Len(FsOrder)
<1>1. n \in Nat /\ FsOrder \in [1 .. n -> Fs] /\ DOMAIN FsOrder = 1 .. n
    BY FsOrderSeq
<1>2. \A f \in Fs : \E k \in 1 .. n : FsOrder[k] = f
    BY <1>1 DEF Fs, ToSet
<1> HIDE DEF n
<1>3. FsOrder \in Surjection(1 .. n, Fs)
    BY <1>1, <1>2 DEF Surjection
<1>4. IsFiniteSet(1 .. n)
    BY <1>1, FS_Interval
<1> QED  BY <1>3, <1>4, FS_Surjection

\* Whose default a filesystem is, as the specification of validFilesystems has it.
UserDefault(c, u, f) == Contains(c.fs[f].userdefault, u)
GroupDefault(c, groups, f) == \E g \in groups : Contains(c.fs[f].groupdefault, g)
Rank(c, u, groups, f) ==
    IF UserDefault(c, u, f) THEN 1 ELSE IF GroupDefault(c, groups, f) THEN 2
    ELSE IF f = c.global.default THEN 3 ELSE 4

Ranks(c, u, groups) == [f \in Fs |-> Rank(c, u, groups, f)]

\* Behind what is of no higher rank may come what is all of one rank.
LEMMA RankedConcat ==
    ASSUME NEW a \in Seq(Fs), NEW b \in Seq(Fs), NEW rank \in [Fs -> Nat], NEW l \in Nat,
           Sorted(a, rank), \A x \in ToSet(a) : rank[x] <= l, \A x \in ToSet(b) : rank[x] = l
    PROVE  Sorted(a \o b, rank) /\ \A x \in ToSet(a \o b) : rank[x] <= l
<1>1. ToSet(a) \subseteq Fs /\ ToSet(b) \subseteq Fs
    BY DEF ToSet
<1>2. \A i \in 1 .. Len(b) : b[i] \in ToSet(b)
    BY DEF ToSet
<1>3. Sorted(b, rank)
    BY <1>2 DEF Sorted
<1>4. \A x \in ToSet(a) : \A y \in ToSet(b) : rank[x] <= rank[y]
    <2> TAKE x \in ToSet(a)
    <2> TAKE y \in ToSet(b)
    <2> QED  OBVIOUS
<1>5. Sorted(a \o b, rank)
    BY <1>3, <1>4, ConcatSorted
<1>6. ToSet(a \o b) = ToSet(a) \cup ToSet(b)
    BY ConcatContents
<1>7. ASSUME NEW x \in ToSet(a) \cup ToSet(b) PROVE rank[x] <= l
    OBVIOUS
<1> QED  BY <1>5, <1>6, <1>7

\* Where at most one filesystem is the default of the user and at most one that of his
\* groups, the parts validFilesystems puts together are those of each rank.
LEMMA ValidSorted ==
    ASSUME NEW c, NEW u, NEW groups, NEW intent, DOMAIN c.fs \subseteq Fs,
           Cardinality({f \in DOMAIN c.fs : UserDefault(c, u, f)}) <= 1,
           Cardinality({f \in DOMAIN c.fs : GroupDefault(c, groups, f)}) <= 1
    PROVE  Sorted(ValidFilesystems(c, u, groups, intent), Ranks(c, u, groups))
<1> DEFINE ok == {f \in DOMAIN c.fs : HasAccess(c, u, groups, f, intent)}
           rank == Ranks(c, u, groups)
           US == {f \in DOMAIN c.fs : UserDefault(c, u, f)}
           GS == {f \in DOMAIN c.fs : GroupDefault(c, groups, f)}
<1>1. ok \subseteq Fs
    OBVIOUS
<1>2. PICK a, b, g, r \in Seq(Fs) :
            /\ ValidFilesystems(c, u, groups, intent) = ((a \o b) \o g) \o r
            /\ Parts(c, u, groups, ok, a, b, g, r)
    BY <1>1, ValidParts
<1>3. IsFiniteSet(US) /\ IsFiniteSet(GS) /\ US \subseteq Fs /\ GS \subseteq Fs
    BY FiniteFs, FS_Subset
<1>4. \A x, y \in US : x = y
    BY <1>3, AtMostOne
<1>5. \A x, y \in GS : x = y
    BY <1>3, AtMostOne
<1>6. ok \subseteq DOMAIN c.fs
    OBVIOUS
<1>7. rank \in [Fs -> Nat] /\ \A f \in Fs : rank[f] =
            IF UserDefault(c, u, f) THEN 1 ELSE IF GroupDefault(c, groups, f) THEN 2
            ELSE IF f = c.global.default THEN 3 ELSE 4
    BY DEF Ranks, Rank
<1> HIDE DEF ok, rank
<1>8. ToSet(a) \subseteq ok /\ \A f \in ToSet(a) : rank[f] = 1
    <2>1. ToSet(a) = {} \/ \E f \in ok : ToSet(a) = {f} /\ UserDefault(c, u, f)
        BY <1>2 DEF Parts, UserDefault
    <2> QED  BY <1>1, <1>7, <2>1
<1>9. \A f \in ok \ ToSet(a) : ~ UserDefault(c, u, f)
    <2>1. \/ ~ \E f \in ok : UserDefault(c, u, f)
          \/ \E f \in ok : ToSet(a) = {f} /\ UserDefault(c, u, f)
        BY <1>2 DEF Parts, UserDefault
    <2> QED  BY <1>4, <1>6, <2>1
<1>10. /\ \A f \in ToSet(b) : rank[f] = 2 /\ f \in ok \ ToSet(a)
       /\ \A f \in ok \ (ToSet(a) \cup ToSet(b)) : ~ GroupDefault(c, groups, f)
    <2>1. \/ ToSet(b) = {} /\ ~ \E f \in ok \ ToSet(a) : GroupDefault(c, groups, f)
          \/ \E f \in ok \ ToSet(a) : ToSet(b) = {f} /\ GroupDefault(c, groups, f)
        BY <1>2 DEF Parts, GroupDefault
    <2> QED  BY <1>1, <1>5, <1>6, <1>7, <1>9, <2>1
<1>11. /\ \A f \in ToSet(g) : rank[f] = 3
       /\ \A f \in ok \ (ToSet(a) \cup ToSet(b) \cup ToSet(g)) : f # c.global.default
    <2>1. \/ ToSet(g) = {} /\ c.global.default \notin ok \ (ToSet(a) \cup ToSet(b))
          \/ /\ c.global.default \in ok \ (ToSet(a) \cup ToSet(b))
             /\ ToSet(g) = {c.global.default}
        BY <1>2 DEF Parts
    <2> QED  BY <1>1, <1>7, <1>9, <1>10, <2>1
<1>12. \A f \in ToSet(r) : rank[f] = 4
    <2>1. ToSet(r) = ok \ (ToSet(a) \cup ToSet(b) \cup ToSet(g))
        BY <1>2 DEF Parts
    <2> QED  BY <1>1, <1>7, <1>9, <1>10, <1>11, <2>1
<1>13. Sorted(a, rank)
    <2>1. \A i \in 1 .. Len(a) : a[i] \in ToSet(a)
        BY DEF ToSet
    <2> QED  BY <1>8, <2>1 DEF Sorted
<1> DEFINE ab == a \o b
           abg == ab \o g
<1>14. ab \in Seq(Fs) /\ Sorted(ab, rank) /\ \A x \in ToSet(ab) : rank[x] <= 2
    <2>1. \A x \in ToSet(a) : rank[x] <= 2
        BY <1>8
    <2>3. \A x \in ToSet(b) : rank[x] = 2
        BY <1>10
    <2>2. ab \in Seq(Fs)
        BY ConcatContents
    <2> QED  BY <1>7, <1>13, <2>1, <2>2, <2>3, RankedConcat
<1> HIDE DEF ab
<1>15. abg \in Seq(Fs) /\ Sorted(abg, rank) /\ \A x \in ToSet(abg) : rank[x] <= 3
    <2>2. abg \in Seq(Fs)
        BY <1>14, ConcatContents
    <2>1. \A x \in ToSet(ab) : rank[x] <= 3
        <3>1. ToSet(ab) \subseteq Fs
            BY <1>14 DEF ToSet
        <3> QED  BY <3>1, <1>7, <1>14
    <2>3. \A x \in ToSet(g) : rank[x] = 3
        BY <1>11
    <2> QED  BY <1>7, <1>14, <2>1, <2>2, <2>3, RankedConcat
<1> HIDE DEF abg
<1>16. Sorted(abg \o r, rank)
    <2>1. \A x \in ToSet(abg) : rank[x] <= 4
        <3>1. ToSet(abg) \subseteq Fs
            BY <1>15 DEF ToSet
        <3> QED  BY <3>1, <1>7, <1>15
    <2> QED  BY <1>7, <1>12, <1>15, <2>1, RankedConcat
<1> QED  BY <1>2, <1>16 DEF ab, abg, rank

\* validFilesystems(): what a tool searches, in which order.
THEOREM PreferenceKept == SiteSpec => []Preferred
<1>1. SiteBase => Preferred
    <2> SUFFICES ASSUME SiteBase, NEW u \in Users, NEW intent \in Intents
                 PROVE  LET v == order[u][intent]
                        IN  /\ IsInjective(v)
                            /\ ToSet(v) = {f \in DOMAIN conf.fs :
                                                HasAccess(conf, u, MemberOf[u], f, intent)}
                            /\ Cardinality({f \in DOMAIN conf.fs : UserDefault(conf, u, f)}) <= 1
                               /\ Cardinality({f \in DOMAIN conf.fs :
                                                GroupDefault(conf, MemberOf[u], f)}) <= 1 =>
                                \A j, k \in 1 .. Len(v) : j < k =>
                                    Rank(conf, u, MemberOf[u], v[j])
                                        <= Rank(conf, u, MemberOf[u], v[k])
        BY DEF Preferred, UserDefault, GroupDefault, Rank
    <2> DEFINE v == order[u][intent]
    <2>1. v = ValidFilesystems(conf, u, MemberOf[u], intent) /\ DOMAIN conf.fs \subseteq Fs
        BY ConfigUsable DEF SiteBase, Settled, Usable
    <2>2. v \in Seq(Fs) /\ DOMAIN v = 1 .. Len(v)
        <3>1. v \in Seq(Fs)
            BY <2>1, ValidSeq
        <3> QED  BY <3>1
    <2> HIDE DEF v
    <2>3. /\ ToSet(v) = {f \in DOMAIN conf.fs : HasAccess(conf, u, MemberOf[u], f, intent)}
          /\ Once(v)
        <3> DEFINE ok == {f \in DOMAIN conf.fs : HasAccess(conf, u, MemberOf[u], f, intent)}
        <3>1. ok \subseteq Fs
            BY <2>1
        <3>2. ok = {f \in DOMAIN conf.fs : HasAccess(conf, u, MemberOf[u], f, intent)}
            OBVIOUS
        <3> HIDE DEF ok
        <3>3. ToSet(v) = ok /\ Once(v)
            BY <2>1, <3>1, <3>2, ValidContents
        <3> QED  BY <3>2, <3>3
    <2>4. IsInjective(v)
        BY <2>2, <2>3 DEF IsInjective, Once
    <2>5. ASSUME Cardinality({f \in DOMAIN conf.fs : UserDefault(conf, u, f)}) <= 1,
                 Cardinality({f \in DOMAIN conf.fs : GroupDefault(conf, MemberOf[u], f)}) <= 1,
                 NEW j \in 1 .. Len(v), NEW k \in 1 .. Len(v), j < k
          PROVE  Rank(conf, u, MemberOf[u], v[j]) <= Rank(conf, u, MemberOf[u], v[k])
        <3>1. Sorted(v, Ranks(conf, u, MemberOf[u]))
            BY <2>1, <2>5, ValidSorted
        <3>2. v[j] \in Fs /\ v[k] \in Fs
            BY <2>2
        <3> QED  BY <2>5, <3>1, <3>2 DEF Sorted, Ranks
    <2> QED  BY <2>3, <2>4, <2>5 DEF v
<1> QED  BY <1>1, SiteBaseInvariant, PTL

-----------------------------------------------------------------------------
(* The limit of workspaces.  A user's workspaces and his runs of ws_allocate  *)
(* past the test, counted together, grow only with a test that is passed.     *)

\* The pairs of elements of two finite sets.
LEMMA FiniteProduct ==
    ASSUME NEW S, NEW R, IsFiniteSet(S), IsFiniteSet(R)
    PROVE  IsFiniteSet(S \X R)
<1> DEFINE n == Cardinality(S)
<1>1. n \in Nat /\ ExistsBijection(1 .. n, S)
    BY FS_CardinalityType
<1> HIDE DEF n
<1>2. PICK f : f \in Bijection(1 .. n, S)
    BY <1>1 DEF ExistsBijection
<1>3. f \in [1 .. n -> S] /\ \A x \in S : \E k \in 1 .. n : f[k] = x
    BY <1>2 DEF Bijection, Injection, Surjection
<1> DEFINE Part(k) == {x \in S \X R : \E j \in 1 .. k : x[1] = f[j]}
           T == {k \in 0 .. n : IsFiniteSet(Part(k))}
<1>4. 0 \in T
    <2>1. Part(0) = {}
        OBVIOUS
    <2> HIDE DEF Part
    <2> QED  BY <1>1, <2>1, FS_EmptySet
<1>5. ASSUME NEW k \in 1 .. n, k - 1 \in T PROVE k \in T
    <2> DEFINE h == [y \in R |-> <<f[k], y>>]
               H == {f[k]} \X R
    <2>1. h \in Surjection(R, H)
        BY DEF Surjection
    <2>2. IsFiniteSet(H)
        BY <2>1, FS_Surjection
    <2>3. IsFiniteSet(Part(k - 1)) /\ k \in 0 .. n
        BY <1>1, <1>5
    <2>4. \A j : j \in 1 .. k <=> j \in 1 .. k - 1 \/ j = k
        BY <1>1
    <2>5. Part(k) \subseteq Part(k - 1) \cup H
        BY <2>4
    <2> HIDE DEF Part, H
    <2>6. IsFiniteSet(Part(k - 1) \cup H)
        BY <2>2, <2>3, FS_Union
    <2>7. IsFiniteSet(Part(k))
        BY <2>5, <2>6, FS_Subset
    <2> QED  BY <2>3, <2>7
<1> HIDE DEF T
<1>6. 0 .. n \subseteq T
    BY <1>1, <1>4, <1>5, Induct
<1>7. IsFiniteSet(Part(n))
    BY <1>1, <1>6 DEF T
<1>8. Part(n) = S \X R
    BY <1>3
<1> QED  BY <1>7, <1>8

LEMMA FinitePlaces == IsFiniteSet(Fs \X WsIds)
<1> DEFINE P == Users \X WsNames
           h == [x \in P |-> WsId(x[1], x[2])]
<1>1. IsFiniteSet(P)
    BY SiteAssumption, FiniteProduct
<1>2. h \in [P -> WsIds]
    BY DEF WsIds
<1>3. ASSUME NEW i \in WsIds PROVE \E x \in P : h[x] = i
    <2>1. PICK u \in Users, n \in WsNames : i = WsId(u, n)
        BY DEF WsIds
    <2>2. <<u, n>> \in P /\ h[<<u, n>>] = i
        BY <2>1
    <2> QED  BY <2>2
<1> HIDE DEF P, h
<1>4. h \in Surjection(P, WsIds)
    BY <1>2, <1>3 DEF Surjection
<1>5. IsFiniteSet(WsIds)
    BY <1>1, <1>4, FS_Surjection
<1> QED  BY <1>5, FiniteFs, FiniteProduct

\* The filesystems in which the workspaces of u are counted.
Seen(u) == ToSet(order[u]["list"])

LEMMA SeenFs ==
    ASSUME SiteBase, NEW u \in Users
    PROVE  Seen(u) \subseteq Fs
<1>1. order[u]["list"] \in Seq(Fs)
    BY OrderSeq DEF SiteBase, Intents
<1> QED  BY <1>1 DEF Seen, ToSet

\* What is counted is finite.
LEMMA Counted ==
    ASSUME SiteBase, NEW u \in Users
    PROVE  /\ IsFiniteSet(Owns(u, Seen(u))) /\ Cardinality(Owns(u, Seen(u))) \in Nat
           /\ IsFiniteSet(Past(u)) /\ Cardinality(Past(u)) \in Nat
           /\ IsFiniteSet(Shells(u)) /\ Cardinality(Shells(u)) \in Nat
           /\ IsFiniteSet(OwnedFirst(u, Seen(u))) /\ Cardinality(OwnedFirst(u, Seen(u))) \in Nat
           /\ conf.global.maxuserworkspaces \in Int
<1>1. /\ Owns(u, Seen(u)) \in SUBSET (Fs \X WsIds)
      /\ OwnedFirst(u, Seen(u)) \in SUBSET (Fs \X WsIds)
    BY SeenFs DEF Owns, OwnedFirst
<1>2. Past(u) \in SUBSET Sessions /\ Shells(u) \in SUBSET Sessions
    BY DEF Past, Shells
<1>3. IsFiniteSet(Owns(u, Seen(u))) /\ IsFiniteSet(OwnedFirst(u, Seen(u)))
    BY <1>1, FinitePlaces, FS_Subset
<1>4. IsFiniteSet(Past(u)) /\ IsFiniteSet(Shells(u))
    BY <1>2, SiteAssumption, FS_Subset
<1>5. conf.global.maxuserworkspaces \in Int
    BY ConfigUsable DEF SiteBase, Usable
<1> QED  BY <1>3, <1>4, <1>5, FS_CardinalityType

\* The two together do not grow.
LEMMA LimitedKept ==
    ASSUME SiteBase, SiteBase', NEW u \in Users, Limited(u),
           UNCHANGED <<conf, order, outages>>,
           \/ Owns(u, Seen(u))' \subseteq Owns(u, Seen(u)) /\ Past(u)' \subseteq Past(u)
           \/ /\ \E x : Owns(u, Seen(u))' \subseteq Owns(u, Seen(u)) \cup {x}
              /\ \E s \in Past(u) : Past(u)' \subseteq Past(u) \ {s}
    PROVE  Limited(u)'
<1> DEFINE A == Owns(u, Seen(u))
           B == Past(u)
           a == Cardinality(A)
           b == Cardinality(B)
           c == Cardinality(A')
           d == Cardinality(B')
           max == conf.global.maxuserworkspaces
           k == Cardinality(Shells(u))
           m == Cardinality(OwnedFirst(u, Seen(u)))
<1>1. IsFiniteSet(A) /\ IsFiniteSet(B) /\ a \in Nat /\ b \in Nat /\ k \in Nat /\ m \in Nat /\ max \in Int
    BY Counted
<1>2. c + d <= a + b /\ c \in Nat /\ d \in Nat
    <2> HIDE DEF A, B
    <2>1. CASE A' \subseteq A /\ B' \subseteq B
        <3>1. IsFiniteSet(A') /\ c <= a
            BY <1>1, <2>1, FS_Subset
        <3>2. IsFiniteSet(B') /\ d <= b
            BY <1>1, <2>1, FS_Subset
        <3>3. c \in Nat /\ d \in Nat
            BY <3>1, <3>2, FS_CardinalityType
        <3> QED  BY <1>1, <3>1, <3>2, <3>3
    <2>2. CASE (\E x : A' \subseteq A \cup {x}) /\ \E s \in B : B' \subseteq B \ {s}
        <3>1. PICK x : A' \subseteq A \cup {x}
            BY <2>2
        <3>2. PICK s \in B : B' \subseteq B \ {s}
            BY <2>2
        <3>3. IsFiniteSet(A \cup {x}) /\ Cardinality(A \cup {x}) \in {a, a + 1}
            BY <1>1, FS_AddElement
        <3>4. IsFiniteSet(B \ {s}) /\ Cardinality(B \ {s}) = b - 1
            BY <1>1, FS_RemoveElement
        <3>5. IsFiniteSet(A') /\ c <= Cardinality(A \cup {x})
            BY <3>1, <3>3, FS_Subset
        <3>6. IsFiniteSet(B') /\ d <= Cardinality(B \ {s})
            BY <3>2, <3>4, FS_Subset
        <3>7. c \in Nat /\ d \in Nat
            BY <3>5, <3>6, FS_CardinalityType
        <3> QED  BY <1>1, <3>3, <3>4, <3>5, <3>6, <3>7
    <2> QED  BY <2>1, <2>2 DEF A, B
<1>3. outages = 0 /\ max > 0 => a + b <= max + k \/ a + b <= m
    BY DEF Limited, Seen
<1>4. Shells(u)' = Shells(u) /\ OwnedFirst(u, Seen(u))' = OwnedFirst(u, Seen(u))
    BY DEF Shells, OwnedFirst, Seen, Me
<1>5. Limited(u)' <=> (outages = 0 /\ max > 0 => c + d <= max + k \/ c + d <= m)
    BY <1>4 DEF Limited, Seen
<1> HIDE DEF a, b, c, d, k, m, max
<1> QED  BY <1>1, <1>2, <1>3, <1>5

\* A step that changes no workspace and takes no run past the test.
LEMMA LimitedQuiet ==
    ASSUME SiteBase, SiteBase', UNCHANGED <<conf, order, outages>>, NEW s \in Sessions,
           \A f \in Fs : \A i \in WsIds : db'[f][i] \in {db[f][i], NoWs},
           \A t \in Sessions \ {s} : sess'[t] = sess[t],
           s \in Past(Me(s))' => s \in Past(Me(s)),
           NEW u \in Users, Limited(u)
    PROVE  Limited(u)'
<1>1. Owns(u, Seen(u))' \subseteq Owns(u, Seen(u))
    <2>1. Seen(u)' = Seen(u) /\ Seen(u) \subseteq Fs
        BY SeenFs DEF Seen
    <2> SUFFICES ASSUME NEW x \in Owns(u, Seen(u))' PROVE x \in Owns(u, Seen(u))
        OBVIOUS
    <2>2. /\ x \in Seen(u) \X WsIds /\ db'[x[1]][x[2]] # NoWs
          /\ \E n \in WsNames : x[2] = WsId(u, n)
        BY <2>1 DEF Owns, Exists
    <2>3. db[x[1]][x[2]] # NoWs
        BY <2>1, <2>2
    <2> QED  BY <2>2, <2>3 DEF Owns, Exists
<1>2. Past(u)' \subseteq Past(u)
    BY DEF Past, Me
<1> QED  BY <1>1, <1>2, LimitedKept

\* A run that goes on, but not past the test.
LEMMA LimitedGoes ==
    ASSUME SiteBase, SiteBase', NEW s \in Sessions,
           (\E out : Ends(s, out))
           \/ \E r : Goes(s, r) /\ (/\ r.tool = "allocate"
                                    /\ r.pc \in {"search", "mkdir", "write"}
                                    => s \in Past(Me(s))),
           NEW u \in Users, Limited(u)
    PROVE  Limited(u)'
<1>1. CASE \E out : Ends(s, out)
    <2>1. /\ sess'[s].pc = "done" /\ \A t \in Sessions \ {s} : sess'[t] = sess[t]
          /\ UNCHANGED <<conf, order, outages, db>>
        BY <1>1, EndsTo
    <2>2. s \notin Past(Me(s))'
        BY <2>1 DEF Past
    <2> QED  BY <2>1, <2>2, LimitedQuiet
<1>2. ASSUME NEW r, Goes(s, r), (/\ r.tool = "allocate" /\ r.pc \in {"search", "mkdir", "write"}
                                 => s \in Past(Me(s)))
      PROVE  Limited(u)'
    <2>1. /\ sess'[s] = r /\ \A t \in Sessions \ {s} : sess'[t] = sess[t]
          /\ UNCHANGED <<conf, order, outages, db>>
        BY <1>2, GoesTo
    <2>2. s \in Past(Me(s))' => s \in Past(Me(s))
        BY <1>2, <2>1 DEF Past
    <2> QED  BY <2>1, <2>2, LimitedQuiet
<1> QED  BY <1>1, <1>2

LEMMA StartingLimited ==
    ASSUME SiteBase, SiteBase', UNCHANGED conf, NEW s \in Sessions, Starting(s),
           NEW u \in Users, Limited(u)
    PROVE  Limited(u)'
<1>1. PICK k : Begun(s, k) /\ (k.tool # "allocate" \/ k.pc \in {"done", "count"})
    <2>1. CASE \E n \in WsNames : \E on, g : AllocStart(s, n, on, g)
        BY <2>1, AllocStartBase DEF AllocBegins
    <2>2. CASE \E n \in WsNames : \E on : ReleaseStart(s, n, on)
        BY <2>2, ReleaseStartBase DEF ReleaseBegins
    <2>3. CASE \E pat \in Patterns : \E on, g : FindStart(s, pat, on, g)
        BY <2>3, FindStartBase DEF FindBegins
    <2>4. CASE \E pat \in Patterns : \E on, g : ListStart(s, pat, on, g)
        BY <2>4, ListStartBase DEF ListBegins
    <2>5. CASE RegisterStart(s)
        BY <2>5, RegisterStartBase
    <2> QED  BY <2>1, <2>2, <2>3, <2>4, <2>5 DEF Starting
<1>2. /\ UNCHANGED <<order, outages, db>> /\ \A t \in Sessions \ {s} : sess'[t] = sess[t]
      /\ sess'[s].tool # "allocate" \/ sess'[s].pc \in {"done", "count"}
    BY <1>1 DEF Begun
<1>3. s \notin Past(Me(s))'
    BY <1>2 DEF Past
<1>4. \A f \in Fs : \A i \in WsIds : db'[f][i] \in {db[f][i], NoWs}
    BY <1>2
<1>5. UNCHANGED <<conf, order, outages>>
    BY <1>2
<1> QED  BY <1>2, <1>3, <1>4, <1>5, LimitedQuiet

\* The workspaces the test counts are those of the user, if all databases can be read.
LEMMA CountOwns ==
    ASSUME SiteBase, NEW s \in Sessions, outages = 0
    PROVE  CountWorkspaces(s) = Cardinality(Owns(Me(s), Seen(Me(s))))
<1> DEFINE u == Me(s)
           p == sess[s].proc
           seen == Seen(u) \cap up
           C == {x \in seen \X WsIds : x[2] \in MatchPattern(x[1], <<"*">>, u, p, FALSE)}
<1>1. u \in Users /\ up = Fs
    BY Known DEF SiteBase, Tables
<1>2. seen = Seen(u)
    BY <1>1, SeenFs
<1>3. \A f : MatchPattern(f, <<"*">>, u, p, FALSE)
                = {i \in WsIds : Exists(f, i) /\ \E n \in WsNames : i = WsId(u, n)}
    BY <1>1, OwnPattern DEF MatchPattern
<1>4. C = Owns(u, Seen(u))
    <2> HIDE DEF p, u, seen
    <2>1. ASSUME NEW x \in seen \X WsIds
          PROVE  x[2] \in MatchPattern(x[1], <<"*">>, u, p, FALSE)
                 <=> Exists(x[1], x[2]) /\ \E n \in WsNames : x[2] = WsId(u, n)
        <3> DEFINE f == x[1]
                   i == x[2]
        <3>1. i \in WsIds
            OBVIOUS
        <3> HIDE DEF f, i
        <3>2. i \in MatchPattern(f, <<"*">>, u, p, FALSE)
              <=> Exists(f, i) /\ \E n \in WsNames : i = WsId(u, n)
            BY <1>3, <3>1
        <3> QED  BY <3>2 DEF f, i
    <2> QED  BY <1>2, <2>1 DEF Owns
<1> QED  BY <1>4 DEF CountWorkspaces, Seen

LEMMA PastShells ==
    ASSUME SiteBase', NEW u
    PROVE  Past(u)' \subseteq Shells(u)
<1> SUFFICES ASSUME NEW s \in Past(u)' PROVE s \in Shells(u)
    OBVIOUS
<1>1. s \in Sessions /\ Me(s) = u /\ sess'[s].tool = "allocate"
    BY DEF Past, Me
<1>2. sess'[s] = Idle \/ sess'[s].tool \in ToolsOf[s]
    BY <1>1 DEF SiteBase, Shape
<1> QED  BY <1>1, <1>2, IdleFields DEF Shells

\* The test: with it passed, the workspaces are within the limit, and the runs past it are
\* at most one for each shell.
LEMMA AllocCountLimited ==
    ASSUME SiteBase, SiteBase', NEW s \in Sessions, AllocCount(s), NEW u \in Users, Limited(u)
    PROVE  Limited(u)'
<1> DEFINE q == sess[s]
           r == [q EXCEPT !.pc = "search"]
           max == conf.global.maxuserworkspaces
<1>1. CASE Ends(s, "limit")
    BY <1>1, LimitedGoes
<1>2. CASE ~TooMany(CountWorkspaces(s)) /\ Goes(s, r)
    <2>1. /\ UNCHANGED <<conf, order, outages, db>>
          /\ \A t \in Sessions \ {s} : sess'[t] = sess[t]
        BY <1>2, GoesTo
    <2>2. Owns(u, Seen(u))' = Owns(u, Seen(u))
        BY <2>1 DEF Owns, Seen, Exists
    <2>3. CASE u # Me(s)
        <3>1. Past(u)' \subseteq Past(u)
            BY <2>1, <2>3 DEF Past, Me
        <3> QED  BY <2>1, <2>2, <3>1, LimitedKept
    <2>4. CASE u = Me(s)
        <3> SUFFICES ASSUME outages = 0, max > 0
                     PROVE  Cardinality(Owns(u, Seen(u))) + Cardinality(Past(u)')
                                <= max + Cardinality(Shells(u))
            <4>1. Shells(u)' = Shells(u)
                BY DEF Shells, Me
            <4> DEFINE A == Owns(u, Seen(u))
                       B == OwnedFirst(u, Seen(u))
            <4>2. Limited(u)' <=> (outages' = 0 /\ conf'.global.maxuserworkspaces > 0 =>
                    \/ Cardinality(A') + Cardinality(Past(u)')
                            <= conf'.global.maxuserworkspaces + Cardinality(Shells(u)')
                    \/ Cardinality(A') + Cardinality(Past(u)') <= Cardinality(B'))
                BY DEF Limited, Seen
            <4> HIDE DEF A, B
            <4>3. A' = A
                BY <2>2 DEF A
            <4> QED  BY <2>1, <4>1, <4>2, <4>3 DEF A
        <3>1. Cardinality(Owns(u, Seen(u))) <= max
            <4>1. CountWorkspaces(s) = Cardinality(Owns(u, Seen(u)))
                BY <2>4, CountOwns
            <4> QED  BY <1>2, <4>1, Counted DEF TooMany
        <3>2. Past(u)' \subseteq Shells(u)
            BY PastShells
        <3>3. IsFiniteSet(Past(u)') /\ Cardinality(Past(u)') <= Cardinality(Shells(u))
            BY <3>2, Counted, FS_Subset
        <3>4. Cardinality(Past(u)') \in Nat
            BY <3>3, FS_CardinalityType
        <3> QED  BY <3>1, <3>3, <3>4, Counted
    <2> QED  BY <2>3, <2>4
<1> QED  BY <1>1, <1>2 DEF AllocCount

\* ws_find, ws_list and ws_register remain what they are while they run.
LEMMA NextTool ==
    ASSUME SiteBase, NEW s \in Sessions,
           FindNext(s) \/ ListNext(s) \/ RegisterLink(s) \/ RegisterPrune(s)
    PROVE  sess'[s].tool \in {"find", "list", "register"}
<1> DEFINE q == sess[s]
<1>1. DOMAIN q = SessFields /\ Shape(s, q) /\ DOMAIN sess = Sessions
    BY Known DEF SiteBase, Tables
<1>2. q.tool \in {"find", "list", "register"}
    <2>1. \/ q.tool \in {"find", "list"}
          \/ q.pc \in {"link", "prune"}
        BY DEF FindNext, ListNext, RegisterLink, RegisterPrune
    <2> HIDE DEF q
    <2> QED  BY <1>1, <2>1, IdleFields DEF Shape
<1>3. \/ \E out : Ends(s, out)
      \/ \E todo, hits : sess' = [sess EXCEPT ![s] = [q EXCEPT !.todo = todo, !.hits = hits]]
      \/ \E todo : sess' = [sess EXCEPT ![s] = [q EXCEPT !.todo = todo]]
      \/ \E pc, hits : sess' = [sess EXCEPT ![s] = [q EXCEPT !.pc = pc, !.hits = hits]]
      \/ \E pc, hits, todo :
            sess' = [sess EXCEPT ![s] = [q EXCEPT !.pc = pc, !.hits = hits, !.todo = todo]]
      \/ \E pc, out, hits :
            sess' = [sess EXCEPT ![s] = [q EXCEPT !.pc = pc, !.out = out, !.hits = hits]]
    <2>1. CASE FindNext(s)
        <3>1. \/ Ends(s, "absent")
              \/ Goes(s, [q EXCEPT !.todo = Tail(q.todo)])
              \/ \E hits : Goes(s, [q EXCEPT !.pc = "done", !.out = "found", !.hits = hits])
            BY <2>1 DEF FindNext
        <3> HIDE DEF q
        <3> QED  BY <3>1 DEF Goes
    <2>2. CASE ListNext(s)
        <3> DEFINE f == Head(q.todo)
                   hits == q.hits \cup (IF OpenDB(f)
                                        THEN {f} \X MatchPattern(f, q.word, UserPattern(s),
                                                                q.proc, q.byGroup)
                                        ELSE {})
                   r == [q EXCEPT !.todo = Tail(q.todo), !.hits = hits]
        <3>1. Ends(s, "listed") \/ Goes(s, r)
            BY <2>2 DEF ListNext
        <3> HIDE DEF hits
        <3>2. CASE Goes(s, r)
            <4>1. sess' = [sess EXCEPT ![s] = [q EXCEPT !.todo = Tail(q.todo), !.hits = hits]]
                BY <3>2 DEF Goes
            <4> HIDE DEF q
            <4> QED  BY <4>1
        <3> QED  BY <3>1, <3>2
    <2>3. CASE RegisterLink(s)
        BY ZenonT(40), <2>3 DEF RegisterLink, Goes
    <2>4. CASE RegisterPrune(s)
        BY <2>4 DEF RegisterPrune
    <2> QED  BY <2>1, <2>2, <2>3, <2>4
<1>4. CASE \E out : Ends(s, out)
    BY <1>2, <1>4, EndsTo
<1> HIDE DEF q
<1>5. (\E out : Ends(s, out)) \/ sess'[s].tool = q.tool
    <2>1. CASE \E todo, hits : sess' = [sess EXCEPT ![s] = [q EXCEPT !.todo = todo, !.hits = hits]]
        <3> PICK todo, hits :
                sess' = [sess EXCEPT ![s] = [q EXCEPT !.todo = todo, !.hits = hits]]
            BY <2>1
        <3>1. sess'[s] = [q EXCEPT !.todo = todo, !.hits = hits]
            BY <1>1
        <3>2. sess'[s].tool = q.tool
            BY <1>1, <3>1 DEF SessFields
        <3> QED  BY <3>2
    <2>2. CASE \E todo : sess' = [sess EXCEPT ![s] = [q EXCEPT !.todo = todo]]
        <3> PICK todo : sess' = [sess EXCEPT ![s] = [q EXCEPT !.todo = todo]]
            BY <2>2
        <3>1. sess'[s] = [q EXCEPT !.todo = todo]
            BY <1>1
        <3>2. sess'[s].tool = q.tool
            BY <1>1, <3>1 DEF SessFields
        <3> QED  BY <3>2
    <2>3. CASE \E pc, hits : sess' = [sess EXCEPT ![s] = [q EXCEPT !.pc = pc, !.hits = hits]]
        <3> PICK pc, hits : sess' = [sess EXCEPT ![s] = [q EXCEPT !.pc = pc, !.hits = hits]]
            BY <2>3
        <3>1. sess'[s] = [q EXCEPT !.pc = pc, !.hits = hits]
            BY <1>1
        <3>2. sess'[s].tool = q.tool
            BY <1>1, <3>1 DEF SessFields
        <3> QED  BY <3>2
    <2>4. CASE \E pc, hits, todo :
            sess' = [sess EXCEPT ![s] = [q EXCEPT !.pc = pc, !.hits = hits, !.todo = todo]]
        <3> PICK pc, hits, todo :
                sess' = [sess EXCEPT ![s] = [q EXCEPT !.pc = pc, !.hits = hits, !.todo = todo]]
            BY <2>4
        <3>1. sess'[s] = [q EXCEPT !.pc = pc, !.hits = hits, !.todo = todo]
            BY <1>1
        <3>2. sess'[s].tool = q.tool
            BY <1>1, <3>1 DEF SessFields
        <3> QED  BY <3>2
    <2>5. CASE \E pc, out, hits :
            sess' = [sess EXCEPT ![s] = [q EXCEPT !.pc = pc, !.out = out, !.hits = hits]]
        <3> PICK pc, out, hits :
                sess' = [sess EXCEPT ![s] = [q EXCEPT !.pc = pc, !.out = out, !.hits = hits]]
            BY <2>5
        <3>1. sess'[s] = [q EXCEPT !.pc = pc, !.out = out, !.hits = hits]
            BY <1>1
        <3>2. sess'[s].tool = q.tool
            BY <1>1, <3>1 DEF SessFields
        <3> QED  BY <3>2
    <2> QED  BY <1>3, <2>1, <2>2, <2>3, <2>4, <2>5
<1> QED  BY <1>2, <1>4, <1>5

\* createEntry(): one workspace more, one run past the test less.
LEMMA AllocEntryLimited ==
    ASSUME SiteBase, SiteBase', UNCHANGED conf, NEW s \in Sessions, AllocEntry(s),
           NEW u \in Users, Limited(u)
    PROVE  Limited(u)'
<1> DEFINE i == Target(s)
           x == <<sess[s].to, i>>
<1>1. /\ UNCHANGED order /\ sess[s].tool = "allocate" /\ sess[s].pc = "write"
      /\ sess[s].to \in Fs /\ i \in WsIds /\ sess'[s].pc = "done"
      /\ \A f \in Fs : \A j \in WsIds : f # sess[s].to \/ j # i => db'[f][j] = db[f][j]
      /\ \A t \in Sessions \ {s} : sess'[t] = sess[t]
    BY AllocEntryBase
<1>2. outages' = outages
    BY DEF AllocEntry
<1>3. Seen(u)' = Seen(u) /\ Seen(u) \subseteq Fs
    BY <1>1, SeenFs DEF Seen
<1>4. ASSUME NEW y \in Owns(u, Seen(u))' PROVE y \in Owns(u, Seen(u)) \/ y = x
    <2>1. /\ y \in Seen(u) \X WsIds /\ Exists(y[1], y[2])' /\ \E n \in WsNames : y[2] = WsId(u, n)
        BY <1>3 DEF Owns
    <2>2. CASE y[1] = sess[s].to /\ y[2] = i
        BY <2>1, <2>2
    <2>3. CASE y[1] # sess[s].to \/ y[2] # i
        <3>1. db'[y[1]][y[2]] = db[y[1]][y[2]]
            BY <1>1, <1>3, <2>1, <2>3
        <3> QED  BY <2>1, <3>1 DEF Owns, Exists
    <2> QED  BY <2>2, <2>3
<1>5. CASE u = Me(s)
    <2>1. Owns(u, Seen(u))' \subseteq Owns(u, Seen(u)) \cup {x}
        BY <1>4
    <2>2. s \in Past(u) /\ Past(u)' \subseteq Past(u) \ {s}
        BY <1>1, <1>5 DEF Past, Me
    <2> QED  BY <1>1, <1>2, <2>1, <2>2, LimitedKept
<1>6. CASE u # Me(s)
    <2>1. \A n \in WsNames : i # WsId(u, n)
        <3>1. Me(s) \in Users /\ sess[s].word \in WsNames
            BY <1>1, Known DEF Shape
        <3> QED  BY <1>6, <3>1, IdOwner DEF Target
    <2>2. x \notin Owns(u, Seen(u))'
        BY <1>3, <2>1 DEF Owns
    <2>3. Owns(u, Seen(u))' \subseteq Owns(u, Seen(u))
        BY <1>4, <2>2
    <2>4. Past(u)' \subseteq Past(u)
        BY <1>1, <1>6 DEF Past, Me
    <2> QED  BY <1>1, <1>2, <2>3, <2>4, LimitedKept
<1> QED  BY <1>5, <1>6

LEMMA RunningLimited ==
    ASSUME SiteBase, SiteBase', UNCHANGED conf, NEW s \in Sessions, Running(s),
           NEW u \in Users, Limited(u)
    PROVE  Limited(u)'
<1> DEFINE q == sess[s]
<1>1. DOMAIN q = SessFields /\ Process(s, q) /\ Shape(s, q)
    BY Known
<1>2. CASE AllocCount(s)
    BY <1>2, AllocCountLimited
<1>3. CASE SearchOne(s)
    <2> DEFINE hits == IF OpenDB(Head(q.todo)) /\ Exists(Head(q.todo), WsId(Me(s), q.word))
                       THEN q.hits \cup {<<Head(q.todo), WsId(Me(s), q.word)>>} ELSE q.hits
               r == [q EXCEPT !.todo = Tail(q.todo), !.hits = hits]
    <2>1. q.pc = "search" /\ Goes(s, r)
        BY <1>3 DEF SearchOne
    <2> HIDE DEF hits
    <2>2. r.tool = q.tool
        <3> HIDE DEF q
        <3> QED  BY <1>1 DEF SessFields
    <2> HIDE DEF r
    <2>3. r.tool = "allocate" => s \in Past(Me(s))
        BY <2>1, <2>2 DEF Past
    <2> QED  BY <2>1, <2>3, LimitedGoes
<1>4. CASE AllocDecide(s)
    <2>1. (\E out : Ends(s, out)) \/ \E r : Goes(s, r)
        BY <1>4 DEF AllocDecide
    <2>2. s \in Past(Me(s))
        BY <1>4 DEF AllocDecide, Past
    <2> QED  BY <2>1, <2>2, LimitedGoes
<1>5. CASE AllocMkdir(s)
    <2>1. /\ UNCHANGED <<order, db, outages>> /\ q.pc = "mkdir"
          /\ \E r : sess' = [sess EXCEPT ![s] = r]
        BY <1>5 DEF AllocMkdir
    <2>2. \A t \in Sessions \ {s} : sess'[t] = sess[t]
        BY <2>1 DEF SiteBase, Tables
    <2>3. s \in Past(Me(s))
        <3>1. q.tool = "allocate"
            BY <1>1, <2>1, IdleFields DEF Shape
        <3> QED  BY <2>1, <3>1 DEF Past
    <2>4. \A f \in Fs : \A i \in WsIds : db'[f][i] \in {db[f][i], NoWs}
        BY <2>1
    <2> QED  BY <2>1, <2>2, <2>3, <2>4, LimitedQuiet
<1>6. CASE AllocEntry(s)
    BY <1>6, AllocEntryLimited
<1>7. CASE ReleaseDecide(s)
    <2> DEFINE r == [q EXCEPT !.pc = "take"]
    <2>1. (\E out : Ends(s, out)) \/ Goes(s, r)
        BY <1>7 DEF ReleaseDecide
    <2>2. r.pc = "take"
        <3> HIDE DEF q
        <3> QED  BY <1>1 DEF SessFields
    <2> HIDE DEF r
    <2> QED  BY <2>1, <2>2, LimitedGoes
<1>8. CASE ReleaseTake(s)
    <2>1. /\ UNCHANGED order /\ \A f \in Fs : \A i \in WsIds : db'[f][i] \in {db[f][i], NoWs}
          /\ sess'[s].pc = "done" /\ \A t \in Sessions \ {s} : sess'[t] = sess[t]
        BY <1>8, ReleaseTakeBase
    <2>2. outages' = outages
        BY <1>8 DEF ReleaseTake
    <2>3. s \notin Past(Me(s))'
        BY <2>1 DEF Past
    <2> QED  BY <2>1, <2>2, <2>3, LimitedQuiet
<1>9. CASE FindNext(s) \/ ListNext(s) \/ RegisterLink(s) \/ RegisterPrune(s)
    <2>1. /\ UNCHANGED <<order, db, outages>> /\ \A t \in Sessions \ {s} : sess'[t] = sess[t]
        <3>1. \/ \E out : Ends(s, out)
              \/ \E r : Goes(s, r)
              \/ UNCHANGED <<order, db, outages>> /\ \E r : sess' = [sess EXCEPT ![s] = r]
            BY <1>9 DEF FindNext, ListNext, RegisterLink, RegisterPrune
        <3> QED  BY <3>1, EndsTo, GoesTo DEF SiteBase, Tables
    <2>2. sess'[s].tool \in {"find", "list", "register"}
        BY <1>9, NextTool
    <2>3. s \notin Past(Me(s))'
        BY <2>2 DEF Past
    <2>4. \A f \in Fs : \A i \in WsIds : db'[f][i] \in {db[f][i], NoWs}
        BY <2>1
    <2> QED  BY <2>1, <2>3, <2>4, LimitedQuiet
<1>10. CASE Finish(s)
    <2>1. Goes(s, Idle)
        BY <1>10 DEF Finish
    <2> QED  BY <2>1, IdleFields, LimitedGoes
<1> QED  BY <1>2, <1>3, <1>4, <1>5, <1>6, <1>7, <1>8, <1>9, <1>10 DEF Running

LEMMA NextLimited ==
    ASSUME SiteBase, [SiteNext]_siteVars, NEW u \in Users, Limited(u)
    PROVE  Limited(u)'
<1>1. SiteBase' /\ UNCHANGED <<conf, order>>
    BY NextBase, ConfSame
<1>2. ASSUME NEW s \in Sessions, Starting(s) PROVE Limited(u)'
    BY <1>1, <1>2, StartingLimited
<1>3. ASSUME NEW s \in Sessions, Running(s) PROVE Limited(u)'
    BY <1>1, <1>3, RunningLimited
<1>4. ASSUME NEW f \in Fs, Outage(f) \/ Repair(f) PROVE Limited(u)'
    <2>1. outages' # 0
        BY <1>4, UpDownBase
    <2> QED  BY <2>1 DEF Limited
<1>5. CASE UNCHANGED siteVars
    <2>1. Owns(u, Seen(u))' \subseteq Owns(u, Seen(u)) /\ Past(u)' \subseteq Past(u)
        BY <1>5 DEF siteVars, Owns, Exists, Seen, Past, Me
    <2>2. UNCHANGED <<conf, order, outages>>
        BY <1>5 DEF siteVars
    <2> QED  BY <1>1, <2>1, <2>2, LimitedKept
<1> QED  BY <1>2, <1>3, <1>4, <1>5 DEF SiteNext

\* At the start a user has what was there from the start, and nothing runs.
LEMMA InitLimited ==
    ASSUME SiteInit, NEW u \in Users
    PROVE  Limited(u)
<1>1. SiteBase
    BY InitBase
<1>2. Past(u) = {}
    BY IdleFields DEF Past, SiteInit
<1>3. Owns(u, Seen(u)) \subseteq OwnedFirst(u, Seen(u))
    <2>1. \A f \in Fs : \A i \in WsIds : Seed(f, i) = {} => db[f][i] = NoWs
        BY DEF SiteInit
    <2> QED  BY <1>1, <2>1, SeenFs DEF Owns, OwnedFirst, Exists
<1>4. Cardinality(Owns(u, Seen(u))) <= Cardinality(OwnedFirst(u, Seen(u)))
    BY <1>1, <1>3, Counted, FS_Subset
<1>5. Cardinality(Past(u)) = 0
    BY <1>2, FS_EmptySet
<1>6. Cardinality(Owns(u, Seen(u))) \in Nat
    BY <1>1, Counted
<1> QED  BY <1>4, <1>5, <1>6 DEF Limited, Seen

-----------------------------------------------------------------------------
(* Releasing.  What ws_release has met is what is there, for as long as       *)
(* nobody interferes, and it takes a workspace only when it met no other.     *)

\* What ws_release sees depends on the databases, not on how far it is.
LEMMA SameHolders ==
    ASSUME NEW s \in Sessions, UNCHANGED <<order, db, up>>,
           sess'[s].word = sess[s].word, sess'[s].on = sess[s].on
    PROVE  /\ Target(s)' = Target(s) /\ Releasable(s)' = Releasable(s)
           /\ Holders(s)' = Holders(s)
<1>1. Target(s)' = Target(s) /\ Releasable(s)' = Releasable(s)
    BY DEF Target, Releasable, Search, Me
<1>2. \A f : Exists(f, WsId(Me(s), sess[s].word))' = Exists(f, WsId(Me(s), sess[s].word))
    BY DEF Exists, Me
<1> QED  BY <1>1, <1>2 DEF Holders

LEMMA OtherFreed ==
    ASSUME NEW s \in Sessions, sess'[s].tool # "release"
    PROVE  Freed(s)'
BY DEF Freed, Releasing

\* ws_release ends, or goes on in a state r, without having changed a database.
LEMMA FreedStep ==
    ASSUME NEW s \in Sessions, UNCHANGED <<order, db, up>>,
           sess'[s].word = sess[s].word, sess'[s].on = sess[s].on,
           Releasing(sess'[s], Target(s), Releasable(s), Holders(s))
    PROVE  Freed(s)'
BY SameHolders DEF Freed

LEMMA ReleaseStartFreed ==
    ASSUME SiteBase, NEW s \in Sessions, NEW n \in WsNames, NEW on, ReleaseStart(s, n, on)
    PROVE  Freed(s)'
<1> DEFINE q == sess'[s]
           i == Target(s)'
           S == Releasable(s)'
           E == Holders(s)'
<1>1. PICK k : Begun(s, k) /\ ReleaseBegins(s, k)
    BY ReleaseStartBase
<1>2. /\ q.hits = {}
      /\ \/ q.pc = "done" /\ q.out \in {"invalid", "denied", ""}
         \/ q.pc = "search" /\ q.out = "" /\ ToSet(q.todo) = S
    BY <1>1 DEF Begun, ReleaseBegins, Releasable, Me
<1>3. E \subseteq S
    BY DEF Holders
<1>4. Freed(s)' <=> Releasing(q, i, S, E)
    BY DEF Freed
<1> HIDE DEF q, i, S, E
<1>5. Releasing(q, i, S, E)
    BY <1>2, <1>3 DEF Releasing
<1> QED  BY <1>4, <1>5

LEMMA SearchOneFreed ==
    ASSUME SiteBase, NEW s \in Sessions, Freed(s), SearchOne(s)
    PROVE  Freed(s)'
<1> DEFINE q == sess[s]
           f == Head(q.todo)
           i == Target(s)
           S == Releasable(s)
           E == Holders(s)
           hit == OpenDB(f) /\ Exists(f, i)
           hits == IF hit THEN q.hits \cup {<<f, i>>} ELSE q.hits
           r == [q EXCEPT !.todo = Tail(q.todo), !.hits = hits]
<1>1. Shape(s, q) /\ DOMAIN q = SessFields
    BY Known
<1>2. q.pc = "search" /\ q.todo # <<>> /\ Goes(s, r)
    BY DEF SearchOne, Target
<1>3. ToSet(q.todo) = {f} \cup ToSet(Tail(q.todo))
    BY <1>2, Known, SeqTail
<1>4. q.out = ""
    BY <1>1, <1>2 DEF Shape
<1>5. sess'[s] = r /\ UNCHANGED <<conf, order, db, up, links>>
    BY <1>2, GoesTo
<1>6. Releasing(q, i, S, E)
    BY DEF Freed
<1>7. f \in S => (f \in E <=> hit)
    BY DEF Holders, Target, OpenDB
<1>8. hits = IF hit THEN q.hits \cup {<<f, i>>} ELSE q.hits
    OBVIOUS
<1>e. q = sess[s] /\ i = Target(s) /\ S = Releasable(s) /\ E = Holders(s)
    OBVIOUS
<1> HIDE DEF q, f, i, S, E, hit, hits
<1>9. /\ r.pc = "search" /\ r.out = q.out /\ r.tool = q.tool /\ r.word = q.word
      /\ r.on = q.on /\ r.todo = Tail(q.todo) /\ r.hits = hits
    BY <1>1, <1>2 DEF SessFields
<1> HIDE DEF r
<1>10. Releasing(r, i, S, E)
    <2>1. CASE q.tool = "release"
        <3>1. /\ ToSet(q.todo) \subseteq S /\ q.hits \subseteq E \X {i}
              /\ \A g \in E : g \in ToSet(q.todo) \/ <<g, i>> \in q.hits
            BY <1>2, <1>6, <2>1 DEF Releasing
        <3>2. f \in S /\ ToSet(r.todo) \subseteq S
            BY <1>3, <1>9, <3>1
        <3>3. r.hits \subseteq E \X {i}
            BY <1>7, <1>8, <1>9, <3>1, <3>2
        <3>4. \A g \in E : g \in ToSet(r.todo) \/ <<g, i>> \in r.hits
            BY <1>3, <1>7, <1>8, <1>9, <3>1, <3>2
        <3> QED  BY <1>4, <1>9, <3>2, <3>3, <3>4 DEF Releasing
    <2>2. CASE q.tool # "release"
        BY <1>9, <2>2 DEF Releasing
    <2> QED  BY <2>1, <2>2
<1> QED  BY <1>e, <1>5, <1>9, <1>10, FreedStep

\* A set that is not larger than one is empty or has one element.
LEMMA OneOrNone ==
    ASSUME NEW S, IsFiniteSet(S), ~(Cardinality(S) > 1), S # {}
    PROVE  \E x : S = {x}
<1>1. Cardinality(S) \in Nat /\ Cardinality(S) # 0
    BY FS_CardinalityType, FS_EmptySet
<1>2. Cardinality(S) = 1
    BY <1>1
<1> QED  BY <1>2, FS_Singleton

LEMMA ReleaseDecideFreed ==
    ASSUME SiteBase, NEW s \in Sessions, Freed(s), ReleaseDecide(s)
    PROVE  Freed(s)'
<1> DEFINE q == sess[s]
           i == Target(s)
           S == Releasable(s)
           E == Holders(s)
           r == [q EXCEPT !.pc = "take"]
<1>1. Shape(s, q) /\ DOMAIN q = SessFields
    BY Known
<1>2. q.pc = "search" /\ q.todo = <<>> /\ q.tool = "release"
    BY DEF ReleaseDecide
<1>3. q.out = ""
    BY <1>1, <1>2 DEF Shape
<1>4. /\ \A f \in E : <<f, i>> \in q.hits
      /\ q.hits \subseteq E \X {i}
    <2>1. ToSet(q.todo) = {}
        BY <1>2 DEF ToSet
    <2> QED  BY <1>2, <2>1 DEF Freed, Releasing
<1>5. IsFiniteSet(q.hits)
    <2>1. E \subseteq Fs
        BY DEF Holders, SiteBase, Tables
    <2>2. IsFiniteSet(E \X {i})
        BY <2>1, FiniteFs, FS_Subset, FS_Singleton, FiniteProduct
    <2> QED  BY <1>4, <2>2, FS_Subset
<1>6. \/ Cardinality(q.hits) > 1 /\ Ends(s, "ambiguous")
      \/ ~(Cardinality(q.hits) > 1) /\ q.hits = {} /\ Ends(s, "absent")
      \/ ~(Cardinality(q.hits) > 1) /\ q.hits # {} /\ Goes(s, r)
    BY DEF ReleaseDecide
<1>e. q = sess[s] /\ i = Target(s) /\ S = Releasable(s) /\ E = Holders(s)
    OBVIOUS
<1>7. CASE Cardinality(q.hits) > 1 /\ Ends(s, "ambiguous")
    <2>1. /\ sess'[s].pc = "done" /\ sess'[s].out = "ambiguous" /\ UNCHANGED <<order, db, up>>
          /\ sess'[s].word = sess[s].word /\ sess'[s].on = sess[s].on
        BY <1>7, EndsTo
    <2>2. \E f, g \in E : f # g
        <3> HIDE DEF q, i, E
        <3> SUFFICES ASSUME \A f, g \in E : f = g PROVE FALSE
            OBVIOUS
        <3>1. CASE E = {}
            <4>1. q.hits = {}
                BY <1>4, <3>1
            <4> QED  BY <1>7, <4>1, FS_EmptySet
        <3>2. ASSUME NEW f \in E PROVE FALSE
            <4>1. q.hits = {<<f, i>>}
                BY <1>4, <3>2
            <4>2. Cardinality(q.hits) = 1
                BY <4>1, FS_Singleton
            <4> QED  BY <1>7, <4>2
        <3> QED  BY <3>1, <3>2
    <2> HIDE DEF q, i, S, E
    <2>3. Releasing(sess'[s], i, S, E)
        BY <2>1, <2>2 DEF Releasing
    <2> QED  BY <1>e, <2>1, <2>3, FreedStep
<1>8. CASE q.hits = {} /\ Ends(s, "absent")
    <2>1. /\ sess'[s].pc = "done" /\ sess'[s].out = "absent" /\ UNCHANGED <<order, db, up>>
          /\ sess'[s].word = sess[s].word /\ sess'[s].on = sess[s].on
        BY <1>8, EndsTo
    <2> HIDE DEF q, i, S, E
    <2>2. E = {}
        BY <1>4, <1>8
    <2>3. Releasing(sess'[s], i, S, E)
        BY <2>1, <2>2 DEF Releasing
    <2> QED  BY <1>e, <2>1, <2>3, FreedStep
<1>9. CASE ~(Cardinality(q.hits) > 1) /\ q.hits # {} /\ Goes(s, r)
    <2>1. sess'[s] = r /\ UNCHANGED <<conf, order, db, up, links>>
        BY <1>9, GoesTo
    <2>2. \E x : q.hits = {x}
        BY <1>5, <1>9, OneOrNone
    <2> HIDE DEF q, i, S, E
    <2>3. \E f \in E : E = {f} /\ q.hits = {<<f, i>>}
        <3>1. PICK x : q.hits = {x}
            BY <2>2
        <3>2. PICK f \in E : x = <<f, i>>
            BY <1>4, <3>1
        <3>3. \A g \in E : g = f
            BY <1>4, <3>1, <3>2
        <3> QED  BY <3>1, <3>2, <3>3
    <2>4. /\ r.pc = "take" /\ r.out = q.out /\ r.tool = q.tool /\ r.word = q.word
          /\ r.on = q.on /\ r.hits = q.hits
        BY <1>1 DEF SessFields
    <2> HIDE DEF r
    <2>5. Releasing(r, i, S, E)
        BY <1>3, <2>3, <2>4 DEF Releasing
    <2> QED  BY <1>e, <2>1, <2>4, <2>5, FreedStep
<1> QED  BY <1>6, <1>7, <1>8, <1>9

LEMMA ReleaseTakeFreed ==
    ASSUME SiteBase, NEW s \in Sessions, Freed(s), ReleaseTake(s)
    PROVE  Freed(s)'
<1> DEFINE q == sess[s]
           r == sess'[s]
           i == Target(s)
           E == Holders(s)
           F == Holders(s)'
<1>1. q.pc = "take" /\ q.tool = "release" /\ Shape(s, q)
    BY Known, ReleaseTakeBase DEF ReleaseTake
<1>2. /\ UNCHANGED <<order, up>> /\ r.out = "released" /\ r.pc = "done"
      /\ r.word = q.word /\ r.on = q.on
      /\ \A f \in Fs : \A j \in WsIds : db'[f][j] \in {db[f][j], NoWs}
      /\ \E x \in q.hits : db'[x[1]][x[2]] = NoWs
    BY ReleaseTakeBase
<1>3. \E f \in E : E = {f} /\ q.hits = {<<f, i>>}
    BY <1>1 DEF Freed, Releasing
<1>4. Target(s)' = i /\ Releasable(s)' = Releasable(s) /\ i \in WsIds
    <2>1. Target(s)' = i /\ Releasable(s)' = Releasable(s)
        BY <1>2 DEF Target, Releasable, Search, Me
    <2>2. q.word \in WsNames /\ Me(s) \in Users
        BY <1>1, Known DEF Shape
    <2> QED  BY <2>1, <2>2 DEF Target, WsIds
<1>5. ASSUME NEW f \in F PROVE f \in E /\ db'[f][i] # NoWs
    <2>1. f \in Releasable(s) \cap up /\ db'[f][i] # NoWs
        BY <1>2, <1>4 DEF Holders, Exists, Target
    <2>2. f \in Fs
        BY <2>1 DEF SiteBase, Tables
    <2>3. db[f][i] # NoWs
        BY <1>2, <1>4, <2>1, <2>2
    <2> QED  BY <2>1, <2>3 DEF Holders, Exists, Target
<1>6. F = {}
    <2> HIDE DEF q, i, E, F
    <2>1. PICK f \in E : E = {f} /\ q.hits = {<<f, i>>}
        BY <1>3
    <2>2. db'[f][i] = NoWs
        BY <1>2, <2>1
    <2> QED  BY <1>5, <2>1, <2>2
<1>7. Freed(s)' <=> Releasing(r, Target(s)', Releasable(s)', F)
    BY DEF Freed
<1> HIDE DEF r, F
<1>8. Releasing(r, Target(s)', Releasable(s)', F)
    BY <1>2, <1>6 DEF Releasing
<1> QED  BY <1>7, <1>8

\* The steps of the other tools do not make one a ws_release: whatever they change in the
\* state of a session, it is the same tool.
LEMMA NotReleasing ==
    ASSUME SiteBase, NEW s \in Sessions,
           \/ AllocCount(s) \/ AllocDecide(s) \/ AllocMkdir(s) \/ AllocEntry(s) \/ FindNext(s)
           \/ ListNext(s) \/ RegisterLink(s) \/ RegisterPrune(s) \/ Finish(s)
    PROVE  sess'[s].tool # "release"
<1> DEFINE q == sess[s]
           r == sess'[s]
<1>1. DOMAIN sess = Sessions /\ DOMAIN q = SessFields /\ Shape(s, q)
    BY Known DEF SiteBase, Tables
<1>2. ASSUME NEW out, Ends(s, out) PROVE r.tool = q.tool
    BY <1>2, EndsTo
<1>3. ASSUME NEW z, Goes(s, z) PROVE r = z
    BY <1>3, GoesTo
<1>4. ASSUME NEW z, sess' = [sess EXCEPT ![s] = z] PROVE r = z
    BY <1>1, <1>4
<1>5. ASSUME q.pc \in {"count", "mkdir", "write", "link", "prune"} PROVE q.tool # "release"
    BY <1>1, <1>5, IdleFields DEF Shape
<1>p. ASSUME NEW a, Goes(s, [q EXCEPT !.pc = a])
     PROVE  r.tool = q.tool
    <2> DEFINE z == [q EXCEPT !.pc = a]
    <2>1. r = z
        BY <1>p, <1>3
    <2> HIDE DEF q, r
    <2>2. z.tool = q.tool
        BY <1>1 DEF SessFields
    <2> QED  BY <2>1, <2>2
<1>t. ASSUME NEW a, Goes(s, [q EXCEPT !.todo = a])
     PROVE  r.tool = q.tool
    <2> DEFINE z == [q EXCEPT !.todo = a]
    <2>1. r = z
        BY <1>t, <1>3
    <2> HIDE DEF q, r
    <2>2. z.tool = q.tool
        BY <1>1 DEF SessFields
    <2> QED  BY <2>1, <2>2
<1>pt. ASSUME NEW a, NEW b, Goes(s, [q EXCEPT !.pc = a, !.to = b])
     PROVE  r.tool = q.tool
    <2> DEFINE z == [q EXCEPT !.pc = a, !.to = b]
    <2>1. r = z
        BY <1>pt, <1>3
    <2> HIDE DEF q, r
    <2>2. z.tool = q.tool
        BY <1>1 DEF SessFields
    <2> QED  BY <2>1, <2>2
<1>th. ASSUME NEW a, NEW b, Goes(s, [q EXCEPT !.todo = a, !.hits = b])
     PROVE  r.tool = q.tool
    <2> DEFINE z == [q EXCEPT !.todo = a, !.hits = b]
    <2>1. r = z
        BY <1>th, <1>3
    <2> HIDE DEF q, r
    <2>2. z.tool = q.tool
        BY <1>1 DEF SessFields
    <2> QED  BY <2>1, <2>2
<1>poh. ASSUME NEW a, NEW b, NEW c, Goes(s, [q EXCEPT !.pc = a, !.out = b, !.hits = c])
     PROVE  r.tool = q.tool
    <2> DEFINE z == [q EXCEPT !.pc = a, !.out = b, !.hits = c]
    <2>1. r = z
        BY <1>poh, <1>3
    <2> HIDE DEF q, r
    <2>2. z.tool = q.tool
        BY <1>1 DEF SessFields
    <2> QED  BY <2>1, <2>2
<1>pop. ASSUME NEW a, NEW b, NEW c,
           sess' = [sess EXCEPT ![s] = [q EXCEPT !.pc = a, !.out = b, !.proc = c]]
     PROVE  r.tool = q.tool
    <2> DEFINE z == [q EXCEPT !.pc = a, !.out = b, !.proc = c]
    <2>1. r = z
        BY <1>pop, <1>4
    <2> HIDE DEF q, r
    <2>2. z.tool = q.tool
        BY <1>1 DEF SessFields
    <2> QED  BY <2>1, <2>2
<1>ph. ASSUME NEW a, NEW b, sess' = [sess EXCEPT ![s] = [q EXCEPT !.pc = a, !.hits = b]]
     PROVE  r.tool = q.tool
    <2> DEFINE z == [q EXCEPT !.pc = a, !.hits = b]
    <2>1. r = z
        BY <1>ph, <1>4
    <2> HIDE DEF q, r
    <2>2. z.tool = q.tool
        BY <1>1 DEF SessFields
    <2> QED  BY <2>1, <2>2
<1>pht. ASSUME NEW a, NEW b, NEW c,
           sess' = [sess EXCEPT ![s] = [q EXCEPT !.pc = a, !.hits = b, !.todo = c]]
     PROVE  r.tool = q.tool
    <2> DEFINE z == [q EXCEPT !.pc = a, !.hits = b, !.todo = c]
    <2>1. r = z
        BY <1>pht, <1>4
    <2> HIDE DEF q, r
    <2>2. z.tool = q.tool
        BY <1>1 DEF SessFields
    <2> QED  BY <2>1, <2>2
<1>6. CASE AllocCount(s)
    <2>1. /\ q.pc = "count"
          /\ \/ \E out : Ends(s, out)
             \/ \E a : Goes(s, [q EXCEPT !.pc = a])
        BY <1>6 DEF AllocCount
    <2>2. r.tool = q.tool
        BY <2>1, <1>2, <1>p
    <2> QED  BY <1>5, <2>1, <2>2
<1>7. CASE AllocDecide(s)
    <2>1. /\ q.tool = "allocate"
          /\ \/ \E out : Ends(s, out)
             \/ \E a, b : Goes(s, [q EXCEPT !.pc = a, !.to = b])
        BY <1>7 DEF AllocDecide
    <2>2. r.tool = q.tool
        BY <2>1, <1>2, <1>pt
    <2> QED  BY <2>1, <2>2
<1>8. CASE AllocMkdir(s)
    <2>1. /\ q.pc = "mkdir"
          /\ \E a, b, c : sess' = [sess EXCEPT ![s] = [q EXCEPT !.pc = a, !.out = b, !.proc = c]]
        BY <1>8 DEF AllocMkdir
    <2>2. r.tool = q.tool
        BY <2>1, <1>pop
    <2> QED  BY <1>5, <2>1, <2>2
<1>9. CASE AllocEntry(s)
    BY <1>9, AllocEntryBase
<1>10. CASE FindNext(s)
    <2>1. /\ q.tool = "find"
          /\ \/ \E out : Ends(s, out)
             \/ \E a : Goes(s, [q EXCEPT !.todo = a])
             \/ \E a, b, c : Goes(s, [q EXCEPT !.pc = a, !.out = b, !.hits = c])
        BY <1>10 DEF FindNext
    <2>2. r.tool = q.tool
        BY <2>1, <1>2, <1>t, <1>poh
    <2> QED  BY <2>1, <2>2
<1>11. CASE ListNext(s)
    <2>1. /\ q.tool = "list"
          /\ \/ \E out : Ends(s, out)
             \/ \E a, b : Goes(s, [q EXCEPT !.todo = a, !.hits = b])
        BY <1>11 DEF ListNext
    <2>2. r.tool = q.tool
        BY <2>1, <1>2, <1>th
    <2> QED  BY <2>1, <2>2
<1>12. CASE RegisterLink(s)
    <2>1. /\ q.pc = "link"
          /\ \/ \E out : Ends(s, out)
             \/ \E a : Goes(s, [q EXCEPT !.todo = a])
             \/ \E a, b : sess' = [sess EXCEPT ![s] = [q EXCEPT !.pc = a, !.hits = b]]
        BY <1>12 DEF RegisterLink
    <2>2. r.tool = q.tool
        BY <2>1, <1>2, <1>t, <1>ph
    <2> QED  BY <1>5, <2>1, <2>2
<1>13. CASE RegisterPrune(s)
    <2>1. /\ q.pc = "prune"
          /\ \E a, b, c : sess' = [sess EXCEPT ![s] = [q EXCEPT !.pc = a, !.hits = b, !.todo = c]]
        BY <1>13 DEF RegisterPrune
    <2>2. r.tool = q.tool
        BY <2>1, <1>pht
    <2> QED  BY <1>5, <2>1, <2>2
<1>14. CASE Finish(s)
    BY <1>3, <1>14, IdleFields DEF Finish
<1> QED  BY <1>6, <1>7, <1>8, <1>9, <1>10, <1>11, <1>12, <1>13, <1>14

\* A session whose ws_release nobody has interfered with is right after its own steps ...
LEMMA OwnFreed ==
    ASSUME SiteBase, NEW s \in Sessions, s \in steady => Freed(s), Starting(s) \/ Running(s),
           s \in steady'
    PROVE  Freed(s)'
<1>1. CASE Starting(s)
    <2>1. ASSUME NEW n \in WsNames, NEW on, NEW g, AllocStart(s, n, on, g) PROVE Freed(s)'
        BY <2>1, AllocStartBase, OtherFreed DEF Begun, AllocBegins
    <2>2. ASSUME NEW pat \in Patterns, NEW on, NEW byGroup, FindStart(s, pat, on, byGroup)
          PROVE  Freed(s)'
        BY <2>2, FindStartBase, OtherFreed DEF Begun, FindBegins
    <2>3. ASSUME NEW pat \in Patterns, NEW on, NEW byGroup, ListStart(s, pat, on, byGroup)
          PROVE  Freed(s)'
        BY <2>3, ListStartBase, OtherFreed DEF Begun, ListBegins
    <2>4. CASE RegisterStart(s)
        BY <2>4, RegisterStartBase, OtherFreed DEF Begun
    <2> QED  BY <1>1, <2>1, <2>2, <2>3, <2>4, ReleaseStartFreed DEF Starting
<1>2. CASE SearchOne(s) \/ ReleaseDecide(s) \/ ReleaseTake(s)
    <2>1. \/ \E out : Ends(s, out)
          \/ \E r : Goes(s, r)
          \/ ReleaseTake(s)
        BY <1>2 DEF SearchOne, ReleaseDecide
    <2>2. s \in steady
        BY <2>1, EndsTo, GoesTo, ReleaseTakeBase
    <2> QED  BY <1>2, <2>2, SearchOneFreed, ReleaseDecideFreed, ReleaseTakeFreed
<1>3. CASE \/ AllocCount(s) \/ AllocDecide(s) \/ AllocMkdir(s) \/ AllocEntry(s) \/ FindNext(s)
           \/ ListNext(s) \/ RegisterLink(s) \/ RegisterPrune(s) \/ Finish(s)
    BY <1>3, NotReleasing, OtherFreed
<1> QED  BY <1>1, <1>2, <1>3 DEF Running

\* ... and after those of others.
LEMMA NextFreed ==
    ASSUME SiteBase, \A s \in steady : Freed(s), [SiteNext]_siteVars
    PROVE  \A s \in steady' : Freed(s)'
<1> SUFFICES ASSUME NEW s \in steady' PROVE Freed(s)'
    OBVIOUS
<1>1. s \in Sessions
    BY NextBase DEF SiteBase, Tables
<1>2. ASSUME s \in steady, UNCHANGED <<order, db, up>>, sess'[s] = sess[s] PROVE Freed(s)'
    <2>1. Releasing(sess'[s], Target(s), Releasable(s), Holders(s))
        BY <1>2 DEF Freed
    <2> QED  BY <1>1, <1>2, <2>1, FreedStep
<1>3. ASSUME NEW t \in Sessions, Starting(t) \/ Running(t) PROVE Freed(s)'
    <2>1. CASE t = s
        BY <1>1, <1>3, <2>1, OwnFreed
    <2>2. CASE t # s
        BY <1>1, <1>2, <1>3, <2>2, OthersQuiet
    <2> QED  BY <2>1, <2>2
<1>4. ASSUME NEW f \in Fs, Outage(f) \/ Repair(f) PROVE Freed(s)'
    BY <1>4, UpDownBase
<1>5. CASE UNCHANGED siteVars
    BY <1>2, <1>5 DEF siteVars
<1> QED  BY <1>3, <1>4, <1>5 DEF SiteNext

\* All that is known of the reachable states of a site.
THEOREM SiteIsSafe == SiteSpec => []SiteSafe
<1>1. SiteInit => SiteSafe
    BY InitBase, InitLimited DEF SiteSafe, SiteInit
<1>2. SiteSafe /\ [SiteNext]_siteVars => SiteSafe'
    <2> SUFFICES ASSUME SiteSafe, [SiteNext]_siteVars PROVE SiteSafe'
        OBVIOUS
    <2>1. SiteBase'
        BY NextBase DEF SiteSafe
    <2>2. \A s \in steady' : Right(s)'
        BY NextRight DEF SiteSafe, Right
    <2>3. \A u \in Users : Limited(u)'
        BY NextLimited DEF SiteSafe
    <2>4. \A s \in steady' : Freed(s)'
        BY NextFreed DEF SiteSafe
    <2> QED  BY <2>1, <2>2, <2>3, <2>4 DEF SiteSafe, Right
<1> QED  BY <1>1, <1>2, PTL DEF SiteSpec

\* ws_release: a name that stands for several workspaces is never taken for one of them, and
\* a name without one is not released, unless another session interfered.
THEOREM ReleasedExactly == SiteSpec => []ReleaseExact
<1>1. SiteSafe => ReleaseExact
    <2> SUFFICES ASSUME SiteSafe, NEW s \in steady, sess[s].tool = "release"
                 PROVE  /\ sess[s].out \in {"released", "absent"} => Holders(s) = {}
                        /\ sess[s].out = "ambiguous" => Cardinality(Holders(s)) > 1
        BY DEF ReleaseExact
    <2> DEFINE E == Holders(s)
    <2>1. /\ sess[s].out \in {"released", "absent"} => E = {}
          /\ sess[s].out = "ambiguous" => \E f, g \in E : f # g
        BY DEF SiteSafe, Freed, Releasing
    <2>2. IsFiniteSet(E)
        <3>1. E \subseteq Fs
            BY DEF Holders, SiteSafe, SiteBase, Tables
        <3> QED  BY <3>1, FiniteFs, FS_Subset
    <2> HIDE DEF E
    <2>3. (\E f, g \in E : f # g) => Cardinality(E) > 1
        <3> SUFFICES ASSUME NEW f \in E, NEW g \in E, f # g, ~(Cardinality(E) > 1) PROVE FALSE
            OBVIOUS
        <3>1. PICK x : E = {x}
            BY <2>2, OneOrNone
        <3> QED  BY <3>1
    <2> QED  BY <2>1, <2>3 DEF E
<1> QED  BY <1>1, SiteIsSafe, PTL

\* maxuserworkspaces is exceeded (UserLimit is violated), but however many ws_allocate of a
\* user run at the same time, by at most one workspace for each shell, or he never has
\* more than at the start.
THEOREM LimitOverrun == SiteSpec => []OverrunBounded
<1>1. SiteSafe => OverrunBounded
    <2> SUFFICES ASSUME SiteSafe, NEW u \in Users, outages = 0, conf.global.maxuserworkspaces > 0
                 PROVE  \/ Cardinality(Owns(u, Seen(u)))
                                <= conf.global.maxuserworkspaces + Cardinality(Shells(u))
                        \/ Cardinality(Owns(u, Seen(u))) <= Cardinality(OwnedFirst(u, Seen(u)))
        BY DEF OverrunBounded, Seen, Shells, Me
    <2> DEFINE n == Cardinality(Owns(u, Seen(u))) + Cardinality(Past(u))
    <2>1. \/ n <= conf.global.maxuserworkspaces + Cardinality(Shells(u))
          \/ n <= Cardinality(OwnedFirst(u, Seen(u)))
        BY DEF SiteSafe, Limited, Seen
    <2>2. /\ Cardinality(Owns(u, Seen(u))) \in Nat /\ Cardinality(Past(u)) \in Nat
          /\ Cardinality(Shells(u)) \in Nat /\ Cardinality(OwnedFirst(u, Seen(u))) \in Nat
          /\ conf.global.maxuserworkspaces \in Int
        BY Counted DEF SiteSafe
    <2> QED  BY <2>1, <2>2
<1> QED  BY <1>1, SiteIsSafe, PTL

\* glob_match, through which ws_find, ws_list, ws_register and every search for the entries
\* of a user see a database, decides what its pattern language means.  GlobMatchesMeaning
\* says so of all patterns and strings, the run of those it enumerates.
THEOREM MatchedExactly == SiteSpec => []GlobExact
<1>1. GlobExact
    <2> DEFINE PatChars == {"a", "b", "*", "?", "[", "]", "!", "-", "\\"}
               StrChars == {"a", "b", "]"}
    <2>1. PatChars \subseteq Alphabet /\ StrChars \subseteq Alphabet
        BY CharsAssumption
    <2> HIDE DEF Alphabet, PatChars, StrChars
    <2>2. ASSUME NEW C \in SUBSET Alphabet, NEW x \in SeqOf(C, 3) PROVE x \in Seq(Alphabet)
        <3>1. PICK m \in 0 .. 3 : x \in [1 .. m -> C]
            BY DEF SeqOf
        <3>2. m \in Nat /\ x \in [1 .. m -> Alphabet]
            BY <3>1
        <3> QED  BY ONLY <3>2
    <2>3. \A pat \in SeqOf(PatChars, 3), str \in SeqOf(StrChars, 3) :
              GlobMatch(pat, str) <=> Matches(pat, str)
        BY <2>1, <2>2, GlobMatchesMeaning
    <2> QED  BY <2>3 DEF GlobExact, PatChars, StrChars
<1> QED  BY <1>1, PTL
=============================================================================
