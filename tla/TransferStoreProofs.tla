------------------------ MODULE TransferStoreProofs ------------------------
(***************************************************************************)
(* What arrives of the transferable fields of a message: for every set of   *)
(* objects, every nesting of messages and of types, and every implementation*)
(* of the trait that keeps the law of the built-in ones.                    *)
(***************************************************************************)
EXTENDS TransferStore, FiniteSetTheorems, SequenceTheorems, WellFoundedInduction, TLAPS

-----------------------------------------------------------------------------
(* Induction over a set of numbers.                                        *)

LEMMA Induction ==
    ASSUME NEW S, 0 \in S, \A n \in Nat : n \in S => n + 1 \in S
    PROVE  \A n \in Nat : n \in S
<1> SUFFICES ASSUME NEW m \in Nat, m \notin S PROVE FALSE
  OBVIOUS
<1> DEFINE R == {p \in Nat \X Nat : p[1] < p[2]}
           T == {n \in Nat : n \notin S}
<1>1. IsWellFoundedOn(R, Nat)
  BY NatLessThanWellFounded DEF OpToRel
<1>2. T \subseteq Nat /\ T # {}
  OBVIOUS
<1>3. PICK x \in T : \A y \in T : ~(<<y, x>> \in R)
  <2> HIDE DEF R, T
  <2> QED
    BY <1>1, <1>2, WFMin
<1>4. x \in Nat /\ x # 0 /\ x - 1 \in Nat /\ (x - 1) + 1 = x /\ x - 1 < x
  OBVIOUS
<1>5. x - 1 \in T
  BY <1>4
<1>6. <<x - 1, x>> \in R
  BY <1>4
<1> QED
  BY <1>3, <1>5, <1>6

-----------------------------------------------------------------------------
(***************************************************************************)
(* FlattenSeq, a recursive function, by the equation it satisfies, its type *)
(* and its elements.                                                        *)
(***************************************************************************)

Flattens(h, s, n) ==
    h = [i \in 1..n |-> IF i = 1 THEN s[i] ELSE h[i - 1] \o s[i]]

LEMMA FlattenExists ==
    ASSUME NEW s
    PROVE  \A n \in Nat : \E h : Flattens(h, s, n)
<1> DEFINE S == {n \in Nat : \E h : Flattens(h, s, n)}
<1>1. 0 \in S
  <2>1. Flattens([i \in 1..0 |-> s[i]], s, 0)
    BY DEF Flattens
  <2> QED
    BY <2>1
<1>2. ASSUME NEW n \in Nat, n \in S PROVE n + 1 \in S
  <2>1. PICK h : Flattens(h, s, n)
    BY <1>2
  <2> DEFINE g == [i \in 1..(n + 1) |->
                      IF i <= n THEN h[i] ELSE IF i = 1 THEN s[i] ELSE h[i - 1] \o s[i]]
  <2>2. ASSUME NEW i \in 1..(n + 1)
        PROVE  g[i] = IF i = 1 THEN s[i] ELSE g[i - 1] \o s[i]
    <3>1. CASE i <= n
      <4>1. g[i] = h[i] /\ (i # 1 => i - 1 \in 1..(n + 1) /\ i - 1 <= n /\ g[i - 1] = h[i - 1])
        BY <3>1
      <4>2. h[i] = IF i = 1 THEN s[i] ELSE h[i - 1] \o s[i]
        <5>1. i \in 1..n
          BY <3>1
        <5> QED
          BY <2>1, <5>1 DEF Flattens
      <4> QED
        BY <4>1, <4>2
    <3>2. CASE ~(i <= n)
      <4>1. g[i] = IF i = 1 THEN s[i] ELSE h[i - 1] \o s[i]
        BY <3>2
      <4>2. i # 1 => i - 1 \in 1..(n + 1) /\ i - 1 <= n /\ g[i - 1] = h[i - 1]
        BY <3>2
      <4> QED
        BY <4>1, <4>2
    <3> QED
      BY <3>1, <3>2
  <2>3. DOMAIN g = 1..(n + 1)
    OBVIOUS
  <2>4. g = [i \in 1..(n + 1) |-> g[i]]
    OBVIOUS
  <2>5. Flattens(g, s, n + 1)
    <3> HIDE DEF g
    <3> QED
      BY <2>2, <2>3, <2>4 DEF Flattens
  <2> QED
    BY <2>5
<1> HIDE DEF S
<1>3. \A n \in Nat : n \in S
  BY <1>1, <1>2, Induction
<1> QED
  BY <1>3 DEF S

LEMMA FlattenStep ==
    ASSUME NEW s, NEW n \in Nat, NEW h, Flattens(h, s, n), NEW i \in 1..n
    PROVE  h[i] = IF i = 1 THEN s[i] ELSE h[i - 1] \o s[i]
  BY DEF Flattens

LEMMA FlattenUnique ==
    ASSUME NEW s, NEW t, NEW n \in Nat, NEW m \in Nat, NEW h, NEW g,
           n <= m /\ (\A i \in 1..n : s[i] = t[i]),
           Flattens(h, s, n) /\ Flattens(g, t, m)
    PROVE  \A i \in 1..n : h[i] = g[i]
<1> DEFINE S == {k \in Nat : k \in 1..n => h[k] = g[k]}
<1>1. 0 \in S
  OBVIOUS
<1>2. ASSUME NEW k \in Nat, k \in S PROVE k + 1 \in S
  <2> SUFFICES ASSUME k + 1 \in 1..n PROVE h[k + 1] = g[k + 1]
    OBVIOUS
  <2>1. k + 1 \in 1..m /\ (k + 1) - 1 = k /\ (k + 1 # 1 => k \in 1..n)
    <3>1. k + 1 <= n /\ n <= m
      OBVIOUS
    <3> QED
      BY <3>1
  <2>2. PICK j \in 1..n : j = k + 1 /\ j \in 1..m /\ j - 1 = k
    BY <2>1
  <2>3. h[j] = IF j = 1 THEN s[j] ELSE h[j - 1] \o s[j]
    BY FlattenStep
  <2>4. g[j] = IF j = 1 THEN t[j] ELSE g[j - 1] \o t[j]
    BY <2>2, FlattenStep
  <2>5. j # 1 => h[k] = g[k]
    BY <1>2, <2>1, <2>2
  <2> QED
    BY <2>2, <2>3, <2>4, <2>5
<1> HIDE DEF S
<1>3. \A k \in Nat : k \in S
  BY <1>1, <1>2, Induction
<1> QED
  BY <1>3 DEF S

LEMMA FlattenEquation ==
    ASSUME NEW S, NEW s \in Seq(S), s # <<>>
    PROVE  \E h : Flattens(h, s, Len(s)) /\ FlattenSeq(s) = h[Len(s)]
<1> DEFINE h == CHOOSE h : Flattens(h, s, Len(s))
<1>1. Len(s) \in Nat /\ Len(s) # 0
  BY EmptySeq, LenProperties
<1>2. FlattenSeq(s) = h[Len(s)]
  BY <1>1 DEF FlattenSeq, Flattens
<1>3. Flattens(h, s, Len(s))
  BY <1>1, FlattenExists
<1> QED
  BY <1>2, <1>3

\* The flattening of nothing, and of one more sequence.
LEMMA FlattenEmpty == FlattenSeq(<<>>) = <<>>
  BY DEF FlattenSeq

LEMMA FlattenAppend ==
    ASSUME NEW S, NEW s \in Seq(Seq(S)), NEW e \in Seq(S)
    PROVE  FlattenSeq(Append(s, e)) = FlattenSeq(s) \o e
<1> DEFINE a == Append(s, e)
           n == Len(s)
<1>1. /\ a \in Seq(Seq(S)) /\ a # <<>> /\ Len(a) = n + 1 /\ n \in Nat
      /\ \A i \in 1..n : a[i] = s[i]
      /\ a[n + 1] = e
  BY AppendProperties, LenProperties
<1>2. PICK g : Flattens(g, a, n + 1) /\ FlattenSeq(a) = g[n + 1]
  <2> HIDE DEF a, n
  <2> QED
    BY <1>1, FlattenEquation
<1>3. g[n + 1] = IF n + 1 = 1 THEN a[n + 1] ELSE g[n] \o a[n + 1]
  <2>1. n + 1 \in 1..(n + 1) /\ (n + 1) - 1 = n
    BY <1>1
  <2> HIDE DEF a, n
  <2> QED
    BY <1>2, <2>1 DEF Flattens
<1>4. CASE s = <<>>
  <2>1. n = 0
    BY <1>4
  <2>2. FlattenSeq(a) = e
    BY <1>1, <1>2, <1>3, <2>1
  <2>3. <<>> \o e = e
    BY ConcatEmptySeq
  <2> QED
    BY <1>4, <2>2, <2>3, FlattenEmpty
<1>5. CASE s # <<>>
  <2>1. n # 0
    BY <1>5, EmptySeq
  <2>2. PICK h : Flattens(h, s, n) /\ FlattenSeq(s) = h[n]
    BY <1>5, FlattenEquation
  <2>3. h[n] = g[n]
    <3> HIDE DEF a, n
    <3>1. \A i \in 1..n : h[i] = g[i]
      <4>1. n \in Nat /\ n + 1 \in Nat /\ n <= n + 1
        BY <1>1
      <4>2. \A i \in 1..n : s[i] = a[i]
        BY <1>1
      <4>3. Flattens(h, s, n) /\ Flattens(g, a, n + 1)
        BY <1>2, <2>2
      <4>4. PICK m \in Nat : m = n + 1
        BY <4>1
      <4>5. PICK l \in Nat : l = n
        BY <4>1
      <4>6. l <= m /\ Flattens(g, a, m) /\ Flattens(h, s, l) /\ \A i \in 1..l : s[i] = a[i]
        BY <4>1, <4>2, <4>3, <4>4, <4>5
      <4>7. \A i \in 1..l : h[i] = g[i]
        BY <4>6, FlattenUnique
      <4> QED
        BY <4>5, <4>7
    <3>2. n \in 1..n
      BY <1>1, <2>1
    <3> QED
      BY <3>1, <3>2
  <2> QED
    BY <1>1, <1>2, <1>3, <2>1, <2>2, <2>3
<1> QED
  BY <1>4, <1>5

Elements(s) == UNION {Range(s[i]) : i \in DOMAIN s}

LEMMA RangeConcat ==
    ASSUME NEW S, NEW s \in Seq(S), NEW t \in Seq(S)
    PROVE  Range(s \o t) = Range(s) \union Range(t)
<1> DEFINE c == s \o t
           l == Len(s)
           m == Len(t)
<1>1. /\ l \in Nat /\ m \in Nat /\ DOMAIN s = 1..l /\ DOMAIN t = 1..m
      /\ DOMAIN c = 1..(l + m)
  BY ConcatProperties, LenProperties
<1>2. \A i \in 1..(l + m) : c[i] = IF i <= l THEN s[i] ELSE t[i - l]
  BY ConcatProperties
<1> HIDE DEF c, l, m
<1>3. Range(c) \subseteq Range(s) \union Range(t)
  <2>1. ASSUME NEW i \in 1..(l + m) PROVE c[i] \in Range(s) \union Range(t)
    <3>1. CASE i <= l
      BY <1>1, <1>2, <3>1 DEF Range
    <3>2. CASE ~(i <= l)
      <4>1. i - l \in 1..m
        BY <1>1, <3>2
      <4> QED
        BY <1>1, <1>2, <3>2, <4>1 DEF Range
    <3> QED
      BY <3>1, <3>2
  <2> QED
    BY <1>1, <2>1 DEF Range
<1>4. ASSUME NEW i \in 1..l PROVE s[i] \in Range(c)
  <2>1. i \in 1..(l + m) /\ i <= l
    BY <1>1
  <2> QED
    BY <1>1, <1>2, <2>1 DEF Range
<1>5. ASSUME NEW i \in 1..m PROVE t[i] \in Range(c)
  <2>1. i + l \in 1..(l + m) /\ ~(i + l <= l) /\ (i + l) - l = i
    BY <1>1
  <2> QED
    BY <1>1, <1>2, <2>1 DEF Range
<1> QED
  BY <1>1, <1>3, <1>4, <1>5 DEF Range, c

LEMMA ElementsAppend ==
    ASSUME NEW S, NEW s \in Seq(S), NEW e \in S
    PROVE  Elements(Append(s, e)) = Elements(s) \union Range(e)
<1> DEFINE a == Append(s, e)
           n == Len(s)
<1>1. /\ n \in Nat /\ DOMAIN s = 1..n /\ DOMAIN a = 1..(n + 1)
      /\ \A i \in 1..n : a[i] = s[i]
      /\ a[n + 1] = e
  BY AppendProperties, LenProperties
<1> HIDE DEF a, n
<1>2. 1..(n + 1) = 1..n \union {n + 1}
  BY <1>1
<1> QED
  BY <1>1, <1>2 DEF Elements, a

\* A flattening has the elements of the sequences.
LEMMA FlattenElements ==
    ASSUME NEW S
    PROVE  \A s \in Seq(Seq(S)) :
              FlattenSeq(s) \in Seq(S) /\ Range(FlattenSeq(s)) = Elements(s)
<1> DEFINE Good(s) == FlattenSeq(s) \in Seq(S) /\ Range(FlattenSeq(s)) = Elements(s)
           N == {n \in Nat : \A s \in Seq(Seq(S)) : Len(s) = n => Good(s)}
<1>1. Good(<<>>)
  <2>1. Range(<<>>) = {} /\ Elements(<<>>) = {}
    BY DEF Range, Elements
  <2>2. <<>> \in Seq(S)
    OBVIOUS
  <2> QED
    BY <2>1, <2>2, FlattenEmpty
<1>2. ASSUME NEW s \in Seq(Seq(S)), NEW e \in Seq(S), Good(s) PROVE Good(Append(s, e))
  <2>1. FlattenSeq(Append(s, e)) = FlattenSeq(s) \o e
    BY FlattenAppend
  <2>2. FlattenSeq(s) \o e \in Seq(S)
    BY <1>2, ConcatProperties
  <2>3. Range(FlattenSeq(s) \o e) = Elements(s) \union Range(e)
    BY <1>2, RangeConcat
  <2> QED
    BY <2>1, <2>2, <2>3, ElementsAppend
<1> HIDE DEF Good
<1>3. 0 \in N
  BY <1>1, EmptySeq
<1>4. ASSUME NEW n \in Nat, n \in N PROVE n + 1 \in N
  <2> SUFFICES ASSUME NEW s \in Seq(Seq(S)), Len(s) = n + 1 PROVE Good(s)
    OBVIOUS
  <2>1. s # <<>>
    BY EmptySeq
  <2>2. PICK t \in Seq(Seq(S)), e \in Seq(S) : s = Append(t, e)
    BY <2>1, SequenceEmptyOrAppend
  <2>3. Len(t) = n
    BY <2>2, AppendProperties, LenProperties
  <2> QED
    BY <1>2, <1>4, <2>2, <2>3
<1> HIDE DEF N
<1>5. \A n \in Nat : n \in N
  BY <1>3, <1>4, Induction
<1>6. ASSUME NEW s \in Seq(Seq(S)) PROVE Good(s)
  BY <1>5, LenProperties DEF N
<1> QED
  BY <1>6 DEF Good
-----------------------------------------------------------------------------
(***************************************************************************)
(* The law of an implementation of the trait.  What a value consists of in  *)
(* JavaScript is to be transferred; and for the values JavaScript can tell  *)
(* apart nothing else is, and from_js_value undoes to_js_value.             *)
(***************************************************************************)

Lawful(T) ==
    \A v \in T.values :
        /\ T.to_js[v].objects \subseteq Range(T.underlying[v])
        /\ v \in T.kept => /\ T.to_js[v].objects = Range(T.underlying[v])
                          /\ T.from_js[T.to_js[v]] = v

Transferable(T, objects) == TransferableType(T, objects) /\ Lawful(T)

LEMMA LeafLawful ==
    ASSUME NEW kind, NEW objects
    PROVE  Transferable(Leaf(kind, objects), objects)
<1> DEFINE T == Leaf(kind, objects)
<1>1. /\ T.values = objects /\ T.kept = objects
      /\ T.underlying = [o \in objects |-> <<o>>]
      /\ T.to_js = [o \in objects |-> JsLeaf(kind, o)]
      /\ T.from_js = [j \in {JsLeaf(kind, o) : o \in objects} |-> j.object]
  BY DEF Leaf
<1>2. \A o : JsLeaf(kind, o).object = o /\ JsLeaf(kind, o).objects = {o}
  BY DEF JsLeaf
<1>3. \A o \in objects : <<o>> \in Seq(objects) /\ Range(<<o>>) = {o}
  BY DEF Range
<1> HIDE DEF T
<1>4. TransferableType(T, objects)
  BY <1>1, <1>2, <1>3 DEF TransferableType
<1>5. ASSUME NEW o \in objects
      PROVE  /\ T.to_js[o].objects = Range(T.underlying[o])
             /\ T.from_js[T.to_js[o]] = o
  <2>1. T.to_js[o] = JsLeaf(kind, o) /\ T.underlying[o] = <<o>>
    BY <1>1
  <2>2. T.from_js[JsLeaf(kind, o)] = JsLeaf(kind, o).object
    BY <1>1
  <2> QED
    BY <1>2, <1>3, <2>1, <2>2
<1>6. Lawful(T)
  BY <1>1, <1>5 DEF Lawful
<1> QED
  BY <1>4, <1>6 DEF Transferable, T

LEMMA OptionLawful ==
    ASSUME NEW objects, NEW U, Transferable(U, objects)
    PROVE  Transferable(OptionOf(U), objects)
<1> DEFINE T == OptionOf(U)
           V == {<<>>} \union {<<v>> : v \in U.values}
           J == {JsNull} \union DOMAIN U.from_js
<1>1. /\ T.values = V
      /\ T.kept = {<<>>} \union {<<v>> : v \in {w \in U.kept : U.to_js[w] # JsNull}}
      /\ T.underlying = [v \in V |-> IF v = <<>> THEN <<>> ELSE U.underlying[v[1]]]
      /\ T.to_js = [v \in V |-> IF v = <<>> THEN JsNull ELSE U.to_js[v[1]]]
      /\ T.from_js = [j \in J |-> IF j = JsNull THEN <<>> ELSE <<U.from_js[j]>>]
  BY DEF OptionOf, OptionValues, OptionUnderlying, OptionToJs, OptionFromJs
<1>2. \A v : <<v>> # <<>> /\ <<v>>[1] = v
  OBVIOUS
<1>3. JsNull.objects = {} /\ Range(<<>>) = {} /\ <<>> \in Seq(objects)
  BY DEF JsNull, Range
<1>4. /\ U.kept \subseteq U.values
      /\ U.underlying \in [U.values -> Seq(objects)]
      /\ U.to_js \in [U.values -> DOMAIN U.from_js]
      /\ U.from_js \in [DOMAIN U.from_js -> U.values]
  BY DEF Transferable, TransferableType
<1>5. Lawful(U)
  BY DEF Transferable
<1>6. ASSUME NEW v \in V
      PROVE  \/ /\ v = <<>> /\ T.underlying[v] = <<>> /\ T.to_js[v] = JsNull
                /\ T.from_js[JsNull] = <<>>
             \/ \E w \in U.values :
                   /\ v = <<w>>
                   /\ T.underlying[v] = U.underlying[w] /\ T.to_js[v] = U.to_js[w]
                   /\ U.to_js[w] # JsNull => T.from_js[U.to_js[w]] = <<U.from_js[U.to_js[w]]>>
  <2>1. CASE v = <<>>
    BY <1>1, <2>1
  <2>2. ASSUME NEW w \in U.values, v = <<w>>
        PROVE  /\ T.underlying[v] = U.underlying[w] /\ T.to_js[v] = U.to_js[w]
               /\ U.to_js[w] # JsNull => T.from_js[U.to_js[w]] = <<U.from_js[U.to_js[w]]>>
    <3>1. T.underlying[v] = U.underlying[w] /\ T.to_js[v] = U.to_js[w]
      BY <1>1, <1>2, <2>2
    <3>2. U.to_js[w] \in J
      BY <1>4
    <3> QED
      BY <1>1, <3>1, <3>2
  <2> QED
    BY <2>1, <2>2
<1> HIDE DEF T
<1>7. TransferableType(T, objects)
  <2>1. T.kept \subseteq V
    BY <1>1, <1>4
  <2>2. T.underlying \in [V -> Seq(objects)]
    BY <1>1, <1>2, <1>3, <1>4
  <2>3. T.to_js \in [V -> J]
    BY <1>1, <1>2, <1>4
  <2>4. T.from_js \in [J -> V]
    BY <1>1, <1>4
  <2>5. DOMAIN T.from_js = J
    BY <1>1
  <2> HIDE DEF V, J
  <2> QED
    BY <1>1, <2>1, <2>2, <2>3, <2>4, <2>5 DEF TransferableType
<1>8. Lawful(T)
  <2> SUFFICES ASSUME NEW v \in V
               PROVE  /\ T.to_js[v].objects \subseteq Range(T.underlying[v])
                      /\ v \in T.kept => /\ T.to_js[v].objects = Range(T.underlying[v])
                                        /\ T.from_js[T.to_js[v]] = v
    BY <1>1 DEF Lawful
  <2>1. CASE v = <<>>
    BY <1>2, <1>3, <1>6, <2>1
  <2>2. CASE v # <<>>
    <3>1. PICK w \in U.values :
             /\ v = <<w>>
             /\ T.underlying[v] = U.underlying[w] /\ T.to_js[v] = U.to_js[w]
             /\ U.to_js[w] # JsNull => T.from_js[U.to_js[w]] = <<U.from_js[U.to_js[w]]>>
      BY <1>6, <2>2
    <3>2. v \in T.kept => w \in U.kept /\ U.to_js[w] # JsNull
      BY <1>1, <1>2, <3>1
    <3>3. /\ U.to_js[w].objects \subseteq Range(U.underlying[w])
          /\ w \in U.kept => /\ U.to_js[w].objects = Range(U.underlying[w])
                            /\ U.from_js[U.to_js[w]] = w
      BY <1>5 DEF Lawful
    <3> QED
      BY <3>1, <3>2, <3>3
  <2> QED
    BY <2>1, <2>2
<1> QED
  BY <1>7, <1>8 DEF Transferable, T
LEMMA BoundedSeqs ==
    ASSUME NEW S, NEW n \in Nat, NEW v
    PROVE  v \in BoundedSeq(S, n) <=> v \in Seq(S) /\ Len(v) <= n
<1>1. BoundedSeq(S, n) = UNION {[1..m -> S] : m \in 0..n}
  BY DEF BoundedSeq, SeqOf
<1>2. ASSUME NEW m \in 0..n, v \in [1..m -> S] PROVE v \in Seq(S) /\ Len(v) <= n
  BY <1>2
<1>3. ASSUME v \in Seq(S), Len(v) <= n PROVE Len(v) \in 0..n /\ v \in [1..Len(v) -> S]
  BY <1>3, LenProperties
<1> QED
  BY <1>1, <1>2, <1>3

LEMMA VecLawful ==
    ASSUME NEW objects, NEW n \in Nat, NEW U, Transferable(U, objects)
    PROVE  Transferable(VecOf(U, n), objects)
<1> DEFINE T == VecOf(U, n)
           V == BoundedSeq(U.values, n)
           js(v) == [i \in DOMAIN v |-> U.to_js[v[i]]]
           lists(v) == [i \in DOMAIN v |-> U.underlying[v[i]]]
           back(s) == [i \in DOMAIN s |-> U.from_js[s[i]]]
<1>1. /\ T.values = V /\ T.kept = BoundedSeq(U.kept, n)
      /\ T.underlying = [v \in V |-> FlattenSeq(lists(v))]
      /\ T.to_js = [v \in V |-> JsArray(js(v))]
      /\ T.from_js = [j \in Range(T.to_js) |-> back(j.items)]
  BY DEF VecOf, VecUnderlying, VecToJs, VecFromJs
<1>2. \A s : JsArray(s).items = s /\ JsArray(s).objects = UNION {s[i].objects : i \in DOMAIN s}
  BY DEF JsArray
<1>4. /\ U.kept \subseteq U.values
      /\ U.underlying \in [U.values -> Seq(objects)]
      /\ U.to_js \in [U.values -> DOMAIN U.from_js]
      /\ U.from_js \in [DOMAIN U.from_js -> U.values]
  BY DEF Transferable, TransferableType
<1>5. \A w \in U.values :
         /\ U.to_js[w].objects \subseteq Range(U.underlying[w])
         /\ w \in U.kept => /\ U.to_js[w].objects = Range(U.underlying[w])
                           /\ U.from_js[U.to_js[w]] = w
  BY DEF Transferable, Lawful
<1>6. ASSUME NEW v \in V
      PROVE  /\ v \in Seq(U.values) /\ Len(v) \in Nat /\ Len(v) <= n /\ DOMAIN v = 1..Len(v)
             /\ \A i \in DOMAIN v : v[i] \in U.values
  BY BoundedSeqs, LenProperties, ElementOfSeq
<1>7. ASSUME NEW v \in V
      PROVE  /\ FlattenSeq(lists(v)) \in Seq(objects)
             /\ Range(FlattenSeq(lists(v))) = UNION {Range(U.underlying[v[i]]) : i \in DOMAIN v}
  <2>1. \A i \in 1..Len(v) : U.underlying[v[i]] \in Seq(objects)
    BY <1>4, <1>6
  <2>2. lists(v) \in [1..Len(v) -> Seq(objects)]
    BY <1>6, <2>1
  <2>3. lists(v) \in Seq(Seq(objects))
    BY <1>6, <2>2
  <2>4. Elements(lists(v)) = UNION {Range(U.underlying[v[i]]) : i \in DOMAIN v}
    BY DEF Elements
  <2> QED
    BY <2>3, <2>4, FlattenElements
<1>8. ASSUME NEW v \in V
      PROVE  /\ T.to_js[v].items = js(v)
             /\ T.to_js[v].objects = UNION {U.to_js[v[i]].objects : i \in DOMAIN v}
             /\ T.from_js[T.to_js[v]] = back(js(v))
  <2>1. T.to_js[v] = JsArray(js(v)) /\ T.to_js[v] \in Range(T.to_js)
    BY <1>1 DEF Range
  <2>2. T.from_js[T.to_js[v]] = back(T.to_js[v].items)
    BY <1>1, <2>1
  <2>3. T.to_js[v].items = js(v)
    BY <1>2, <2>1
  <2>4. T.to_js[v].objects = UNION {js(v)[i].objects : i \in DOMAIN js(v)}
    BY <1>2, <2>1
  <2> QED
    BY <2>2, <2>3, <2>4
<1>9. ASSUME NEW v \in V PROVE back(js(v)) \in V
  <2>1. back(js(v)) \in [1..Len(v) -> U.values]
    BY <1>4, <1>6
  <2>2. back(js(v)) \in Seq(U.values) /\ Len(back(js(v))) = Len(v)
    BY <1>6, <2>1
  <2> QED
    BY <1>6, <2>2, BoundedSeqs
<1>10. ASSUME NEW v \in BoundedSeq(U.kept, n)
       PROVE  /\ v \in V /\ \A i \in DOMAIN v : v[i] \in U.kept
              /\ back(js(v)) = v
  <2>1. v \in Seq(U.kept) /\ Len(v) <= n /\ Len(v) \in Nat /\ DOMAIN v = 1..Len(v)
    BY BoundedSeqs, LenProperties
  <2>2. v \in V
    BY <1>4, <2>1, SeqMonotonic, BoundedSeqs
  <2>3. \A i \in DOMAIN v : v[i] \in U.kept
    BY <2>1, ElementOfSeq
  <2>4. \A i \in DOMAIN v : back(js(v))[i] = v[i]
    BY <1>4, <1>5, <2>3
  <2>5. back(js(v)) = [i \in DOMAIN v |-> back(js(v))[i]] /\ v = [i \in DOMAIN v |-> v[i]]
    BY <2>1
  <2> QED
    BY <2>2, <2>3, <2>4, <2>5
<1> HIDE DEF T, V, js, lists, back
<1>11. TransferableType(T, objects)
  <2>1. T.kept \subseteq V
    BY <1>1, <1>10
  <2>2. T.underlying \in [V -> Seq(objects)]
    BY <1>1, <1>7
  <2>3. T.to_js \in [V -> Range(T.to_js)]
    <3>1. DOMAIN T.to_js = V /\ T.to_js = [v \in V |-> T.to_js[v]]
      BY <1>1
    <3> QED
      BY <3>1 DEF Range
  <2>4. \A j \in Range(T.to_js) : T.from_js[j] \in V
    <3>1. \A j \in Range(T.to_js) : \E v \in V : j = T.to_js[v]
      BY <1>1 DEF Range
    <3> QED
      BY <1>8, <1>9, <3>1
  <2>5. DOMAIN T.from_js = Range(T.to_js) /\ T.from_js \in [Range(T.to_js) -> V]
    BY <1>1, <2>4
  <2> QED
    BY <1>1, <2>1, <2>2, <2>3, <2>5 DEF TransferableType
<1>12. Lawful(T)
  <2>1. ASSUME NEW v \in V PROVE T.to_js[v].objects \subseteq Range(T.underlying[v])
    <3>1. T.underlying[v] = FlattenSeq(lists(v))
      BY <1>1
    <3> QED
      BY <1>5, <1>6, <1>7, <1>8, <3>1
  <2>2. ASSUME NEW v \in V, v \in T.kept
        PROVE  T.to_js[v].objects = Range(T.underlying[v]) /\ T.from_js[T.to_js[v]] = v
    <3>1. T.underlying[v] = FlattenSeq(lists(v))
      BY <1>1
    <3>2. (\A i \in DOMAIN v : v[i] \in U.kept) /\ back(js(v)) = v
      BY <1>1, <1>10, <2>2
    <3>3. \A i \in DOMAIN v : U.to_js[v[i]].objects = Range(U.underlying[v[i]])
      BY <1>5, <1>6, <3>2
    <3>4. UNION {U.to_js[v[i]].objects : i \in DOMAIN v}
            = UNION {Range(U.underlying[v[i]]) : i \in DOMAIN v}
      BY <3>3
    <3>5. T.to_js[v].objects = Range(T.underlying[v])
      BY <1>7, <1>8, <3>1, <3>4
    <3> QED
      BY <1>8, <3>2, <3>5
  <2> QED
    BY <1>1, <2>1, <2>2 DEF Lawful
<1> QED
  BY <1>11, <1>12 DEF Transferable, T
\* The keys of a map, in some order.
LEMMA Order ==
    ASSUME NEW K, IsFiniteSet(K)
    PROVE  SetToSeq(K) \in Seq(K) /\ Range(SetToSeq(K)) = K
<1> DEFINE c == Cardinality(K)
           f == SetToSeq(K)
<1>1. c \in Nat /\ ExistsBijection(1..c, K)
  BY FS_CardinalityType
<1>2. \E g \in [1..c -> K] : IsInjective(g)
  BY <1>1 DEF ExistsBijection, Bijection, Injection, IsInjective
<1>3. f \in [1..c -> K] /\ IsInjective(f)
  BY <1>2 DEF SetToSeq
<1>4. f \in Injection(1..c, K)
  BY <1>3 DEF Injection, IsInjective
<1>5. Cardinality(1..c) = c
  BY <1>1, FS_Interval
<1> HIDE DEF c, f
<1>6. f \in Surjection(1..c, K)
  BY <1>4, <1>5, FS_Injection DEF c
<1>7. Range(f) = K
  BY <1>3, <1>6 DEF Surjection, Range
<1>8. f \in Seq(K)
  BY <1>1, <1>3
<1> QED
  BY <1>7, <1>8 DEF f

LEMMA MapLawful ==
    ASSUME NEW objects, NEW keys, NEW U, Transferable(U, objects)
    PROVE  Transferable(MapOf(U, keys), objects)
<1> DEFINE T == MapOf(U, keys)
           V == Maps(keys, U.values)
           order(v) == SetToSeq(DOMAIN v)
           lists(v) == [i \in DOMAIN order(v) |-> U.underlying[v[order(v)[i]]]]
           js(v) == [k \in DOMAIN v \ {Proto} |-> U.to_js[v[k]]]
           back(f) == [k \in DOMAIN f |-> U.from_js[f[k]]]
<1>1. /\ T.values = V /\ T.kept = Maps(keys \ {Proto}, U.kept)
      /\ T.underlying = [v \in V |-> FlattenSeq(lists(v))]
      /\ T.to_js = [v \in V |-> JsRecord(js(v))]
      /\ T.from_js = [j \in Range(T.to_js) |-> back(j.entries)]
  BY DEF MapOf, MapUnderlying, MapToJs, MapFromJs
<1>2. \A f : JsRecord(f).entries = f /\ JsRecord(f).objects = UNION {f[k].objects : k \in DOMAIN f}
  BY DEF JsRecord
<1>3. \A S, K, v : v \in Maps(K, S) <=>
          v \in [DOMAIN v -> S] /\ DOMAIN v \subseteq K /\ IsFiniteSet(DOMAIN v)
  BY DEF Maps
<1>4. /\ U.kept \subseteq U.values
      /\ U.underlying \in [U.values -> Seq(objects)]
      /\ U.to_js \in [U.values -> DOMAIN U.from_js]
      /\ U.from_js \in [DOMAIN U.from_js -> U.values]
  BY DEF Transferable, TransferableType
<1>5. \A w \in U.values :
         /\ U.to_js[w].objects \subseteq Range(U.underlying[w])
         /\ w \in U.kept => /\ U.to_js[w].objects = Range(U.underlying[w])
                           /\ U.from_js[U.to_js[w]] = w
  BY DEF Transferable, Lawful
<1>6. ASSUME NEW v \in V
      PROVE  /\ v \in [DOMAIN v -> U.values] /\ DOMAIN v \subseteq keys /\ IsFiniteSet(DOMAIN v)
             /\ \A k \in DOMAIN v : v[k] \in U.values
             /\ order(v) \in Seq(DOMAIN v) /\ Range(order(v)) = DOMAIN v
  <2>1. v \in [DOMAIN v -> U.values] /\ DOMAIN v \subseteq keys /\ IsFiniteSet(DOMAIN v)
    BY <1>3
  <2>2. order(v) \in Seq(DOMAIN v) /\ Range(order(v)) = DOMAIN v
    BY <2>1, Order
  <2> QED
    BY <2>1, <2>2
<1>7. ASSUME NEW v \in V
      PROVE  /\ FlattenSeq(lists(v)) \in Seq(objects)
             /\ Range(FlattenSeq(lists(v))) = UNION {Range(U.underlying[v[k]]) : k \in DOMAIN v}
  <2> DEFINE o == order(v)
  <2>1. o \in Seq(DOMAIN v) /\ Range(o) = DOMAIN v
    BY <1>6
  <2> HIDE DEF o
  <2>2. Len(o) \in Nat /\ DOMAIN o = 1..Len(o) /\ \A i \in DOMAIN o : o[i] \in DOMAIN v
    BY <2>1, LenProperties, ElementOfSeq
  <2> DEFINE l == [i \in DOMAIN o |-> U.underlying[v[o[i]]]]
  <2>3. l \in [1..Len(o) -> Seq(objects)]
    BY <1>4, <1>6, <2>2
  <2>4. l \in Seq(Seq(objects))
    BY <2>2, <2>3
  <2>5. Elements(l) = UNION {Range(U.underlying[v[k]]) : k \in DOMAIN v}
    <3> DEFINE listed(k) == Range(U.underlying[v[k]])
    <3>1. Elements(l) = UNION {listed(o[i]) : i \in DOMAIN o}
      BY DEF Elements
    <3> HIDE DEF listed
    <3>2. {listed(o[i]) : i \in DOMAIN o} = {listed(k) : k \in Range(o)}
      BY DEF Range
    <3>3. Elements(l) = UNION {listed(k) : k \in DOMAIN v}
      <4> HIDE DEF l
      <4> QED
        BY <2>1, <3>1, <3>2
    <3> QED
      BY <3>3 DEF listed
  <2>6. FlattenSeq(l) \in Seq(objects) /\ Range(FlattenSeq(l)) = Elements(l)
    <3> HIDE DEF l
    <3> QED
      BY <2>4, FlattenElements
  <2> QED
    BY <2>5, <2>6 DEF o
<1>8. ASSUME NEW v \in V
      PROVE  /\ T.to_js[v].objects = UNION {U.to_js[v[k]].objects : k \in DOMAIN v \ {Proto}}
             /\ T.from_js[T.to_js[v]] = back(js(v))
  <2>1. T.to_js[v] = JsRecord(js(v)) /\ T.to_js[v] \in Range(T.to_js)
    BY <1>1 DEF Range
  <2>2. T.from_js[T.to_js[v]] = back(T.to_js[v].entries)
    BY <1>1, <2>1
  <2>3. T.to_js[v].entries = js(v)
    BY <1>2, <2>1
  <2>4. T.to_js[v].objects = UNION {js(v)[k].objects : k \in DOMAIN js(v)}
    BY <1>2, <2>1
  <2> QED
    BY <2>2, <2>3, <2>4
<1>9. ASSUME NEW v \in V PROVE back(js(v)) \in V
  <2>1. back(js(v)) \in [DOMAIN v \ {Proto} -> U.values]
    BY <1>4, <1>6
  <2>2. DOMAIN v \ {Proto} \subseteq keys /\ IsFiniteSet(DOMAIN v \ {Proto})
    BY <1>6, FS_Subset
  <2> HIDE DEF back, js
  <2> QED
    BY <1>3, <2>1, <2>2
<1>10. ASSUME NEW v \in Maps(keys \ {Proto}, U.kept)
       PROVE  /\ v \in V /\ Proto \notin DOMAIN v /\ \A k \in DOMAIN v : v[k] \in U.kept
              /\ back(js(v)) = v
  <2>1. v \in [DOMAIN v -> U.kept] /\ DOMAIN v \subseteq keys \ {Proto} /\ IsFiniteSet(DOMAIN v)
    BY <1>3
  <2>2. v \in V
    BY <1>3, <1>4, <2>1
  <2>3. \A k \in DOMAIN v : v[k] \in U.kept
    BY <2>1
  <2>4. DOMAIN v \ {Proto} = DOMAIN v
    BY <2>1
  <2>5. \A k \in DOMAIN v : back(js(v))[k] = v[k]
    BY <1>4, <1>5, <2>3, <2>4
  <2>6. back(js(v)) = [k \in DOMAIN v |-> back(js(v))[k]] /\ v = [k \in DOMAIN v |-> v[k]]
    BY <2>1, <2>4
  <2> QED
    BY <2>1, <2>2, <2>3, <2>5, <2>6
<1> HIDE DEF T, V, order, js, lists, back
<1>11. TransferableType(T, objects)
  <2>1. T.kept \subseteq V
    BY <1>1, <1>10
  <2>2. T.underlying \in [V -> Seq(objects)]
    BY <1>1, <1>7
  <2>3. T.to_js \in [V -> Range(T.to_js)]
    <3>1. DOMAIN T.to_js = V /\ T.to_js = [v \in V |-> T.to_js[v]]
      BY <1>1
    <3> QED
      BY <3>1 DEF Range
  <2>4. \A j \in Range(T.to_js) : T.from_js[j] \in V
    <3>1. \A j \in Range(T.to_js) : \E v \in V : j = T.to_js[v]
      BY <1>1 DEF Range
    <3> QED
      BY <1>8, <1>9, <3>1
  <2>5. DOMAIN T.from_js = Range(T.to_js) /\ T.from_js \in [Range(T.to_js) -> V]
    BY <1>1, <2>4
  <2> QED
    BY <1>1, <2>1, <2>2, <2>3, <2>5 DEF TransferableType
<1>12. Lawful(T)
  <2>1. ASSUME NEW v \in V PROVE T.to_js[v].objects \subseteq Range(T.underlying[v])
    <3>1. T.underlying[v] = FlattenSeq(lists(v))
      BY <1>1
    <3> QED
      BY <1>5, <1>6, <1>7, <1>8, <3>1
  <2>2. ASSUME NEW v \in V, v \in T.kept
        PROVE  T.to_js[v].objects = Range(T.underlying[v]) /\ T.from_js[T.to_js[v]] = v
    <3>1. T.underlying[v] = FlattenSeq(lists(v))
      BY <1>1
    <3>2. /\ \A k \in DOMAIN v : v[k] \in U.kept
          /\ Proto \notin DOMAIN v /\ back(js(v)) = v
      BY <1>1, <1>10, <2>2
    <3>3. \A k \in DOMAIN v : U.to_js[v[k]].objects = Range(U.underlying[v[k]])
      BY <1>5, <1>6, <3>2
    <3>4. DOMAIN v \ {Proto} = DOMAIN v
      BY <3>2
    <3>5. UNION {U.to_js[v[k]].objects : k \in DOMAIN v}
            = UNION {Range(U.underlying[v[k]]) : k \in DOMAIN v}
      BY <3>3
    <3>6. T.to_js[v].objects = Range(T.underlying[v])
      BY <1>7, <1>8, <3>1, <3>4, <3>5
    <3> QED
      BY <1>8, <3>2, <3>6
  <2> QED
    BY <1>1, <2>1, <2>2 DEF Lawful
<1> QED
  BY <1>11, <1>12 DEF Transferable, T
-----------------------------------------------------------------------------
(***************************************************************************)
(* The built-in types, however they are nested: rank is how deep.           *)
(***************************************************************************)

LawfulTypes == \A T \in Types : Lawful(Impls[T])

BuiltIn(S, rank) ==
    \A T \in S :
        \/ \E kind \in {"object", "view"} : T = Leaf(kind, Objects)
        \/ \E U \in S :
              /\ rank[U] < rank[T]
              /\ \/ T = OptionOf(U)
                 \/ \E n \in Nat : T = VecOf(U, n)
                 \/ \E keys \in SUBSET STRING : T = MapOf(U, keys)

\* Whatever containers are nested in a transferable type of the library, the law holds:
\* what it consists of in JavaScript is what underlying_transfer_objects lists, and
\* from_js_value undoes to_js_value for the values JavaScript can tell apart.
THEOREM BuiltInTypesAreLawful ==
    ASSUME NEW S, NEW rank \in [S -> Nat], BuiltIn(S, rank), \A T \in Types : Impls[T] \in S
    PROVE  LawfulTypes
<1> DEFINE N == {n \in Nat : \A T \in S : rank[T] < n => Transferable(T, Objects)}
<1>1. 0 \in N
  BY rank \in [S -> Nat]
<1>2. ASSUME NEW n \in Nat, n \in N PROVE n + 1 \in N
  <2> SUFFICES ASSUME NEW T \in S, rank[T] < n + 1 PROVE Transferable(T, Objects)
    OBVIOUS
  <2>1. CASE \E kind \in {"object", "view"} : T = Leaf(kind, Objects)
    BY <2>1, LeafLawful
  <2>2. ASSUME NEW U \in S, rank[U] < rank[T],
               \/ T = OptionOf(U)
               \/ \E m \in Nat : T = VecOf(U, m)
               \/ \E keys \in SUBSET STRING : T = MapOf(U, keys)
        PROVE  Transferable(T, Objects)
    <3>1. rank[U] \in Nat /\ rank[T] \in Nat
      OBVIOUS
    <3>2. rank[U] < n
      BY <2>2, <3>1
    <3>3. Transferable(U, Objects)
      BY <1>2, <3>2
    <3> QED
      BY <2>2, <3>3, OptionLawful, VecLawful, MapLawful
  <2> QED
    BY <2>1, <2>2 DEF BuiltIn
<1> HIDE DEF N
<1>3. \A n \in Nat : n \in N
  BY <1>1, <1>2, Induction
<1>4. ASSUME NEW T \in S PROVE Transferable(T, Objects)
  <2>1. rank[T] + 1 \in N /\ rank[T] < rank[T] + 1
    BY <1>3
  <2> QED
    BY <2>1 DEF N
<1> QED
  BY <1>4 DEF LawfulTypes, Transferable

-----------------------------------------------------------------------------
(* Fields and what is listed of them.                                      *)

LEMMA FieldTyped ==
    ASSUME NEW f
    PROVE  /\ f \in Field <=>
                \E T \in Types : \E v \in Impls[T].values : f = [type |-> T, value |-> v]
           /\ f \in Field => /\ f.type \in Types /\ f.value \in Impls[f.type].values
                            /\ Underlying(f) \in Seq(Objects)
<1>1. f \in Field <=> \E T \in Types : f \in [type : {T}, value : Impls[T].values]
  BY DEF Field, Methods
<1>2. \A T : f \in [type : {T}, value : Impls[T].values] <=>
                 \E v \in Impls[T].values : f = [type |-> T, value |-> v]
  OBVIOUS
<1>3. \A T \in Types : Impls[T].underlying \in [Impls[T].values -> Seq(Objects)]
  BY ImplsAssumption DEF TransferableType, Types
<1>4. ASSUME NEW T \in Types, NEW v \in Impls[T].values, f = [type |-> T, value |-> v]
      PROVE  /\ f.type \in Types /\ f.value \in Impls[f.type].values
             /\ Underlying(f) \in Seq(Objects)
  BY <1>3, <1>4 DEF Underlying, Methods
<1> QED
  BY <1>1, <1>2, <1>4

\* What is listed of a sequence of fields.
Listed(fs) == FlattenSeq([i \in DOMAIN fs |-> Underlying(fs[i])])

LEMMA ListedNothing == Listed(<<>>) = <<>>
<1>1. [i \in DOMAIN <<>> |-> Underlying(<<>>[i])] = <<>>
  OBVIOUS
<1> QED
  BY <1>1, FlattenEmpty DEF Listed

LEMMA ListedIsFlat ==
    ASSUME NEW fs \in Seq(Field)
    PROVE  [i \in DOMAIN fs |-> Underlying(fs[i])] \in Seq(Seq(Objects))
<1>1. Len(fs) \in Nat /\ DOMAIN fs = 1..Len(fs) /\ \A i \in DOMAIN fs : fs[i] \in Field
  BY LenProperties, ElementOfSeq
<1>2. [i \in DOMAIN fs |-> Underlying(fs[i])] \in [1..Len(fs) -> Seq(Objects)]
  BY <1>1, FieldTyped
<1> QED
  BY <1>1, <1>2

LEMMA ListedElements ==
    ASSUME NEW fs \in Seq(Field)
    PROVE  /\ Listed(fs) \in Seq(Objects)
           /\ Range(Listed(fs)) = UNION {Range(Underlying(fs[i])) : i \in DOMAIN fs}
<1> DEFINE l == [i \in DOMAIN fs |-> Underlying(fs[i])]
<1>1. l \in Seq(Seq(Objects))
  BY ListedIsFlat
<1>2. Elements(l) = UNION {Range(Underlying(fs[i])) : i \in DOMAIN fs}
  BY DEF Elements
<1>3. FlattenSeq(l) \in Seq(Objects) /\ Range(FlattenSeq(l)) = Elements(l)
  <2> HIDE DEF l
  <2> QED
    BY <1>1, FlattenElements
<1> QED
  BY <1>2, <1>3 DEF Listed

LEMMA ListedAppend ==
    ASSUME NEW fs \in Seq(Field), NEW f \in Field
    PROVE  Listed(Append(fs, f)) = Listed(fs) \o Underlying(f)
<1> DEFINE a == Append(fs, f)
           l == [i \in DOMAIN fs |-> Underlying(fs[i])]
           m == [i \in DOMAIN a |-> Underlying(a[i])]
<1>1. Underlying(f) \in Seq(Objects) /\ l \in Seq(Seq(Objects))
  BY FieldTyped, ListedIsFlat
<1>2. /\ Len(fs) \in Nat /\ DOMAIN fs = 1..Len(fs) /\ DOMAIN a = 1..(Len(fs) + 1)
      /\ \A i \in 1..Len(fs) : a[i] = fs[i]
      /\ a[Len(fs) + 1] = f
  BY AppendProperties, LenProperties
<1>3. m = Append(l, Underlying(f))
  <2>1. /\ Append(l, Underlying(f)) \in Seq(Seq(Objects)) /\ Len(l) = Len(fs)
        /\ Len(Append(l, Underlying(f))) = Len(fs) + 1
        /\ \A i \in 1..Len(fs) : Append(l, Underlying(f))[i] = l[i]
        /\ Append(l, Underlying(f))[Len(fs) + 1] = Underlying(f)
    <3>1. Len(l) = Len(fs)
      BY <1>2
    <3> HIDE DEF l
    <3> QED
      BY <1>1, <3>1, AppendProperties
  <2>2. m \in Seq(Seq(Objects))
    <3>1. a \in Seq(Field)
      BY AppendProperties
    <3> HIDE DEF a
    <3> QED
      BY <3>1, ListedIsFlat
  <2>3. Len(m) = Len(fs) + 1
    BY <1>2
  <2>4. ASSUME NEW i \in 1..(Len(fs) + 1) PROVE m[i] = Append(l, Underlying(f))[i]
    <3>1. m[i] = Underlying(a[i])
      BY <1>2
    <3>2. CASE i = Len(fs) + 1
      BY <1>2, <2>1, <3>1, <3>2
    <3>3. CASE i \in 1..Len(fs)
      <4>1. Append(l, Underlying(f))[i] = l[i] /\ l[i] = Underlying(fs[i])
        BY <1>2, <2>1, <3>3
      <4> QED
        BY <1>2, <3>1, <3>3, <4>1
    <3> QED
      BY <1>2, <3>2, <3>3
  <2> HIDE DEF l, m, a
  <2> QED
    BY <2>1, <2>2, <2>3, <2>4, SeqEqual
<1>4. FlattenSeq(Append(l, Underlying(f))) = FlattenSeq(l) \o Underlying(f)
  <2> HIDE DEF l
  <2> QED
    BY <1>1, FlattenAppend
<1> QED
  BY <1>3, <1>4 DEF Listed

-----------------------------------------------------------------------------
(***************************************************************************)
(* Typing.                                                                 *)
(***************************************************************************)

Ids == 0..(IdCount - 1)

Frames == [id : Ids, fields : Seq(Field)]

Typed ==
    /\ store \in [objects : Seq(Objects), id : Ids] /\ counter \in Ids
    /\ stack \in Seq(Frames)
    /\ attached \subseteq Objects
    /\ message.fields \in Seq(Field) /\ message.transfers \in Seq(Objects)
    /\ begun \in 0..MaxMessages /\ fields \in 0..MaxFields

LEMMA AfterIdTyped ==
    ASSUME NEW n \in Ids
    PROVE  AfterId(n) \in Ids /\ AfterId(n) = IF n + 1 = IdCount THEN 0 ELSE n + 1
  BY IdAssumption DEF AfterId, Ids

\* The innermost call and the others.
LEMMA FrameTyped ==
    ASSUME Typed, stack # <<>>
    PROVE  /\ Len(stack) \in Nat \ {0} /\ DOMAIN stack = 1..Len(stack)
           /\ Frame = stack[Len(stack)] /\ Frame \in Frames
           /\ Front(stack) \in Seq(Frames) /\ Len(Front(stack)) = Len(stack) - 1
           /\ \A i \in DOMAIN Front(stack) : i \in DOMAIN stack /\ Front(stack)[i] = stack[i]
<1> DEFINE n == Len(stack)
<1>1. stack \in Seq(Frames)
  BY DEF Typed
<1>2. n \in Nat \ {0} /\ DOMAIN stack = 1..n
  BY <1>1, EmptySeq, LenProperties
<1>3. Frame = stack[n] /\ Frame \in Frames
  <2>1. n \in 1..n
    BY <1>2
  <2> QED
    BY <1>1, <2>1, ElementOfSeq DEF Frame, Last
<1>4. /\ SubSeq(stack, 1, n - 1) \in Seq(Frames)
      /\ Len(SubSeq(stack, 1, n - 1)) = IF 1 <= n - 1 THEN (n - 1) - 1 + 1 ELSE 0
      /\ \A i \in 1..((n - 1) - 1 + 1) : SubSeq(stack, 1, n - 1)[i] = stack[1 + i - 1]
  <2>1. \A i \in 1..(n - 1) : stack[i] \in Frames
    BY <1>1, <1>2, ElementOfSeq
  <2> QED
    BY <1>2, <2>1, SubSeqProperties
<1>5. Front(stack) = SubSeq(stack, 1, n - 1)
  BY DEF Front
<1>6. Front(stack) \in Seq(Frames) /\ Len(Front(stack)) = n - 1
  BY <1>2, <1>4, <1>5
<1>7. DOMAIN Front(stack) = 1..(n - 1)
  BY <1>6, LenProperties
<1>8. \A i \in 1..(n - 1) : i \in 1..n /\ Front(stack)[i] = stack[i]
  BY <1>2, <1>4, <1>5
<1> HIDE DEF n
<1> QED
  BY <1>2, <1>3, <1>6, <1>7, <1>8 DEF n

\* The fields of the innermost call, with one more of them.
LEMMA SerializeStack ==
    ASSUME Typed, stack # <<>>, NEW f \in Field,
           stack' = [stack EXCEPT ![Len(stack)].fields = Append(@, f)]
    PROVE  /\ stack' \in Seq(Frames) /\ Len(stack') = Len(stack)
           /\ \A i \in DOMAIN stack' :
                 /\ i \in DOMAIN stack /\ stack'[i].id = stack[i].id
                 /\ i # Len(stack) => stack'[i] = stack[i]
           /\ stack'[Len(stack)].fields = Append(Frame.fields, f)
<1> DEFINE n == Len(stack)
           e == [Frame EXCEPT !.fields = Append(@, f)]
<1>1. /\ stack \in Seq(Frames) /\ n \in 1..n /\ DOMAIN stack = 1..n
      /\ Frame = stack[n] /\ Frame \in Frames
  BY FrameTyped DEF Typed
<1>2. Append(Frame.fields, f) \in Seq(Field)
  BY <1>1, AppendProperties DEF Frames
<1>3. e \in Frames /\ e.id = Frame.id /\ e.fields = Append(Frame.fields, f)
  BY <1>1, <1>2 DEF Frames
<1>4. stack' = [stack EXCEPT ![n] = e]
  BY <1>1
<1> HIDE DEF e
<1>5. stack' \in Seq(Frames) /\ Len(stack') = n
  <2>1. /\ [stack EXCEPT ![n] = e] \in Seq(Frames)
        /\ Len([stack EXCEPT ![n] = e]) = n
    <3>1. PICK k \in 1..Len(stack) : k = n
      BY <1>1
    <3> QED
      BY <1>1, <1>3, <3>1, ExceptSeq
  <2> QED
    BY <1>4, <2>1
<1>6. DOMAIN stack' = 1..n /\ stack'[n] = e /\ \A i \in 1..n : i # n => stack'[i] = stack[i]
  BY <1>1, <1>4
<1> QED
  BY <1>1, <1>3, <1>5, <1>6

LEMMA MessageTyped ==
    ASSUME Typed, stack # <<>>
    PROVE  /\ Message.fields = Frame.fields /\ Message.transfers = store.objects
           /\ Message.data = [i \in DOMAIN Frame.fields |-> ToJs(Frame.fields[i])]
           /\ Frame.fields \in Seq(Field) /\ store.objects \in Seq(Objects)
  BY FrameTyped DEF Message, Frames, Typed

LEMMA TypedInit == Init => Typed
<1> SUFFICES ASSUME Init PROVE Typed
  OBVIOUS
<1>1. PICK n \in {0, IdCount - 2} : store = [objects |-> <<>>, id |-> n] /\ counter = n + 1
  BY DEF Init
<1>2. n \in Ids /\ counter \in Ids
  BY <1>1, IdAssumption DEF Ids
<1>3. /\ <<>> \in Seq(Objects) /\ <<>> \in Seq(Field) /\ <<>> \in Seq(Frames)
      /\ 0 \in 0..MaxMessages /\ 0 \in 0..MaxFields
  BY IdAssumption, FieldAssumption
<1> QED
  BY <1>1, <1>2, <1>3 DEF Init, Typed

LEMMA NextCases ==
    ASSUME [Next]_vars
    PROVE  \/ Begin \/ SerializeFails \/ Post \/ PostPanics \/ UNCHANGED vars
           \/ \E f \in Field : Serialize(f)
<1>1. ASSUME NEW T \in Types, NEW v \in Methods[T].values, Serialize([type |-> T, value |-> v])
      PROVE  \E f \in Field : Serialize(f)
  <2>1. [type |-> T, value |-> v] \in Field
    BY FieldTyped DEF Methods
  <2> QED
    BY <1>1, <2>1
<1> QED
  BY <1>1 DEF Next

LEMMA TypedStep == Typed /\ [Next]_vars => Typed'
<1> SUFFICES ASSUME Typed, [Next]_vars PROVE Typed'
  OBVIOUS
<1>0. <<>> \in Seq(Objects) /\ <<>> \in Seq(Field) /\ <<>> \in Seq(Frames)
  OBVIOUS
<1>1. CASE Begin
  <2>1. counter' \in Ids /\ store' \in [objects : Seq(Objects), id : Ids]
    BY <1>0, <1>1, AfterIdTyped DEF Begin, Typed
  <2>2. stack' \in Seq(Frames)
    <3>1. [id |-> counter, fields |-> <<>>] \in Frames
      BY <1>0 DEF Frames, Typed
    <3> QED
      BY <1>1, <3>1, AppendProperties DEF Begin, Typed
  <2>3. begun' \in 0..MaxMessages
    BY <1>1, IdAssumption DEF Begin, MayBegin, Typed
  <2> QED
    BY <1>1, <2>1, <2>2, <2>3 DEF Begin, Typed
<1>2. ASSUME NEW f \in Field, Serialize(f) PROVE Typed'
  <2>1. stack' \in Seq(Frames)
    BY <1>2, SerializeStack DEF Serialize
  <2>2. store' \in [objects : Seq(Objects), id : Ids]
    <3>1. store.objects \o Underlying(f) \in Seq(Objects)
      BY FieldTyped, ConcatProperties DEF Typed
    <3> QED
      BY <1>2, <3>1 DEF Serialize, Typed
  <2>3. fields' \in 0..MaxFields
    BY <1>2, FieldAssumption DEF Serialize, Typed
  <2> QED
    BY <1>2, <2>1, <2>2, <2>3 DEF Serialize, Typed
<1>3. CASE SerializeFails
  BY <1>0, <1>3 DEF SerializeFails, Typed
<1>4. ASSUME Take PROVE counter' \in Ids /\ store' \in [objects : Seq(Objects), id : Ids]
  BY <1>0, <1>4, AfterIdTyped DEF Take, Typed
<1>5. CASE Post
  <2>1. Take /\ stack # <<>>
    BY <1>5 DEF Post, Take
  <2>2. stack' \in Seq(Frames)
    BY <1>5, <2>1, FrameTyped DEF Post
  <2>3. message'.fields \in Seq(Field) /\ message'.transfers \in Seq(Objects)
    BY <1>5, <2>1, MessageTyped DEF Post
  <2>4. attached' \subseteq Objects
    BY <1>5 DEF Post, Typed
  <2> QED
    BY <1>4, <1>5, <2>1, <2>2, <2>3, <2>4 DEF Post, Typed
<1>6. CASE PostPanics
  BY <1>0, <1>4, <1>6 DEF PostPanics, Typed
<1>7. CASE UNCHANGED vars
  BY <1>7 DEF vars, Typed
<1> QED
  BY <1>1, <1>2, <1>3, <1>5, <1>6, <1>7, NextCases

\* Every call has the fields of one message and an id of the counter's width, whatever
\* messages are nested and wherever they fail (serialize_to_worker_msg and post).
THEOREM StoreTyping == Spec => []TypeOK
<1>1. Spec => []Typed
  BY TypedInit, TypedStep, PTL DEF Spec
<1>2. Typed => TypeOK
  <2> SUFFICES ASSUME Typed PROVE TypeOK
    OBVIOUS
  <2>1. ASSUME NEW i \in DOMAIN stack
        PROVE  stack[i].id \in 0..(IdCount - 1) /\ stack[i].fields \in Seq(Field)
    <3>1. stack[i] \in Frames
      BY LenProperties, ElementOfSeq DEF Typed
    <3> QED
      BY <3>1 DEF Frames, Ids
  <2> QED
    BY <2>1 DEF Typed, TypeOK, Ids
<1> QED
  BY <1>1, <1>2, PTL

-----------------------------------------------------------------------------
(***************************************************************************)
(* Whose objects the store has.  The age of an id is how many ids were given*)
(* out since; a call that has not returned has an id too young to be given  *)
(* out again, since each message begun gives out two ids at most.           *)
(***************************************************************************)

AgeAt(id, c) == IF id < c THEN c - id ELSE (c - id) + IdCount

Age(id) == AgeAt(id, counter)

OwnStore(i) ==
    store.id = stack[i].id => i = Len(stack) /\ store.objects = Listed(stack[i].fields)

StoreInv ==
    /\ Age(store.id) = 1
    /\ Len(stack) <= begun
    /\ \A i \in DOMAIN stack :
          /\ Age(stack[i].id) + Len(stack) <= 2 * begun
          /\ OwnStore(i)

\* The message that was posted last.
MessageInv ==
    /\ message.data = [i \in DOMAIN message.fields |-> ToJs(message.fields[i])]
    /\ message.transfers = Listed(message.fields)

\* Another id is given out.
LEMMA Ages ==
    ASSUME NEW id \in Ids, NEW c \in Ids
    PROVE  /\ AgeAt(id, c) \in 1..IdCount
           /\ AgeAt(c, AfterId(c)) = 1
           /\ AgeAt(id, c) < IdCount => AgeAt(id, AfterId(c)) = AgeAt(id, c) + 1
           /\ AgeAt(id, c) = AgeAt(c, AfterId(c)) => id # c
<1>1. IdCount \in Nat /\ IdCount > 1
  BY IdAssumption
<1>2. AfterId(c) = IF c + 1 = IdCount THEN 0 ELSE c + 1
  BY AfterIdTyped
<1>3. id \in Nat /\ c \in Nat /\ id < IdCount /\ c < IdCount
  BY <1>1 DEF Ids
<1> QED
  BY <1>1, <1>2, <1>3 DEF AgeAt

\* A store that is new is the store of no call.
LEMMA Renewed ==
    ASSUME Typed, StoreInv, store'.id = counter, counter' = AfterId(counter)
    PROVE  /\ Age(store.id)' = 1
           /\ \A i \in DOMAIN stack :
                 /\ stack[i].id # counter
                 /\ AgeAt(stack[i].id, counter') + Len(stack) <= 2 * begun + 1
<1>1. counter \in Ids /\ begun \in Nat /\ begun <= MaxMessages /\ stack \in Seq(Frames)
  BY IdAssumption DEF Typed
<1>2. Age(store.id)' = 1
  BY <1>1, Ages DEF Age
<1>3. ASSUME NEW i \in DOMAIN stack
      PROVE  /\ stack[i].id # counter
             /\ AgeAt(stack[i].id, counter') + Len(stack) <= 2 * begun + 1
  <2>1. stack[i] \in Frames /\ Len(stack) \in Nat \ {0}
    BY <1>1, LenProperties, ElementOfSeq
  <2>2. stack[i].id \in Ids
    BY <2>1 DEF Frames
  <2>3. AgeAt(stack[i].id, counter) + Len(stack) <= 2 * begun
    BY DEF StoreInv, Age
  <2>4. AgeAt(stack[i].id, counter) \in 1..IdCount
    BY <1>1, <2>2, Ages
  <2>5. AgeAt(stack[i].id, counter) < IdCount
    BY <1>1, <2>1, <2>3, <2>4, IdAssumption
  <2>6. AgeAt(stack[i].id, counter') = AgeAt(stack[i].id, counter) + 1
    BY <1>1, <2>2, <2>5, Ages
  <2>7. stack[i].id # counter
    <3>1. AgeAt(counter, counter) = IdCount
      BY <1>1, IdAssumption DEF AgeAt, Ids
    <3> QED
      BY <2>5, <3>1, IdAssumption
  <2> QED
    BY <1>1, <2>1, <2>3, <2>4, <2>6, <2>7
<1> QED
  BY <1>2, <1>3

LEMMA StoreInit == Init => StoreInv
<1> SUFFICES ASSUME Init PROVE StoreInv
  OBVIOUS
<1>1. PICK n \in {0, IdCount - 2} : store = [objects |-> <<>>, id |-> n] /\ counter = n + 1
  BY DEF Init
<1>2. Age(store.id) = 1
  BY <1>1, IdAssumption DEF Age, AgeAt
<1>3. stack = <<>> /\ Len(<<>>) = 0 /\ DOMAIN stack = {} /\ begun = 0
  BY DEF Init
<1> QED
  BY <1>2, <1>3 DEF StoreInv

LEMMA StoreStep == Typed /\ StoreInv /\ [Next]_vars => StoreInv'
<1> SUFFICES ASSUME Typed, StoreInv, [Next]_vars PROVE StoreInv'
  OBVIOUS
<1>0. /\ counter \in Ids /\ begun \in Nat /\ stack \in Seq(Frames)
      /\ Len(stack) \in Nat /\ DOMAIN stack = 1..Len(stack) /\ Len(stack) <= begun
  BY IdAssumption, LenProperties DEF Typed, StoreInv
<1>1. CASE Begin
  <2> DEFINE e == [id |-> counter, fields |-> <<>>]
  <2>1. e \in Frames
    BY <1>0 DEF Frames
  <2>2. /\ stack' = Append(stack, e) /\ begun' = begun + 1
        /\ store' = [objects |-> <<>>, id |-> counter] /\ counter' = AfterId(counter)
    BY <1>1 DEF Begin
  <2>3. e.id = counter /\ e.fields = <<>>
    OBVIOUS
  <2> HIDE DEF e
  <2>4. /\ Len(stack') = Len(stack) + 1 /\ DOMAIN stack' = 1..(Len(stack) + 1)
        /\ \A i \in DOMAIN stack : stack'[i] = stack[i]
        /\ stack'[Len(stack) + 1] = e
    BY <1>0, <2>1, <2>2, AppendProperties, LenProperties
  <2>5. Age(store.id)' = 1
    BY <2>2, Renewed
  <2>6. ASSUME NEW i \in DOMAIN stack'
        PROVE  /\ AgeAt(stack'[i].id, counter') + Len(stack') <= 2 * begun'
               /\ OwnStore(i)'
    <3>1. CASE i \in DOMAIN stack
      <4>1. /\ stack[i].id # counter
            /\ AgeAt(stack[i].id, counter') + Len(stack) <= 2 * begun + 1
        BY <2>2, <3>1, Renewed
      <4>2. AgeAt(stack[i].id, counter') \in Int
        <5>1. stack[i] \in Frames
          BY <1>0, <3>1, ElementOfSeq
        <5>2. stack[i].id \in Ids
          BY <5>1 DEF Frames
        <5>3. counter' \in Ids
          BY <1>0, <2>2, AfterIdTyped
        <5> QED
          BY <5>2, <5>3, Ages
      <4> QED
        BY <1>0, <2>2, <2>4, <3>1, <4>1, <4>2 DEF OwnStore
    <3>2. CASE i = Len(stack) + 1
      <4>1. AgeAt(stack'[i].id, counter') = 1
        BY <2>2, <2>3, <2>4, <2>5, <3>2 DEF Age
      <4>2. OwnStore(i)'
        BY <2>2, <2>3, <2>4, <3>2, ListedNothing DEF OwnStore
      <4> QED
        BY <1>0, <2>2, <2>4, <4>1, <4>2
    <3> QED
      BY <1>0, <2>4, <3>1, <3>2
  <2> QED
    BY <1>0, <2>2, <2>4, <2>5, <2>6 DEF StoreInv, Age
<1>2. ASSUME NEW f \in Field, Serialize(f) PROVE StoreInv'
  <2>1. /\ stack # <<>> /\ stack' = [stack EXCEPT ![Len(stack)].fields = Append(@, f)]
        /\ store'.objects = store.objects \o Underlying(f) /\ store'.id = store.id
        /\ UNCHANGED <<counter, begun>>
    BY <1>2 DEF Serialize, Typed
  <2>2. /\ Len(stack') = Len(stack)
        /\ \A i \in DOMAIN stack' :
              /\ i \in DOMAIN stack /\ stack'[i].id = stack[i].id
              /\ i # Len(stack) => stack'[i] = stack[i]
        /\ stack'[Len(stack)].fields = Append(Frame.fields, f)
    BY <2>1, SerializeStack
  <2>3. ASSUME NEW i \in DOMAIN stack' PROVE OwnStore(i)'
    <3> SUFFICES ASSUME store.id = stack[i].id
                 PROVE  i = Len(stack) /\ store'.objects = Listed(stack'[i].fields)
      BY <2>1, <2>2 DEF OwnStore
    <3>1. i = Len(stack) /\ store.objects = Listed(stack[i].fields)
      BY <2>2 DEF StoreInv, OwnStore
    <3>2. Frame = stack[i] /\ Frame.fields \in Seq(Field)
      BY <2>1, <3>1, FrameTyped DEF Frames
    <3>3. Listed(Append(Frame.fields, f)) = Listed(Frame.fields) \o Underlying(f)
      BY <3>2, ListedAppend
    <3> QED
      BY <2>1, <2>2, <3>1, <3>2, <3>3
  <2> QED
    BY <2>1, <2>2, <2>3 DEF StoreInv, Age
<1>3. ASSUME stack' = <<>>, Age(store.id)' = 1, begun' = begun PROVE StoreInv'
  <2>1. Len(<<>>) = 0 /\ DOMAIN <<>> = {}
    OBVIOUS
  <2> QED
    BY <1>0, <1>3, <2>1 DEF StoreInv
<1>4. CASE SerializeFails
  <2>1. Age(store.id)' = 1
    BY <1>4 DEF SerializeFails, StoreInv, Age
  <2> QED
    BY <1>3, <1>4, <2>1 DEF SerializeFails
<1>5. ASSUME Take PROVE store'.id = counter /\ counter' = AfterId(counter)
  BY <1>5 DEF Take
<1>6. CASE Post
  <2>1. /\ stack # <<>> /\ store'.id = counter /\ counter' = AfterId(counter)
        /\ stack' = Front(stack) /\ begun' = begun
    BY <1>5, <1>6 DEF Post, Take
  <2>2. /\ Len(stack) \in Nat \ {0} /\ Len(stack') = Len(stack) - 1
        /\ \A i \in DOMAIN stack' : i \in DOMAIN stack /\ stack'[i] = stack[i]
    BY <2>1, FrameTyped
  <2>3. Age(store.id)' = 1
    BY <2>1, Renewed
  <2>4. ASSUME NEW i \in DOMAIN stack'
        PROVE  /\ AgeAt(stack'[i].id, counter') + Len(stack') <= 2 * begun'
               /\ OwnStore(i)'
    <3>1. /\ i \in DOMAIN stack /\ stack[i].id # counter
          /\ AgeAt(stack[i].id, counter') + Len(stack) <= 2 * begun + 1
      BY <2>1, <2>2, Renewed
    <3>2. AgeAt(stack[i].id, counter') \in Int
      <4>1. stack[i] \in Frames
        BY <1>0, <3>1, ElementOfSeq
      <4>2. stack[i].id \in Ids
        BY <4>1 DEF Frames
      <4>3. counter' \in Ids
        BY <1>0, <2>1, AfterIdTyped
      <4> QED
        BY <4>2, <4>3, Ages
    <3> QED
      BY <1>0, <2>1, <2>2, <3>1, <3>2 DEF OwnStore
  <2> QED
    BY <1>0, <2>1, <2>2, <2>3, <2>4 DEF StoreInv, Age
<1>7. CASE PostPanics
  <2>1. Age(store.id)' = 1
    BY <1>5, <1>7, Renewed DEF PostPanics
  <2> QED
    BY <1>3, <1>7, <2>1 DEF PostPanics
<1>8. CASE UNCHANGED vars
  BY <1>8 DEF vars, StoreInv, OwnStore, Age
<1> QED
  BY <1>1, <1>2, <1>4, <1>6, <1>7, <1>8, NextCases

LEMMA MessageInit == Init => MessageInv
<1> SUFFICES ASSUME Init PROVE MessageInv
  OBVIOUS
<1>1. message.fields = <<>> /\ message.data = <<>> /\ message.transfers = <<>>
  BY DEF Init
<1>2. [i \in DOMAIN <<>> |-> ToJs(<<>>[i])] = <<>>
  OBVIOUS
<1> QED
  BY <1>1, <1>2, ListedNothing DEF MessageInv

LEMMA MessageStep == Typed /\ StoreInv /\ MessageInv /\ [Next]_vars => MessageInv'
<1> SUFFICES ASSUME Typed, StoreInv, MessageInv, [Next]_vars PROVE MessageInv'
  OBVIOUS
<1>1. CASE Post
  <2>1. stack # <<>> /\ store.id = Frame.id /\ message' = Message
    BY <1>1 DEF Post, Take
  <2>2. Len(stack) \in DOMAIN stack /\ Frame = stack[Len(stack)]
    BY <2>1, FrameTyped
  <2>3. store.objects = Listed(Frame.fields)
    BY <2>1, <2>2 DEF StoreInv, OwnStore
  <2> QED
    BY <2>1, <2>3, MessageTyped DEF MessageInv
<1>2. ASSUME message' = message PROVE MessageInv'
  BY <1>2 DEF MessageInv
<1>3. CASE Begin \/ SerializeFails \/ PostPanics \/ UNCHANGED vars
  BY <1>2, <1>3 DEF Begin, SerializeFails, PostPanics, vars
<1>4. ASSUME NEW f \in Field, Serialize(f) PROVE MessageInv'
  BY <1>2, <1>4 DEF Serialize
<1> QED
  BY <1>1, <1>3, <1>4, NextCases

LEMMA MessageInvariant == Spec => [](Typed /\ MessageInv)
<1>1. Spec => []Typed
  BY TypedInit, TypedStep, PTL DEF Spec
<1>2. Spec => []StoreInv
  BY <1>1, StoreInit, StoreStep, PTL DEF Spec
<1>3. Spec => []MessageInv
  BY <1>1, <1>2, MessageInit, MessageStep, PTL DEF Spec
<1> QED
  BY <1>1, <1>3, PTL

-----------------------------------------------------------------------------
\* A message is posted with the objects of its own fields, whatever implements the
\* trait, however messages nest and wherever serializations fail: the check of the id
\* in serialize_to_worker_msg suffices.
THEOREM PostedWithOwnObjects == Spec => []OwnObjects
<1>1. MessageInv => OwnObjects
  BY DEF MessageInv, OwnObjects, Listed
<1> QED
  BY <1>1, MessageInvariant, PTL

\* What a message consists of, of fields that keep the law.
LEMMA FieldLawful ==
    ASSUME LawfulTypes, NEW f \in Field
    PROVE  /\ ToJs(f).objects \subseteq Range(Underlying(f))
           /\ Kept(f) => ToJs(f).objects = Range(Underlying(f)) /\ FromJs(f, ToJs(f)) = f.value
<1>1. f.type \in Types /\ f.value \in Impls[f.type].values
  BY FieldTyped
<1> QED
  BY <1>1 DEF LawfulTypes, Lawful, ToJs, Underlying, Kept, FromJs, Methods

\* Every object that is part of a message is transferred with it, and nothing else is
\* if JavaScript can tell the values apart (underlying_transfer_objects and to_js_value
\* of all its fields).
THEOREM PostedWithoutCopies ==
    ASSUME LawfulTypes
    PROVE  Spec => []NothingCopied
<1>1. Typed /\ MessageInv => NothingCopied
  <2> SUFFICES ASSUME Typed, MessageInv PROVE NothingCopied
    OBVIOUS
  <2> DEFINE fs == message.fields
  <2>1. fs \in Seq(Field) /\ \A i \in DOMAIN fs : fs[i] \in Field
    BY LenProperties, ElementOfSeq DEF Typed
  <2>2. DataObjects(message) = UNION {ToJs(fs[i]).objects : i \in DOMAIN fs}
    <3>1. message.data = [i \in DOMAIN fs |-> ToJs(fs[i])]
      BY DEF MessageInv
    <3> HIDE DEF fs
    <3> QED
      BY <3>1 DEF DataObjects
  <2>3. Range(message.transfers) = UNION {Range(Underlying(fs[i])) : i \in DOMAIN fs}
    BY <2>1, ListedElements DEF MessageInv
  <2>4. DataObjects(message) \subseteq Range(message.transfers)
    BY <2>1, <2>2, <2>3, FieldLawful
  <2>5. ASSUME \A i \in DOMAIN fs : Kept(fs[i])
        PROVE  DataObjects(message) = Range(message.transfers)
    <3>1. \A i \in DOMAIN fs : ToJs(fs[i]).objects = Range(Underlying(fs[i]))
      BY <2>1, <2>5, FieldLawful
    <3>2. UNION {ToJs(fs[i]).objects : i \in DOMAIN fs}
            = UNION {Range(Underlying(fs[i])) : i \in DOMAIN fs}
      BY <3>1
    <3> QED
      BY <2>2, <2>3, <3>2
  <2> QED
    BY <2>4, <2>5 DEF NothingCopied
<1> QED
  BY <1>1, MessageInvariant, PTL

\* deserialize makes of every field the value that was serialized (from_js_value after
\* to_js_value), for the values JavaScript can tell apart.
THEOREM PostedIntact ==
    ASSUME LawfulTypes
    PROVE  Spec => []Intact
<1>1. Typed /\ MessageInv => Intact
  <2> SUFFICES ASSUME Typed, MessageInv, NEW i \in DOMAIN message.fields,
                      Kept(message.fields[i])
               PROVE  FromJs(message.fields[i], message.data[i]) = message.fields[i].value
    BY DEF Intact
  <2>1. message.fields[i] \in Field
    BY LenProperties, ElementOfSeq DEF Typed
  <2>2. message.data[i] = ToJs(message.fields[i])
    BY DEF MessageInv
  <2> QED
    BY <2>1, <2>2, FieldLawful
<1> QED
  BY <1>1, MessageInvariant, PTL
=============================================================================
