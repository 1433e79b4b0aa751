-------------------------- MODULE RenderingProofs --------------------------
(***************************************************************************)
(* Proofs about the rendering of an object, for every configuration, every *)
(* object and any number of calls of Add.                                  *)
(***************************************************************************)
EXTENDS Rendering, FiniteSetTheorems, SequenceTheorems, TLAPS

\* The elements of a sequence.
Elements(s) == {s[j] : j \in 1..Len(s)}

\* A label that is resolved: cleaned names, without group, version and kind.
Label == Names \X (Texts \union Queries)

\* A label set as the set of its keys, each with its value.
Zip(keys, vals) == {<<keys[j], vals[j]>> : j \in 1..Len(vals)}
Entries(s) == Zip(s.keys, s.vals)

\* What a metric has in the end: its own entries, its family's, its store's.
Inherited(n) ==
  Entries(conf.metrics[n].set) \union Entries(conf.family.set) \union Entries(conf.store.set)

\* The labels of the first h label values of metric m.
LabelsUpTo(h) == UNION {LabelsAt(m, met[m].keys[j], met[m].vals[j]) : j \in 1..h}

\* LabelsFaithful and LabelsOrdered, of one sample.
SampleFaithful(x) ==
  Elements(x.labels) =
    LabelsOf(x.metric, conf.metrics[x.metric].set) \union LabelsOf(x.metric, conf.family.set)
      \union LabelsOf(x.metric, conf.store.set) \union Elements(GVK)

SampleOrdered(x) ==
  \A b \in 1..Len(x.labels) - Len(GVK) : \A a \in 1..b - 1 :
    LET y == x.labels[a][1]
        z == x.labels[b][1]
    IN Size[y] < Size[z] \/ (Size[y] = Size[z] /\ Alpha[y] <= Alpha[z])

SamplesGood ==
  /\ WellFormed => \A k \in 1..Len(out) : SampleFaithful(out[k])
  /\ \A k \in 1..Len(out) : SampleOrdered(out[k])

-----------------------------------------------------------------------------
(* The inductive invariant, in parts.                                      *)

\* Where rawFrom is.
Position ==
  /\ stage \in {"metric", "label", "write", "panic"} => m \in Metrics
  /\ stage = "idle" => m = 0 \/ m = Len(conf.metrics) + 1
  /\ labels \in Seq(Label) /\ line \in Seq(Label)
  /\ stage = "label" => i \in 1..(Len(met[m].vals) + 1) /\ line = <<>>
  /\ stage \in {"label", "write"} => ResolverOf(m) # "unknown"
  /\ m = 0 => out = <<>>

\* Inheritance keeps keys and values at the same places.
MatchedInv == WellFormed => Matched(fam) /\ \A n \in Metrics : Matched(met[n])

\* Inheritance leaves no value without a key where no level does.
KeyedInv ==
  Keyed(conf.store.set) /\ Keyed(conf.family.set) =>
    Keyed(fam) /\ \A n \in Metrics : Keyed(conf.metrics[n].set) => Keyed(met[n])

\* However often labels were inherited, no entry is lost and none is foreign.
EntriesInv ==
  WellFormed =>
    /\ Entries(conf.family.set) \subseteq Entries(fam)
    /\ Entries(fam) \subseteq Entries(conf.family.set) \union Entries(conf.store.set)
    /\ m > 0 => Entries(conf.store.set) \subseteq Entries(fam)
    /\ \A n \in Metrics : /\ Entries(conf.metrics[n].set) \subseteq Entries(met[n])
                          /\ Entries(met[n]) \subseteq Inherited(n)
    /\ stage \in {"label", "write"} => Entries(met[m]) = Inherited(m)

\* The labels that are resolved so far, and how they are written.
LabelsInv ==
  WellFormed =>
    /\ stage = "label" => Elements(labels) = LabelsUpTo(i - 1)
    /\ stage = "write" =>
         Elements(labels) \union Elements(line) = LabelsUpTo(Len(met[m].vals))

\* What is written is in order, and not after what is not written yet.
OrderInv ==
  stage = "write" =>
    /\ \A b \in 1..Len(line) : \A a \in 1..b - 1 : ~Before(line[b][1], line[a][1])
    /\ \A a \in 1..Len(line) : \A k \in 1..Len(labels) : ~Before(labels[k][1], line[a][1])

\* The samples are those of the usable metrics before m.
SamplesInv ==
  /\ stage = "write" =>
       LET r == Resolve(m, conf.metrics[m].value)
       IN conf.metrics[m].value \in DOMAIN r /\ value = r[conf.metrics[m].value]
  /\ {out[k].metric : k \in 1..Len(out)} = {n \in Metrics : n < m /\ Usable(n)}
  /\ \A b \in 1..Len(out) : \A a \in 1..b - 1 : out[a].metric < out[b].metric

RenderInv ==
  /\ TypeOK /\ Position /\ MatchedInv /\ EntriesInv /\ LabelsInv /\ OrderInv /\ SamplesInv
  /\ SamplesGood /\ PanicsOnlyMismatched /\ KeyedInv

-----------------------------------------------------------------------------
(* Lemmas on sequences and on the operators of the model.                  *)

\* The elements of two sequences together.
LEMMA ElementsConcat ==
  ASSUME NEW S, NEW s \in Seq(S), NEW t \in Seq(S)
  PROVE  Elements(s \o t) = Elements(s) \union Elements(t)
  <1>1. /\ Len(s \o t) = Len(s) + Len(t)
        /\ Len(s) \in Nat /\ Len(t) \in Nat
        /\ \A j \in 1..Len(s) : (s \o t)[j] = s[j]
        /\ \A j \in 1..Len(t) : (s \o t)[Len(s) + j] = t[j]
    OBVIOUS
  <1>2. ASSUME NEW k \in Elements(s \o t) PROVE k \in Elements(s) \union Elements(t)
    <2>1. PICK j \in 1..Len(s \o t) : k = (s \o t)[j]
      BY <1>2 DEF Elements
    <2>2. CASE j \in 1..Len(s)
      BY <1>1, <2>1, <2>2 DEF Elements
    <2>3. CASE j \notin 1..Len(s)
      <3>1. j - Len(s) \in 1..Len(t) /\ j = Len(s) + (j - Len(s))
        BY <1>1, <2>1, <2>3
      <3> QED
        BY <1>1, <2>1, <3>1 DEF Elements
    <2> QED
      BY <2>2, <2>3
  <1>3. ASSUME NEW k \in Elements(s) PROVE k \in Elements(s \o t)
    <2>1. PICK j \in 1..Len(s) : k = s[j]
      BY <1>3 DEF Elements
    <2>2. j \in 1..Len(s \o t) /\ (s \o t)[j] = k
      BY <1>1, <2>1
    <2> QED
      BY <2>2 DEF Elements
  <1>4. ASSUME NEW k \in Elements(t) PROVE k \in Elements(s \o t)
    <2>1. PICK j \in 1..Len(t) : k = t[j]
      BY <1>4 DEF Elements
    <2>2. Len(s) + j \in 1..Len(s \o t) /\ (s \o t)[Len(s) + j] = k
      BY <1>1, <2>1
    <2> QED
      BY <2>2 DEF Elements
  <1> QED
    BY <1>2, <1>3, <1>4

LEMMA ElementsAppend ==
  ASSUME NEW S, NEW s \in Seq(S), NEW x \in S
  PROVE  Append(s, x) \in Seq(S) /\ Elements(Append(s, x)) = Elements(s) \union {x}
  <1>1. /\ Append(s, x) \in Seq(S)
        /\ Len(s) \in Nat /\ Len(Append(s, x)) = Len(s) + 1
        /\ Append(s, x)[Len(s) + 1] = x
        /\ \A j \in 1..Len(s) : Append(s, x)[j] = s[j]
    OBVIOUS
  <1>2. 1..(Len(s) + 1) = 1..Len(s) \union {Len(s) + 1}
    BY <1>1
  <1> QED
    BY <1>1, <1>2 DEF Elements

\* A sequence without its j-th element.
LEMMA Without ==
  ASSUME NEW S, NEW s \in Seq(S), NEW j \in 1..Len(s)
  PROVE  LET t == SubSeq(s, 1, j - 1) \o SubSeq(s, j + 1, Len(s))
         IN /\ t \in Seq(S)
            /\ Elements(t) \union {s[j]} = Elements(s)
  <1> DEFINE a == SubSeq(s, 1, j - 1)
             b == SubSeq(s, j + 1, Len(s))
  <1>1. Len(s) \in Nat /\ j \in Nat /\ 1 <= j /\ j <= Len(s) /\ \A k \in 1..Len(s) : s[k] \in S
    OBVIOUS
  <1>2. /\ a \in Seq(S) /\ Len(a) = j - 1
        /\ \A k \in 1..j - 1 : a[k] = s[k]
    <2>1. \A k \in 1..j - 1 : s[k] \in S
      BY <1>1
    <2>2. /\ a \in Seq(S)
          /\ Len(a) = IF 1 <= j - 1 THEN j - 1 - 1 + 1 ELSE 0
          /\ \A k \in 1..(j - 1 - 1 + 1) : a[k] = s[1 + k - 1]
      BY <1>1, <2>1, SubSeqProperties
    <2> HIDE DEF a
    <2> QED
      BY <1>1, <2>2
  <1>3. /\ b \in Seq(S) /\ Len(b) = Len(s) - j
        /\ \A k \in 1..Len(s) - j : b[k] = s[j + k]
    <2>1. \A k \in j + 1..Len(s) : s[k] \in S
      BY <1>1
    <2>2. /\ b \in Seq(S)
          /\ Len(b) = IF j + 1 <= Len(s) THEN Len(s) - (j + 1) + 1 ELSE 0
          /\ \A k \in 1..(Len(s) - (j + 1) + 1) : b[k] = s[(j + 1) + k - 1]
      BY <1>1, <2>1, SubSeqProperties
    <2> HIDE DEF b
    <2> QED
      BY <1>1, <2>2
  <1> HIDE DEF a, b
  <1>4. a \o b \in Seq(S) /\ Elements(a \o b) = Elements(a) \union Elements(b)
    BY <1>2, <1>3, ElementsConcat
  <1>5. Elements(a) \union Elements(b) \union {s[j]} = Elements(s)
    <2>1. ASSUME NEW x \in Elements(a) \union Elements(b) PROVE x \in Elements(s)
      <3>1. CASE x \in Elements(a)
        BY <1>1, <1>2, <3>1 DEF Elements
      <3>2. CASE x \in Elements(b)
        <4>1. PICK k \in 1..Len(s) - j : x = s[j + k]
          BY <1>3, <3>2 DEF Elements
        <4>2. j + k \in 1..Len(s)
          BY <1>1, <4>1
        <4> QED
          BY <4>1, <4>2 DEF Elements
      <3> QED
        BY <2>1, <3>1, <3>2
    <2>2. ASSUME NEW x \in Elements(s), x # s[j] PROVE x \in Elements(a) \union Elements(b)
      <3>1. PICK k \in 1..Len(s) : x = s[k]
        BY <2>2 DEF Elements
      <3>2. CASE k < j
        <4>1. k \in 1..Len(a) /\ a[k] = x
          BY <1>1, <1>2, <3>1, <3>2
        <4> QED
          BY <4>1 DEF Elements
      <3>3. CASE k > j
        <4>1. k - j \in 1..Len(b) /\ j + (k - j) = k
          BY <1>1, <1>3, <3>1, <3>3
        <4>2. b[k - j] = x
          BY <1>3, <3>1, <4>1
        <4> QED
          BY <4>1, <4>2 DEF Elements
      <3> QED
        BY <1>1, <2>2, <3>1, <3>2, <3>3
    <2>3. s[j] \in Elements(s)
      BY DEF Elements
    <2> QED
      BY <2>1, <2>2, <2>3
  <1> QED
    BY <1>4, <1>5 DEF a, b

\* An order of a finite set has each of its elements.
LEMMA OrdersComplete ==
  ASSUME NEW S, IsFiniteSet(S), NEW q \in Orders(S)
  PROVE  q \in Seq(S) /\ Elements(q) = S
  <1> DEFINE n == Cardinality(S)
  <1>1. n \in Nat
    BY FS_CardinalityType
  <1>2. q \in [1..n -> S] /\ \A a, b \in 1..n : q[a] = q[b] => a = b
    BY DEF Orders
  <1>3. q \in Seq(S) /\ Len(q) = n
    BY <1>1, <1>2
  <1>4. q \in Injection(1..n, S)
    BY <1>2 DEF Injection, IsInjective
  <1>5. Cardinality(1..n) = n
    BY <1>1, FS_Interval
  <1>6. q \in Surjection(1..n, S)
    BY <1>1, <1>4, <1>5, FS_Injection
  <1> QED
    BY <1>2, <1>3, <1>6 DEF Surjection, Elements

\* The label sets of a configuration.
LEMMA Configured ==
  ASSUME TypeOK
  PROVE  /\ conf.store.set \in LabelSet /\ conf.family.set \in LabelSet
         /\ Len(conf.metrics) \in Nat
         /\ \A n \in Metrics : conf.metrics[n].set \in LabelSet /\ conf.metrics[n].value \in Queries
  <1>1. /\ conf.store.set \in LabelSet /\ conf.family.set \in LabelSet
        /\ conf.metrics \in Seq([resolver : STRING, set : LabelSet, value : Queries])
    BY ConfigsAssumption DEF TypeOK
  <1>2. ASSUME NEW n \in Metrics
        PROVE  conf.metrics[n].set \in LabelSet /\ conf.metrics[n].value \in Queries
    <2>1. conf.metrics[n] \in [resolver : STRING, set : LabelSet, value : Queries]
      BY <1>1, ElementOfSeq DEF Metrics
    <2> QED
      BY <2>1
  <1> QED
    BY <1>1, <1>2

\* The keys and values of a label set.
LEMMA SetParts ==
  ASSUME NEW s \in LabelSet PROVE s.keys \in Seq(Keys) /\ s.vals \in Seq(Queries)
  BY DEF LabelSet

\* Keys and values that are paired by their places.
LEMMA ZipConcat ==
  ASSUME NEW k1 \in Seq(Keys), NEW k2 \in Seq(Keys), NEW v1 \in Seq(Queries), NEW v2 \in Seq(Queries),
         Len(k1) = Len(v1), Len(k2) = Len(v2)
  PROVE  Zip(k1 \o k2, v1 \o v2) = Zip(k1, v1) \union Zip(k2, v2)
  <1> DEFINE ks == k1 \o k2
             vs == v1 \o v2
  <1>1. /\ \A j \in 1..Len(v1) : ks[j] = k1[j]
        /\ \A j \in 1..Len(v2) : ks[Len(v1) + j] = k2[j]
    OBVIOUS
  <1>2. /\ Len(vs) = Len(v1) + Len(v2) /\ Len(v1) \in Nat /\ Len(v2) \in Nat
        /\ \A j \in 1..Len(v1) : vs[j] = v1[j]
        /\ \A j \in 1..Len(v2) : vs[Len(v1) + j] = v2[j]
    OBVIOUS
  <1> HIDE DEF ks, vs
  <1>3. ASSUME NEW x \in Zip(ks, vs) PROVE x \in Zip(k1, v1) \union Zip(k2, v2)
    <2>1. PICK j \in 1..Len(vs) : x = <<ks[j], vs[j]>>
      BY <1>3 DEF Zip
    <2>2. CASE j \in 1..Len(v1)
      <3>1. x = <<k1[j], v1[j]>>
        BY <1>1, <1>2, <2>1, <2>2
      <3> QED
        BY <2>2, <3>1 DEF Zip
    <2>3. CASE j \notin 1..Len(v1)
      <3>1. j - Len(v1) \in 1..Len(v2) /\ Len(v1) + (j - Len(v1)) = j
        BY <1>2, <2>1, <2>3
      <3>2. x = <<k2[j - Len(v1)], v2[j - Len(v1)]>>
        BY <1>1, <1>2, <2>1, <3>1
      <3> QED
        BY <3>1, <3>2 DEF Zip
    <2> QED
      BY <2>2, <2>3
  <1>4. ASSUME NEW x \in Zip(k1, v1) PROVE x \in Zip(ks, vs)
    <2>1. PICK j \in 1..Len(v1) : x = <<k1[j], v1[j]>>
      BY <1>4 DEF Zip
    <2>2. j \in 1..Len(vs) /\ x = <<ks[j], vs[j]>>
      BY <1>1, <1>2, <2>1
    <2> QED
      BY <2>2 DEF Zip
  <1>5. ASSUME NEW x \in Zip(k2, v2) PROVE x \in Zip(ks, vs)
    <2>1. PICK j \in 1..Len(v2) : x = <<k2[j], v2[j]>>
      BY <1>5 DEF Zip
    <2>2. Len(v1) + j \in 1..Len(vs) /\ x = <<ks[Len(v1) + j], vs[Len(v1) + j]>>
      BY <1>1, <1>2, <2>1
    <2> QED
      BY <2>2 DEF Zip
  <1>6. Zip(ks, vs) = Zip(k1, v1) \union Zip(k2, v2)
    BY <1>3, <1>4, <1>5
  <1> QED
    BY <1>6 DEF ks, vs

\* Inheritance gives every value a key when both sides do.
LEMMA InheritKeyed ==
  ASSUME NEW a \in LabelSet, NEW b \in LabelSet, Keyed(a), Keyed(b)
  PROVE  Keyed(Inherit(a, b))
  <1>1. /\ a.keys \in Seq(Keys) /\ a.vals \in Seq(Queries)
        /\ b.keys \in Seq(Keys) /\ b.vals \in Seq(Queries)
    BY SetParts
  <1>2. /\ Len(a.keys \o b.keys) = Len(a.keys) + Len(b.keys)
        /\ Len(a.vals \o b.vals) = Len(a.vals) + Len(b.vals)
    BY <1>1, ConcatProperties
  <1>3. /\ Len(a.keys) \in Nat /\ Len(b.keys) \in Nat
        /\ Len(a.vals) \in Nat /\ Len(b.vals) \in Nat
    BY <1>1, LenProperties
  <1>4. Inherit(a, b).keys = a.keys \o b.keys /\ Inherit(a, b).vals = a.vals \o b.vals
    BY DEF Inherit
  <1>5. Len(a.vals) <= Len(a.keys) /\ Len(b.vals) <= Len(b.keys)
    BY DEF Keyed
  <1>6. \A p, q, r, t \in Nat : p <= q /\ r <= t => p + r <= q + t
    OBVIOUS
  <1>7. Len(a.vals \o b.vals) <= Len(a.keys \o b.keys)
    BY <1>2, <1>3, <1>5, <1>6, Zenon
  <1> QED
    BY <1>4, <1>7, Zenon DEF Keyed

\* Inheriting from a set that matches adds its entries and nothing else.
LEMMA InheritEntries ==
  ASSUME NEW a \in LabelSet, NEW b \in LabelSet
  PROVE  /\ Inherit(a, b) \in LabelSet
         /\ Matched(a) /\ Matched(b) =>
              Matched(Inherit(a, b)) /\ Entries(Inherit(a, b)) = Entries(a) \union Entries(b)
  <1>1. /\ a.keys \in Seq(Keys) /\ a.vals \in Seq(Queries)
        /\ b.keys \in Seq(Keys) /\ b.vals \in Seq(Queries)
    BY SetParts
  <1>2. /\ a.keys \o b.keys \in Seq(Keys) /\ Len(a.keys \o b.keys) = Len(a.keys) + Len(b.keys)
        /\ a.vals \o b.vals \in Seq(Queries) /\ Len(a.vals \o b.vals) = Len(a.vals) + Len(b.vals)
    BY <1>1, ConcatProperties
  <1>3. /\ Inherit(a, b).keys = a.keys \o b.keys
        /\ Inherit(a, b).vals = a.vals \o b.vals
    BY DEF Inherit
  <1>4. Inherit(a, b) \in LabelSet
    BY <1>2 DEF Inherit, LabelSet
  <1>5. ASSUME Matched(a), Matched(b)
        PROVE  Matched(Inherit(a, b)) /\ Entries(Inherit(a, b)) = Entries(a) \union Entries(b)
    <2>1. Len(a.keys) = Len(a.vals) /\ Len(b.keys) = Len(b.vals)
      BY <1>5 DEF Matched
    <2>2. Zip(a.keys \o b.keys, a.vals \o b.vals) = Zip(a.keys, a.vals) \union Zip(b.keys, b.vals)
      BY <1>1, <2>1, ZipConcat
    <2> QED
      BY <1>2, <1>3, <2>1, <2>2 DEF Matched, Entries
  <1> QED
    BY <1>4, <1>5

\* What a resolver answers: finitely many names, parts or the query, with texts.
LEMMA Resolved ==
  ASSUME TypeOK, NEW n, NEW q \in Queries
  PROVE  /\ IsFiniteSet(DOMAIN Resolve(n, q))
         /\ \A p \in DOMAIN Resolve(n, q) :
              p \in Parts \union {q} /\ Resolve(n, q)[p] \in Texts \union Queries
  <1> DEFINE f == obj[q]
  <1>1. f \in Field
    BY ConfigsAssumption DEF TypeOK
  <1> HIDE DEF f
  <1>2. ASSUME NEW v \in Texts \union Queries
        PROVE  /\ IsFiniteSet(DOMAIN Only(q, v))
               /\ \A p \in DOMAIN Only(q, v) :
                    p \in Parts \union {q} /\ Only(q, v)[p] \in Texts \union Queries
    BY FS_Singleton DEF Only
  <1>3. Printed \in Texts
    BY RenderingAssumption
  <1>4. f.kind \in {"scalar", "composite", "echo", "unsupported"}
    BY <1>1 DEF Field
  <1>5. f.kind = "scalar" => f.val \in Texts
    BY <1>1 DEF Field
  <1>6. ASSUME f.kind = "composite"
        PROVE  /\ DOMAIN f.parts \subseteq Parts
               /\ \A p \in DOMAIN f.parts : f.parts[p] # Skipped => f.parts[p] \in Texts
    <2>1. f.parts \in UNION {[P -> Texts \union {Skipped}] : P \in SUBSET Parts}
      BY <1>1, <1>6 DEF Field
    <2>2. PICK P \in SUBSET Parts : f.parts \in [P -> Texts \union {Skipped}]
      BY <2>1
    <2> QED
      BY <2>2
  <1>7. /\ IsFiniteSet(DOMAIN ResolveUnstructured(q, f))
        /\ \A p \in DOMAIN ResolveUnstructured(q, f) :
             p \in Parts \union {q} /\ ResolveUnstructured(q, f)[p] \in Texts \union Queries
    <2>1. PICK v \in Texts \union Queries : ResolveUnstructured(q, f) = Only(q, v)
      BY <1>3, <1>4, <1>5 DEF ResolveUnstructured
    <2> QED
      BY <1>2, <2>1
  <1>8. /\ IsFiniteSet(DOMAIN ResolveCEL(q, f))
        /\ \A p \in DOMAIN ResolveCEL(q, f) :
             p \in Parts \union {q} /\ ResolveCEL(q, f)[p] \in Texts \union Queries
    <2>1. CASE f.kind \in {"scalar", "echo"}
      <3>1. PICK v \in Texts \union Queries : ResolveCEL(q, f) = Only(q, v)
        BY <1>5, <2>1 DEF ResolveCEL
      <3> QED
        BY <1>2, <3>1
    <2>2. CASE f.kind = "composite"
      <3> DEFINE D == {x \in DOMAIN f.parts : f.parts[x] # Skipped}
      <3>1. ResolveCEL(q, f) = [p \in D |-> f.parts[p]]
        BY <2>2 DEF ResolveCEL
      <3>2. D \subseteq Parts /\ IsFiniteSet(D)
        BY <1>6, <2>2, FS_Subset, ConfigsAssumption
      <3> QED
        BY <1>6, <2>2, <3>1, <3>2
    <2>3. CASE f.kind = "unsupported"
      <3>1. ResolveCEL(q, f) = <<>>
        BY <2>3 DEF ResolveCEL
      <3>2. DOMAIN ResolveCEL(q, f) = {}
        BY <3>1
      <3> QED
        BY <3>2, FS_EmptySet
    <2> QED
      BY <1>4, <2>1, <2>2, <2>3
  <1> QED
    BY <1>7, <1>8 DEF Resolve, f

-----------------------------------------------------------------------------
(* What the steps of rawFrom have in common.                               *)

\* The configuration and the object determine what the labels have to be.
LEMMA Frame ==
  ASSUME UNCHANGED <<conf, obj>>
  PROVE  /\ WellFormed' <=> WellFormed
         /\ Metrics' = Metrics
         /\ \A n : ResolverOf(n)' = ResolverOf(n)
         /\ \A n, q : Resolve(n, q)' = Resolve(n, q)
         /\ \A n : Inherited(n)' = Inherited(n)
         /\ \A n : Usable(n)' <=> Usable(n)
         /\ \A n, k, q : LabelsAt(n, k, q)' = LabelsAt(n, k, q)
         /\ \A x : SampleFaithful(x)' <=> SampleFaithful(x)
  <1>1. \A n : ResolverOf(n)' = ResolverOf(n)
    BY DEF ResolverOf, FamilyResolver, StoreResolver
  <1>2. \A n, q : Resolve(n, q)' = Resolve(n, q)
    BY <1>1 DEF Resolve
  <1>3. (WellFormed' <=> WellFormed) /\ Metrics' = Metrics
    BY DEF WellFormed, Metrics
  <1>4. \A n : Inherited(n)' = Inherited(n)
    BY DEF Inherited
  <1>5. \A n : Usable(n)' <=> Usable(n)
    BY <1>1, <1>2 DEF Usable
  <1>6. \A n, k, q : LabelsAt(n, k, q)' = LabelsAt(n, k, q)
    BY <1>2 DEF LabelsAt
  <1>7. \A n, s : LabelsOf(n, s)' = LabelsOf(n, s)
    BY <1>6 DEF LabelsOf
  <1>8. \A x : SampleFaithful(x)' <=> SampleFaithful(x)
    BY <1>7 DEF SampleFaithful
  <1> QED
    BY <1>1, <1>2, <1>3, <1>4, <1>5, <1>6, <1>8

\* A resolved label may stand in a sample.
LEMMA LabelIsPair == ASSUME NEW s \in Seq(Label) PROVE s \in Seq(Pair)
  <1>1. Label \subseteq Pair
    BY DEF Label, Pair
  <1> QED
    BY <1>1

\* The labels of a label set are those of its entries.
LEMMA LabelsOfEntries ==
  ASSUME NEW n, NEW s
  PROVE  LabelsOf(n, s) = UNION {LabelsAt(n, e[1], e[2]) : e \in Entries(s)}
  <1>1. \A j : <<s.keys[j], s.vals[j]>>[1] = s.keys[j] /\ <<s.keys[j], s.vals[j]>>[2] = s.vals[j]
    OBVIOUS
  <1>2. ASSUME NEW x \in LabelsOf(n, s) PROVE \E e \in Entries(s) : x \in LabelsAt(n, e[1], e[2])
    <2>1. PICK j \in 1..Len(s.vals) : x \in LabelsAt(n, s.keys[j], s.vals[j])
      BY <1>2 DEF LabelsOf
    <2>2. <<s.keys[j], s.vals[j]>> \in Entries(s)
      BY DEF Entries, Zip
    <2> QED
      BY <1>1, <2>1, <2>2
  <1>3. ASSUME NEW e \in Entries(s), NEW x \in LabelsAt(n, e[1], e[2]) PROVE x \in LabelsOf(n, s)
    <2>1. PICK j \in 1..Len(s.vals) : e = <<s.keys[j], s.vals[j]>>
      BY <1>3 DEF Entries, Zip
    <2>2. x \in LabelsAt(n, s.keys[j], s.vals[j])
      BY <1>1, <1>3, <2>1
    <2> QED
      BY <2>2 DEF LabelsOf
  <1> QED
    BY <1>2, <1>3

\* Samples that stay are as good as they were.
LEMMA SamplesStay ==
  ASSUME RenderInv, UNCHANGED <<conf, obj, out>> PROVE SamplesGood'
  <1>1. \A x : SampleFaithful(x)' <=> SampleFaithful(x)
    BY Frame
  <1>2. WellFormed' <=> WellFormed
    BY Frame
  <1>3. WellFormed' => \A k \in 1..Len(out') : SampleFaithful(out[k])'
    BY <1>1, <1>2 DEF RenderInv, SamplesGood
  <1> QED
    BY <1>3 DEF RenderInv, SamplesGood, SampleOrdered

\* The loop over the metrics.
LEMMA Advance ==
  ASSUME TypeOK, m \in Metrics, NextMetric
  PROVE  /\ m' = m + 1 /\ m' \in Nat /\ m' # 0 /\ m' > 0
         /\ stage' \in {"idle", "metric"}
         /\ stage' = "metric" => m' \in Metrics
         /\ stage' = "idle" => m' = Len(conf.metrics) + 1
  <1>1. Len(conf.metrics) \in Nat
    BY Configured
  <1> QED
    BY <1>1 DEF NextMetric, Metrics

-----------------------------------------------------------------------------
(* The actions.                                                            *)

LEMMA AddInv ==
  ASSUME RenderInv, NEW o \in Objects, Add(o) PROVE RenderInv'
  <1> USE DEF RenderInv
  <1>1. /\ UNCHANGED <<conf, met, i, labels, line, value>>
        /\ stage = "idle" /\ calls > 0 /\ calls' = calls - 1
        /\ fam' = Inherit(fam, conf.store.set) /\ obj' = o /\ m' = 1 /\ out' = <<>>
        /\ stage' = IF conf.metrics = <<>> THEN "idle" ELSE "metric"
    BY DEF Add, sampleVars
  <1>2. conf.store.set \in LabelSet /\ Len(conf.metrics) \in Nat /\ fam \in LabelSet
    BY Configured DEF TypeOK
  <1>3. /\ fam' \in LabelSet
        /\ Matched(fam) /\ Matched(conf.store.set) =>
             Matched(fam') /\ Entries(fam') = Entries(fam) \union Entries(conf.store.set)
    BY <1>1, <1>2, InheritEntries
  <1>4. (WellFormed' <=> WellFormed) /\ Metrics' = Metrics
    BY <1>1 DEF WellFormed, Metrics
  <1>5. Len(out') = 0 /\ out' \in Seq([metric : Metrics, labels : Seq(Pair), value : Numbers])
    BY <1>1
  <1>6. TypeOK'
    BY <1>1, <1>3, <1>4, <1>5 DEF TypeOK
  <1>7. stage' = "metric" => 1 \in Metrics
    <2>1. conf.metrics \in Seq([resolver : STRING, set : LabelSet, value : Queries])
      BY ConfigsAssumption DEF TypeOK
    <2>2. conf.metrics # <<>> => Len(conf.metrics) > 0
      BY <2>1, EmptySeq
    <2> QED
      BY <1>1, <1>2, <2>2 DEF Metrics
  <1>8. stage' = "idle" => Len(conf.metrics) = 0
    BY <1>1
  <1>9. Position'
    BY <1>1, <1>2, <1>4, <1>7, <1>8 DEF Position
  <1>10. MatchedInv' /\ KeyedInv'
    <2>1. Keyed(fam) /\ Keyed(conf.store.set) => Keyed(fam')
      BY <1>1, <1>2, InheritKeyed
    <2>2. KeyedInv'
      BY <1>1, <1>4, <2>1 DEF KeyedInv
    <2> QED
      BY <1>1, <1>3, <1>4, <2>2 DEF MatchedInv, WellFormed
  <1>11. EntriesInv'
    <2> SUFFICES ASSUME WellFormed' PROVE EntriesInv'
      BY DEF EntriesInv
    <2>1. Entries(fam') = Entries(fam) \union Entries(conf.store.set)
      BY <1>3, <1>4 DEF MatchedInv, WellFormed
    <2>2. \A n : Inherited(n)' = Inherited(n)
      BY <1>1 DEF Inherited
    <2>3. stage' \notin {"label", "write"}
      BY <1>1
    <2> QED
      BY <1>1, <1>4, <2>1, <2>2, <2>3 DEF EntriesInv
  <1>12. LabelsInv' /\ OrderInv' /\ PanicsOnlyMismatched'
    BY <1>1 DEF LabelsInv, OrderInv, PanicsOnlyMismatched
  <1>13. SamplesInv'
    <2>1. {n \in Metrics : n < 1 /\ Usable(n)'} = {}
      BY DEF Metrics
    <2>2. stage' # "write"
      BY <1>1
    <2> QED
      BY <1>1, <1>4, <1>5, <2>1, <2>2 DEF SamplesInv
  <1>14. SamplesGood'
    BY <1>5 DEF SamplesGood
  <1> QED
    BY <1>6, <1>9, <1>10, <1>11, <1>12, <1>13, <1>14

\* rawFrom begins with a metric: it now has all the entries it inherits.
LEMMA BeginInv ==
  ASSUME RenderInv, BeginMetric PROVE RenderInv'
  <1> USE DEF RenderInv
  <1>1. /\ UNCHANGED <<conf, fam, calls, obj, value, out>>
        /\ stage = "metric" /\ i' = 1 /\ labels' = <<>> /\ line' = <<>>
        /\ met' = [met EXCEPT ![m] = Inherit(@, fam)]
    BY DEF BeginMetric
  <1>2. /\ m \in Metrics /\ met \in [Metrics -> LabelSet] /\ met[m] \in LabelSet /\ fam \in LabelSet
        /\ m > 0 /\ m \in Nat
    <2>1. m \in Metrics /\ met \in [Metrics -> LabelSet] /\ fam \in LabelSet /\ m \in Nat
      BY <1>1 DEF Position, TypeOK
    <2>2. m > 0
      BY <2>1 DEF Metrics
    <2> QED
      BY <2>1, <2>2
  <1>3. /\ Inherit(met[m], fam) \in LabelSet
        /\ Matched(met[m]) /\ Matched(fam) =>
             /\ Matched(Inherit(met[m], fam))
             /\ Entries(Inherit(met[m], fam)) = Entries(met[m]) \union Entries(fam)
    BY <1>2, InheritEntries
  <1>4. /\ met' \in [Metrics -> LabelSet]
        /\ met'[m] = Inherit(met[m], fam)
        /\ \A n \in Metrics \ {m} : met'[n] = met[n]
    BY <1>1, <1>2, <1>3
  <1>5. /\ WellFormed' <=> WellFormed
        /\ Metrics' = Metrics
        /\ \A n : ResolverOf(n)' = ResolverOf(n)
        /\ \A n : Inherited(n)' = Inherited(n)
        /\ \A n : Usable(n)' <=> Usable(n)
    BY <1>1, Frame
  <1>6. \/ ResolverOf(m) = "unknown" /\ NextMetric
        \/ ResolverOf(m) # "unknown" /\ stage' = "label" /\ m' = m
    BY DEF BeginMetric
  <1>7. /\ m' \in Nat /\ m' > 0 /\ stage' \in {"idle", "metric", "label"}
        /\ stage' \in {"metric", "label"} => m' \in Metrics
        /\ stage' = "idle" => m' = Len(conf.metrics) + 1
    BY <1>2, <1>6, Advance
  <1>8. stage' = "label" => m' = m /\ ResolverOf(m) # "unknown"
    BY <1>2, <1>6, Advance
  <1>9. TypeOK'
    BY <1>1, <1>4, <1>5, <1>7, EmptySeq DEF TypeOK
  <1>10. Position'
    <2>1. labels' \in Seq(Label) /\ line' \in Seq(Label)
      BY <1>1, EmptySeq
    <2>2. stage' = "label" => i' \in 1..(Len(met'[m'].vals) + 1) /\ line' = <<>>
      <3>1. Len(met'[m].vals) \in Nat
        BY <1>2, <1>4, SetParts
      <3> QED
        BY <1>1, <1>8, <3>1
    <2> QED
      BY <1>1, <1>5, <1>7, <1>8, <2>1, <2>2 DEF Position
  <1>11. MatchedInv' /\ KeyedInv'
    <2>1. Keyed(met[m]) /\ Keyed(fam) => Keyed(met'[m])
      BY <1>2, <1>4, InheritKeyed
    <2>2. KeyedInv'
      BY <1>1, <1>4, <1>5, <2>1 DEF KeyedInv
    <2> QED
      BY <1>1, <1>3, <1>4, <1>5, <2>2 DEF MatchedInv
  <1>12. EntriesInv'
    <2> SUFFICES ASSUME WellFormed PROVE EntriesInv'
      BY <1>5 DEF EntriesInv
    <2>1. Entries(met'[m]) = Entries(met[m]) \union Entries(fam)
      BY <1>2, <1>3, <1>4 DEF MatchedInv
    <2>2. Entries(met'[m]) = Inherited(m)
      BY <1>2, <2>1 DEF EntriesInv, Inherited
    <2>3. ASSUME NEW n \in Metrics
          PROVE  /\ Entries(conf.metrics[n].set) \subseteq Entries(met'[n])
                 /\ Entries(met'[n]) \subseteq Inherited(n)
      <3>1. CASE n = m
        BY <2>2, <3>1 DEF Inherited
      <3>2. CASE n # m
        BY <1>4, <3>2 DEF EntriesInv
      <3> QED
        BY <3>1, <3>2
    <2>4. stage' \in {"label", "write"} => Entries(met'[m']) = Inherited(m')
      BY <1>7, <1>8, <2>2
    <2> QED
      BY <1>1, <1>2, <1>5, <2>3, <2>4 DEF EntriesInv
  <1>13. LabelsInv'
    <2>1. Elements(labels') = {} /\ 1..(i' - 1) = {}
      BY <1>1 DEF Elements
    <2>2. LabelsUpTo(i - 1)' = {}
      BY <2>1 DEF LabelsUpTo
    <2> QED
      BY <1>7, <2>1, <2>2 DEF LabelsInv
  <1>14. OrderInv' /\ PanicsOnlyMismatched'
    BY <1>7 DEF OrderInv, PanicsOnlyMismatched
  <1>15. SamplesInv'
    <2>1. {n \in Metrics : n < m' /\ Usable(n)} = {n \in Metrics : n < m /\ Usable(n)}
      <3>1. CASE m' = m
        BY <3>1
      <3>2. CASE m' = m + 1 /\ ResolverOf(m) = "unknown"
        <4>1. ~Usable(m)
          BY <3>2 DEF Usable
        <4>2. \A n \in Metrics : n \in Nat /\ (n < m + 1 <=> n < m \/ n = m)
          BY <1>2 DEF Metrics
        <4> QED
          BY <3>2, <4>1, <4>2
      <3> QED
        BY <1>2, <1>6, <3>1, <3>2, Advance
    <2> QED
      BY <1>1, <1>5, <1>7, <2>1 DEF SamplesInv
  <1>16. SamplesGood'
    BY <1>1, SamplesStay
  <1> QED
    BY <1>9, <1>10, <1>11, <1>12, <1>13, <1>14, <1>15, <1>16

\* No key for a label value: only a configuration that does not match has that.
LEMMA PanicInv ==
  ASSUME RenderInv, LabelPanics PROVE RenderInv'
  <1> USE DEF RenderInv
  <1>1. /\ UNCHANGED <<conf, fam, met, calls, obj, m, i, labels, line, value, out>>
        /\ stage = "label" /\ stage' = "panic"
        /\ i <= Len(met[m].vals) /\ i > Len(met[m].keys)
    BY DEF LabelPanics, confVars, sampleVars
  <1>2. m \in Metrics /\ met[m] \in LabelSet /\ i \in Nat
    BY <1>1 DEF Position, TypeOK
  <1>3. Len(met[m].vals) \in Nat /\ Len(met[m].keys) \in Nat
    BY <1>2, SetParts
  <1>4. /\ ~WellFormed
        /\ ~(Keyed(conf.store.set) /\ Keyed(conf.family.set) /\ Keyed(conf.metrics[m].set))
    BY <1>1, <1>2, <1>3 DEF MatchedInv, Matched, KeyedInv, Keyed
  <1>5. /\ WellFormed' <=> WellFormed
        /\ Metrics' = Metrics
        /\ \A n : Usable(n)' <=> Usable(n)
    BY <1>1, Frame
  <1>6. TypeOK'
    BY <1>1, <1>5 DEF TypeOK
  <1>7. Position'
    BY <1>1, <1>5 DEF Position
  <1>8. MatchedInv' /\ KeyedInv' /\ EntriesInv' /\ LabelsInv' /\ OrderInv' /\ PanicsOnlyMismatched'
    BY <1>1, <1>4, <1>5
       DEF MatchedInv, KeyedInv, EntriesInv, LabelsInv, OrderInv, PanicsOnlyMismatched
  <1>9. SamplesInv'
    BY <1>1, <1>5 DEF SamplesInv
  <1> QED
    BY <1>1, <1>6, <1>7, <1>8, <1>9, SamplesStay

\* The labels of the i-th label value are appended, whatever the order.
LEMMA LabelAppended ==
  ASSUME RenderInv, ResolveLabel
  PROVE  /\ labels' \in Seq(Label)
         /\ Elements(labels') = Elements(labels) \union LabelsAt(m, met[m].keys[i], met[m].vals[i])
  <1> USE DEF RenderInv
  <1> DEFINE q == met[m].vals[i]
             r == Resolve(m, q)
             k == met[m].keys[i]
             D == DOMAIN r
             F(p) == <<LabelName(k, p), r[p]>>
  <1>1. /\ stage = "label" /\ i <= Len(met[m].vals)
        /\ D = {} \/ i <= Len(met[m].keys)
    BY DEF ResolveLabel
  <1>2. m \in Metrics /\ met[m] \in LabelSet /\ i \in 1..(Len(met[m].vals) + 1)
    BY <1>1 DEF Position, TypeOK
  <1>3. /\ met[m].keys \in Seq(Keys) /\ met[m].vals \in Seq(Queries)
        /\ Len(met[m].keys) \in Nat /\ Len(met[m].vals) \in Nat
    BY <1>2, SetParts
  <1>4. i \in 1..Len(met[m].vals) /\ (D # {} => i \in 1..Len(met[m].keys))
    BY <1>1, <1>2, <1>3
  <1>5. q \in Queries /\ (D # {} => k \in Keys)
    BY <1>3, <1>4, ElementOfSeq
  <1>6. /\ IsFiniteSet(D)
        /\ \A p \in D : p \in Parts \union {q} /\ r[p] \in Texts \union Queries
    BY <1>5, Resolved
  <1>7. labels \in Seq(Label)
    BY DEF Position
  <1>8. \/ q \in D /\ labels' = Append(labels, <<LabelName(k, Whole), r[q]>>)
        \/ /\ q \notin D
           /\ \E o \in Orders(D) : labels' = labels \o [j \in 1..Len(o) |-> F(o[j])]
    BY DEF ResolveLabel
  <1>9. LabelsAt(m, k, q) =
          IF q \in D THEN {<<LabelName(k, Whole), r[q]>>} ELSE {F(p) : p \in D}
    BY DEF LabelsAt, LabelName
  <1> HIDE DEF q, r, k, D
  <1>10. ASSUME q \in D, labels' = Append(labels, <<LabelName(k, Whole), r[q]>>)
         PROVE  /\ labels' \in Seq(Label)
                /\ Elements(labels') = Elements(labels) \union LabelsAt(m, k, q)
    <2>1. <<LabelName(k, Whole), r[q]>> \in Label
      BY <1>5, <1>6, <1>10, RenderingAssumption DEF LabelName, Label
    <2> QED
      BY <1>7, <1>9, <1>10, <2>1, ElementsAppend
  <1>11. ASSUME q \notin D, NEW o \in Orders(D), labels' = labels \o [j \in 1..Len(o) |-> F(o[j])]
         PROVE  /\ labels' \in Seq(Label)
                /\ Elements(labels') = Elements(labels) \union LabelsAt(m, k, q)
    <2> DEFINE t == [j \in 1..Len(o) |-> F(o[j])]
    <2>1. o \in Seq(D) /\ Elements(o) = D /\ Len(o) \in Nat
      BY <1>6, OrdersComplete
    <2>2. \A p \in D : F(p) \in Label
      BY <1>5, <1>6, <1>11, RenderingAssumption DEF LabelName, Label
    <2> HIDE DEF F
    <2>3. \A j \in 1..Len(o) : o[j] \in D
      BY <2>1, ElementOfSeq
    <2>4. t \in Seq(Label) /\ Len(t) = Len(o)
      BY <2>1, <2>2, <2>3
    <2>5. Elements(t) = {F(p) : p \in D}
      <3>1. \A j \in 1..Len(o) : t[j] = F(o[j])
        OBVIOUS
      <3> HIDE DEF t
      <3>2. \A p \in D : \E j \in 1..Len(o) : o[j] = p
        BY <2>1 DEF Elements
      <3> QED
        BY <2>3, <2>4, <3>1, <3>2 DEF Elements
    <2> HIDE DEF t
    <2>6. labels' = labels \o t
      BY <1>11 DEF t
    <2>7. labels' \in Seq(Label) /\ Elements(labels') = Elements(labels) \union Elements(t)
      BY <1>7, <2>4, <2>6, ElementsConcat, ConcatProperties
    <2> QED
      BY <1>9, <1>11, <2>5, <2>7
  <1>12. /\ labels' \in Seq(Label)
         /\ Elements(labels') = Elements(labels) \union LabelsAt(m, k, q)
    BY <1>8, <1>10, <1>11
  <1> QED
    BY <1>12 DEF k, q

LEMMA ResolveLabelInv ==
  ASSUME RenderInv, ResolveLabel PROVE RenderInv'
  <1> USE DEF RenderInv
  <1>1. /\ UNCHANGED <<conf, fam, met, calls, obj, stage, m, line, value, out>>
        /\ stage = "label" /\ i <= Len(met[m].vals) /\ i' = i + 1
    BY DEF ResolveLabel, confVars
  <1>2. /\ labels' \in Seq(Label)
        /\ Elements(labels') = Elements(labels) \union LabelsAt(m, met[m].keys[i], met[m].vals[i])
    BY LabelAppended
  <1>3. m \in Metrics /\ met[m] \in LabelSet /\ i \in 1..(Len(met[m].vals) + 1) /\ i \in Nat
    BY <1>1 DEF Position, TypeOK
  <1>4. Len(met[m].vals) \in Nat
    BY <1>3, SetParts
  <1>5. /\ WellFormed' <=> WellFormed
        /\ Metrics' = Metrics
        /\ \A n : ResolverOf(n)' = ResolverOf(n)
        /\ \A n : Inherited(n)' = Inherited(n)
        /\ \A n : Usable(n)' <=> Usable(n)
        /\ \A n, k, q : LabelsAt(n, k, q)' = LabelsAt(n, k, q)
    BY <1>1, Frame
  <1>6. TypeOK'
    <2>1. labels' \in Seq(Pair)
      BY <1>2, LabelIsPair
    <2> QED
      BY <1>1, <1>3, <1>5, <2>1 DEF TypeOK
  <1>7. Position'
    <2>1. i' \in 1..(Len(met[m].vals) + 1)
      BY <1>1, <1>3, <1>4
    <2> QED
      BY <1>1, <1>2, <1>5, <2>1 DEF Position
  <1>8. MatchedInv' /\ KeyedInv' /\ OrderInv' /\ PanicsOnlyMismatched'
    BY <1>1, <1>5 DEF MatchedInv, KeyedInv, OrderInv, PanicsOnlyMismatched
  <1>9. EntriesInv'
    BY <1>1, <1>5 DEF EntriesInv
  <1>10. LabelsInv'
    <2>1. 1..(i' - 1) = 1..(i - 1) \union {i}
      BY <1>1, <1>3
    <2>2. LabelsUpTo(i - 1)' =
            LabelsUpTo(i - 1) \union LabelsAt(m, met[m].keys[i], met[m].vals[i])
      <3>1. LabelsUpTo(i - 1)' =
              UNION {LabelsAt(m, met[m].keys[j], met[m].vals[j]) : j \in 1..(i' - 1)}
        BY <1>1, <1>5 DEF LabelsUpTo
      <3> QED
        BY <2>1, <3>1 DEF LabelsUpTo
    <2> QED
      BY <1>1, <1>2, <1>5, <2>2 DEF LabelsInv
  <1>11. SamplesInv'
    BY <1>1, <1>5 DEF SamplesInv
  <1> QED
    BY <1>1, <1>6, <1>7, <1>8, <1>9, <1>10, <1>11, SamplesStay

\* The value is found and the labels are written next, or the metric is skipped.
LEMMA ResolveValueInv ==
  ASSUME RenderInv, ResolveValue PROVE RenderInv'
  <1> USE DEF RenderInv
  <1> DEFINE q == conf.metrics[m].value
             r == Resolve(m, q)
  <1>1. /\ UNCHANGED <<conf, fam, met, calls, obj, i, labels, line, out>>
        /\ stage = "label" /\ i > Len(met[m].vals)
    BY DEF ResolveValue, confVars
  <1>2. \/ q \in DOMAIN r /\ value' = r[q] /\ stage' = "write" /\ m' = m
        \/ q \notin DOMAIN r /\ value' = value /\ NextMetric
    BY DEF ResolveValue
  <1>3. /\ m \in Metrics /\ met[m] \in LabelSet /\ i \in 1..(Len(met[m].vals) + 1)
        /\ line = <<>> /\ ResolverOf(m) # "unknown"
    BY <1>1 DEF Position, TypeOK
  <1>4. Len(met[m].vals) \in Nat /\ i - 1 = Len(met[m].vals)
    <2>1. Len(met[m].vals) \in Nat
      BY <1>3, SetParts
    <2> QED
      BY <1>1, <1>3, <2>1
  <1>5. q \in Queries
    BY <1>3, Configured
  <1>6. \A p \in DOMAIN r : r[p] \in Texts \union Queries
    BY <1>5, Resolved
  <1>7. /\ WellFormed' <=> WellFormed
        /\ Metrics' = Metrics
        /\ \A n : ResolverOf(n)' = ResolverOf(n)
        /\ \A n : Inherited(n)' = Inherited(n)
        /\ \A n : Usable(n)' <=> Usable(n)
        /\ \A n, k, x : LabelsAt(n, k, x)' = LabelsAt(n, k, x)
        /\ \A n, x : Resolve(n, x)' = Resolve(n, x)
    BY <1>1, Frame
  <1>8. m \in Nat /\ m > 0 /\ value \in Texts \union Queries
    <2>1. value \in Texts \union Queries
      BY DEF TypeOK
    <2>2. m \in Nat /\ m > 0
      BY <1>3 DEF Metrics
    <2> QED
      BY <2>1, <2>2
  <1>9. ~Usable(m) \/ q \in DOMAIN r
    BY DEF Usable
  <1>10. /\ m' \in Nat /\ m' > 0 /\ stage' \in {"idle", "metric", "write"}
         /\ stage' \in {"metric", "write"} => m' \in Metrics
         /\ stage' = "idle" => m' = Len(conf.metrics) + 1
         /\ value' \in Texts \union Queries
         /\ stage' = "write" => m' = m /\ q \in DOMAIN r /\ value' = r[q]
         /\ m' = m \/ (m' = m + 1 /\ ~Usable(m))
    BY <1>2, <1>3, <1>6, <1>8, <1>9, Advance
  <1> HIDE DEF r
  <1>11. TypeOK'
    BY <1>1, <1>7, <1>10 DEF TypeOK
  <1>12. Position'
    BY <1>1, <1>3, <1>7, <1>10 DEF Position
  <1>13. MatchedInv' /\ KeyedInv' /\ PanicsOnlyMismatched'
    BY <1>1, <1>7, <1>10 DEF MatchedInv, KeyedInv, PanicsOnlyMismatched
  <1>14. EntriesInv'
    BY <1>1, <1>7, <1>8, <1>10 DEF EntriesInv
  <1>15. LabelsInv'
    <2> SUFFICES ASSUME WellFormed, stage' = "write"
                 PROVE  Elements(labels') \union Elements(line') = LabelsUpTo(Len(met[m].vals))'
      BY <1>7, <1>10 DEF LabelsInv
    <2>1. Elements(line') = {}
      BY <1>1, <1>3 DEF Elements
    <2>2. Elements(labels) = LabelsUpTo(Len(met[m].vals))
      BY <1>1, <1>4 DEF LabelsInv
    <2>3. LabelsUpTo(Len(met[m].vals))' = LabelsUpTo(Len(met[m].vals))
      BY <1>1, <1>7, <1>10 DEF LabelsUpTo
    <2> QED
      BY <1>1, <2>1, <2>2, <2>3
  <1>16. OrderInv'
    <2>1. Len(line') = 0
      BY <1>1, <1>3
    <2> QED
      BY <2>1 DEF OrderInv
  <1>17. SamplesInv'
    <2>1. {n \in Metrics : n < m' /\ Usable(n)} = {n \in Metrics : n < m /\ Usable(n)}
      <3>1. \A n \in Metrics : n \in Nat /\ (n < m + 1 <=> n < m \/ n = m)
        BY <1>8 DEF Metrics
      <3> QED
        BY <1>10, <3>1
    <2>2. stage' = "write" =>
            /\ conf.metrics[m'].value \in DOMAIN Resolve(m', conf.metrics[m'].value)
            /\ value' = Resolve(m', conf.metrics[m'].value)[conf.metrics[m'].value]
      BY <1>10 DEF r
    <2> QED
      BY <1>1, <1>7, <2>1, <2>2 DEF SamplesInv
  <1> QED
    BY <1>1, <1>11, <1>12, <1>13, <1>14, <1>15, <1>16, <1>17, SamplesStay

\* The least label that is left is written next.
LEMMA WriteLabelInv ==
  ASSUME RenderInv, WriteLabel PROVE RenderInv'
  <1> USE DEF RenderInv
  <1>1. /\ UNCHANGED <<conf, fam, met, calls, obj, stage, m, i, value, out>>
        /\ stage = "write"
    BY DEF WriteLabel, confVars
  <1>2. PICK j \in 1..Len(labels) :
          /\ \A k \in 1..Len(labels) : ~Before(labels[k][1], labels[j][1])
          /\ line' = Append(line, labels[j])
          /\ labels' = SubSeq(labels, 1, j - 1) \o SubSeq(labels, j + 1, Len(labels))
    BY DEF WriteLabel
  <1>3. labels \in Seq(Label) /\ line \in Seq(Label) /\ labels[j] \in Label
    BY ElementOfSeq DEF Position
  <1>4. labels' \in Seq(Label) /\ Elements(labels') \union {labels[j]} = Elements(labels)
    BY <1>2, <1>3, Without
  <1>5. /\ line' \in Seq(Label) /\ Elements(line') = Elements(line) \union {labels[j]}
        /\ Len(line) \in Nat /\ Len(line') = Len(line) + 1 /\ line'[Len(line) + 1] = labels[j]
        /\ \A a \in 1..Len(line) : line'[a] = line[a]
    <2>1. line' \in Seq(Label) /\ Elements(line') = Elements(line) \union {labels[j]}
      BY <1>2, <1>3, ElementsAppend
    <2> QED
      BY <1>2, <1>3, <2>1, AppendProperties
  <1>6. /\ WellFormed' <=> WellFormed
        /\ Metrics' = Metrics
        /\ \A n : ResolverOf(n)' = ResolverOf(n)
        /\ \A n : Inherited(n)' = Inherited(n)
        /\ \A n : Usable(n)' <=> Usable(n)
        /\ \A n, k, q : LabelsAt(n, k, q)' = LabelsAt(n, k, q)
        /\ \A n, q : Resolve(n, q)' = Resolve(n, q)
    BY <1>1, Frame
  <1>7. TypeOK'
    <2>1. labels' \in Seq(Pair) /\ line' \in Seq(Pair)
      BY <1>4, <1>5, LabelIsPair
    <2> QED
      BY <1>1, <1>6, <2>1 DEF TypeOK
  <1>8. Position'
    BY <1>1, <1>4, <1>5, <1>6 DEF Position
  <1>9. MatchedInv' /\ KeyedInv' /\ PanicsOnlyMismatched' /\ EntriesInv'
    BY <1>1, <1>6 DEF MatchedInv, KeyedInv, PanicsOnlyMismatched, EntriesInv
  <1>10. LabelsInv'
    <2>1. LabelsUpTo(Len(met[m].vals))' = LabelsUpTo(Len(met[m].vals))
      BY <1>1, <1>6 DEF LabelsUpTo
    <2>2. Elements(labels') \union Elements(line') = Elements(labels) \union Elements(line)
      BY <1>4, <1>5
    <2> QED
      BY <1>1, <1>6, <2>1, <2>2 DEF LabelsInv
  <1>11. OrderInv'
    <2>1. ASSUME NEW b \in 1..Len(line'), NEW a \in 1..b - 1
          PROVE  ~Before(line'[b][1], line'[a][1])
      <3>1. a \in 1..Len(line) /\ line'[a] = line[a]
        BY <1>5
      <3>2. CASE b \in 1..Len(line)
        BY <1>1, <1>5, <3>1, <3>2 DEF OrderInv
      <3>3. CASE b = Len(line) + 1
        BY <1>1, <1>5, <3>1, <3>3 DEF OrderInv
      <3> QED
        BY <1>5, <3>2, <3>3
    <2>2. ASSUME NEW a \in 1..Len(line'), NEW k \in 1..Len(labels')
          PROVE  ~Before(labels'[k][1], line'[a][1])
      <3>1. PICK l \in 1..Len(labels) : labels'[k] = labels[l]
        <4>1. labels'[k] \in Elements(labels')
          BY DEF Elements
        <4>2. labels'[k] \in Elements(labels)
          BY <1>4, <4>1
        <4> QED
          BY <4>2 DEF Elements
      <3>2. CASE a \in 1..Len(line)
        BY <1>1, <1>5, <3>1, <3>2 DEF OrderInv
      <3>3. CASE a = Len(line) + 1
        BY <1>2, <1>5, <3>1, <3>3
      <3> QED
        BY <1>5, <3>2, <3>3
    <2> QED
      BY <2>1, <2>2 DEF OrderInv, Before
  <1>12. SamplesInv'
    BY <1>1, <1>6 DEF SamplesInv
  <1> QED
    BY <1>1, <1>7, <1>8, <1>9, <1>10, <1>11, <1>12, SamplesStay

\* The sample that is written has the labels of its metric, in order.
LEMMA SampleWritten ==
  ASSUME RenderInv, stage = "write", labels = <<>>
  PROVE  LET x == [metric |-> m, labels |-> line \o GVK, value |-> value]
         IN /\ WellFormed => SampleFaithful(x)
            /\ SampleOrdered(x)
            /\ line \o GVK \in Seq(Pair)
  <1> USE DEF RenderInv
  <1> DEFINE s == line \o GVK
             x == [metric |-> m, labels |-> s, value |-> value]
  <1>1. line \in Seq(Label) /\ line \in Seq(Pair) /\ GVK \in Seq(Pair) /\ m \in Metrics
    BY LabelIsPair, ConfigsAssumption DEF Position
  <1>2. /\ s \in Seq(Pair) /\ Elements(s) = Elements(line) \union Elements(GVK)
        /\ Len(s) = Len(line) + Len(GVK) /\ Len(line) \in Nat /\ Len(GVK) \in Nat
        /\ \A a \in 1..Len(line) : s[a] = line[a]
    <2>1. Elements(s) = Elements(line) \union Elements(GVK)
      BY <1>1, ElementsConcat
    <2> QED
      BY <1>1, <2>1
  <1> HIDE DEF s
  <1>3. x.metric = m /\ x.labels = s
    OBVIOUS
  <1> HIDE DEF x
  <1>4. ASSUME WellFormed PROVE SampleFaithful(x)
    <2>1. Elements(labels) = {}
      BY DEF Elements
    <2>2. Elements(line) = LabelsUpTo(Len(met[m].vals))
      BY <1>4, <2>1 DEF LabelsInv
    <2>3. LabelsUpTo(Len(met[m].vals)) = LabelsOf(m, met[m])
      BY DEF LabelsUpTo, LabelsOf
    <2>4. Entries(met[m]) =
            Entries(conf.metrics[m].set) \union Entries(conf.family.set)
              \union Entries(conf.store.set)
      BY <1>4 DEF EntriesInv, Inherited
    <2>5. \A t : LabelsOf(m, t) = UNION {LabelsAt(m, e[1], e[2]) : e \in Entries(t)}
      BY LabelsOfEntries
    <2>6. LabelsOf(m, met[m]) =
            LabelsOf(m, conf.metrics[m].set) \union LabelsOf(m, conf.family.set)
              \union LabelsOf(m, conf.store.set)
      BY <2>4, <2>5
    <2> QED
      BY <1>2, <1>3, <2>2, <2>3, <2>6 DEF SampleFaithful
  <1>5. SampleOrdered(x)
    <2> SUFFICES ASSUME NEW b \in 1..Len(s) - Len(GVK), NEW a \in 1..b - 1
                 PROVE  \/ Size[s[a][1]] < Size[s[b][1]]
                        \/ Size[s[a][1]] = Size[s[b][1]] /\ Alpha[s[a][1]] <= Alpha[s[b][1]]
      BY <1>3 DEF SampleOrdered
    <2>1. b \in 1..Len(line) /\ a \in 1..Len(line)
      BY <1>2
    <2>2. line[a] \in Label /\ line[b] \in Label
      BY <1>1, <2>1, ElementOfSeq
    <2>3. line[a][1] \in Names /\ line[b][1] \in Names
      BY <2>2 DEF Label
    <2>4. /\ Size[line[a][1]] \in Nat /\ Size[line[b][1]] \in Nat
          /\ Alpha[line[a][1]] \in Nat /\ Alpha[line[b][1]] \in Nat
      BY <2>3, RenderingAssumption
    <2>5. ~Before(line[b][1], line[a][1])
      BY <2>1 DEF OrderInv
    <2> QED
      BY <1>2, <2>1, <2>4, <2>5, SMTT(30) DEF Before
  <1> QED
    BY <1>2, <1>4, <1>5 DEF s, x

\* The sample of a usable metric, or nothing of one that is not.
LEMMA WriteValueInv ==
  ASSUME RenderInv, WriteValue PROVE RenderInv'
  <1> USE DEF RenderInv
  <1> DEFINE s == line \o GVK
             x == [metric |-> m, labels |-> s, value |-> value]
             q == conf.metrics[m].value
  <1>1. /\ UNCHANGED <<conf, fam, met, calls, obj, i, labels, line, value>>
        /\ stage = "write" /\ labels = <<>> /\ NextMetric
    BY DEF WriteValue, confVars, sampleVars
  <1>2. \/ value \in Numbers /\ out' = Append(out, x)
        \/ value \notin Numbers /\ out' = out
    BY DEF WriteValue
  <1>3. m \in Metrics /\ ResolverOf(m) # "unknown"
    BY <1>1 DEF Position
  <1>4. m \in Nat /\ m > 0
    BY <1>3 DEF Metrics
  <1>5. /\ m' = m + 1 /\ m' \in Nat /\ m' > 0 /\ m' # 0
        /\ stage' \in {"idle", "metric"}
        /\ stage' = "metric" => m' \in Metrics
        /\ stage' = "idle" => m' = Len(conf.metrics) + 1
    BY <1>1, <1>3, Advance
  <1>6. /\ WellFormed' <=> WellFormed
        /\ Metrics' = Metrics
        /\ \A n : Inherited(n)' = Inherited(n)
        /\ \A n : Usable(n)' <=> Usable(n)
        /\ \A y : SampleFaithful(y)' <=> SampleFaithful(y)
    BY <1>1, Frame
  <1>7. Usable(m) <=> value \in Numbers
    BY <1>1, <1>3 DEF Usable, SamplesInv
  <1>8. /\ WellFormed => SampleFaithful(x)
        /\ SampleOrdered(x)
        /\ s \in Seq(Pair)
    BY <1>1, SampleWritten
  <1> HIDE DEF s
  <1>9. out \in Seq([metric : Metrics, labels : Seq(Pair), value : Numbers]) /\ x.metric = m
    BY DEF TypeOK
  <1>10. value \in Numbers => x \in [metric : Metrics, labels : Seq(Pair), value : Numbers]
    BY <1>3, <1>8
  <1> HIDE DEF x
  <1>11. out' \in Seq([metric : Metrics, labels : Seq(Pair), value : Numbers])
    <2>1. CASE value \in Numbers
      <3> DEFINE R == [metric : Metrics, labels : Seq(Pair), value : Numbers]
      <3>1. out \in Seq(R) /\ x \in R /\ out' = Append(out, x)
        BY <1>2, <1>9, <1>10, <2>1
      <3> HIDE DEF R
      <3>2. out' \in Seq(R)
        BY <3>1
      <3> QED
        BY <3>2 DEF R
    <2>2. CASE value \notin Numbers
      BY <1>2, <1>9, <2>2
    <2> QED
      BY <2>1, <2>2
  <1>12. value \in Numbers =>
           /\ Len(out) \in Nat /\ Len(out') = Len(out) + 1 /\ out'[Len(out) + 1] = x
           /\ \A k \in 1..Len(out) : out'[k] = out[k]
    BY <1>2, <1>9, <1>10, AppendProperties
  <1>13. TypeOK'
    BY <1>1, <1>5, <1>6, <1>11 DEF TypeOK
  <1>14. Position'
    BY <1>1, <1>5, <1>6 DEF Position
  <1>15. MatchedInv' /\ KeyedInv' /\ LabelsInv' /\ OrderInv' /\ PanicsOnlyMismatched'
    BY <1>1, <1>5, <1>6 DEF MatchedInv, KeyedInv, LabelsInv, OrderInv, PanicsOnlyMismatched
  <1>16. EntriesInv'
    BY <1>1, <1>4, <1>5, <1>6 DEF EntriesInv
  <1>17. \A n \in Metrics : n \in Nat /\ (n < m' <=> n < m \/ n = m)
    BY <1>4, <1>5 DEF Metrics
  <1>18. CASE value \notin Numbers
    <2>1. {n \in Metrics : n < m' /\ Usable(n)} = {n \in Metrics : n < m /\ Usable(n)}
      BY <1>7, <1>17, <1>18
    <2>2. SamplesInv'
      BY <1>2, <1>5, <1>6, <1>18, <2>1 DEF SamplesInv
    <2> QED
      BY <1>1, <1>2, <1>13, <1>14, <1>15, <1>16, <1>18, <2>2, SamplesStay
  <1>19. CASE value \in Numbers
    <2>1. /\ Len(out) \in Nat /\ Len(out') = Len(out) + 1 /\ out'[Len(out) + 1] = x
          /\ \A k \in 1..Len(out) : out'[k] = out[k]
          /\ 1..Len(out') = 1..Len(out) \union {Len(out) + 1}
      BY <1>12, <1>19
    <2>2. {n \in Metrics : n < m' /\ Usable(n)} = {n \in Metrics : n < m /\ Usable(n)} \union {m}
      BY <1>3, <1>7, <1>17, <1>19
    <2>3. {out'[k].metric : k \in 1..Len(out')} = {out[k].metric : k \in 1..Len(out)} \union {m}
      BY <1>9, <2>1
    <2>4. \A k \in 1..Len(out) : out[k].metric < m
      BY DEF SamplesInv
    <2>5. ASSUME NEW b \in 1..Len(out'), NEW a \in 1..b - 1 PROVE out'[a].metric < out'[b].metric
      <3>1. a \in 1..Len(out) /\ out'[a] = out[a]
        BY <2>1
      <3>2. CASE b \in 1..Len(out)
        BY <2>1, <3>1, <3>2 DEF SamplesInv
      <3>3. CASE b = Len(out) + 1
        BY <1>9, <2>1, <2>4, <3>1, <3>3
      <3> QED
        BY <2>1, <3>2, <3>3
    <2>6. SamplesInv'
      BY <1>5, <1>6, <2>2, <2>3, <2>5 DEF SamplesInv
    <2>7. ASSUME NEW k \in 1..Len(out')
          PROVE  (WellFormed => SampleFaithful(out'[k])) /\ SampleOrdered(out'[k])
      <3>1. CASE k \in 1..Len(out)
        BY <2>1, <3>1 DEF SamplesGood
      <3>2. CASE k = Len(out) + 1
        BY <1>8, <2>1, <3>2
      <3> QED
        BY <2>1, <3>1, <3>2
    <2>8. SamplesGood'
      BY <1>6, <2>7 DEF SamplesGood, SampleOrdered
    <2> QED
      BY <1>13, <1>14, <1>15, <1>16, <2>6, <2>8
  <1> QED
    BY <1>18, <1>19

-----------------------------------------------------------------------------
(* The theorems.                                                           *)

LEMMA RenderInit == Init => RenderInv
  <1> SUFFICES ASSUME Init PROVE RenderInv
    OBVIOUS
  <1>1. /\ conf \in Configs /\ fam = conf.family.set /\ met = [n \in Metrics |-> conf.metrics[n].set]
        /\ obj \in Objects /\ stage = "idle" /\ m = 0 /\ i = 0 /\ labels = <<>> /\ line = <<>>
        /\ value = Printed /\ out = <<>> /\ calls = MaxCalls
    BY DEF Init
  <1>2. /\ conf.store.set \in LabelSet /\ conf.family.set \in LabelSet
        /\ conf.metrics \in Seq([resolver : STRING, set : LabelSet, value : Queries])
    BY <1>1, ConfigsAssumption
  <1>3. ASSUME NEW n \in Metrics PROVE conf.metrics[n].set \in LabelSet
    <2>1. conf.metrics[n] \in [resolver : STRING, set : LabelSet, value : Queries]
      BY <1>2, ElementOfSeq DEF Metrics
    <2> QED
      BY <2>1
  <1>4. met \in [Metrics -> LabelSet] /\ \A n \in Metrics : met[n] = conf.metrics[n].set
    BY <1>1, <1>3
  <1>5. TypeOK
    BY <1>1, <1>2, <1>4, RenderingAssumption, EmptySeq DEF TypeOK
  <1>6. Position
    BY <1>1, EmptySeq DEF Position
  <1>7. MatchedInv /\ KeyedInv
    BY <1>1, <1>4 DEF MatchedInv, WellFormed, KeyedInv
  <1>8. EntriesInv
    BY <1>1, <1>4 DEF EntriesInv, Inherited
  <1>9. LabelsInv /\ OrderInv /\ PanicsOnlyMismatched
    BY <1>1 DEF LabelsInv, OrderInv, PanicsOnlyMismatched
  <1>10. Len(out) = 0
    BY <1>1
  <1>11. {n \in Metrics : n < 0 /\ Usable(n)} = {}
    BY DEF Metrics
  <1>12. SamplesInv /\ SamplesGood
    BY <1>1, <1>10, <1>11 DEF SamplesInv, SamplesGood
  <1> QED
    BY <1>5, <1>6, <1>7, <1>8, <1>9, <1>12 DEF RenderInv

LEMMA RenderStutter ==
  ASSUME RenderInv, UNCHANGED vars PROVE RenderInv'
  <1> USE DEF RenderInv
  <1>1. UNCHANGED <<conf, fam, met, calls, obj, stage, m, i, labels, line, value, out>>
    BY DEF vars, confVars, sampleVars
  <1>2. /\ WellFormed' <=> WellFormed
        /\ Metrics' = Metrics
        /\ \A n : ResolverOf(n)' = ResolverOf(n)
        /\ \A n : Inherited(n)' = Inherited(n)
        /\ \A n : Usable(n)' <=> Usable(n)
        /\ \A n, k, q : LabelsAt(n, k, q)' = LabelsAt(n, k, q)
        /\ \A n, q : Resolve(n, q)' = Resolve(n, q)
    BY <1>1, Frame
  <1>3. TypeOK' /\ Position'
    BY <1>1, <1>2 DEF TypeOK, Position
  <1>4. MatchedInv' /\ KeyedInv' /\ EntriesInv' /\ OrderInv' /\ PanicsOnlyMismatched'
    BY <1>1, <1>2 DEF MatchedInv, KeyedInv, EntriesInv, OrderInv, PanicsOnlyMismatched
  <1>5. LabelsInv'
    BY <1>1, <1>2 DEF LabelsInv, LabelsUpTo
  <1>6. SamplesInv'
    BY <1>1, <1>2 DEF SamplesInv
  <1> QED
    BY <1>1, <1>3, <1>4, <1>5, <1>6, SamplesStay

LEMMA RenderNext == RenderInv /\ [Next]_vars => RenderInv'
  BY AddInv, BeginInv, ResolveLabelInv, PanicInv, ResolveValueInv, WriteLabelInv, WriteValueInv,
     RenderStutter DEF Next

\* The inductive invariant holds at every step of every call of Add.
THEOREM RenderInvariant == Spec => []RenderInv
  BY RenderInit, RenderNext, PTL DEF Spec

\* Type correctness: in particular, no sample without a number leaves rawFrom.
THEOREM RenderTypeCorrect == Spec => []TypeOK
  <1>1. RenderInv => TypeOK
    BY DEF RenderInv
  <1> QED
    BY <1>1, RenderInvariant, PTL

\* A sample has the labels of its metric, its family and its store, each value
\* under its own key, however often Add and rawFrom have appended them.
THEOREM RenderLabelsFaithful == Spec => []LabelsFaithful
  <1>1. RenderInv => LabelsFaithful
    BY DEF RenderInv, SamplesGood, SampleFaithful, LabelsFaithful, Elements
  <1> QED
    BY <1>1, RenderInvariant, PTL

\* After Add there is one sample for each usable metric, in the order of the
\* configuration: a metric that is skipped costs no other its sample.
THEOREM RenderOneSampleEach == Spec => []OneSampleEach
  <1>1. RenderInv => OneSampleEach
    <2> SUFFICES ASSUME RenderInv, stage = "idle", m > 0
                 PROVE  {out[k].metric : k \in 1..Len(out)} = {n \in Metrics : Usable(n)}
      BY DEF OneSampleEach, RenderInv, SamplesInv
    <2>1. m = Len(conf.metrics) + 1 /\ Len(conf.metrics) \in Nat
      BY Configured DEF RenderInv, Position
    <2>2. \A n \in Metrics : n < m
      BY <2>1 DEF Metrics
    <2> QED
      BY <2>2 DEF RenderInv, SamplesInv
  <1> QED
    BY <1>1, RenderInvariant, PTL

\* Labels are written by length, then by name, whatever the order in which a
\* range over a map gave them (sortLabelset).
THEOREM RenderLabelsOrdered == Spec => []LabelsOrdered
  <1>1. RenderInv => LabelsOrdered
    BY DEF RenderInv, SamplesGood, SampleOrdered, LabelsOrdered
  <1> QED
    BY <1>1, RenderInvariant, PTL

\* rawFrom indexes the keys out of range only when the metric, its family or its
\* store has fewer keys than values.
THEOREM RenderPanicsOnlyMismatched == Spec => []PanicsOnlyMismatched
  <1>1. RenderInv => PanicsOnlyMismatched
    BY DEF RenderInv
  <1> QED
    BY <1>1, RenderInvariant, PTL
=============================================================================
