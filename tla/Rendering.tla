------------------------------ MODULE Rendering ------------------------------
(***************************************************************************)
(* How a store renders an object: Add hands the labels and the resolver of *)
(* the store to a family, rawFrom hands those of the family to the metrics,*)
(* resolves the label values and the value of each metric on the object    *)
(* and writes a sample.  What is inherited is appended to the              *)
(* configuration itself, so it is there again on the next call.            *)
(*                                                                         *)
(* One family stands for all.  What a query yields on an object is data:   *)
(*   scalar       a string, number or Boolean                              *)
(*   composite    a map or a list; parts are its entries                   *)
(*   echo         nothing: no such field, an expression that fails to      *)
(*                parse, compile or evaluate, a composite of CEL's own     *)
(*   unsupported  a value of another type, such as null                    *)
(***************************************************************************)
EXTENDS Naturals, Sequences, FiniteSets

CONSTANTS
  Queries,   \* labelValues and values of the configuration
  Parts,     \* keys of maps and indices of lists
  Texts,     \* values that fields have, as text
  Skipped,   \* an entry of a composite that is an int64 or itself a composite
  Printed,   \* the text %v gives for a map, a list or null
  Numbers,   \* the texts that ParseFloat accepts
  Objects,   \* the objects that are rendered
  Keys,      \* labelKeys of the configuration
  Whole,     \* the suffix of a label that is not a part of a composite
  Names,     \* label names
  Clean,     \* Clean[k, p]: key k with suffix p, cleaned of \W and in lower case
  Size,      \* Size[n]: the length of a name
  Alpha,     \* Alpha[n]: its place in the alphabetical order
  GVK,       \* the names group, version and kind with their values
  Configs,   \* the configurations of a store with one family
  MaxCalls   \* bound: calls of Add

VARIABLES
  conf,    \* the configuration as it was read
  fam,     \* the family's label keys and values now
  met,     \* met[m]: those of metric m now
  obj,     \* the object that is rendered
  stage,   \* "idle", "metric", "label", "write" or "panic"
  m,       \* the metric that is rendered
  i,       \* the label value that is resolved next
  labels,  \* resolved label names and values that are not written yet
  line,    \* those that are written
  value,   \* the resolved value
  out,     \* the samples rendered of obj
  calls    \* calls left

confVars == <<conf, fam, met, calls>>
sampleVars == <<i, labels, line, value>>
vars == <<confVars, obj, stage, m, sampleVars, out>>

ASSUME RenderingAssumption ==
  /\ Numbers \subseteq Texts \union Queries
  /\ Printed \in Texts \ Numbers
  /\ Clean \in [Keys \X (Parts \union {Whole}) -> Names]
  /\ Size \in [Names -> Nat] /\ Alpha \in [Names -> Nat]
  /\ \A a, b \in Names : Alpha[a] = Alpha[b] => a = b
  /\ MaxCalls \in Nat

Field ==
  [kind : {"scalar"}, val : Texts]
    \union [kind : {"composite"},
            parts : UNION {[P -> Texts \union {Skipped}] : P \in SUBSET Parts}]
    \union [kind : {"echo", "unsupported"}]

Pair == (Names \X (Texts \union Queries)) \union {GVK[j] : j \in 1..Len(GVK)}
LabelSet == [keys : Seq(Keys), vals : Seq(Queries)]

\* What is rendered is finite, and configurations are of the form that is parsed.
ASSUME ConfigsAssumption ==
  /\ IsFiniteSet(Parts)
  /\ Objects \subseteq [Queries -> Field]
  /\ GVK \in Seq(Pair)
  /\ \A c \in Configs :
       /\ c.store.set \in LabelSet /\ c.family.set \in LabelSet
       /\ c.metrics \in Seq([resolver : STRING, set : LabelSet, value : Queries])

Metrics == 1..Len(conf.metrics)

TypeOK ==
  /\ conf \in Configs
  /\ fam \in LabelSet
  /\ met \in [Metrics -> LabelSet]
  /\ obj \in Objects
  /\ stage \in {"idle", "metric", "label", "write", "panic"}
  /\ m \in Nat /\ i \in Nat /\ calls \in Nat
  /\ labels \in Seq(Pair) /\ line \in Seq(Pair)
  /\ value \in Texts \union Queries
  /\ out \in Seq([metric : Metrics, labels : Seq(Pair), value : Numbers])

Init ==
  /\ conf \in Configs
  /\ fam = conf.family.set
  /\ met = [n \in Metrics |-> conf.metrics[n].set]
  /\ obj \in Objects  \* not read before the first Add
  /\ stage = "idle"
  /\ m = 0 /\ i = 0
  /\ labels = <<>> /\ line = <<>>
  /\ value = Printed
  /\ out = <<>>
  /\ calls = MaxCalls

-----------------------------------------------------------------------------
(* The resolvers.  The answer maps names to texts; the query itself is the *)
(* name of an answer that is not composite.                                *)

\* A mapping of one name.
Only(q, v) == [x \in {q} |-> v]

\* CEL: a failure echoes the query, a composite yields its scalar entries
\* (int64 is not among the types that count as scalar), other types nothing.
ResolveCEL(q, f) ==
  CASE f.kind = "scalar" -> Only(q, f.val)
    [] f.kind = "echo" -> Only(q, q)
    [] f.kind = "composite" ->
         [p \in {x \in DOMAIN f.parts : f.parts[x] # Skipped} |-> f.parts[p]]
    [] f.kind = "unsupported" -> <<>>

\* Unstructured: whatever is found is printed.
ResolveUnstructured(q, f) ==
  CASE f.kind = "scalar" -> Only(q, f.val)
    [] f.kind = "echo" -> Only(q, q)
    [] OTHER -> Only(q, Printed)

\* buildStore's default, and what the family takes over from the store in Add.
StoreResolver ==
  IF conf.store.resolver = "none" THEN "unstructured" ELSE conf.store.resolver
FamilyResolver ==
  IF conf.family.resolver = "none" THEN StoreResolver ELSE conf.family.resolver

\* FamilyType.resolver.
ResolverOf(n) ==
  IF conf.metrics[n].resolver = "none" THEN FamilyResolver ELSE conf.metrics[n].resolver

Resolve(n, q) ==
  IF ResolverOf(n) = "unstructured"
  THEN ResolveUnstructured(q, obj[q])
  ELSE ResolveCEL(q, obj[q])

-----------------------------------------------------------------------------
(* Rendering.                                                              *)

\* Mutant of Inherit: the values are inherited, the keys are not.
InheritValues(a, b) == [keys |-> a.keys, vals |-> a.vals \o b.vals]

Inherit(a, b) == [keys |-> a.keys \o b.keys, vals |-> a.vals \o b.vals]

Add(o) ==
  /\ stage = "idle"
  /\ calls > 0
  /\ calls' = calls - 1
  /\ obj' = o
  /\ fam' = Inherit(fam, conf.store.set)
  /\ m' = 1
  /\ stage' = IF conf.metrics = <<>> THEN "idle" ELSE "metric"
  /\ out' = <<>>
  /\ UNCHANGED <<conf, met, sampleVars>>

\* The loop over the metrics goes on, or Add stores what is rendered.
NextMetric ==
  /\ m' = m + 1
  /\ stage' = IF m = Len(conf.metrics) THEN "idle" ELSE "metric"

\* rawFrom begins with a metric; one with an unknown resolver is skipped.
BeginMetric ==
  /\ stage = "metric"
  /\ met' = [met EXCEPT ![m] = Inherit(@, fam)]
  /\ i' = 1
  /\ labels' = <<>>
  /\ line' = <<>>
  /\ \/ ResolverOf(m) = "unknown" /\ NextMetric
     \/ ResolverOf(m) # "unknown" /\ stage' = "label" /\ m' = m
  /\ UNCHANGED <<conf, fam, calls, obj, value, out>>

\* Mutant of LabelName: the key of the entry is not appended.
LabelNameWhole(k, p) == Clean[<<k, Whole>>]

LabelName(k, p) == Clean[<<k, p>>]

\* The sequences that contain every element of S once.
Orders(S) ==
  {q \in [1..Cardinality(S) -> S] : \A a, b \in 1..Cardinality(S) : q[a] = q[b] => a = b}

\* One label value: one label if the answer has the query, else one for each
\* entry, in the order of a range over a map.
ResolveLabel ==
  /\ stage = "label"
  /\ i <= Len(met[m].vals)
  /\ LET q == met[m].vals[i]
         r == Resolve(m, q)
         k == met[m].keys[i]
     IN /\ DOMAIN r = {} \/ i <= Len(met[m].keys)
        /\ \/ /\ q \in DOMAIN r
              /\ labels' = Append(labels, <<LabelName(k, Whole), r[q]>>)
           \/ /\ q \notin DOMAIN r
              /\ \E o \in Orders(DOMAIN r) :
                   labels' = labels \o [j \in 1..Len(o) |-> <<LabelName(k, o[j]), r[o[j]]>>]
  /\ i' = i + 1
  /\ UNCHANGED <<confVars, obj, stage, m, line, value, out>>

\* There is no key for this label value: the index is out of range.
LabelPanics ==
  /\ stage = "label"
  /\ i <= Len(met[m].vals)
  /\ i > Len(met[m].keys)
  /\ DOMAIN Resolve(m, met[m].vals[i]) # {}
  /\ stage' = "panic"
  /\ UNCHANGED <<confVars, obj, m, sampleVars, out>>

\* Mutant of ResolveValue: rawFrom returns at a value that is not found.
ResolveValueReturns ==
  /\ stage = "label"
  /\ i > Len(met[m].vals)
  /\ LET q == conf.metrics[m].value
         r == Resolve(m, q)
     IN \/ /\ q \in DOMAIN r
           /\ value' = r[q]
           /\ stage' = "write"
           /\ m' = m
        \/ /\ q \notin DOMAIN r
           /\ value' = value
           /\ m' = m + 1
           /\ stage' = "idle"
  /\ UNCHANGED <<confVars, obj, i, labels, line, out>>

\* The value, without which the metric is skipped.
ResolveValue ==
  /\ stage = "label"
  /\ i > Len(met[m].vals)
  /\ LET q == conf.metrics[m].value
         r == Resolve(m, q)
     IN \/ q \in DOMAIN r /\ value' = r[q] /\ stage' = "write" /\ m' = m
        \/ q \notin DOMAIN r /\ value' = value /\ NextMetric
  /\ UNCHANGED <<confVars, obj, i, labels, line, out>>

\* Mutant of Before: names of one length are left as they are.
BeforeByLength(a, b) == Size[a] < Size[b]

\* The order of sortLabelset.
Before(a, b) == Size[a] < Size[b] \/ (Size[a] = Size[b] /\ Alpha[a] < Alpha[b])

\* sortLabelset and the loop that writes: the least label comes first; the sort
\* is not stable, so any of several with one name may.
WriteLabel ==
  /\ stage = "write"
  /\ \E j \in 1..Len(labels) :
       /\ \A k \in 1..Len(labels) : ~Before(labels[k][1], labels[j][1])
       /\ line' = Append(line, labels[j])
       /\ labels' = SubSeq(labels, 1, j - 1) \o SubSeq(labels, j + 1, Len(labels))
  /\ UNCHANGED <<confVars, obj, stage, m, i, value, out>>

\* Mutant of WriteValue: the error of ParseFloat is not looked at.
WriteAnyValue ==
  /\ stage = "write"
  /\ labels = <<>>
  /\ out' = Append(out, [metric |-> m, labels |-> line \o GVK, value |-> value])
  /\ NextMetric
  /\ UNCHANGED <<confVars, obj, sampleVars>>

\* The rest of writeMetricTo; a value that is no number discards the sample.
WriteValue ==
  /\ stage = "write"
  /\ labels = <<>>
  /\ \/ /\ value \in Numbers
        /\ out' = Append(out, [metric |-> m, labels |-> line \o GVK, value |-> value])
     \/ value \notin Numbers /\ out' = out
  /\ NextMetric
  /\ UNCHANGED <<confVars, obj, sampleVars>>

Next ==
  \/ \E o \in Objects : Add(o)
  \/ BeginMetric \/ ResolveLabel \/ LabelPanics \/ ResolveValue \/ WriteLabel \/ WriteValue

Spec == Init /\ [][Next]_vars

-----------------------------------------------------------------------------
(* Properties.                                                             *)

\* A key for every label value of one level.
Keyed(s) == Len(s.vals) <= Len(s.keys)

\* As many label values as label keys, at every level of the configuration.
Matched(s) == Len(s.keys) = Len(s.vals)
WellFormed ==
  /\ Matched(conf.store.set) /\ Matched(conf.family.set)
  /\ \A n \in Metrics : Matched(conf.metrics[n].set)

\* The labels that a label value, with its key, says of obj.
LabelsAt(n, k, q) ==
  LET r == Resolve(n, q)
  IN IF q \in DOMAIN r
     THEN {<<Clean[<<k, Whole>>], r[q]>>}
     ELSE {<<Clean[<<k, p>>], r[p]>> : p \in DOMAIN r}

\* Those of one level.
LabelsOf(n, s) == UNION {LabelsAt(n, s.keys[j], s.vals[j]) : j \in 1..Len(s.vals)}

(***************************************************************************)
(* The labels of a sample are those of its metric, its family and its      *)
(* store, each value under its own key, with group, version and kind: no   *)
(* label is missing, foreign, or under another's key, also on later calls, *)
(* when Add and rawFrom have appended what is inherited once more.         *)
(***************************************************************************)
LabelsFaithful ==
  WellFormed =>
    \A k \in 1..Len(out) :
      LET n == out[k].metric
          s == out[k].labels
      IN {s[j] : j \in 1..Len(s)} =
           LabelsOf(n, conf.metrics[n].set) \union LabelsOf(n, conf.family.set)
             \union LabelsOf(n, conf.store.set) \union {GVK[j] : j \in 1..Len(GVK)}

Usable(n) ==
  /\ ResolverOf(n) # "unknown"
  /\ LET q == conf.metrics[n].value
         r == Resolve(n, q)
     IN q \in DOMAIN r /\ r[q] \in Numbers

(***************************************************************************)
(* A metric that cannot be rendered costs nothing but itself: after Add,   *)
(* there is one sample for every metric with a known resolver and a        *)
(* numeric value, in the order of the configuration, and no other.         *)
(***************************************************************************)
OneSampleEach ==
  stage = "idle" /\ m > 0 =>
    /\ {out[k].metric : k \in 1..Len(out)} = {n \in Metrics : Usable(n)}
    /\ \A b \in 1..Len(out) : \A a \in 1..b - 1 : out[a].metric < out[b].metric

(***************************************************************************)
(* Rendering is deterministic (sortLabelset "helps test                    *)
(* deterministically"): whatever the order of a range over a map, labels   *)
(* are written by length, then by name, so that labels with different      *)
(* names have one text.                                                    *)
(***************************************************************************)
LabelsOrdered ==
  \A k \in 1..Len(out) :
    \A b \in 1..Len(out[k].labels) - Len(GVK) : \A a \in 1..b - 1 :
      LET x == out[k].labels[a][1]
          y == out[k].labels[b][1]
      IN Size[x] < Size[y] \/ (Size[x] = Size[y] /\ Alpha[x] <= Alpha[y])

(***************************************************************************)
(* rawFrom indexes the keys by the place of the value.  A metric only      *)
(* panics when it, its family or its store has fewer keys than values,     *)
(* however often labels are inherited and whatever the other metrics have. *)
(***************************************************************************)
PanicsOnlyMismatched ==
  stage = "panic" =>
    ~(Keyed(conf.store.set) /\ Keyed(conf.family.set) /\ Keyed(conf.metrics[m].set))
=============================================================================
