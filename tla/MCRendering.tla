----------------------------- MODULE MCRendering -----------------------------
(***************************************************************************)
(* Instance of Rendering for TLC: two queries that meet every kind of      *)
(* field, a literal, and configurations that match at every level, that    *)
(* lack keys, and that have metrics which cannot be rendered.              *)
(***************************************************************************)
EXTENDS Rendering, TLC

MCQueries == {"o.a", "o.b", "1"}
MCParts == {"x", "y"}
MCTexts == {"2", "red", "blue", "<nil>"}
MCNumbers == {"1", "2"}
MCKeys == {"K", "kx", "s"}
MCNames == {"k", "s", "kx", "ky", "sx", "sy", "kxx", "kxy"}

\* "K" with "x" and "kx" alone give the same name.
MCClean ==
  <<"K", "">> :> "k" @@ <<"K", "x">> :> "kx" @@ <<"K", "y">> :> "ky" @@
  <<"s", "">> :> "s" @@ <<"s", "x">> :> "sx" @@ <<"s", "y">> :> "sy" @@
  <<"kx", "">> :> "kx" @@ <<"kx", "x">> :> "kxx" @@ <<"kx", "y">> :> "kxy"

MCAlpha ==
  "k" :> 1 @@ "kx" :> 2 @@ "kxx" :> 3 @@ "kxy" :> 4 @@ "ky" :> 5 @@ "s" :> 6 @@ "sx" :> 7 @@ "sy" :> 8
MCSize ==
  [n \in MCNames |-> CASE n \in {"k", "s"} -> 1 [] n \in {"kxx", "kxy"} -> 3 [] OTHER -> 2]

MCGVK == << <<"group", "g">>, <<"version", "v">>, <<"kind", "kd">> >>

Scalar(v) == [kind |-> "scalar", val |-> v]
Composite(f) == [kind |-> "composite", parts |-> f]
MCFields ==
  {Scalar("2"), Scalar("red"), [kind |-> "echo"], [kind |-> "unsupported"],
   Composite("x" :> "red" @@ "y" :> "blue"), Composite("x" :> "blue" @@ "y" :> "int64")}
MCObjects == {o \in [MCQueries -> MCFields] : o["1"] = [kind |-> "echo"]}

Set(k, v) == [keys |-> k, vals |-> v]
Level(r, s) == [resolver |-> r, set |-> s]
Metric(r, s, v) == [resolver |-> r, set |-> s, value |-> v]

MCConfigs ==
  { \* every level adds a label; CEL at the family
    [store |-> Level("none", Set(<<"s">>, <<"o.b">>)),
     family |-> Level("cel", Set(<<"kx">>, <<"1">>)),
     metrics |-> <<Metric("none", Set(<<"K">>, <<"o.a">>), "o.b"),
                   Metric("none", Set(<<>>, <<>>), "1")>>],
    \* the default resolver, and a metric with an unknown one
    [store |-> Level("none", Set(<<"s">>, <<"o.b">>)),
     family |-> Level("none", Set(<<>>, <<>>)),
     metrics |-> <<Metric("unknown", Set(<<"K">>, <<"o.a">>), "1"),
                   Metric("cel", Set(<<"K">>, <<"o.a">>), "1"),
                   Metric("none", Set(<<"K">>, <<"o.a">>), "o.b")>>],
    \* a value of the metric without a key takes the one of the family
    [store |-> Level("cel", Set(<<>>, <<>>)),
     family |-> Level("none", Set(<<"s">>, <<>>)),
     metrics |-> <<Metric("none", Set(<<"K">>, <<"o.a", "o.b">>), "1")>>],
    \* a value without a key
    [store |-> Level("cel", Set(<<>>, <<"o.a">>)),
     family |-> Level("none", Set(<<>>, <<>>)),
     metrics |-> <<Metric("none", Set(<<"K">>, <<"o.b">>), "1")>>] }
=============================================================================
