---------------------------- MODULE MCMetricStore ----------------------------
(* Instances of MetricStore for TLC.                                       *)
EXTENDS MetricStore

NoKeys == <<>>
TheStoreKeys == <<"s">>
TheFamilyKeys == <<"f">>
TheMetricKeys == <<"m">>

=============================================================================
