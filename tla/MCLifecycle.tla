---------------------------- MODULE MCLifecycle ----------------------------
(* Instance of Lifecycle for TLC.                                          *)
EXTENDS Lifecycle, TLC

MCFlags == {"workers", "version"}
MCDefault == "workers" :> 2 @@ "version" :> 0
MCValues == 0..2
MCWorkers == 1..2

Line(w, v) == "workers" :> w @@ "version" :> v
MCCommands == {Line(Unset, Unset), Line(1, Unset), Line(2, Unset), Line(Unset, 1)}
MCEnvs == {Line(Unset, Unset), Line(1, Unset), Line(0, Unset), Line(Bad, Unset),
           Line(Unset, 1)}
=============================================================================
