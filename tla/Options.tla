------------------------------- MODULE Options -------------------------------
(***************************************************************************)
(* The command-line options: what Read makes of the command line and the   *)
(* environment.  Flags and values are data; Bad is a value that does not   *)
(* parse as the flag's type.                                               *)
(***************************************************************************)
EXTENDS Naturals, FiniteSets

CONSTANTS
  Flags,    \* names of the flags
  Default,  \* Default[f]: the default of f
  Values,   \* values that parse
  Bad,      \* a value that does not
  Unset     \* a flag or variable that is not given

ASSUME OptionsAssumption ==
  /\ Default \in [Flags -> Values]
  /\ Bad \notin Values /\ Unset \notin Values \union {Bad}

Given == [Flags -> Values \union {Bad, Unset}]

\* flag.Parse: the value of a flag before the environment is looked at.
Parsed(cmdline, f) == IF cmdline[f] = Unset THEN Default[f] ELSE cmdline[f]

\* Mutant of Overridden: the value of the flag is not looked at.
OverriddenAlways(cmdline, env, f) == env[f] # Unset

\* VisitAll: a flag that has its default value is set from CRDMETRICS_<NAME>.
Overridden(cmdline, env, f) == Parsed(cmdline, f) = Default[f] /\ env[f] # Unset

Effective(cmdline, env, f) ==
  IF Overridden(cmdline, env, f) THEN env[f] ELSE Parsed(cmdline, f)

\* flag.NFlag counts what the command line and what an override has set.
SetFlags(cmdline, env) ==
  {f \in Flags : cmdline[f] # Unset \/ Overridden(cmdline, env, f)}

\* Mutant of Readable: the error of flag.Set is not looked at.
ReadableAlways(cmdline, env) == TRUE

\* A bad flag ends the process in flag.Parse, a bad override panics.
Readable(cmdline, env) == \A f \in Flags : Effective(cmdline, env, f) # Bad
=============================================================================
