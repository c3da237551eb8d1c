-------------------------- MODULE MCPreflightSchedules --------------------------
(* Model of PreflightSchedules for TLC. *)
EXTENDS PreflightSchedules, TLC

\* Never run, due, ahead.
MCChoices == {Null, 0, 2}

Symmetry == Permutations(Schedules) \union Permutations(Runners \ Cron)

===============================================================================
