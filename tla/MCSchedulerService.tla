------------------------- MODULE MCSchedulerService -------------------------
(***************************************************************************)
(* Small instances of SchedulerService.                                    *)
(***************************************************************************)
EXTENDS SchedulerService, TLC

OneId == 1 .. 1
TwoIds == 1 .. 2
\* A oneshot at 1 or 2; a cron of period 1 or 2.
Periods == {1, 2}
OnePeriod == {1}
\* executions_remaining at the creation of a recurrent.
Countdowns == {Forever, 1, 2}
EndlessOrOnce == {Forever, 1}

CallerSymmetry == Permutations(Callers)
=============================================================================
