------------------------ MODULE MCDeadlineScheduler -------------------------
(***************************************************************************)
(* Values of the constants of DeadlineScheduler: an agreement's deadline   *)
(* with a stage when it is due and a stage after that.                      *)
(***************************************************************************)
EXTENDS DeadlineScheduler, TLC

Reminder == [subject |-> "deal", dueAt |-> 0, triggers |-> <<0, 1>>]

OneDeadline == {Reminder}

Interchangeable == Permutations(Ticks) \cup Permutations(Nodes)

=============================================================================
