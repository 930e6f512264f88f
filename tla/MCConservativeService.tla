----------------------- MODULE MCConservativeService -----------------------
(* Small instances of ConservativeService.  Slots of one kind and pids are  *)
(* interchangeable, so the safety runs use their permutations as symmetry.  *)
EXTENDS ConservativeService, TLC

Symmetry == Permutations(Watchdogs) \cup Permutations(Pids)
=============================================================================
