-------------------------- MODULE MCFat32 -----------------------------
(* Small volumes for Fat32 and Fat32Refine. *)
EXTENDS Fat32Refine, TLC

Sym == Permutations(Names) \cup Permutations(Data)

(* Without faults: every sector access succeeds and the power stays on. *)
UndisturbedNext == Next /\ errs' = 0 /\ crashes' = 0
Undisturbed == Init /\ [][UndisturbedNext]_vars
=============================================================================
