------------------------- MODULE MCUtilizationPoll --------------------------
(***************************************************************************)
(* Chart polling for TLC.  Slots and metrics are model values; the code    *)
(* treats memory and CPU alike, so both may be permuted.                   *)
(***************************************************************************)
EXTENDS UtilizationPoll, TLC

PollSymmetry == Permutations(Slots) \cup Permutations(Metrics)

=============================================================================
