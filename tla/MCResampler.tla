----------------------------- MODULE MCResampler -----------------------------
(* One core's ring and two of the host's. *)
EXTENDS Resampler

CONSTANTS o1, o2, l1

MCOwned == {o1, o2}

MCLent == {l1}
=============================================================================
