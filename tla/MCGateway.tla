----------------------------- MODULE MCGateway -----------------------------
(* Small instances of Gateway for TLC. *)
EXTENDS Gateway, TLC

CONSTANTS r1, r2, r3

MCThreeRequests == {r1, r2, r3}
MCTwoRequests == {r1, r2}

\* Limits of the profiles in the order of the configuration.
MCOneTwo == <<1, 2>>
MCSingle == <<1>>

\* r2 and r3 are configured alike.
MCSymmetry == Permutations({r2, r3})
=============================================================================
