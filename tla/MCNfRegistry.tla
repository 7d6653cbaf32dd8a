---------------------------- MODULE MCNfRegistry ----------------------------
(* Small instances of the NF registry; the other constants are in nf_*.cfg. *)
EXTENDS NfRegistry, TLC

CONSTANTS p1, p2, p3

Ask(inst, service, manual, core, share) ==
    [inst |-> inst, service |-> service, manual |-> manual, core |-> core,
     share |-> share]

\* Shared or not, a core by hand or an id by hand, and a service that does not
\* exist.
MCMixed == {Ask(NoId, 1, FALSE, 0, TRUE), Ask(NoId, 1, FALSE, 0, FALSE),
            Ask(NoId, 1, TRUE, 0, TRUE), Ask(NoId, 1, TRUE, 1, FALSE),
            Ask(1, 0, FALSE, 0, TRUE), Ask(NoId, 2, FALSE, 0, TRUE)}

\* One shared request.
MCShared == {Ask(NoId, 1, FALSE, 0, TRUE)}

\* Shared, on either core by hand.
MCShared2 == {Ask(NoId, 1, TRUE, 0, TRUE), Ask(NoId, 1, TRUE, 1, TRUE)}

Symmetry == Permutations(Proc)
=============================================================================
