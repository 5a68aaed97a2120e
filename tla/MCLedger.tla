------------------------------ MODULE MCLedger ------------------------------
(***************************************************************************)
(* Small instances of Ledger.                                              *)
(***************************************************************************)
EXTENDS Ledger

CONSTANTS s1, s2, s3

MCSeeds == {s1, s2, s3}

\* Every keyring of one or two of the first two seeds: the right ones, the
\* wrong ones, and ones longer than the epochs in use.
MCRings == {<<s1>>, <<s1, s2>>, <<s2, s1>>}

MCSigners == {[scheme |-> "ed25519-file", public_key |-> "pk"]}
=============================================================================
