---------------------------- MODULE MCCheckpoint ----------------------------
(***************************************************************************)
(* Two processes on one checkpoint: the first makes one, the second makes  *)
(* one too or verifies.  Each kind of anchor meets each, and either may    *)
(* come to the key file while the other generates it.                      *)
(***************************************************************************)
EXTENDS Checkpoint

CONSTANTS Maker, Other

MCOptions(p) ==
  IF p = Maker THEN AnchorOptions \ {"ed25519-key-file"}
  ELSE {"agent", "gen-key-file", "ed25519-key-file"} \cup VerifyOptions
=============================================================================
