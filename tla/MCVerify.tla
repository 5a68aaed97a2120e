------------------------------ MODULE MCVerify ------------------------------
(***************************************************************************)
(* Small instances of Verify.                                              *)
(***************************************************************************)
EXTENDS JsVerify

CONSTANTS s1, s2, s3

MCSeeds == {s1, s2, s3}

MCRings == {<<s1>>, <<s1, s2>>, <<s2, s1>>}

\* Two public anchors and a symmetric one.
MCSigners ==
  {[scheme |-> "ed25519-file", public_key |-> "pk"],
   [scheme |-> "secure-enclave", public_key |-> "enclave"],
   [scheme |-> "hmac-sha256", public_key |-> "none"]}
=============================================================================
