------------------------------- MODULE Chain -------------------------------
(***************************************************************************)
(* The values a sovereign ledger is made of: keys, entry MACs, entries and *)
(* the body of a seal (src/src/lib.rs, src/src/seal.rs).                   *)
(*                                                                         *)
(* Cryptography is ideal.  SHA-256, HMAC and the Merkle tree hash are free *)
(* constructors: a digest is the record of what was hashed, so two digests *)
(* are equal exactly when their inputs are.  `ts' is left out: it is one   *)
(* more hashed field that nothing reads back.                              *)
(***************************************************************************)
EXTENDS Integers, Sequences

CONSTANTS
  ZeroHash,   \* the 32 zero bytes a chain starts from
  NoHash      \* the empty string: `prev_seal' of the first seal, say

FORMAT_VERSION == 3
DATA_EVENT == "data"                 \* any event_type outside sovereign:*
KEY_ROTATION_EVENT == "key-rotation"
SEAL_EVENT == "seal"

(***************************************************************************)
(* Keys.  A key is the seed it comes from and the segment it was derived   *)
(* for; BASE marks the epoch's base key itself.  A keyring is a sequence   *)
(* of seeds, the seed of epoch e at position e + 1.                        *)
(***************************************************************************)
BASE == -1

BaseKey(seed) == [seed |-> seed, seg |-> BASE]

segment_key(base, s) == [seed |-> base.seed, seg |-> s]

HasKey(keys, epoch) == epoch < Len(keys)

entry_key(keys, epoch, seals_seen, v) ==
  IF v < 3 THEN BaseKey(keys[epoch + 1])
           ELSE segment_key(BaseKey(keys[epoch + 1]), seals_seen)

\* Knowing the keys in `known', can one compute k?  HMAC is one-way: a
\* segment key follows from itself or from its base key only.
Derivable(k, known) == k \in known \/ BaseKey(k.seed) \in known

(***************************************************************************)
(* Entries.  The MAC covers everything but `v' and `epoch', which select   *)
(* how and under which key it is computed; v2 and v3 share a construction. *)
(***************************************************************************)
SupportedVersion(v) == v \in 1..3

\* The text of event_type and body, one behind the other.  The split with all
\* of it in the body stands for every other split.
Joined(etype, body) == IF etype = NoHash THEN body ELSE [joined |-> <<etype, body>>]

\* v1 hashes that text, v2 and v3 the two with their lengths.
event_hash(v, prev, seq, etype, body, key) ==
  [alg |-> IF v = 1 THEN "sha" ELSE "hmac", prev |-> prev, seq |-> seq,
   etype |-> IF v = 1 THEN NoHash ELSE etype,
   body |-> IF v = 1 THEN Joined(etype, body) ELSE body, key |-> key]

Event(v, prev, seq, etype, body, epoch, key) ==
  [v |-> v, seq |-> seq, etype |-> etype, body |-> body, epoch |-> epoch,
   prev_hash |-> prev, hash |-> event_hash(v, prev, seq, etype, body, key)]

IsSeal(e) == e.etype = SEAL_EVENT

(***************************************************************************)
(* Seals.  seal_payload is the canonical form of the signed fields;        *)
(* prev_seal, scheme and public_key are not among them.  A signature names *)
(* the scheme and the key that made it and the payload it covers.          *)
(***************************************************************************)
mth(leaves) == [mth |-> leaves]

seal_payload(r) ==
  [end_seq |-> r.end_seq, merkle_root |-> r.merkle_root,
   revealed |-> r.revealed, segment |-> r.segment,
   start_seq |-> r.start_seq, tip_hash |-> r.tip_hash]

sign_record(r, signer) ==
  [r EXCEPT !.payload = seal_payload(r),
            !.signature = [scheme |-> signer.scheme, by |-> signer.public_key,
                           over |-> seal_payload(r)]]

\* Keys a seal publishes.
RevealedBy(e) == {e.body.revealed[ep] : ep \in DOMAIN e.body.revealed}

\* A sequence of entries, which form no set of their own: a digest contains
\* the digest before it.
IsSequence(s) == s \in Seq({s[i] : i \in 1..Len(s)})

Larger(a, b) == IF a >= b THEN a ELSE b
=============================================================================
