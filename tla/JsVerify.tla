------------------------------ MODULE JsVerify ------------------------------
(***************************************************************************)
(* The JavaScript verifier (src/verifiers/js/verify.mjs), a second         *)
(* implementation "with no shared code".  It walks over the lines with its *)
(* own counters and its own buffer; each function here is the state of     *)
(* such a walk after one more line.  Hashes, keys and signatures are those *)
(* of Chain: that both programs compute the same bytes is for the test     *)
(* vectors.                                                                *)
(***************************************************************************)
EXTENDS Verify

(***************************************************************************)
(* verifyKeyed.                                                            *)
(***************************************************************************)
KeyedStart == [ok |-> TRUE, lastHash |-> ZeroHash, seals |-> 0, seg0legacy |-> FALSE,
               expectedSeq |-> 1]

\* Each key a seal reveals is the base key of a legacy segment 0, or the
\* derived key of the segment the seal claims.
RevealsHonestly(r, seeds, seg0legacy) ==
  \A ep \in DOMAIN r.revealed :
    /\ HasKey(seeds, ep)
    /\ LET b == BaseKey(seeds[ep + 1])
       IN r.revealed[ep] = IF r.segment = 0 /\ seg0legacy THEN b ELSE segment_key(b, r.segment)

KeyedLine(s, e, seeds) ==
  LET seals    == s.seals + (IF IsSeal(e) THEN 1 ELSE 0)
      legacy   == s.seg0legacy \/ (s.seals = 0 /\ e.v < 3)
      key      == IF e.v < 3 THEN BaseKey(seeds[e.epoch + 1])
                             ELSE segment_key(BaseKey(seeds[e.epoch + 1]), seals)
      expected == event_hash(e.v, s.lastHash, e.seq, e.etype, e.body, key)
      accepted == /\ s.ok /\ HasKey(seeds, e.epoch)
                  /\ e.prev_hash = s.lastHash /\ e.seq = s.expectedSeq
                  /\ SupportedVersion(e.v) /\ e.hash = expected
                  /\ IsSeal(e) => RevealsHonestly(e.body, seeds, legacy)
  IN [ok |-> accepted, lastHash |-> IF accepted THEN expected ELSE NoHash,
      seals |-> seals, seg0legacy |-> legacy, expectedSeq |-> s.expectedSeq + 1]

verifyKeyed(f, t, seeds) ==
  LET s[i \in 0..Len(f)] == IF i = 0 THEN KeyedStart ELSE KeyedLine(s[i - 1], f[i], seeds)
  IN s[Len(f)].ok /\ t # "garbage"

(***************************************************************************)
(* verifyPublic.                                                           *)
(***************************************************************************)
PublicStart == [ok |-> TRUE, sealsSeen |-> 0, lastHash |-> ZeroHash, buffer |-> << >>,
                segmentStart |-> 1, prevSealHash |-> NoHash, anchorId |-> {},
                expectedSeq |-> 1]

\* The hash of each buffered entry, recomputed from the one before it under
\* the keys the seal reveals.
Recomputed(buf, revealed) ==
  LET hash[i \in 0..Len(buf)] ==
        IF i = 0 THEN buf[1].prev_hash
        ELSE event_hash(buf[i].v, hash[i - 1], buf[i].seq, buf[i].etype, buf[i].body,
                        revealed[buf[i].epoch])
  IN [i \in 1..Len(buf) |-> hash[i]]

\* The anchor that the first seal pins; anchorId is the set of it, empty before.
Anchor(r) == [scheme |-> r.scheme, pk |-> r.public_key]

finishSegment(s, r) ==
  LET buf == s.buffer IN
  /\ r.segment = s.sealsSeen /\ r.prev_seal = s.prevSealHash
  /\ buf # << >> /\ r.start_seq = s.segmentStart
  /\ r.end_seq = s.segmentStart + Len(buf) - 1
  /\ \A i \in 1..Len(buf) :
       buf[i].epoch \in DOMAIN r.revealed /\ SupportedVersion(buf[i].v)
  /\ LET leaves == Recomputed(buf, r.revealed)
     IN /\ \A i \in 1..Len(buf) : buf[i].hash = leaves[i]
        /\ r.merkle_root = mth(leaves) /\ r.tip_hash = leaves[Len(buf)]
  /\ s.anchorId \subseteq {Anchor(r)}
  /\ r.payload \in {NoHash, seal_payload(r)}
  /\ verify_signature(r.scheme, r.public_key, r.signature, seal_payload(r))

\* Mutant of PublicLine: the seal is not an entry of the segment it opens.
PublicLine_SealOutside(s, e) ==
  LET accepted == /\ s.ok /\ e.prev_hash = s.lastHash /\ e.seq = s.expectedSeq
                  /\ IsSeal(e) => finishSegment(s, e.body)
      next == [s EXCEPT !.ok = accepted, !.expectedSeq = @ + 1, !.lastHash = e.hash]
  IN IF accepted /\ IsSeal(e)
     THEN [next EXCEPT !.sealsSeen = @ + 1, !.buffer = << >>, !.segmentStart = e.seq + 1,
                       !.prevSealHash = e.hash, !.anchorId = {Anchor(e.body)}]
     ELSE [next EXCEPT !.buffer = Append(@, e)]

\* After a refused line the walk only counts.
PublicLine(s, e) ==
  LET accepted == /\ s.ok /\ e.prev_hash = s.lastHash /\ e.seq = s.expectedSeq
                  /\ IsSeal(e) => finishSegment(s, e.body)
      next == [s EXCEPT !.ok = accepted, !.expectedSeq = @ + 1, !.lastHash = e.hash]
  IN IF accepted /\ IsSeal(e)
     THEN [next EXCEPT !.sealsSeen = @ + 1, !.buffer = <<e>>, !.segmentStart = e.seq,
                       !.prevSealHash = e.hash, !.anchorId = {Anchor(e.body)}]
     ELSE [next EXCEPT !.buffer = Append(@, e)]

verifyPublic(f, t) ==
  LET s[i \in 0..Len(f)] == IF i = 0 THEN PublicStart ELSE PublicLine(s[i - 1], f[i])
  IN s[Len(f)].ok /\ t # "garbage"

(***************************************************************************)
(* Properties.                                                             *)
(***************************************************************************)

\* The two implementations give the same verdict, keyed and public, on every
\* file the library writes and on every edit of it: an auditor with Node and
\* one with the Rust binary never disagree.
VerifiersAgree ==
  AtRest =>
    \A f \in Altered(file) \cup {file} :
      /\ verifyPublic(f, tail) <=> verify_public(f, tail)
      /\ \A ks \in Rings : verifyKeyed(f, tail, ks) <=> verify(f, tail, ks) = "Ok"
=============================================================================
