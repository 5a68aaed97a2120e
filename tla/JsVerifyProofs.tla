--------------------------- MODULE JsVerifyProofs ---------------------------
(***************************************************************************)
(* The verifiers in Rust and in JavaScript decide alike on every file, for *)
(* every value of the constants.  The JavaScript verifier walks over the   *)
(* lines with counters and a buffer of its own; the proofs say what these  *)
(* are after any number of lines.                                          *)
(***************************************************************************)
EXTENDS JsVerify, VerifyProofs

(***************************************************************************)
(* The three walks: over the lines with the keyring x, over the lines      *)
(* without it, and over a buffer with the keys x that a seal reveals.      *)
(***************************************************************************)
WalkStart(kind, f) ==
  IF kind = "keyed" THEN KeyedStart
  ELSE IF kind = "public" THEN PublicStart ELSE f[1].prev_hash

WalkStep(kind, s, e, x) ==
  IF kind = "keyed" THEN KeyedLine(s, e, x)
  ELSE IF kind = "public" THEN PublicLine(s, e)
  ELSE event_hash(e.v, s, e.seq, e.etype, e.body, x[e.epoch])

IsWalk(kind, f, x, s, n) ==
  s = [i \in 0..n |-> IF i = 0 THEN WalkStart(kind, f) ELSE WalkStep(kind, s[i - 1], f[i], x)]

\* The walk over any number of lines exists.
LEMMA WalkExists ==
  ASSUME NEW kind, NEW f, NEW x, NEW n \in Nat
  PROVE  \E s : IsWalk(kind, f, x, s, n)
<1> DEFINE Bad == {m \in Nat : ~\E s : IsWalk(kind, f, x, s, m)}
<1> SUFFICES ASSUME Bad # {} PROVE FALSE
  OBVIOUS
<1>1. PICK m \in Bad : \A k \in Bad : m <= k
  <2>1. Bad \subseteq Nat
    OBVIOUS
  <2> HIDE DEF Bad
  <2> QED
    BY <2>1, LeastNat
<1>2. CASE m = 0
  <2>1. PICK s : s = [i \in 0..0 |-> WalkStart(kind, f)]
    OBVIOUS
  <2>2. [i \in 0..0 |-> IF i = 0 THEN WalkStart(kind, f) ELSE WalkStep(kind, s[i - 1], f[i], x)]
          = [i \in 0..0 |-> WalkStart(kind, f)]
    <3>1. \A i \in 0..0 : i = 0
      OBVIOUS
    <3> QED
      BY <3>1
  <2>3. IsWalk(kind, f, x, s, 0)
    BY <2>1, <2>2 DEF IsWalk
  <2> QED
    BY <1>2, <2>3
<1>3. CASE m # 0
  <2>1. m - 1 \in Nat /\ m - 1 \notin Bad
    BY <1>1, <1>3
  <2>2. PICK s : IsWalk(kind, f, x, s, m - 1)
    BY <2>1
  <2>3. PICK u : u = [i \in 0..m |-> IF i = m THEN WalkStep(kind, s[m - 1], f[m], x) ELSE s[i]]
    OBVIOUS
  <2>4. ASSUME NEW i \in 0..m
        PROVE  u[i] = IF i = 0 THEN WalkStart(kind, f) ELSE WalkStep(kind, u[i - 1], f[i], x)
    <3>1. CASE i = 0
      BY <1>3, <2>1, <2>2, <2>3, <3>1 DEF IsWalk
    <3>2. CASE i = m
      <4>1. u[i] = WalkStep(kind, s[m - 1], f[m], x) /\ u[m - 1] = s[m - 1]
        BY <2>1, <2>3, <3>2
      <4> QED
        BY <1>3, <3>2, <4>1
    <3>3. CASE i # 0 /\ i # m
      <4>1. i \in 0..(m - 1) /\ i - 1 \in 0..m /\ i - 1 # m
        BY <2>1, <3>3
      <4>2. u[i] = s[i] /\ u[i - 1] = s[i - 1]
        BY <2>3, <3>3, <4>1
      <4>3. s[i] = WalkStep(kind, s[i - 1], f[i], x)
        BY <2>2, <3>3, <4>1 DEF IsWalk
      <4> QED
        BY <3>3, <4>2, <4>3
    <3> QED
      BY <3>1, <3>2, <3>3
  <2>5. IsWalk(kind, f, x, u, m)
    <3>1. u = [i \in 0..m |-> u[i]]
      BY <2>3
    <3> QED
      BY <2>4, <3>1, Zenon DEF IsWalk
  <2> QED
    BY <2>5
<1> QED
  BY <1>2, <1>3

\* Its values, one after the other.
StepByStep(kind, f, x, s, n) ==
  /\ s[0] = WalkStart(kind, f)
  /\ \A i \in 1..n : s[i] = WalkStep(kind, s[i - 1], f[i], x)

LEMMA WalkSteps ==
  ASSUME NEW kind, NEW f, NEW x, NEW n \in Nat, NEW s, IsWalk(kind, f, x, s, n)
  PROVE  StepByStep(kind, f, x, s, n)
<1>1. s[0] = WalkStart(kind, f)
  BY DEF IsWalk
<1>2. ASSUME NEW i \in 1..n PROVE s[i] = WalkStep(kind, s[i - 1], f[i], x)
  <2>1. i \in 0..n /\ i # 0
    OBVIOUS
  <2> QED
    BY <2>1 DEF IsWalk
<1> QED
  BY <1>1, <1>2 DEF StepByStep

(***************************************************************************)
(* verifyKeyed.                                                            *)
(***************************************************************************)

\* What both implementations ask of line i.
KeyedPasses(f, i, ks) ==
  KeyedOK(f, i, ks) /\ (IsSeal(f[i]) => HonestReveal(f, i, ks))

\* What verifyKeyed knows after i lines of f.
KeyedState(f, ks, i, s) ==
  /\ s.expectedSeq = i + 1 /\ s.seals = SealsThrough(f, i)
  /\ s.seg0legacy <=> Seg0HadLegacy(f, i)
  /\ s.ok <=> \A j \in 1..i : KeyedPasses(f, j, ks)
  /\ s.ok => s.lastHash = LastHash(f, i + 1)

\* The fields of KeyedLine, the line n being e.
KeyedLineFields(s, e, ks, t, seals, legacy) ==
  /\ t.expectedSeq = s.expectedSeq + 1 /\ t.seals = seals
  /\ t.seg0legacy <=> legacy
  /\ t.ok <=> /\ s.ok /\ HasKey(ks, e.epoch)
              /\ e.prev_hash = s.lastHash /\ e.seq = s.expectedSeq
              /\ SupportedVersion(e.v)
              /\ e.hash = event_hash(e.v, s.lastHash, e.seq, e.etype, e.body,
                                     entry_key(ks, e.epoch, seals, e.v))
              /\ IsSeal(e) => RevealsHonestly(e.body, ks, legacy)
  /\ t.ok => t.lastHash = e.hash

LEMMA KeyedLineMeans ==
  ASSUME NEW s, NEW e, NEW ks, NEW t, t = KeyedLine(s, e, ks),
         NEW seals, seals = s.seals + (IF IsSeal(e) THEN 1 ELSE 0),
         NEW legacy, legacy = (s.seg0legacy \/ (s.seals = 0 /\ e.v < 3))
  PROVE  KeyedLineFields(s, e, ks, t, seals, legacy)
<1>1. PICK key : key = entry_key(ks, e.epoch, seals, e.v)
  OBVIOUS
<1>2. PICK expected : expected = event_hash(e.v, s.lastHash, e.seq, e.etype, e.body, key)
  OBVIOUS
<1>3. PICK accepted : accepted = (/\ s.ok /\ HasKey(ks, e.epoch)
                                  /\ e.prev_hash = s.lastHash /\ e.seq = s.expectedSeq
                                  /\ SupportedVersion(e.v) /\ e.hash = expected
                                  /\ IsSeal(e) => RevealsHonestly(e.body, ks, legacy))
  OBVIOUS
<1>4. t = [ok |-> accepted, lastHash |-> IF accepted THEN expected ELSE NoHash,
           seals |-> seals, seg0legacy |-> legacy, expectedSeq |-> s.expectedSeq + 1]
  BY <1>1, <1>2, <1>3, Zenon DEF KeyedLine, entry_key
<1>5. /\ t.ok = accepted /\ t.lastHash = (IF accepted THEN expected ELSE NoHash)
      /\ t.seals = seals /\ t.seg0legacy = legacy /\ t.expectedSeq = s.expectedSeq + 1
  BY <1>4
<1> QED
  BY <1>1, <1>2, <1>3, <1>5 DEF KeyedLineFields

LEMMA LegacyStep ==
  ASSUME NEW f, NEW i \in Nat, NEW n, n = i + 1
  PROVE  /\ ~Seg0HadLegacy(f, 0)
         /\ Seg0HadLegacy(f, n) <=> Seg0HadLegacy(f, i) \/ (SealsThrough(f, i) = 0 /\ f[n].v < 3)
<1>1. n - 1 = i /\ 1..n = (1..i) \cup {n} /\ 1..0 = {}
  OBVIOUS
<1> QED
  BY <1>1 DEF Seg0HadLegacy

LEMMA KeyedWalkStep ==
  ASSUME NEW f, NEW ks, NEW i \in Nat, NEW n, n = i + 1, NEW s, KeyedState(f, ks, i, s),
         NEW t, t = KeyedLine(s, f[n], ks)
  PROVE  KeyedState(f, ks, n, t)
<1>1. PICK e : e = f[n]
  OBVIOUS
<1>2. PICK seals : seals = s.seals + (IF IsSeal(e) THEN 1 ELSE 0)
  OBVIOUS
<1>3. PICK legacy : legacy = (s.seg0legacy \/ (s.seals = 0 /\ e.v < 3))
  OBVIOUS
<1>4. KeyedLineFields(s, e, ks, t, seals, legacy)
  BY <1>1, <1>2, <1>3, KeyedLineMeans, Zenon
<1>5. n \in Nat /\ n + 1 # 1 /\ (n + 1) - 1 = n
  OBVIOUS
<1>6. seals = SealsThrough(f, n)
  <2>1. SealsThrough(f, n) = (IF IsSeal(f[n]) THEN SealsThrough(f, i) + 1 ELSE SealsThrough(f, i))
        /\ SealsThrough(f, i) \in Nat
    BY SealsThroughStep
  <2>2. s.seals = SealsThrough(f, i)
    BY DEF KeyedState
  <2> QED
    BY <1>1, <1>2, <2>1, <2>2
<1>7. legacy <=> Seg0HadLegacy(f, n)
  <2>1. Seg0HadLegacy(f, n) <=> Seg0HadLegacy(f, i) \/ (SealsThrough(f, i) = 0 /\ f[n].v < 3)
    BY LegacyStep
  <2> QED
    BY <1>1, <1>3, <2>1 DEF KeyedState
<1>8. RevealsHonestly(e.body, ks, legacy) <=> HonestReveal(f, n, ks)
  BY <1>1, <1>7 DEF RevealsHonestly, HonestReveal
<1>9. t.ok <=> s.ok /\ KeyedPasses(f, n, ks)
  <2>1. ASSUME s.ok
        PROVE  t.ok <=> KeyedPasses(f, n, ks)
    <3>1. s.lastHash = LastHash(f, n) /\ s.expectedSeq = n
      BY <2>1 DEF KeyedState
    <3> QED
      BY <1>1, <1>4, <1>6, <1>8, <2>1, <3>1
      DEF KeyedLineFields, KeyedPasses, KeyedOK, ChainLinked, MacUnder
  <2>2. t.ok => s.ok
    BY <1>4 DEF KeyedLineFields
  <2> QED
    BY <2>1, <2>2
<1>10. t.ok <=> \A j \in 1..n : KeyedPasses(f, j, ks)
  <2>1. 1..n = (1..i) \cup {n}
    OBVIOUS
  <2>2. s.ok <=> \A j \in 1..i : KeyedPasses(f, j, ks)
    BY DEF KeyedState
  <2> QED
    BY <1>9, <2>1, <2>2
<1>11. t.ok => t.lastHash = LastHash(f, n + 1)
  BY <1>1, <1>4, <1>5 DEF KeyedLineFields, LastHash
<1>12. t.expectedSeq = n + 1
  BY <1>4 DEF KeyedLineFields, KeyedState
<1> QED
  BY <1>4, <1>6, <1>7, <1>10, <1>11, <1>12 DEF KeyedState, KeyedLineFields

\* verifyKeyed accepts exactly when every line passes.
LEMMA VerifyKeyedMeans ==
  ASSUME NEW f, Len(f) \in Nat, NEW t, NEW ks
  PROVE  verifyKeyed(f, t, ks)
           <=> t # "garbage" /\ \A i \in 1..Len(f) : KeyedPasses(f, i, ks)
<1> DEFINE IsKeyed(s, n) ==
      s = [i \in 0..n |-> IF i = 0 THEN KeyedStart ELSE KeyedLine(s[i - 1], f[i], ks)]
<1>1. PICK s : /\ IsWalk("keyed", f, ks, s, Len(f))
               /\ verifyKeyed(f, t, ks) <=> s[Len(f)].ok /\ t # "garbage"
  <2>1. ASSUME NEW s PROVE IsWalk("keyed", f, ks, s, Len(f)) <=> IsKeyed(s, Len(f))
    <3>1. IsWalk("keyed", f, ks, s, Len(f)) => IsKeyed(s, Len(f))
      BY DEF IsWalk, WalkStart, WalkStep
    <3>2. IsKeyed(s, Len(f)) => IsWalk("keyed", f, ks, s, Len(f))
      BY DEF IsWalk, WalkStart, WalkStep
    <3> QED
      BY <3>1, <3>2
  <2>2. \E s : IsKeyed(s, Len(f))
    BY <2>1, WalkExists
  <2>3. \E s : IsKeyed(s, Len(f)) /\ (verifyKeyed(f, t, ks) <=> s[Len(f)].ok /\ t # "garbage")
    BY <2>2, Zenon DEF verifyKeyed
  <2> QED
    BY <2>1, <2>3
<1>2. PICK n : n = Len(f) /\ n \in Nat
  OBVIOUS
<1>3. s[0] = KeyedStart /\ \A i \in 1..n : s[i] = KeyedLine(s[i - 1], f[i], ks)
  <2>1. IsWalk("keyed", f, ks, s, n)
    BY <1>1, <1>2
  <2>2. StepByStep("keyed", f, ks, s, n)
    BY <1>2, <2>1, WalkSteps, Zenon
  <2> QED
    BY <2>2 DEF StepByStep, WalkStart, WalkStep
<1> DEFINE Bad == {i \in 0..n : ~KeyedState(f, ks, i, s[i])}
<1>4. Bad = {}
  <2> SUFFICES ASSUME Bad # {} PROVE FALSE
    OBVIOUS
  <2>1. PICK m \in Bad : \A k \in Bad : m <= k
    <3>1. Bad \subseteq Nat
      BY <1>2
    <3> HIDE DEF Bad
    <3> QED
      BY <3>1, LeastNat
  <2>2. KeyedState(f, ks, 0, s[0])
    <3>1. /\ KeyedStart.ok = TRUE /\ KeyedStart.lastHash = ZeroHash /\ KeyedStart.seals = 0
          /\ KeyedStart.seg0legacy = FALSE /\ KeyedStart.expectedSeq = 1
      BY DEF KeyedStart
    <3>2. SealsThrough(f, 0) = 0 /\ ~Seg0HadLegacy(f, 0)
      BY SealsThroughStep, LegacyStep
    <3>3. 1..0 = {}
      OBVIOUS
    <3> QED
      BY <1>3, <3>1, <3>2, <3>3 DEF KeyedState, LastHash
  <2>3. m \in 0..n /\ m # 0 /\ ~KeyedState(f, ks, m, s[m])
    BY <2>1, <2>2
  <2>4. PICK i : i = m - 1
    OBVIOUS
  <2>5. i \in Nat /\ m = i + 1 /\ i \in 0..n /\ m \in 1..n /\ ~(m <= i)
    BY <1>2, <2>3, <2>4
  <2>6. KeyedState(f, ks, i, s[i])
    BY <2>1, <2>5
  <2>7. s[m] = KeyedLine(s[i], f[m], ks)
    BY <1>3, <2>4, <2>5
  <2> QED
    BY <2>3, <2>5, <2>6, <2>7, KeyedWalkStep, Zenon
<1>5. KeyedState(f, ks, n, s[n])
  BY <1>2, <1>4
<1> HIDE DEF IsKeyed
<1> QED
  BY <1>1, <1>2, <1>5 DEF KeyedState

(***************************************************************************)
(* finishSegment.                                                          *)
(***************************************************************************)

\* The MAC of the k-th buffered entry, behind the one buffered before it.
BufferedMac(buf, k, rev) ==
  buf[k].hash = event_hash(buf[k].v, IF k = 1 THEN buf[1].prev_hash ELSE buf[k - 1].hash,
                           buf[k].seq, buf[k].etype, buf[k].body, rev[buf[k].epoch])

BufferedOK(buf, k, rev) ==
  /\ buf[k].epoch \in DOMAIN rev /\ SupportedVersion(buf[k].v) /\ BufferedMac(buf, k, rev)

\* The recomputed hashes are those on file exactly when every entry's MAC is
\* right behind the hash on file.
RightlyHashed(buf, n, rev, leaves) ==
  /\ (\A k \in 1..n : buf[k].hash = leaves[k]) <=> \A k \in 1..n : BufferedMac(buf, k, rev)
  /\ (\A k \in 1..n : buf[k].hash = leaves[k]) => leaves = [k \in 1..n |-> buf[k].hash]

LEMMA RecomputedMeans ==
  ASSUME NEW buf, NEW n \in Nat, n = Len(buf), NEW rev,
         NEW leaves, leaves = Recomputed(buf, rev)
  PROVE  RightlyHashed(buf, n, rev, leaves)
<1> DEFINE IsHash(c) ==
      c = [i \in 0..Len(buf) |->
             IF i = 0 THEN buf[1].prev_hash
             ELSE event_hash(buf[i].v, c[i - 1], buf[i].seq, buf[i].etype, buf[i].body,
                             rev[buf[i].epoch])]
<1>1. PICK c : IsWalk("buffer", buf, rev, c, n) /\ leaves = [k \in 1..n |-> c[k]]
  <2>1. ASSUME NEW c PROVE IsWalk("buffer", buf, rev, c, n) <=> IsHash(c)
    <3>1. IsWalk("buffer", buf, rev, c, n) => IsHash(c)
      BY DEF IsWalk, WalkStart, WalkStep
    <3>2. IsHash(c) => IsWalk("buffer", buf, rev, c, n)
      BY DEF IsWalk, WalkStart, WalkStep
    <3> QED
      BY <3>1, <3>2
  <2>2. \E c : IsHash(c)
    BY <2>1, WalkExists
  <2>3. \E c : IsHash(c) /\ leaves = [k \in 1..Len(buf) |-> c[k]]
    BY <2>2, Zenon DEF Recomputed
  <2> QED
    BY <2>1, <2>3
<1>2. /\ c[0] = buf[1].prev_hash
      /\ \A k \in 1..n : c[k] = event_hash(buf[k].v, c[k - 1], buf[k].seq, buf[k].etype,
                                          buf[k].body, rev[buf[k].epoch])
  <2>1. StepByStep("buffer", buf, rev, c, n)
    BY <1>1, WalkSteps, Zenon
  <2> QED
    BY <2>1 DEF StepByStep, WalkStart, WalkStep
<1> HIDE DEF IsHash
<1>3. \A k \in 1..n : leaves[k] = c[k]
  BY <1>1
<1>4. ASSUME \A k \in 1..n : buf[k].hash = c[k], NEW k \in 1..n PROVE BufferedMac(buf, k, rev)
  <2>1. CASE k = 1
    BY <1>2, <1>4, <2>1 DEF BufferedMac
  <2>2. CASE k # 1
    <3>1. k - 1 \in 1..n
      BY <2>2
    <3> QED
      BY <1>2, <1>4, <2>2, <3>1 DEF BufferedMac
  <2> QED
    BY <2>1, <2>2
<1>5. ASSUME \A k \in 1..n : BufferedMac(buf, k, rev) PROVE \A k \in 1..n : buf[k].hash = c[k]
  <2> DEFINE Bad == {k \in 1..n : buf[k].hash # c[k]}
  <2> SUFFICES ASSUME Bad # {} PROVE FALSE
    OBVIOUS
  <2>1. PICK k \in Bad : \A j \in Bad : k <= j
    <3>1. Bad \subseteq Nat
      OBVIOUS
    <3> HIDE DEF Bad
    <3> QED
      BY <3>1, LeastNat
  <2>2. CASE k = 1
    BY <1>2, <1>5, <2>1, <2>2 DEF BufferedMac
  <2>3. CASE k # 1
    <3>1. k \in 1..n /\ k - 1 \in 1..n /\ ~(k <= k - 1)
      BY <2>1, <2>3
    <3>2. buf[k - 1].hash = c[k - 1]
      BY <2>1, <3>1
    <3> QED
      BY <1>2, <1>5, <2>1, <2>3, <3>2 DEF BufferedMac
  <2> QED
    BY <2>2, <2>3
<1>6. (\A k \in 1..n : buf[k].hash = c[k]) => leaves = [k \in 1..n |-> buf[k].hash]
  BY <1>1
<1> QED
  BY <1>3, <1>4, <1>5, <1>6 DEF RightlyHashed

\* What both implementations ask of line i in public.
PublicPasses(f, i) == ChainLinked(f, i) /\ (IsSeal(f[i]) => finish_segment(f, i))

\* The buffer holds the lines lo..i of f.
Buffered(f, buf, lo, i) ==
  /\ IsSequence(buf) /\ Len(buf) = i - lo + 1
  /\ \A k \in 1..Len(buf) : buf[k] = f[lo + k - 1]

\* What verifyPublic knows after i lines that pass, the last seal being at
\* line z, or z = 0.
PublicKnows(f, i, s, z) ==
  /\ s.sealsSeen = SealsThrough(f, i) /\ Buffered(f, s.buffer, Larger(z, 1), i)
  /\ s.segmentStart = Larger(z, 1)
  /\ s.prevSealHash = IF z = 0 THEN NoHash ELSE f[z].hash
  /\ s.anchorId = IF z = 0 THEN {} ELSE {Anchor(f[z].body)}

LastSeal(f, i, z) ==
  /\ z \in 0..i /\ (z > 0 => IsSeal(f[z])) /\ \A a \in (z + 1)..i : ~IsSeal(f[a])

\* The variables of verifyPublic.
IsPublicWalk(s) ==
  s = [ok |-> s.ok, sealsSeen |-> s.sealsSeen, lastHash |-> s.lastHash, buffer |-> s.buffer,
       segmentStart |-> s.segmentStart, prevSealHash |-> s.prevSealHash,
       anchorId |-> s.anchorId, expectedSeq |-> s.expectedSeq]

PublicState(f, i, s) ==
  /\ IsPublicWalk(s)
  /\ s.expectedSeq = i + 1 /\ s.lastHash = LastHash(f, i + 1)
  /\ s.ok <=> \A j \in 1..i : PublicPasses(f, j)
  /\ s.ok => \E z : LastSeal(f, i, z) /\ PublicKnows(f, i, s, z)

\* finishSegment with its local names as parameters.
FinishWalk(s, r, buf, leaves) ==
  /\ r.segment = s.sealsSeen /\ r.prev_seal = s.prevSealHash
  /\ buf # << >> /\ r.start_seq = s.segmentStart
  /\ r.end_seq = s.segmentStart + Len(buf) - 1
  /\ \A k \in 1..Len(buf) : buf[k].epoch \in DOMAIN r.revealed /\ SupportedVersion(buf[k].v)
  /\ \A k \in 1..Len(buf) : buf[k].hash = leaves[k]
  /\ r.merkle_root = mth(leaves) /\ r.tip_hash = leaves[Len(buf)]
  /\ s.anchorId \subseteq {Anchor(r)}
  /\ r.payload \in {NoHash, seal_payload(r)}
  /\ verify_signature(r.scheme, r.public_key, r.signature, seal_payload(r))

LEMMA FinishWalkMeans ==
  ASSUME NEW s, NEW r, NEW buf, buf = s.buffer, NEW leaves, leaves = Recomputed(buf, r.revealed)
  PROVE  finishSegment(s, r) <=> FinishWalk(s, r, buf, leaves)
BY Zenon DEF finishSegment, FinishWalk

\* The MACs of the buffered entries are those of the lines lo..n - 1.
LEMMA BufferMeans ==
  ASSUME NEW f, NEW n \in Nat, NEW lo \in 1..n, \A j \in 1..(n - 1) : ChainLinked(f, j),
         NEW buf, Buffered(f, buf, lo, n - 1), NEW rev
  PROVE  (\A k \in 1..(n - lo) : BufferedOK(buf, k, rev))
           <=> \A j \in lo..(n - 1) : f[j].epoch \in DOMAIN rev /\ MacUnder(f, j, rev[f[j].epoch])
<1>1. Len(buf) = n - lo /\ \A k \in 1..(n - lo) : buf[k] = f[lo + k - 1]
  <2>1. Len(buf) = (n - 1) - lo + 1 /\ \A k \in 1..Len(buf) : buf[k] = f[lo + k - 1]
    BY DEF Buffered
  <2>2. (n - 1) - lo + 1 = n - lo
    OBVIOUS
  <2> QED
    BY <2>1, <2>2
<1>2. ASSUME NEW k \in 1..(n - lo), NEW j, j = lo + k - 1
      PROVE  /\ j \in lo..(n - 1) /\ buf[k] = f[j]
             /\ SupportedVersion(buf[k].v) /\ BufferedMac(buf, k, rev)
                  <=> MacUnder(f, j, rev[f[j].epoch])
  <2>1. j \in lo..(n - 1) /\ j \in 1..(n - 1) /\ buf[k] = f[j]
    BY <1>1, <1>2
  <2>2. LastHash(f, j) = IF k = 1 THEN buf[1].prev_hash ELSE buf[k - 1].hash
    <3>1. CASE k = 1
      <4>1. ChainLinked(f, j)
        BY <2>1
      <4> QED
        BY <2>1, <3>1, <4>1 DEF ChainLinked
    <3>2. CASE k # 1
      <4>1. k - 1 \in 1..(n - lo) /\ j # 1 /\ lo + (k - 1) - 1 = j - 1
        BY <1>2, <3>2
      <4>2. buf[k - 1] = f[j - 1]
        BY <1>1, <4>1
      <4> QED
        BY <3>2, <4>1, <4>2 DEF LastHash
    <3> QED
      BY <3>1, <3>2
  <2> QED
    BY <2>1, <2>2 DEF BufferedMac, MacUnder
<1>3. ASSUME NEW j \in lo..(n - 1) PROVE \E k \in 1..(n - lo) : j = lo + k - 1
  <2>1. j - lo + 1 \in 1..(n - lo) /\ j = lo + (j - lo + 1) - 1
    OBVIOUS
  <2> QED
    BY <2>1
<1>4. ASSUME \A k \in 1..(n - lo) : BufferedOK(buf, k, rev),
             NEW j \in lo..(n - 1)
      PROVE  f[j].epoch \in DOMAIN rev /\ MacUnder(f, j, rev[f[j].epoch])
  <2>1. PICK k \in 1..(n - lo) : j = lo + k - 1
    BY <1>3
  <2>2. /\ buf[k] = f[j]
        /\ SupportedVersion(buf[k].v) /\ BufferedMac(buf, k, rev)
             <=> MacUnder(f, j, rev[f[j].epoch])
    BY <1>2, <2>1, Zenon
  <2> QED
    BY <1>4, <2>2 DEF BufferedOK
<1>5. ASSUME \A j \in lo..(n - 1) : f[j].epoch \in DOMAIN rev /\ MacUnder(f, j, rev[f[j].epoch]),
             NEW k \in 1..(n - lo)
      PROVE  BufferedOK(buf, k, rev)
  <2>1. PICK j : j = lo + k - 1
    OBVIOUS
  <2>2. /\ j \in lo..(n - 1) /\ buf[k] = f[j]
        /\ SupportedVersion(buf[k].v) /\ BufferedMac(buf, k, rev)
             <=> MacUnder(f, j, rev[f[j].epoch])
    BY <1>2, <2>1, Zenon
  <2> QED
    BY <1>5, <2>2 DEF BufferedOK
<1> QED
  BY <1>4, <1>5, Zenon

PinnedAs(anchorId, r, first) ==
  anchorId \subseteq {Anchor(r)} <=> r.scheme = first.scheme /\ r.public_key = first.public_key

\* One anchor: the one of the last seal is the one of the first.
LEMMA AnchorMeans ==
  ASSUME NEW f, Len(f) \in Nat, NEW i \in Nat, NEW n, n = i + 1, n \in 1..Len(f), IsSeal(f[n]),
         NEW z, LastSeal(f, i, z), \A j \in 1..i : PublicPasses(f, j),
         NEW r, r = f[n].body, NEW first, first = f[Min(SealLines(f))].body,
         NEW anchorId, anchorId = IF z = 0 THEN {} ELSE {Anchor(f[z].body)}
  PROVE  PinnedAs(anchorId, r, first)
<1> USE DEF PinnedAs
<1>1. z \in 0..i /\ (z > 0 => IsSeal(f[z])) /\ \A a \in (z + 1)..i : ~IsSeal(f[a])
  BY DEF LastSeal
<1>2. CASE z = 0
  <2>1. PICK S : S = SealLines(f)
    OBVIOUS
  <2>2. n \in S /\ S \subseteq Nat /\ \A j \in S : n <= j
    <3>1. \A j : j \in S <=> j \in 1..Len(f) /\ IsSeal(f[j])
      BY <2>1 DEF SealLines
    <3>2. ASSUME NEW j \in S PROVE n <= j
      <4>1. j \in 1..Len(f) /\ j \notin (z + 1)..i
        BY <1>1, <3>1
      <4> QED
        BY <1>2, <4>1
    <3> QED
      BY <3>1, <3>2
  <2>3. Min(S) \in S /\ \A y \in S : Min(S) <= y
    BY <2>2, MinFacts
  <2>4. PICK m : m = Min(S)
    OBVIOUS
  <2>5. m \in S /\ m <= n /\ n <= m
    BY <2>2, <2>3, <2>4
  <2>6. m = n
    BY <2>2, <2>5
  <2>7. first = r
    BY <2>1, <2>4, <2>6
  <2> QED
    BY <1>2, <2>7
<1>3. CASE z # 0
  <2>1. z \in 1..i /\ IsSeal(f[z])
    BY <1>1, <1>3
  <2>2. finish_segment(f, z)
    BY <2>1 DEF PublicPasses
  <2>3. f[z].body.scheme = first.scheme /\ f[z].body.public_key = first.public_key
    BY <2>2, Zenon DEF finish_segment
  <2>4. anchorId = {Anchor(first)}
    BY <1>3, <2>3 DEF Anchor
  <2>5. Anchor(first) = Anchor(r) <=> r.scheme = first.scheme /\ r.public_key = first.public_key
    <3>1. Anchor(first) = Anchor(r)
            => Anchor(first).scheme = Anchor(r).scheme /\ Anchor(first).pk = Anchor(r).pk
      OBVIOUS
    <3> QED
      BY <3>1 DEF Anchor
  <2>6. {Anchor(first)} \subseteq {Anchor(r)} <=> Anchor(first) = Anchor(r)
    BY Zenon
  <2> QED
    BY <2>4, <2>5, <2>6, Zenon
<1> QED
  BY <1>2, <1>3

LEMMA FinishAgrees ==
  ASSUME NEW f, Len(f) \in Nat, NEW i \in Nat, NEW n, n = i + 1, n \in 1..Len(f), IsSeal(f[n]),
         NEW s, NEW z, LastSeal(f, i, z), PublicKnows(f, i, s, z),
         \A j \in 1..i : PublicPasses(f, j)
  PROVE  finishSegment(s, f[n].body) <=> finish_segment(f, n)
<1>1. PICK r, lo, start, first, buf :
        /\ r = f[n].body /\ lo = Larger(z, 1) /\ start = IF z = 0 THEN 1 ELSE f[z].seq
        /\ first = f[Min(SealLines(f))].body /\ buf = s.buffer
  OBVIOUS
<1>2. PICK leaves : leaves = Recomputed(buf, r.revealed)
  OBVIOUS
<1>3. z \in 0..i /\ n - 1 = i /\ n \in Nat
  BY DEF LastSeal
<1>4. finish_segment(f, n) <=> FinishChecks(f, n, r, z, lo, start, first)
  <2>1. Max({0} \cup {j \in SealLines(f) : j < n}) = z
    <3>1. z \in 0..(n - 1) /\ (z > 0 => IsSeal(f[z])) /\ \A a \in (z + 1)..(n - 1) : ~IsSeal(f[a])
      BY <1>3 DEF LastSeal
    <3> QED
      BY <3>1, LastSealBefore
  <2> QED
    BY <1>1, <2>1, FinishMeans, Zenon
<1>5. finishSegment(s, r) <=> FinishWalk(s, r, buf, leaves)
  BY <1>1, <1>2, FinishWalkMeans, Zenon
<1>6. lo \in 1..n /\ start = lo
  <2>1. z # 0 => z \in 1..i
    BY <1>3
  <2>2. z # 0 => f[z].seq = z
    BY <2>1 DEF PublicPasses, ChainLinked
  <2> QED
    BY <1>1, <1>3, <2>1, <2>2 DEF Larger
<1>7. PICK m : m = n - lo /\ m \in Nat
  BY <1>3, <1>6
<1>8. /\ Buffered(f, buf, lo, n - 1) /\ IsSequence(buf) /\ Len(buf) = m
      /\ \A k \in 1..m : buf[k] = f[lo + k - 1]
  <2>1. Buffered(f, buf, lo, n - 1)
    BY <1>1, <1>3 DEF PublicKnows
  <2>2. (n - 1) - lo + 1 = m
    BY <1>3, <1>6, <1>7
  <2> QED
    BY <2>1, <2>2 DEF Buffered
<1>9. (\A k \in 1..m : BufferedOK(buf, k, r.revealed))
        <=> \A j \in lo..(n - 1) :
              f[j].epoch \in DOMAIN r.revealed /\ MacUnder(f, j, r.revealed[f[j].epoch])
  <2>1. \A j \in 1..(n - 1) : ChainLinked(f, j)
    BY <1>3 DEF PublicPasses
  <2> QED
    BY <1>3, <1>6, <1>7, <1>8, <2>1, BufferMeans
<1>10. /\ (\A k \in 1..m : buf[k].hash = leaves[k])
             <=> \A k \in 1..m : BufferedMac(buf, k, r.revealed)
       /\ (\A k \in 1..m : buf[k].hash = leaves[k]) => leaves = [k \in 1..m |-> buf[k].hash]
  <2>1. m \in Nat /\ m = Len(buf)
    BY <1>7, <1>8
  <2>2. RightlyHashed(buf, m, r.revealed, leaves)
    BY <1>2, <2>1, RecomputedMeans, Zenon
  <2> QED
    BY <2>2 DEF RightlyHashed
<1>11. buf # << >> <=> lo < n
  <2>1. buf = << >> <=> m = 0
    <3>1. buf \in Seq({buf[k] : k \in 1..Len(buf)})
      BY <1>8 DEF IsSequence
    <3> QED
      BY <1>8, <3>1, EmptySeq
  <2> QED
    BY <1>3, <1>6, <1>7, <2>1
<1>12. PinnedAs(s.anchorId, r, first)
  <2>1. s.anchorId = IF z = 0 THEN {} ELSE {Anchor(f[z].body)}
    BY DEF PublicKnows
  <2> QED
    BY <1>1, <2>1, AnchorMeans, ZenonT(60)
<1>13. ASSUME lo < n, \A k \in 1..m : buf[k].hash = leaves[k]
       PROVE  leaves = [k \in 1..(n - lo) |-> f[lo + k - 1].hash] /\ leaves[m] = f[n - 1].hash
  <2>1. leaves = [k \in 1..m |-> buf[k].hash]
    BY <1>10, <1>13
  <2>2. m \in 1..m /\ lo + m - 1 = n - 1
    BY <1>3, <1>6, <1>7, <1>13
  <2> QED
    BY <1>7, <1>8, <2>1, <2>2
<1>14. /\ s.sealsSeen = SealsThrough(f, n - 1) /\ s.segmentStart = start
       /\ s.prevSealHash = IF z = 0 THEN NoHash ELSE f[z].hash
  BY <1>1, <1>3, <1>6 DEF PublicKnows
<1>15. FinishWalk(s, r, buf, leaves) <=> FinishChecks(f, n, r, z, lo, start, first)
  <2>1. /\ \A k \in 1..m : buf[k].epoch \in DOMAIN r.revealed /\ SupportedVersion(buf[k].v)
        /\ \A k \in 1..m : buf[k].hash = leaves[k]
        <=> \A k \in 1..m : BufferedOK(buf, k, r.revealed)
    BY <1>10 DEF BufferedOK
  <2> QED
    BY <1>7, <1>8, <1>9, <1>11, <1>12, <1>13, <1>14, <2>1 DEF FinishWalk, FinishChecks, PinnedAs
<1> QED
  BY <1>1, <1>4, <1>5, <1>15

(***************************************************************************)
(* verifyPublic.                                                           *)
(***************************************************************************)

\* Whether the walk accepts the line e.
Accepted(s, e) ==
  /\ s.ok /\ e.prev_hash = s.lastHash /\ e.seq = s.expectedSeq
  /\ IsSeal(e) => finishSegment(s, e.body)

PublicLineFields(s, e, t) ==
  /\ IsPublicWalk(t)
  /\ t.ok = Accepted(s, e) /\ t.expectedSeq = s.expectedSeq + 1 /\ t.lastHash = e.hash
  /\ Accepted(s, e) /\ IsSeal(e) =>
       /\ t.sealsSeen = s.sealsSeen + 1 /\ t.buffer = <<e>> /\ t.segmentStart = e.seq
       /\ t.prevSealHash = e.hash /\ t.anchorId = {Anchor(e.body)}
  /\ ~IsSeal(e) =>
       /\ t.sealsSeen = s.sealsSeen /\ t.buffer = Append(s.buffer, e)
       /\ t.segmentStart = s.segmentStart
       /\ t.prevSealHash = s.prevSealHash /\ t.anchorId = s.anchorId

LEMMA PublicLineMeans ==
  ASSUME NEW s, IsPublicWalk(s), NEW e, NEW t, t = PublicLine(s, e)
  PROVE  PublicLineFields(s, e, t)
<1>1. PICK a : a = Accepted(s, e)
  OBVIOUS
<1>2. PICK b : b = [s EXCEPT !.ok = a, !.expectedSeq = @ + 1, !.lastHash = e.hash]
  OBVIOUS
<1>3. b = [ok |-> a, sealsSeen |-> s.sealsSeen, lastHash |-> e.hash, buffer |-> s.buffer,
           segmentStart |-> s.segmentStart, prevSealHash |-> s.prevSealHash,
           anchorId |-> s.anchorId, expectedSeq |-> s.expectedSeq + 1]
  BY <1>2 DEF IsPublicWalk
<1>4. t = IF a /\ IsSeal(e)
          THEN [b EXCEPT !.sealsSeen = @ + 1, !.buffer = <<e>>, !.segmentStart = e.seq,
                         !.prevSealHash = e.hash, !.anchorId = {Anchor(e.body)}]
          ELSE [b EXCEPT !.buffer = Append(@, e)]
  BY <1>1, <1>2, Zenon DEF PublicLine, Accepted
<1>5. CASE a /\ IsSeal(e)
  <2>1. t = [ok |-> a, sealsSeen |-> s.sealsSeen + 1, lastHash |-> e.hash, buffer |-> <<e>>,
             segmentStart |-> e.seq, prevSealHash |-> e.hash,
             anchorId |-> {Anchor(e.body)}, expectedSeq |-> s.expectedSeq + 1]
    BY <1>3, <1>4, <1>5
  <2> QED
    BY <1>1, <1>5, <2>1 DEF PublicLineFields, IsPublicWalk
<1>6. CASE ~(a /\ IsSeal(e))
  <2>1. t = [ok |-> a, sealsSeen |-> s.sealsSeen, lastHash |-> e.hash,
             buffer |-> Append(s.buffer, e),
             segmentStart |-> s.segmentStart, prevSealHash |-> s.prevSealHash,
             anchorId |-> s.anchorId, expectedSeq |-> s.expectedSeq + 1]
    BY <1>3, <1>4, <1>6
  <2> QED
    BY <1>1, <1>6, <2>1 DEF PublicLineFields, IsPublicWalk
<1> QED
  BY <1>5, <1>6

\* One more line that passes.
LEMMA PublicKnowsStep ==
  ASSUME NEW f, NEW i \in Nat, NEW n, n = i + 1, NEW s, NEW z,
         LastSeal(f, i, z), PublicKnows(f, i, s, z),
         NEW t, PublicLineFields(s, f[n], t), Accepted(s, f[n]), f[n].seq = n
  PROVE  \E y : LastSeal(f, n, y) /\ PublicKnows(f, n, t, y)
<1>1. PICK e : e = f[n]
  OBVIOUS
<1>2. /\ SealsThrough(f, i) \in Nat
      /\ SealsThrough(f, n) = (IF IsSeal(f[n]) THEN SealsThrough(f, i) + 1 ELSE SealsThrough(f, i))
  BY SealsThroughStep
<1>3. s.sealsSeen = SealsThrough(f, i) /\ Buffered(f, s.buffer, Larger(z, 1), i)
  BY DEF PublicKnows
<1>4. CASE IsSeal(e)
  <2>1. LastSeal(f, n, n) /\ Larger(n, 1) = n /\ n # 0
    BY <1>1, <1>4 DEF LastSeal, Larger
  <2>2. /\ t.sealsSeen = s.sealsSeen + 1 /\ t.buffer = <<e>> /\ t.segmentStart = n
        /\ t.prevSealHash = e.hash /\ t.anchorId = {Anchor(e.body)}
    BY <1>1, <1>4 DEF PublicLineFields
  <2>3. Buffered(f, <<e>>, n, n)
    <3>1. Len(<<e>>) = 1 /\ <<e>>[1] = e
      OBVIOUS
    <3>2. IsSequence(<<e>>)
      <4>1. <<e>> \in Seq({e})
        OBVIOUS
      <4> QED
        BY <4>1, SelfTyped
    <3>3. n - n + 1 = 1 /\ n + 1 - 1 = n
      OBVIOUS
    <3>4. \A k \in 1..1 : k = 1
      OBVIOUS
    <3> QED
      BY <1>1, <3>1, <3>2, <3>3, <3>4 DEF Buffered
  <2>4. PublicKnows(f, n, t, n)
    BY <1>1, <1>2, <1>3, <1>4, <2>1, <2>2, <2>3 DEF PublicKnows
  <2> QED
    BY <2>1, <2>4
<1>5. CASE ~IsSeal(e)
  <2>1. LastSeal(f, n, z) /\ z \in 0..i
    BY <1>1, <1>5 DEF LastSeal
  <2>2. PICK lo : lo = Larger(z, 1) /\ lo \in Nat /\ lo <= n
    BY <2>1 DEF Larger
  <2>3. PICK b, c : b = s.buffer /\ c = Append(b, e)
    OBVIOUS
  <2>4. /\ t.sealsSeen = s.sealsSeen /\ t.buffer = c /\ t.segmentStart = s.segmentStart
        /\ t.prevSealHash = s.prevSealHash /\ t.anchorId = s.anchorId
    BY <1>1, <1>5, <2>3 DEF PublicLineFields
  <2>5. Buffered(f, c, lo, n)
    <3>1. IsSequence(b) /\ Len(b) = i - lo + 1 /\ \A k \in 1..Len(b) : b[k] = f[lo + k - 1]
      BY <1>3, <2>2, <2>3 DEF Buffered
    <3>2. /\ Len(b) \in Nat /\ IsSequence(c) /\ Len(c) = Len(b) + 1
          /\ (\A k \in 1..Len(b) : c[k] = b[k]) /\ c[Len(b) + 1] = e
      BY <2>3, <3>1, AppendFacts
    <3>3. Len(c) = n - lo + 1
      BY <2>2, <3>1, <3>2
    <3>4. ASSUME NEW k \in 1..Len(c) PROVE c[k] = f[lo + k - 1]
      <4>1. CASE k = Len(b) + 1
        <5>1. lo + k - 1 = n
          BY <2>2, <3>1, <4>1
        <5> QED
          BY <1>1, <3>2, <4>1, <5>1
      <4>2. CASE k # Len(b) + 1
        <5>1. k \in 1..Len(b)
          BY <3>2, <4>2
        <5> QED
          BY <3>1, <3>2, <5>1
      <4> QED
        BY <4>1, <4>2
    <3> QED
      BY <3>2, <3>3, <3>4 DEF Buffered
  <2>6. SealsThrough(f, n) = SealsThrough(f, i)
    BY <1>1, <1>2, <1>5
  <2>7. PublicKnows(f, n, t, z)
    BY <1>3, <2>2, <2>4, <2>5, <2>6 DEF PublicKnows
  <2> QED
    BY <2>1, <2>7
<1> QED
  BY <1>4, <1>5

LEMMA PublicWalkStep ==
  ASSUME NEW f, Len(f) \in Nat, NEW i \in Nat, NEW n, n = i + 1, n \in 1..Len(f),
         NEW s, PublicState(f, i, s), NEW t, t = PublicLine(s, f[n])
  PROVE  PublicState(f, n, t)
<1>1. PublicLineFields(s, f[n], t)
  <2>1. IsPublicWalk(s)
    BY DEF PublicState
  <2>2. PICK e : e = f[n]
    OBVIOUS
  <2> QED
    BY <2>1, <2>2, PublicLineMeans, Zenon
<1>2. s.expectedSeq = n /\ s.lastHash = LastHash(f, n)
  BY DEF PublicState
<1>3. IsPublicWalk(t) /\ t.expectedSeq = n + 1 /\ t.lastHash = LastHash(f, n + 1)
  <2>1. n + 1 # 1 /\ (n + 1) - 1 = n
    OBVIOUS
  <2> QED
    BY <1>1, <1>2, <2>1 DEF PublicLineFields, LastHash
<1>4. s.ok <=> \A j \in 1..i : PublicPasses(f, j)
  BY DEF PublicState
<1>5. ASSUME s.ok PROVE Accepted(s, f[n]) <=> PublicPasses(f, n)
  <2>1. PICK z : LastSeal(f, i, z) /\ PublicKnows(f, i, s, z)
    BY <1>5 DEF PublicState
  <2>2. IsSeal(f[n]) => (finishSegment(s, f[n].body) <=> finish_segment(f, n))
    BY <1>4, <1>5, <2>1, FinishAgrees, ZenonT(60)
  <2> QED
    BY <1>2, <1>5, <2>2 DEF Accepted, PublicPasses, ChainLinked
<1>6. t.ok <=> s.ok /\ PublicPasses(f, n)
  BY <1>1, <1>5 DEF PublicLineFields, Accepted
<1>7. t.ok <=> \A j \in 1..n : PublicPasses(f, j)
  <2>1. 1..n = (1..i) \cup {n}
    OBVIOUS
  <2> QED
    BY <1>4, <1>6, <2>1
<1>8. ASSUME t.ok PROVE \E y : LastSeal(f, n, y) /\ PublicKnows(f, n, t, y)
  <2>1. s.ok /\ Accepted(s, f[n]) /\ f[n].seq = n
    BY <1>5, <1>6, <1>8 DEF PublicPasses, ChainLinked
  <2>2. PICK z : LastSeal(f, i, z) /\ PublicKnows(f, i, s, z)
    BY <2>1 DEF PublicState
  <2> QED
    BY <1>1, <2>1, <2>2, PublicKnowsStep, ZenonT(60)
<1> QED
  BY <1>3, <1>7, <1>8 DEF PublicState

\* Nothing is known before the first line.
LEMMA PublicWalkStart ==
  ASSUME NEW f
  PROVE  PublicState(f, 0, PublicStart)
<1>1. PICK s : s = PublicStart
  OBVIOUS
<1>2. /\ s.ok = TRUE /\ s.sealsSeen = 0 /\ s.lastHash = ZeroHash /\ s.buffer = << >>
      /\ s.segmentStart = 1 /\ s.prevSealHash = NoHash /\ s.anchorId = {} /\ s.expectedSeq = 1
      /\ IsPublicWalk(s)
  BY <1>1 DEF PublicStart, IsPublicWalk
<1>3. SealsThrough(f, 0) = 0 /\ LastHash(f, 1) = ZeroHash /\ 1..0 = {} /\ Larger(0, 1) = 1
  BY SealsThroughStep DEF LastHash, Larger
<1>4. Buffered(f, << >>, 1, 0)
  <2>1. << >> \in Seq({}) /\ Len(<< >>) = 0
    BY EmptySeq
  <2>2. IsSequence(<< >>)
    BY <2>1, SelfTyped
  <2> QED
    BY <2>1, <2>2 DEF Buffered
<1>5. LastSeal(f, 0, 0) /\ PublicKnows(f, 0, s, 0)
  BY <1>2, <1>3, <1>4 DEF LastSeal, PublicKnows
<1> QED
  BY <1>1, <1>2, <1>3, <1>5 DEF PublicState

\* verifyPublic accepts exactly when every line passes.
LEMMA VerifyPublicMeans ==
  ASSUME NEW f, Len(f) \in Nat, NEW t
  PROVE  verifyPublic(f, t) <=> t # "garbage" /\ \A i \in 1..Len(f) : PublicPasses(f, i)
<1> DEFINE IsPublic(s, n) ==
      s = [i \in 0..n |-> IF i = 0 THEN PublicStart ELSE PublicLine(s[i - 1], f[i])]
<1>1. PICK s : /\ IsWalk("public", f, {}, s, Len(f))
               /\ verifyPublic(f, t) <=> s[Len(f)].ok /\ t # "garbage"
  <2>1. ASSUME NEW s PROVE IsWalk("public", f, {}, s, Len(f)) <=> IsPublic(s, Len(f))
    <3>1. IsWalk("public", f, {}, s, Len(f)) => IsPublic(s, Len(f))
      BY DEF IsWalk, WalkStart, WalkStep
    <3>2. IsPublic(s, Len(f)) => IsWalk("public", f, {}, s, Len(f))
      BY DEF IsWalk, WalkStart, WalkStep
    <3> QED
      BY <3>1, <3>2
  <2>2. \E s : IsPublic(s, Len(f))
    BY <2>1, WalkExists
  <2>3. \E s : IsPublic(s, Len(f)) /\ (verifyPublic(f, t) <=> s[Len(f)].ok /\ t # "garbage")
    BY <2>2, Zenon DEF verifyPublic
  <2> QED
    BY <2>1, <2>3
<1>2. PICK n : n = Len(f) /\ n \in Nat
  OBVIOUS
<1>3. s[0] = PublicStart /\ \A i \in 1..n : s[i] = PublicLine(s[i - 1], f[i])
  <2>1. IsWalk("public", f, {}, s, n)
    BY <1>1, <1>2
  <2>2. StepByStep("public", f, {}, s, n)
    BY <1>2, <2>1, WalkSteps, Zenon
  <2> QED
    BY <2>2 DEF StepByStep, WalkStart, WalkStep
<1> DEFINE Bad == {i \in 0..n : ~PublicState(f, i, s[i])}
<1>4. Bad = {}
  <2> SUFFICES ASSUME Bad # {} PROVE FALSE
    OBVIOUS
  <2>1. PICK m \in Bad : \A k \in Bad : m <= k
    <3>1. Bad \subseteq Nat
      BY <1>2
    <3> HIDE DEF Bad
    <3> QED
      BY <3>1, LeastNat
  <2>2. m \in 0..n /\ m # 0 /\ ~PublicState(f, m, s[m])
    BY <1>3, <2>1, PublicWalkStart
  <2>3. PICK i : i = m - 1
    OBVIOUS
  <2>4. i \in Nat /\ m = i + 1 /\ i \in 0..n /\ m \in 1..n /\ ~(m <= i) /\ m \in 1..Len(f)
    BY <1>2, <2>2, <2>3
  <2>5. PublicState(f, i, s[i])
    BY <2>1, <2>4
  <2>6. s[m] = PublicLine(s[i], f[m])
    BY <1>3, <2>3, <2>4
  <2> QED
    BY <2>2, <2>4, <2>5, <2>6, PublicWalkStep, ZenonT(60)
<1>5. PublicState(f, n, s[n])
  BY <1>2, <1>4
<1> HIDE DEF IsPublic
<1> QED
  BY <1>1, <1>2, <1>5 DEF PublicState

(***************************************************************************)
(* The two implementations.                                                *)
(***************************************************************************)

\* verify.mjs and the Rust library, written apart, give one verdict, keyed
\* and public, on whatever lines a file holds, written by the library or by
\* anybody else, and with whatever keyring: the counters, the running hash
\* and the buffer of the one come to the checks of the other.
THEOREM ImplementationsAgree ==
  ASSUME NEW f, Len(f) \in Nat, NEW t
  PROVE  /\ verifyPublic(f, t) <=> verify_public(f, t)
         /\ \A ks : verifyKeyed(f, t, ks) <=> verify(f, t, ks) = "Ok"
<1>1. verifyPublic(f, t) <=> verify_public(f, t)
  BY VerifyPublicMeans DEF verify_public, PublicPasses
<1>2. ASSUME NEW ks PROVE verifyKeyed(f, t, ks) <=> verify(f, t, ks) = "Ok"
  BY VerifyKeyedMeans, VerifyMeans DEF KeyedPasses
<1> QED
  BY <1>1, <1>2

\* In every state of every ledger, storage that fails included, an auditor with
\* Node and one with the Rust binary never disagree about the file on disk or
\* about an edit of it.
THEOREM AuditorsAgree == Spec => []VerifiersAgree
<1>1. TypeOK => VerifiersAgree
  <2> SUFFICES ASSUME TypeOK, NEW f \in Altered(file) \cup {file}
               PROVE  /\ verifyPublic(f, tail) <=> verify_public(f, tail)
                      /\ \A ks \in Rings : verifyKeyed(f, tail, ks) <=> verify(f, tail, ks) = "Ok"
    BY DEF VerifiersAgree
  <2>1. IsSequence(file)
    BY DEF TypeOK
  <2>2. Len(f) \in Nat
    BY <2>1, LenNat, AlteredLength
  <2> QED
    BY <2>2, ImplementationsAgree
<1> QED
  BY <1>1, TypeCorrect, PTL
=============================================================================
