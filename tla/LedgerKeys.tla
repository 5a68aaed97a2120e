----------------------------- MODULE LedgerKeys -----------------------------
(***************************************************************************)
(* Keys that seals publish are never used again: proofs about Ledger for   *)
(* every value of the constants.  The property has two grounds.  A segment *)
(* key belongs to a segment that the seal has closed.  A base key, which a *)
(* seal of a legacy segment 0 has to publish, belongs to an epoch that     *)
(* append refuses from then on, and no other epoch has its seed.           *)
(***************************************************************************)
EXTENDS LedgerStorage

\* No entry of f is under a key that a seal before it has published.
NoReuse(f) ==
  \A j \in 1..Len(f) : \A i \in 1..(j - 1) : IsSeal(f[i]) =>
    \A x \in RevealedBy(f[i]) : x # f[j].hash.key /\ x # BaseKey(f[j].hash.key.seed)

\* The same, as NoRevealedKeyReuse says it.
LEMMA NoReuseSuffices == NoReuse(file) => NoRevealedKeyReuse
BY DEF NoReuse, NoRevealedKeyReuse, Derivable, PublishedBefore

\* g is f, a beginning of f, or f with e behind it.
Grown(f, g, e) ==
  /\ Len(f) \in Nat /\ Len(g) \in Nat /\ Len(g) <= Len(f) + 1
  /\ \A i \in 1..Len(g) : (i \in 1..Len(f) /\ g[i] = f[i]) \/ (i = Len(f) + 1 /\ g[i] = e)

\* An entry under a fresh key keeps the keys apart.
LEMMA NoReuseGrown ==
  ASSUME NEW f, NEW g, NEW e, Grown(f, g, e), NoReuse(f),
         Len(g) = Len(f) + 1 =>
           \A i \in 1..Len(f) : IsSeal(f[i]) =>
             \A x \in RevealedBy(f[i]) : x # e.hash.key /\ x # BaseKey(e.hash.key.seed)
  PROVE  NoReuse(g)
<1> SUFFICES ASSUME NEW j \in 1..Len(g), NEW i \in 1..(j - 1), IsSeal(g[i]),
                    NEW x \in RevealedBy(g[i])
             PROVE  x # g[j].hash.key /\ x # BaseKey(g[j].hash.key.seed)
  BY DEF NoReuse
<1>1. i \in 1..Len(f) /\ g[i] = f[i] /\ Len(f) \in Nat
  BY DEF Grown
<1>2. CASE j \in 1..Len(f) /\ g[j] = f[j]
  BY <1>1, <1>2 DEF NoReuse
<1>3. CASE j = Len(f) + 1 /\ g[j] = e
  BY <1>1, <1>3 DEF Grown
<1> QED
  BY <1>2, <1>3 DEF Grown

\* What a write makes of the file.
LEMMA WriteGrows ==
  ASSUME DiskOK, NEW e, NEW how, WriteLine(e, how)
  PROVE  Grown(file, file', e)
<1>1. WriteShape(e) /\ Len(file) \in Nat /\ Len(file') \in Nat
  BY WriteShapes
<1>2. ASSUME NEW i \in 1..Len(file')
      PROVE  (i \in 1..Len(file) /\ file'[i] = file[i]) \/ (i = Len(file) + 1 /\ file'[i] = e)
  <2>1. CASE file' = file
    BY <2>1
  <2>2. CASE /\ Len(file') = Len(file) + 1 /\ file'[Len(file) + 1] = e
             /\ \A k \in 1..Len(file) : file'[k] = file[k]
    <3>1. i \in 1..Len(file) \/ i = Len(file) + 1
      BY <1>1, <2>2
    <3> QED
      BY <2>2, <3>1
  <2>3. CASE /\ Len(file) = Len(file') + 1
             /\ \A k \in 1..Len(file') : file'[k] = file[k]
    BY <1>1, <2>3
  <2> QED
    BY <1>1, <2>1, <2>2, <2>3 DEF WriteShape
<1>3. Len(file') <= Len(file) + 1
  BY <1>1 DEF WriteShape
<1> QED
  BY <1>1, <1>2, <1>3 DEF Grown

(***************************************************************************)
(* Without a legacy segment 0 the keys stay apart whatever storage does.   *)
(***************************************************************************)

\* Every entry is under a segment key, segments only go up, and a seal is
\* under a key of the segment behind the ones it publishes.
SegmentsOK(f) ==
  /\ \A i \in 1..Len(f) : f[i].v = 3 /\ f[i].hash.key.seg \in Nat
  /\ \A i, j \in 1..Len(f) : i <= j => f[i].hash.key.seg <= f[j].hash.key.seg
  /\ \A i \in 1..Len(f) : IsSeal(f[i]) =>
       \A x \in RevealedBy(f[i]) : x.seg \in Nat /\ x.seg < f[i].hash.key.seg

\* No line of the file is under a later segment than the handle, or the
\* scan, has counted.  A seal that failed leaves the handle ahead.
CountersOK ==
  /\ ~scan.legacy_segment0 /\ ~h.legacy_segment0
  /\ pc # "opening" => scan = ScanInit
  /\ pc = "opening" => \A i \in 1..scan.seq : file[i].hash.key.seg <= scan.seals_seen
  /\ pc = "ready" /\ ~compromised =>
       \A i \in 1..Len(file) : file[i].hash.key.seg <= h.seals_seen

SegmentInv == TypeOK /\ SegmentsOK(file) /\ CountersOK

\* It says what is needed.
LEMMA SegmentsApart ==
  ASSUME NEW f, Len(f) \in Nat, SegmentsOK(f)
  PROVE  NoReuse(f)
<1> SUFFICES ASSUME NEW j \in 1..Len(f), NEW i \in 1..(j - 1), IsSeal(f[i]),
                    NEW x \in RevealedBy(f[i])
             PROVE  x # f[j].hash.key /\ x # BaseKey(f[j].hash.key.seed)
  BY DEF NoReuse
<1>1. i \in 1..Len(f) /\ i <= j
  OBVIOUS
<1>2. /\ x.seg \in Nat /\ x.seg < f[i].hash.key.seg /\ f[i].hash.key.seg <= f[j].hash.key.seg
      /\ f[i].hash.key.seg \in Nat /\ f[j].hash.key.seg \in Nat
  BY <1>1 DEF SegmentsOK
<1>3. x.seg # f[j].hash.key.seg
  BY <1>2
<1>4. BaseKey(f[j].hash.key.seed).seg = -1
  BY DEF BaseKey, BASE
<1> QED
  BY <1>2, <1>3, <1>4

\* One more entry, under a segment no earlier than the ones before.
LEMMA SegmentsGrown ==
  ASSUME NEW f, NEW g, NEW e, Grown(f, g, e), SegmentsOK(f),
         e.v = 3, e.hash.key.seg \in Nat,
         \A i \in 1..Len(f) : f[i].hash.key.seg <= e.hash.key.seg,
         IsSeal(e) => \A x \in RevealedBy(e) : x.seg \in Nat /\ x.seg < e.hash.key.seg
  PROVE  SegmentsOK(g)
<1>1. \A i \in 1..Len(g) : (i \in 1..Len(f) /\ g[i] = f[i]) \/ (i = Len(f) + 1 /\ g[i] = e)
  BY DEF Grown
<1>2. Len(f) \in Nat /\ Len(g) \in Nat
  BY DEF Grown
<1>3. \A i \in 1..Len(g) : g[i].v = 3 /\ g[i].hash.key.seg \in Nat
  BY <1>1 DEF SegmentsOK
<1>4. ASSUME NEW i \in 1..Len(g), NEW j \in 1..Len(g), i <= j
      PROVE  g[i].hash.key.seg <= g[j].hash.key.seg
  <2>1. CASE j \in 1..Len(f) /\ g[j] = f[j]
    <3>1. i \in 1..Len(f) /\ g[i] = f[i]
      BY <1>1, <1>2, <1>4, <2>1
    <3> QED
      BY <1>4, <2>1, <3>1 DEF SegmentsOK
  <2>2. CASE g[j] = e
    BY <1>1, <2>2
  <2> QED
    BY <1>1, <2>1, <2>2
<1>5. \A i \in 1..Len(g) : IsSeal(g[i]) =>
        \A x \in RevealedBy(g[i]) : x.seg \in Nat /\ x.seg < g[i].hash.key.seg
  BY <1>1 DEF SegmentsOK
<1> QED
  BY <1>3, <1>4, <1>5 DEF SegmentsOK

\* append under a segment key, however its write ends.
LEMMA AppendSegments ==
  ASSUME SegmentInv, pc = "ready", NEW hh, ViewOK(hh), DOMAIN hh = HandleFields,
         ~hh.legacy_segment0, h.seals_seen <= hh.seals_seen,
         NEW ks, NEW etype, NEW body, NEW published,
         etype = SEAL_EVENT =>
           \A ep \in DOMAIN body.revealed :
             body.revealed[ep].seg \in Nat /\ body.revealed[ep].seg < hh.seals_seen,
         append(hh, ks, etype, body, published)
  PROVE  SegmentsOK(file') /\ CountersOK'
<1>1. PICK e : e = NewEvent(hh, ks, etype, body)
  OBVIOUS
<1>2. /\ TypeOK /\ DiskOK /\ SegmentsOK(file) /\ CountersOK /\ scan = ScanInit
      /\ h.seals_seen \in Nat /\ hh.seals_seen \in Nat
  BY DiskPart DEF SegmentInv, CountersOK, TypeOK, ViewOK
<1>3. /\ e.v = 3 /\ e.hash.key.seg = hh.seals_seen
      /\ IsSeal(e) => \A x \in RevealedBy(e) : x.seg \in Nat /\ x.seg < e.hash.key.seg
  <2>1. /\ e.v = WriteVersion(hh) /\ e.etype = etype /\ e.body = body
        /\ e.hash.key = entry_key(ks, hh.epoch, hh.seals_seen, e.v)
    BY <1>1, NewEventFields
  <2>2. e.v = 3
    BY <2>1 DEF WriteVersion, FORMAT_VERSION
  <2>3. e.hash.key.seg = hh.seals_seen
    BY <2>1, <2>2 DEF entry_key, segment_key, BaseKey
  <2>4. IsSeal(e) => \A x \in RevealedBy(e) : x.seg \in Nat /\ x.seg < hh.seals_seen
    BY <2>1 DEF IsSeal, RevealedBy
  <2> QED
    BY <2>2, <2>3, <2>4
<1>4. ASSUME Writable(hh, ks), NEW how, WriteLine(e, how)
      PROVE  /\ SegmentsOK(file')
             /\ \A i \in 1..Len(file') : file'[i].hash.key.seg <= hh.seals_seen
  <2>1. \A i \in 1..Len(file) : file[i].hash.key.seg <= hh.seals_seen
    <3>1. ~compromised
      BY <1>4 DEF Writable
    <3>2. \A i \in 1..Len(file) : file[i].hash.key.seg <= h.seals_seen
                                  /\ file[i].hash.key.seg \in Nat
      BY <1>2, <3>1 DEF CountersOK, SegmentsOK
    <3> QED
      BY <1>2, <3>2
  <2>2. Grown(file, file', e)
    BY <1>2, <1>4, WriteGrows
  <2>3. SegmentsOK(file')
    BY <1>2, <1>3, <2>1, <2>2, SegmentsGrown
  <2>4. \A i \in 1..Len(file') : file'[i].hash.key.seg <= hh.seals_seen
    BY <1>2, <1>3, <2>1, <2>2 DEF Grown
  <2> QED
    BY <2>3, <2>4
<1>5. CASE h' = hh /\ UNCHANGED <<disk, pc, scan, flags>>
  <2>1. ~compromised => \A i \in 1..Len(file) : file[i].hash.key.seg <= hh.seals_seen
    <3>1. ASSUME ~compromised, NEW i \in 1..Len(file)
          PROVE  file[i].hash.key.seg <= hh.seals_seen
      <4>1. file[i].hash.key.seg <= h.seals_seen /\ file[i].hash.key.seg \in Nat
        BY <1>2, <3>1 DEF CountersOK, SegmentsOK
      <4> QED
        BY <1>2, <4>1
    <3> QED
      BY <3>1
  <2> QED
    BY <1>2, <1>5, <2>1 DEF CountersOK, disk, flags
<1>6. CASE Writable(hh, ks) /\ Written(hh, ks, e, published)
  <2>1. h'.seals_seen = hh.seals_seen /\ h'.legacy_segment0 = hh.legacy_segment0
    BY <1>6 DEF Written, HandleFields
  <2>2. WriteLine(e, "line") /\ UNCHANGED <<pc, scan, flags>>
    BY <1>6 DEF Written
  <2> QED
    BY <1>2, <1>4, <1>6, <2>1, <2>2 DEF CountersOK, flags
<1>7. CASE /\ Writable(hh, ks) /\ \E how : WriteLine(e, how)
           /\ h' = hh /\ UNCHANGED <<pc, scan, flags>>
  BY <1>2, <1>4, <1>7 DEF CountersOK, flags
<1>8. CASE Writable(hh, ks) /\ (\E how : WriteLine(e, how)) /\ Released
  BY <1>4, <1>8 DEF Released, CountersOK, ScanInit, View
<1> QED
  BY <1>1, <1>5, <1>6, <1>7, <1>8 DEF append

\* Without legacy entries every step preserves it.
LEMMA SegmentStep ==
  ASSUME MaxLegacy = 0
  PROVE  SegmentInv /\ [Next]_vars => SegmentInv'
<1> SUFFICES ASSUME SegmentInv, [Next]_vars PROVE SegmentsOK(file') /\ CountersOK'
  BY TypeStep DEF SegmentInv
<1>0. /\ TypeOK /\ SegmentsOK(file) /\ CountersOK /\ Len(file) \in Nat
      /\ ViewOK(h) /\ DOMAIN h = HandleFields /\ h.seals_seen \in Nat
      /\ scan.seq \in Nat /\ scan.seals_seen \in Nat
  BY LenNat DEF SegmentInv, TypeOK, ViewOK, ScanOK
<1>00. ASSUME SegmentsOK(file'), Released PROVE SegmentsOK(file') /\ CountersOK'
  BY <1>00 DEF Released, CountersOK, ScanInit, View
<1>1. ASSUME NEW ring \in Rings, Open(ring) PROVE SegmentsOK(file') /\ CountersOK'
  <2>1. scan.seq = 0
    BY <1>0, <1>1 DEF Open, CountersOK, ScanInit
  <2> QED
    BY <1>0, <1>1, <2>1 DEF Open, CountersOK, disk, flags
<1>2. ASSUME ScanLine PROVE SegmentsOK(file') /\ CountersOK'
  <2>1. PICK e : e = file[scan.seq + 1]
    OBVIOUS
  <2>2. /\ pc = "opening" /\ scan.seq + 1 \in 1..Len(file) /\ e.v = 3
        /\ \A i \in 1..scan.seq : file[i].hash.key.seg <= scan.seals_seen
    BY <1>0, <1>2, <2>1 DEF ScanLine, CountersOK, SegmentsOK
  <2>3. CASE Released /\ UNCHANGED disk
    BY <1>0, <1>00, <2>3 DEF disk
  <2>4. CASE /\ Linked(scan, e) /\ Authentic(scan, e, keys)
             /\ scan' = Accept(scan, e) /\ UNCHANGED <<disk, pc, keys, h, flags>>
    <3>1. /\ scan'.seq = scan.seq + 1 /\ scan'.seals_seen = Counted(scan, e).seals_seen
          /\ scan'.seals_seen >= scan.seals_seen /\ scan'.seals_seen \in Nat
          /\ scan'.legacy_segment0 = (scan.legacy_segment0 \/ (scan.seals_seen = 0 /\ e.v < 3))
      <4>1. AcceptedAs(scan, e, scan')
        BY <2>4, AcceptFields, Zenon
      <4> QED
        BY <1>0, <2>4, <4>1 DEF AcceptedAs, Linked
    <3>2. e.hash.key.seg = scan'.seals_seen
      BY <2>2, <2>4, <3>1 DEF Authentic, event_hash, entry_key, segment_key
    <3>3. ASSUME NEW i \in 1..scan'.seq PROVE file[i].hash.key.seg <= scan'.seals_seen
      <4>1. CASE i = scan.seq + 1
        BY <2>1, <3>1, <3>2, <4>1
      <4>2. CASE i \in 1..scan.seq
        <5>1. file[i].hash.key.seg <= scan.seals_seen /\ file[i].hash.key.seg \in Nat
          BY <1>0, <2>2, <4>2 DEF SegmentsOK
        <5> QED
          BY <1>0, <3>1, <5>1
      <4> QED
        BY <1>0, <3>1, <4>1, <4>2
    <3>4. ~scan'.legacy_segment0
      <4>1. ~(scan.legacy_segment0 \/ (scan.seals_seen = 0 /\ e.v < 3))
        BY <1>0, <2>2 DEF CountersOK
      <4> QED
        BY <3>1, <4>1, Zenon
    <3> QED
      BY <1>0, <2>2, <2>4, <3>3, <3>4 DEF CountersOK, disk, flags
  <2>5. CASE Opened(Counted(scan, e), TRUE)
    <3>1. h'.legacy_segment0 = (scan.legacy_segment0 \/ (scan.seals_seen = 0 /\ e.v < 3))
      BY <2>5 DEF Opened, View, Counted
    <3>2. ~h'.legacy_segment0 /\ ~ScanInit.legacy_segment0
      <4>1. ~(scan.legacy_segment0 \/ (scan.seals_seen = 0 /\ e.v < 3))
        BY <1>0, <2>2 DEF CountersOK
      <4>2. ~ScanInit.legacy_segment0
        BY DEF ScanInit
      <4> QED
        BY <3>1, <4>1, <4>2, Zenon
    <3> QED
      BY <1>0, <2>5, <3>2 DEF Opened, CountersOK, disk
  <2> QED
    BY <1>2, <2>1, <2>3, <2>4, <2>5 DEF ScanLine
<1>3. ASSUME ScanEnd PROVE SegmentsOK(file') /\ CountersOK'
  <2>1. CASE Opened(scan, FALSE)
    <3>1. h'.legacy_segment0 = scan.legacy_segment0 /\ h'.seals_seen = scan.seals_seen
      BY <2>1 DEF Opened, View
    <3>2. pc = "opening" /\ scan.seq = Len(file) /\ ~ScanInit.legacy_segment0
      BY <1>3 DEF ScanEnd, ScanInit
    <3> QED
      BY <1>0, <2>1, <3>1, <3>2 DEF Opened, CountersOK, disk
  <2>2. CASE Released /\ UNCHANGED disk
    BY <1>0, <1>00, <2>2 DEF disk
  <2> QED
    BY <1>3, <2>1, <2>2 DEF ScanEnd
<1>4. ASSUME NEW etype \in EventTypes, NEW body \in Payloads, AppendData(etype, body) PROVE SegmentsOK(file') /\ CountersOK'
  <2>1. /\ pc = "ready" /\ append(h, keys, etype, body, {})
        /\ etype # SEAL_EVENT /\ ~h.legacy_segment0 /\ h.seals_seen <= h.seals_seen
    BY <1>0, <1>4, CallersAssumption DEF AppendData, CountersOK
  <2> QED
    BY <1>0, <2>1, AppendSegments
<1>5. ASSUME NEW seed \in Seeds, rotate_key(seed) PROVE SegmentsOK(file') /\ CountersOK'
  <2>1. CASE UNCHANGED <<disk, pc, scan, h, flags>>
    BY <1>0, <2>1 DEF CountersOK, disk, flags
  <2>2. ASSUME NEW hh, hh = [h EXCEPT !.epoch = @ + 1], NEW ks,
               append(hh, ks, KEY_ROTATION_EVENT, [epoch |-> h.epoch + 1], {})
        PROVE  SegmentsOK(file') /\ CountersOK'
    <3>1. /\ hh.seq = h.seq /\ hh.epoch = h.epoch + 1
          /\ hh.seals_seen = h.seals_seen /\ hh.sealed_through = h.sealed_through
          /\ hh.legacy_segment0 = h.legacy_segment0
          /\ hh.revealed_epochs = h.revealed_epochs /\ DOMAIN hh = HandleFields
      BY <1>0, <2>2 DEF HandleFields
    <3>2. ViewOK(hh)
      BY <1>0, <3>1 DEF ViewOK
    <3>3. /\ pc = "ready" /\ KEY_ROTATION_EVENT # SEAL_EVENT /\ ~hh.legacy_segment0
          /\ h.seals_seen <= hh.seals_seen
      BY <1>0, <1>5, <3>1 DEF rotate_key, KEY_ROTATION_EVENT, SEAL_EVENT, CountersOK
    <3> QED
      BY <2>2, <3>1, <3>2, <3>3, AppendSegments
  <2> QED
    BY <1>5, <2>1, <2>2 DEF rotate_key
<1>6. ASSUME NEW signer \in Signers, seal(signer) PROVE SegmentsOK(file') /\ CountersOK'
  <2>1. PICK hh : hh = [h EXCEPT !.seals_seen = @ + 1, !.sealed_through = h.seq]
    OBVIOUS
  <2>2. PICK body : body = sign_record(SealRecord(signer), signer)
    OBVIOUS
  <2>3. pc = "ready" /\ \E published : append(hh, keys, SEAL_EVENT, body, published)
    BY <1>6, <2>1, <2>2 DEF seal
  <2>4. /\ hh.seq = h.seq /\ hh.epoch = h.epoch /\ hh.seals_seen = h.seals_seen + 1
        /\ hh.sealed_through = h.seq /\ hh.legacy_segment0 = h.legacy_segment0
        /\ hh.revealed_epochs = h.revealed_epochs /\ DOMAIN hh = HandleFields
    BY <1>0, <2>1 DEF HandleFields
  <2>5. ViewOK(hh)
    BY <1>0, <2>4 DEF ViewOK
  <2>6. ~hh.legacy_segment0 /\ h.seals_seen <= hh.seals_seen
    BY <1>0, <2>4 DEF CountersOK
  <2>7. ASSUME NEW ep \in DOMAIN body.revealed
        PROVE  body.revealed[ep].seg \in Nat /\ body.revealed[ep].seg < hh.seals_seen
    <3>1. WriteVersion(h) = 3
      BY <1>0 DEF CountersOK, WriteVersion, FORMAT_VERSION
    <3>2. body.revealed = [x \in SegmentEpochs |-> entry_key(keys, x, h.seals_seen, WriteVersion(h))]
      BY <2>2 DEF sign_record, SealRecord
    <3>3. body.revealed[ep].seg = h.seals_seen
      BY <2>7, <3>1, <3>2 DEF entry_key, segment_key
    <3> QED
      BY <1>0, <2>4, <3>3
  <2> QED
    BY <2>3, <2>4, <2>5, <2>6, <2>7, AppendSegments
<1>7. ASSUME mark_readonly \/ mark_compromised \/ \E d \in BOOLEAN : set_durable(d)
      PROVE  SegmentsOK(file') /\ CountersOK'
  BY <1>0, <1>7 DEF mark_readonly, mark_compromised, set_durable, CountersOK, disk
<1>8. ASSUME sync PROVE SegmentsOK(file') /\ CountersOK'
  BY <1>0, <1>8 DEF sync, CountersOK, flags
<1>9. ASSUME Close PROVE SegmentsOK(file') /\ CountersOK'
  BY <1>0, <1>00, <1>9 DEF Close, disk
<1>10. ASSUME PowerLoss PROVE SegmentsOK(file') /\ CountersOK'
  <2>1. PICK k \in 0..Len(file) : file' = SubSeq(file, 1, k)
    BY <1>10 DEF PowerLoss
  <2>2. Len(file') = k /\ \A i \in 1..k : file'[i] = file[i]
    BY <1>0, <2>1, SubSeqFacts DEF TypeOK
  <2>3. SegmentsOK(file')
    <3>1. \A i \in 1..Len(file') : i \in 1..Len(file) /\ file'[i] = file[i]
      BY <1>0, <2>2
    <3> QED
      BY <1>0, <3>1 DEF SegmentsOK
  <2> QED
    BY <1>00, <1>10, <2>3 DEF PowerLoss
<1>11. ASSUME NEW v \in {1, 2}, NEW seed \in Seeds, NEW body \in Payloads,
              LegacyWrite(v, seed, body)
       PROVE  SegmentsOK(file') /\ CountersOK'
  BY <1>0, <1>11 DEF LegacyWrite
<1>12. ASSUME UNCHANGED vars PROVE SegmentsOK(file') /\ CountersOK'
  BY <1>0, <1>12 DEF vars, disk, flags, CountersOK
<1> QED
  BY <1>1, <1>2, <1>3, <1>4, <1>5, <1>6, <1>7, <1>8, <1>9, <1>10, <1>11, <1>12 DEF Next

\* A ledger without legacy entries never uses a published key again,
\* whatever storage does.
LEMMA KeysApartWithoutLegacy ==
  ASSUME MaxLegacy = 0
  PROVE  Spec => []NoRevealedKeyReuse
<1>1. Init => SegmentInv
  <2> SUFFICES ASSUME Init PROVE SegmentsOK(file) /\ CountersOK
    BY TypeInit DEF SegmentInv
  <2>1. Len(file) = 0 /\ ~scan.legacy_segment0 /\ ~h.legacy_segment0
    BY DEF Init, ScanInit, View
  <2> QED
    BY <2>1 DEF Init, SegmentsOK, CountersOK
<1>2. SegmentInv => NoRevealedKeyReuse
  BY SegmentsApart, NoReuseSuffices, LenNat DEF SegmentInv, TypeOK
<1> QED
  BY <1>1, <1>2, SegmentStep, PTL DEF Spec

(***************************************************************************)
(* With a legacy segment 0, on reliable storage.                           *)
(***************************************************************************)

\* A seal publishes keys of segments it has closed, or the base keys of
\* entries whose epochs a reader of the seal notes as revealed.
RevealsOK(f, t, i) ==
  \A x \in RevealedBy(f[i]) :
    \/ x.seg \in Nat /\ x.seg < t[i + 1].seals_seen
    \/ \E m \in 1..i : /\ x = BaseKey(f[m].hash.key.seed)
                       /\ f[m].epoch \in t[i + 1].revealed_epochs

\* What is sealed and revealed stays so further down the file.
OnlyGrows(t) ==
  \A i, j \in 1..Len(t) : i <= j =>
    /\ t[i].seals_seen <= t[j].seals_seen
    /\ t[i].revealed_epochs \subseteq t[j].revealed_epochs

PublishedOK(f, t) ==
  /\ OnlyGrows(t)
  /\ \A i \in 1..Len(f) : IsSeal(f[i]) => RevealsOK(f, t, i)
  /\ NoReuse(f)

\* No two epochs of the ring share a seed.
Distinct(ks) == \A i, j \in DOMAIN ks : ks[i] = ks[j] => i = j

KeyInv == Inv /\ RingOK /\ LossOK /\ Distinct(keys) /\ PublishedOK(file, trail)

\* An entry behind the file, under a key nobody has published.
LEMMA PublishedAppend ==
  ASSUME TypeOK, HistoryOK(file, trail), PublishedOK(file, trail),
         NEW e, Fits(Tip, Len(file), e), NEW r, r = Accept(Tip, e),
         IsSeal(e) => \A x \in RevealedBy(e) :
           \/ x.seg \in Nat /\ x.seg <= Tip.seals_seen
           \/ \E m \in 1..Len(file) : /\ x = BaseKey(file[m].hash.key.seed)
                                      /\ file[m].epoch \in r.revealed_epochs,
         \A m \in 1..Len(file) : file[m].epoch \in Tip.revealed_epochs =>
           file[m].hash.key.seed # e.hash.key.seed,
         NEW g, g = Append(file, e), NEW u, u = Append(trail, r)
  PROVE  PublishedOK(g, u)
<1>1. PICK n : n = Len(file)
  OBVIOUS
<1>2. /\ n \in Nat /\ Len(trail) = n + 1 /\ IsSequence(file) /\ IsSequence(trail)
      /\ Tip = trail[n + 1] /\ ScanOK(Tip)
  BY <1>1, TipFacts DEF TypeOK
<1>3. /\ Len(g) = n + 1 /\ g[n + 1] = e /\ \A i \in 1..n : g[i] = file[i]
  BY <1>1, <1>2, AppendFacts
<1>4. /\ Len(u) = n + 2 /\ u[n + 2] = r /\ \A i \in 1..(n + 1) : u[i] = trail[i]
  <2>1. /\ Len(u) = Len(trail) + 1 /\ u[Len(trail) + 1] = r
        /\ \A i \in 1..Len(trail) : u[i] = trail[i]
    BY <1>2, AppendFacts
  <2> QED
    BY <1>2, <2>1
<1>5. /\ r.seals_seen = IF IsSeal(e) THEN Tip.seals_seen + 1 ELSE Tip.seals_seen
      /\ r.seals_seen = Counted(Tip, e).seals_seen
      /\ Tip.revealed_epochs \subseteq r.revealed_epochs
  <2>1. AcceptedAs(Tip, e, r)
    BY AcceptFields, Zenon
  <2> QED
    BY <2>1 DEF AcceptedAs
<1>6. Tip.seals_seen \in Nat /\ r.seals_seen \in Nat /\ Tip.seals_seen <= r.seals_seen
  BY <1>2, <1>5 DEF ScanOK, ViewOK
<1>7. \A i \in 1..(n + 1) : trail[i].seals_seen \in Nat
  BY <1>2 DEF TypeOK, ScanOK, ViewOK
<1>8. \A i \in 1..(n + 1) : /\ trail[i].seals_seen <= Tip.seals_seen
                            /\ trail[i].revealed_epochs \subseteq Tip.revealed_epochs
  BY <1>2 DEF PublishedOK, OnlyGrows
<1>9. OnlyGrows(u)
  <2> SUFFICES ASSUME NEW i \in 1..Len(u), NEW j \in 1..Len(u), i <= j
               PROVE  /\ u[i].seals_seen <= u[j].seals_seen
                      /\ u[i].revealed_epochs \subseteq u[j].revealed_epochs
    BY DEF OnlyGrows
  <2>1. CASE j \in 1..(n + 1)
    <3>1. i \in 1..(n + 1)
      BY <1>2, <2>1
    <3> QED
      BY <1>2, <1>4, <2>1, <3>1 DEF PublishedOK, OnlyGrows
  <2>2. CASE j = n + 2 /\ i \in 1..(n + 1)
    <3>1. u[i] = trail[i] /\ u[j] = r /\ trail[i].seals_seen \in Nat
      BY <1>4, <1>7, <2>2
    <3>2. trail[i].seals_seen <= Tip.seals_seen
      BY <1>8, <2>2
    <3>3. u[i].seals_seen <= u[j].seals_seen
      BY <1>6, <3>1, <3>2
    <3> QED
      BY <1>5, <1>8, <2>2, <3>1, <3>3
  <2>3. CASE j = n + 2 /\ i = n + 2
    BY <1>4, <1>6, <2>3
  <2> QED
    BY <1>2, <1>4, <2>1, <2>2, <2>3
<1>10. ASSUME NEW i \in 1..Len(g), IsSeal(g[i]) PROVE RevealsOK(g, u, i)
  <2>1. CASE i \in 1..n
    <3>1. RevealsOK(file, trail, i) /\ i + 1 \in 1..(n + 1)
      BY <1>1, <1>2, <1>3, <1>10, <2>1 DEF PublishedOK
    <3>2. g[i] = file[i] /\ u[i + 1] = trail[i + 1] /\ \A m \in 1..i : g[m] = file[m]
      <4>1. \A m \in 1..i : m \in 1..n
        BY <1>2, <2>1
      <4>2. i \in 1..i
        BY <1>2, <2>1
      <4> QED
        BY <1>3, <1>4, <3>1, <4>1, <4>2
    <3> QED
      BY <3>1, <3>2 DEF RevealsOK
  <2>2. CASE i = n + 1
    <3>1. g[i] = e /\ u[i + 1] = r /\ IsSeal(e)
      BY <1>2, <1>3, <1>4, <1>10, <2>2
    <3>2. r.seals_seen = Tip.seals_seen + 1
      BY <1>5, <3>1
    <3>3. ASSUME NEW x \in RevealedBy(e)
          PROVE  \/ x.seg \in Nat /\ x.seg < r.seals_seen
                 \/ \E m \in 1..i : /\ x = BaseKey(g[m].hash.key.seed)
                                    /\ g[m].epoch \in r.revealed_epochs
      <4>1. CASE x.seg \in Nat /\ x.seg <= Tip.seals_seen
        BY <1>6, <3>2, <4>1
      <4>2. ASSUME NEW m \in 1..n, x = BaseKey(file[m].hash.key.seed),
                   file[m].epoch \in r.revealed_epochs
            PROVE  \E k \in 1..i : /\ x = BaseKey(g[k].hash.key.seed)
                                   /\ g[k].epoch \in r.revealed_epochs
        <5>1. m \in 1..i /\ g[m] = file[m]
          BY <1>2, <1>3, <2>2, <4>2
        <5> QED
          BY <4>2, <5>1
      <4> QED
        BY <1>1, <3>1, <3>3, <4>1, <4>2
    <3> QED
      BY <3>1, <3>3 DEF RevealsOK
  <2> QED
    BY <1>2, <1>3, <2>1, <2>2
<1>11. NoReuse(g)
  <2>1. Grown(file, g, e)
    BY <1>1, <1>2, <1>3 DEF Grown
  <2>2. ASSUME NEW i \in 1..n, IsSeal(file[i]), NEW x \in RevealedBy(file[i])
        PROVE  x # e.hash.key /\ x # BaseKey(e.hash.key.seed)
    <3>1. e.hash.key = [seed |-> e.hash.key.seed,
                        seg |-> IF e.v < 3 THEN BASE ELSE r.seals_seen]
      BY <1>5 DEF Fits
    <3>2. i + 1 \in 1..(n + 1) /\ RevealsOK(file, trail, i)
      BY <1>1, <1>2, <2>2 DEF PublishedOK
    <3>3. CASE x.seg \in Nat /\ x.seg < trail[i + 1].seals_seen
      <4>1. x.seg < r.seals_seen /\ x.seg # -1
        BY <1>6, <1>7, <1>8, <3>2, <3>3
      <4>2. e.hash.key.seg = -1 \/ e.hash.key.seg = r.seals_seen
        BY <3>1 DEF BASE
      <4>3. BaseKey(e.hash.key.seed).seg = -1
        BY DEF BaseKey, BASE
      <4> QED
        BY <1>6, <3>3, <4>1, <4>2, <4>3
    <3>4. ASSUME NEW m \in 1..i, x = BaseKey(file[m].hash.key.seed),
                 file[m].epoch \in trail[i + 1].revealed_epochs
          PROVE  x # e.hash.key /\ x # BaseKey(e.hash.key.seed)
      <4>1. m \in 1..Len(file) /\ file[m].epoch \in Tip.revealed_epochs
        BY <1>1, <1>2, <1>8, <2>2, <3>2, <3>4
      <4>2. file[m].hash.key.seed # e.hash.key.seed
        BY <4>1
      <4>3. x.seed = file[m].hash.key.seed /\ BaseKey(e.hash.key.seed).seed = e.hash.key.seed
        BY <3>4 DEF BaseKey
      <4> QED
        BY <4>2, <4>3
    <3> QED
      BY <2>2, <3>2, <3>3, <3>4 DEF RevealsOK
  <2>3. NoReuse(file)
    BY DEF PublishedOK
  <2> QED
    BY <1>1, <2>1, <2>2, <2>3, NoReuseGrown
<1> QED
  BY <1>9, <1>10, <1>11 DEF PublishedOK

\* The file cut to its first k lines.
LEMMA PublishedCut ==
  ASSUME TypeOK, PublishedOK(file, trail), NEW k \in 0..Len(file),
         NEW g, g = SubSeq(file, 1, k), NEW u, u = SubSeq(trail, 1, k + 1)
  PROVE  PublishedOK(g, u)
<1>1. /\ Len(file) \in Nat /\ Len(trail) = Len(file) + 1
      /\ IsSequence(file) /\ IsSequence(trail) /\ k + 1 \in 0..Len(trail)
  BY LenNat DEF TypeOK
<1>2. Len(g) = k /\ \A i \in 1..k : g[i] = file[i]
  BY <1>1, SubSeqFacts
<1>3. Len(u) = k + 1 /\ \A i \in 1..(k + 1) : u[i] = trail[i]
  BY <1>1, SubSeqFacts
<1>4. \A i \in 1..(k + 1) : i \in 1..Len(trail) /\ u[i] = trail[i]
  BY <1>1, <1>3
<1>5. OnlyGrows(u)
  BY <1>3, <1>4 DEF PublishedOK, OnlyGrows
<1>6. ASSUME NEW i \in 1..Len(g), IsSeal(g[i]) PROVE RevealsOK(g, u, i)
  <2>1. /\ i \in 1..Len(file) /\ g[i] = file[i] /\ u[i + 1] = trail[i + 1]
        /\ \A m \in 1..i : g[m] = file[m]
    BY <1>1, <1>2, <1>4, <1>6
  <2>2. RevealsOK(file, trail, i)
    BY <1>6, <2>1 DEF PublishedOK
  <2> QED
    BY <2>1, <2>2 DEF RevealsOK
<1>7. NoReuse(g)
  <2>1. Grown(file, g, 0)
    BY <1>1, <1>2 DEF Grown
  <2>2. Len(g) # Len(file) + 1
    BY <1>1, <1>2
  <2> QED
    BY <2>1, <2>2, NoReuseGrown DEF PublishedOK
<1> QED
  BY <1>5, <1>6, <1>7 DEF PublishedOK

\* append, called by a handle that is prepared or bound to be refused.
LEMMA AppendKeys ==
  ASSUME Reliable, KeyInv, pc = "ready",
         NEW hh, ViewOK(hh), DOMAIN hh = HandleFields, hh.seq = h.seq,
         NEW ks \in Seq(Seeds), Distinct(ks), ~compromised => RingMatches(ks),
         NEW body, NEW published,
         NEW etype \in {DATA_EVENT, KEY_ROTATION_EVENT, SEAL_EVENT},
         etype = SEAL_EVENT => body.end_seq \in Nat,
         ~compromised /\ ~read_only /\ h.seq < MAX_SEQ =>
           Prepared(Tip, hh, ks, etype, body, published),
         etype = SEAL_EVENT /\ ~compromised /\ ~read_only /\ h.seq < MAX_SEQ =>
           \A ep \in DOMAIN body.revealed :
             \/ body.revealed[ep].seg \in Nat /\ body.revealed[ep].seg <= Tip.seals_seen
             \/ \E m \in 1..Len(file) : /\ body.revealed[ep] = BaseKey(file[m].hash.key.seed)
                                        /\ file[m].epoch \in published,
         append(hh, ks, etype, body, published)
  PROVE  Distinct(keys') /\ PublishedOK(file', trail')
<1>1. PICK e : e = NewEvent(hh, ks, etype, body)
  OBVIOUS
<1>2. /\ TypeOK /\ HistoryOK(file, trail) /\ HandleOK /\ Inv /\ PublishedOK(file, trail)
      /\ Tip.seq = Len(file) /\ ScanOK(Tip)
  BY TipFacts DEF KeyInv, Inv
<1>3. CASE keys' = ks /\ UNCHANGED disk
  BY <1>2, <1>3 DEF disk
<1>4. CASE Writable(hh, ks) /\ Written(hh, ks, e, published)
  <2>1. /\ ~compromised /\ ~read_only /\ h.seq < MAX_SEQ /\ tail = "eol"
        /\ Prepared(Tip, hh, ks, etype, body, published)
    BY <1>2, <1>4 DEF Writable, HandleOK
  <2>2. PICK r : r = Accept(Tip, e)
    OBVIOUS
  <2>3. file' = Append(file, e) /\ trail' = Append(trail, r) /\ keys' = ks
    BY <1>4, <2>1, <2>2 DEF Written, WriteLine
  <2>4. EntryOK(e)
    BY <1>1, NewEventType DEF BodyFits
  <2>5. Fits(Tip, Len(file), e)
    <3>1. Fits(Tip, Tip.seq, e)
      BY <1>1, <1>2, <2>1, <2>4, PreparedFits
    <3> QED
      BY <1>2, <3>1
  <2>6. published \subseteq r.revealed_epochs
    <3>1. PICK q : q = [last_hash |-> e.hash, seq |-> e.seq, epoch |-> hh.epoch,
                        seals_seen |-> hh.seals_seen, sealed_through |-> hh.sealed_through,
                        legacy_segment0 |-> hh.legacy_segment0,
                        revealed_epochs |-> hh.revealed_epochs \cup published]
      OBVIOUS
    <3>2. Advanced(hh, e, published, q) /\ q.revealed_epochs = hh.revealed_epochs \cup published
      BY <3>1 DEF Advanced
    <3>3. Agrees(q, r)
      BY <1>1, <1>2, <2>1, <2>2, <3>2, PreparedAgrees
    <3> QED
      BY <3>2, <3>3 DEF Agrees
  <2>7. /\ e.etype = etype /\ e.body = body /\ e.epoch = hh.epoch
        /\ e.hash.key = entry_key(ks, hh.epoch, hh.seals_seen, e.v)
    BY <1>1, NewEventFields
  <2>8. ASSUME IsSeal(e), NEW x \in RevealedBy(e)
        PROVE  \/ x.seg \in Nat /\ x.seg <= Tip.seals_seen
               \/ \E m \in 1..Len(file) : /\ x = BaseKey(file[m].hash.key.seed)
                                          /\ file[m].epoch \in r.revealed_epochs
    <3>1. PICK ep \in DOMAIN body.revealed : x = body.revealed[ep]
      BY <2>7, <2>8 DEF RevealedBy
    <3>2. etype = SEAL_EVENT
      BY <2>7, <2>8 DEF IsSeal
    <3> QED
      BY <2>1, <2>6, <3>1, <3>2
  <2>9. ASSUME NEW m \in 1..Len(file), file[m].epoch \in Tip.revealed_epochs
        PROVE  file[m].hash.key.seed # e.hash.key.seed
    <3>1. /\ e.hash.key.seed = ks[hh.epoch + 1] /\ hh.epoch \in Nat /\ hh.epoch < Len(ks)
          /\ hh.epoch \notin Tip.revealed_epochs
      BY <2>1, <2>7 DEF Prepared, entry_key, segment_key, BaseKey
    <3>2. /\ file[m].hash.key.seed = ks[file[m].epoch + 1] /\ file[m].epoch < Len(ks)
          /\ file[m].epoch \in Nat
      BY <1>2, <2>1, <2>9 DEF RingMatches, HasKey, TypeOK, EntryOK
    <3>3. file[m].epoch # hh.epoch
      BY <2>9, <3>1
    <3>4. file[m].epoch + 1 \in DOMAIN ks /\ hh.epoch + 1 \in DOMAIN ks
      BY <3>1, <3>2
    <3>5. file[m].epoch + 1 # hh.epoch + 1
      BY <3>1, <3>2, <3>3
    <3> QED
      BY <3>1, <3>2, <3>4, <3>5 DEF Distinct
  <2>10. PublishedOK(file', trail')
    BY <1>2, <2>2, <2>3, <2>5, <2>8, <2>9, PublishedAppend
  <2> QED
    BY <2>3, <2>10
<1>5. CASE /\ Writable(hh, ks) /\ \E how \in CrashTails : WriteLine(e, how)
           /\ Released
  <2>1. WriteLine(e, "torn")
    BY <1>5, FaultAssumption DEF Reliable
  <2>2. tail = "eol"
    BY <1>2, <1>5 DEF HandleOK, Writable
  <2>3. UNCHANGED <<file, trail>> /\ keys' = << >>
    BY <1>5, <2>1, <2>2 DEF WriteLine, Released
  <2> QED
    BY <1>2, <2>3 DEF Distinct
<1> QED
  BY <1>1, <1>3, <1>4, <1>5 DEF append, Reliable

\* On reliable storage every step preserves the invariant.
LEMMA KeyStep ==
  ASSUME Reliable
  PROVE  KeyInv /\ [Next]_vars => KeyInv'
<1> SUFFICES ASSUME KeyInv, [Next]_vars PROVE Distinct(keys') /\ PublishedOK(file', trail')
  BY InvStep, FaultStep DEF KeyInv, FaultInv, Inv
<1>0. /\ Inv /\ RingOK /\ TypeOK /\ HistoryOK(file, trail) /\ HandleOK
      /\ Distinct(keys) /\ PublishedOK(file, trail)
      /\ ViewOK(h) /\ DOMAIN h = HandleFields /\ keys \in Seq(Seeds) /\ Len(file) \in Nat
  BY LenNat DEF KeyInv, Inv, TypeOK
<1>00. ASSUME UNCHANGED disk, keys' = keys \/ keys' = << >>
       PROVE  Distinct(keys') /\ PublishedOK(file', trail')
  BY <1>0, <1>00 DEF disk, Distinct
<1>1. ASSUME NEW ring \in Rings, Open(ring)
      PROVE  Distinct(keys') /\ PublishedOK(file', trail')
  BY <1>0, <1>1, RingAssumption DEF Open, Distinct, disk
<1>2. ASSUME ScanLine PROVE Distinct(keys') /\ PublishedOK(file', trail')
  <2>1. UNCHANGED disk /\ (keys' = keys \/ keys' = << >>)
    BY <1>2 DEF ScanLine, Released, Opened
  <2> QED
    BY <1>00, <2>1
<1>3. ASSUME ScanEnd PROVE Distinct(keys') /\ PublishedOK(file', trail')
  <2>1. UNCHANGED disk /\ (keys' = keys \/ keys' = << >>)
    BY <1>3 DEF ScanEnd, Released, Opened
  <2> QED
    BY <1>00, <2>1
<1>4. ASSUME NEW etype \in EventTypes, NEW body \in Payloads, AppendData(etype, body)
      PROVE  Distinct(keys') /\ PublishedOK(file', trail')
  <2>1. pc = "ready" /\ Prepared(Tip, h, keys, etype, body, {})
    BY <1>0, <1>4, DataPrepared DEF AppendData
  <2>2. /\ etype # SEAL_EVENT /\ (~compromised => RingMatches(keys))
        /\ etype \in {DATA_EVENT, KEY_ROTATION_EVENT, SEAL_EVENT}
    BY <1>0, <2>1, CallersAssumption, TypesAssumption DEF RingOK
  <2> QED
    BY <1>0, <1>4, <2>1, <2>2, AppendKeys DEF AppendData
<1>5. ASSUME NEW seed \in Seeds, rotate_key(seed)
      PROVE  Distinct(keys') /\ PublishedOK(file', trail')
  <2>1. PICK ks : ks = Append(keys, seed)
    OBVIOUS
  <2>2. pc = "ready" /\ (~compromised => RingMatches(keys))
    BY <1>0, <1>5 DEF rotate_key, RingOK
  <2>3. /\ ks \in Seq(Seeds) /\ Len(ks) = Len(keys) + 1 /\ Len(keys) \in Nat
        /\ ks[Len(keys) + 1] = seed /\ \A i \in 1..Len(keys) : ks[i] = keys[i]
        /\ DOMAIN ks = 1..(Len(keys) + 1) /\ DOMAIN keys = 1..Len(keys)
    BY <1>0, <2>1
  <2>4. Distinct(ks)
    <3>1. \A i \in 1..Len(keys) : keys[i] # seed
      BY <1>5, <2>3 DEF rotate_key
    <3> SUFFICES ASSUME NEW i \in 1..(Len(keys) + 1), NEW j \in 1..(Len(keys) + 1), ks[i] = ks[j]
                 PROVE  i = j
      BY <2>3 DEF Distinct
    <3>2. i \in 1..Len(keys) \/ i = Len(keys) + 1
      BY <2>3
    <3>3. j \in 1..Len(keys) \/ j = Len(keys) + 1
      BY <2>3
    <3> QED
      BY <1>0, <2>3, <3>1, <3>2, <3>3 DEF Distinct
  <2>5. ~compromised => RingMatches(ks)
    BY <1>0, <2>1, <2>2, RingExtended
  <2>6. CASE keys' = ks /\ UNCHANGED disk
    BY <1>0, <2>4, <2>6 DEF disk
  <2>7. ASSUME NEW hh, hh = [h EXCEPT !.epoch = @ + 1],
               append(hh, ks, KEY_ROTATION_EVENT, [epoch |-> h.epoch + 1], {})
        PROVE  Distinct(keys') /\ PublishedOK(file', trail')
    <3>1. /\ hh.last_hash = h.last_hash /\ hh.seq = h.seq /\ hh.epoch = h.epoch + 1
          /\ hh.seals_seen = h.seals_seen /\ hh.sealed_through = h.sealed_through
          /\ hh.legacy_segment0 = h.legacy_segment0
          /\ hh.revealed_epochs = h.revealed_epochs /\ DOMAIN hh = HandleFields
      BY <1>0, <2>7 DEF HandleFields
    <3>2. ViewOK(hh)
      BY <1>0, <3>1 DEF ViewOK
    <3>3. ~compromised /\ ~read_only /\ h.seq < MAX_SEQ =>
            Prepared(Tip, hh, ks, KEY_ROTATION_EVENT, [epoch |-> h.epoch + 1], {})
      BY <1>0, <2>1, <2>2, <3>1, RotationPrepared
    <3>4. KEY_ROTATION_EVENT # SEAL_EVENT
      BY DEF KEY_ROTATION_EVENT, SEAL_EVENT
    <3> QED
      BY <2>2, <2>3, <2>4, <2>5, <2>7, <3>1, <3>2, <3>3, <3>4, AppendKeys
  <2> QED
    BY <1>5, <2>1, <2>6, <2>7 DEF rotate_key
<1>6. ASSUME NEW signer \in Signers, seal(signer)
      PROVE  Distinct(keys') /\ PublishedOK(file', trail')
  <2>1. PICK hh : hh = [h EXCEPT !.seals_seen = @ + 1, !.sealed_through = h.seq]
    OBVIOUS
  <2>2. PICK body : body = sign_record(SealRecord(signer), signer)
    OBVIOUS
  <2>3. PICK published :
          published = IF h.seals_seen = 0 /\ h.legacy_segment0 THEN SegmentEpochs ELSE {}
    OBVIOUS
  <2>4. pc = "ready" /\ Sealable /\ append(hh, keys, SEAL_EVENT, body, published)
    BY <1>6, <2>1, <2>2, <2>3 DEF seal
  <2>5. /\ hh.last_hash = h.last_hash /\ hh.seq = h.seq /\ hh.epoch = h.epoch
        /\ hh.seals_seen = h.seals_seen + 1 /\ hh.sealed_through = h.seq
        /\ hh.legacy_segment0 = h.legacy_segment0
        /\ hh.revealed_epochs = h.revealed_epochs /\ DOMAIN hh = HandleFields
    BY <1>0, <2>1 DEF HandleFields
  <2>6. ViewOK(hh)
    BY <1>0, <2>5 DEF ViewOK
  <2>7. body.end_seq = h.seq /\ h.seq \in Nat
    BY <1>0, <2>2 DEF sign_record, SealRecord, ViewOK
  <2>8. ~compromised /\ ~read_only /\ h.seq < MAX_SEQ =>
          Prepared(Tip, hh, keys, SEAL_EVENT, body, published)
    BY <1>0, <2>3, <2>4, <2>5, <2>7, SealPrepared
  <2>9. ~compromised => RingMatches(keys)
    BY <1>0, <2>4 DEF RingOK
  <2>10. ASSUME ~compromised, ~read_only, h.seq < MAX_SEQ, NEW ep \in DOMAIN body.revealed
         PROVE  \/ body.revealed[ep].seg \in Nat /\ body.revealed[ep].seg <= Tip.seals_seen
                \/ \E m \in 1..Len(file) : /\ body.revealed[ep] = BaseKey(file[m].hash.key.seed)
                                           /\ file[m].epoch \in published
    <3>1. h.seals_seen = Tip.seals_seen /\ h.seals_seen \in Nat
      BY <1>0, <2>4, <2>10 DEF HandleOK, Agrees, ViewOK
    <3>2. body.revealed = [x \in SegmentEpochs |-> entry_key(keys, x, h.seals_seen, WriteVersion(h))]
      BY <2>2 DEF sign_record, SealRecord
    <3>3. ep \in SegmentEpochs /\ body.revealed[ep] = entry_key(keys, ep, h.seals_seen, WriteVersion(h))
      BY <2>10, <3>2
    <3>4. CASE h.seals_seen = 0 /\ h.legacy_segment0
      <4>1. PICK m \in 1..Len(file) : file[m].epoch = ep
        BY <3>3 DEF SegmentEpochs, SegmentIndexes
      <4>2. body.revealed[ep] = BaseKey(keys[ep + 1])
        BY <3>3, <3>4 DEF WriteVersion, entry_key
      <4>3. keys[ep + 1] = file[m].hash.key.seed
        BY <2>9, <2>10, <4>1 DEF RingMatches
      <4>4. file[m].epoch \in published
        BY <2>3, <3>3, <3>4, <4>1
      <4> QED
        BY <4>1, <4>2, <4>3, <4>4
    <3>5. CASE ~(h.seals_seen = 0 /\ h.legacy_segment0)
      <4>1. body.revealed[ep].seg = h.seals_seen
        BY <3>3, <3>5 DEF WriteVersion, FORMAT_VERSION, entry_key, segment_key
      <4> QED
        BY <3>1, <4>1
    <3> QED
      BY <3>4, <3>5
  <2> QED
    BY <1>0, <2>4, <2>5, <2>6, <2>7, <2>8, <2>9, <2>10, AppendKeys
<1>7. ASSUME mark_readonly \/ mark_compromised \/ \E d \in BOOLEAN : set_durable(d)
      PROVE  Distinct(keys') /\ PublishedOK(file', trail')
  BY <1>00, <1>7 DEF mark_readonly, mark_compromised, set_durable
<1>8. ASSUME sync PROVE Distinct(keys') /\ PublishedOK(file', trail')
  BY <1>0, <1>8 DEF sync
<1>9. ASSUME Close PROVE Distinct(keys') /\ PublishedOK(file', trail')
  BY <1>00, <1>9 DEF Close, Released
<1>10. ASSUME PowerLoss PROVE Distinct(keys') /\ PublishedOK(file', trail')
  <2>1. PICK k \in 0..Len(file) :
          file' = SubSeq(file, 1, k) /\ trail' = SubSeq(trail, 1, k + 1)
    BY <1>10 DEF PowerLoss
  <2>2. PublishedOK(file', trail')
    BY <1>0, <2>1, PublishedCut
  <2>3. keys' = << >>
    BY <1>10 DEF PowerLoss, Released
  <2> QED
    BY <2>2, <2>3 DEF Distinct
<1>11. ASSUME NEW v \in {1, 2}, NEW seed \in Seeds, NEW body \in Payloads,
              LegacyWrite(v, seed, body)
       PROVE  Distinct(keys') /\ PublishedOK(file', trail')
  <2>1. PICK e : e = Event(v, Tip.last_hash, Tip.seq + 1, DATA_EVENT, body, 0, BaseKey(seed))
    OBVIOUS
  <2>2. Fits(Tip, Len(file), e) /\ Tip.revealed_epochs = {}
    BY <1>0, <1>11, <2>1, LegacyFits, LegacyUnsealed DEF LegacyWrite
  <2>3. /\ file' = Append(file, e) /\ trail' = Append(trail, Accept(Tip, e)) /\ keys' = keys
    BY <1>11, <2>1 DEF LegacyWrite, WriteLine
  <2>4. ~IsSeal(e)
    BY <2>1 DEF Event, IsSeal, DATA_EVENT, SEAL_EVENT
  <2>5. PublishedOK(file', trail')
    BY <1>0, <2>2, <2>3, <2>4, PublishedAppend
  <2> QED
    BY <1>0, <2>3, <2>5
<1>12. ASSUME UNCHANGED vars PROVE Distinct(keys') /\ PublishedOK(file', trail')
  BY <1>00, <1>12 DEF vars
<1> QED
  BY <1>1, <1>2, <1>3, <1>4, <1>5, <1>6, <1>7, <1>8, <1>9, <1>10, <1>11, <1>12 DEF Next

\* A seal publishes keys for verification only: on reliable storage, or on a
\* ledger without legacy entries whatever storage does, no entry behind a
\* seal is under a key its readers can compute.  (With both a legacy segment
\* and a failing fsync it may be, which is a finding.)
THEOREM PublishedKeysRetired ==
  ASSUME Reliable \/ MaxLegacy = 0
  PROVE  Spec => []NoRevealedKeyReuse
<1>1. CASE Reliable
  <2>1. Init => KeyInv
    <3> SUFFICES ASSUME Init PROVE Distinct(keys) /\ PublishedOK(file, trail)
      BY InvInit, FaultInit DEF KeyInv, FaultInv
    <3>1. /\ Len(file) = 0 /\ Len(trail) = 1 /\ trail[1] = ScanInit /\ keys = << >>
      BY DEF Init
    <3>2. ScanInit.seals_seen <= ScanInit.seals_seen
      BY DEF ScanInit
    <3> QED
      BY <3>1, <3>2 DEF Distinct, PublishedOK, OnlyGrows, NoReuse
  <2>2. KeyInv => NoRevealedKeyReuse
    BY NoReuseSuffices DEF KeyInv, PublishedOK
  <2>3. KeyInv /\ [Next]_vars => KeyInv'
    BY <1>1, KeyStep
  <2> QED
    BY <2>1, <2>2, <2>3, PTL DEF Spec
<1>2. CASE MaxLegacy = 0
  BY <1>2, KeysApartWithoutLegacy
<1> QED
  BY <1>1, <1>2
=============================================================================
