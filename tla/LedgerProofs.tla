---------------------------- MODULE LedgerProofs ----------------------------
(***************************************************************************)
(* Proofs about Ledger, for every value of its constants.                  *)
(***************************************************************************)
EXTENDS Callers, SequenceFacts

(***************************************************************************)
(* Types.                                                                  *)
(***************************************************************************)
LEMMA ScanInitType == ScanOK(ScanInit)
BY DEF ScanInit, ScanOK, ViewOK

\* Reading a line keeps the types of the scan's locals.
LEMMA AcceptType ==
  ASSUME NEW s, ScanOK(s), NEW e, EntryOK(e)
  PROVE  ScanOK(Counted(s, e)) /\ ScanOK(Accept(s, e))
BY DEF ScanOK, ViewOK, EntryOK, Counted, Accept, Larger

\* The fields a handle takes over from the scan are well typed.
LEMMA ViewType ==
  ASSUME NEW s, ScanOK(s)
  PROVE  ViewOK(View(s)) /\ DOMAIN View(s) = HandleFields
BY DEF ScanOK, ViewOK, View, HandleFields

\* A seal's body is a seal record, or one that a caller made up.
BodyFits(etype, body) ==
  etype = SEAL_EVENT => \/ body.end_seq \in Nat
                        \/ SEAL_EVENT \in EventTypes /\ body \in Payloads

\* What append writes is an entry, if what it is given is.
LEMMA NewEventType ==
  ASSUME NEW hh, ViewOK(hh), NEW ks, NEW body,
         NEW etype \in {DATA_EVENT, KEY_ROTATION_EVENT, SEAL_EVENT}, BodyFits(etype, body)
  PROVE  EntryOK(NewEvent(hh, ks, etype, body))
BY DEF ViewOK, EntryOK, NewEvent, Event, WriteVersion, FORMAT_VERSION, IsSeal, BodyFits, ParseFails

\* The conjuncts of TypeOK about the file.
DiskOK ==
  /\ IsSequence(file) /\ IsSequence(trail) /\ Len(trail) = Len(file) + 1
  /\ \A i \in 1..Len(file) : EntryOK(file[i])
  /\ \A i \in 1..Len(trail) : ScanOK(trail[i])
  /\ tail \in {"eol", "noeol", "garbage"} /\ (tail = "noeol" => file # << >>)
  /\ synced \in Nat

\* The file cut to its first k lines, with its history.
LEMMA CutType ==
  ASSUME DiskOK, NEW k \in 0..Len(file),
         file' = SubSeq(file, 1, k), trail' = SubSeq(trail, 1, k + 1)
  PROVE  /\ IsSequence(file') /\ IsSequence(trail') /\ Len(trail') = Len(file') + 1
         /\ Len(file') = k
         /\ \A i \in 1..Len(file') : EntryOK(file'[i])
         /\ \A i \in 1..Len(trail') : ScanOK(trail'[i])
<1>1. Len(file) \in Nat /\ Len(trail) = Len(file) + 1 /\ IsSequence(file) /\ IsSequence(trail)
  BY LenNat DEF DiskOK
<1>2. k \in 0..Len(file) /\ k + 1 \in 0..Len(trail)
  BY <1>1
<1>3. IsSequence(file') /\ Len(file') = k /\ \A i \in 1..k : file'[i] = file[i]
  BY <1>1, <1>2, SubSeqFacts
<1>4. IsSequence(trail') /\ Len(trail') = k + 1 /\ \A i \in 1..(k + 1) : trail'[i] = trail[i]
  BY <1>1, <1>2, SubSeqFacts
<1> QED
  BY <1>1, <1>2, <1>3, <1>4 DEF DiskOK

\* However a write ends, the file and its history keep their shape.
LEMMA WriteType ==
  ASSUME DiskOK, NEW e, EntryOK(e), NEW how, WriteLine(e, how), synced' \in Nat
  PROVE  DiskOK'
<1>1. Len(file) \in Nat /\ Len(trail) = Len(file) + 1 /\ IsSequence(file) /\ IsSequence(trail)
  BY LenNat DEF DiskOK
<1>2. CASE UNCHANGED <<file, trail>> /\ tail' \in {tail, "garbage"}
  BY <1>2 DEF DiskOK
<1>3. CASE /\ file' = Append(file, e) /\ trail' = Append(trail, Accept(Tip, e))
           /\ tail' \in {"eol", "noeol"}
  <2>1. ScanOK(Accept(Tip, e))
    <3>1. ScanOK(Tip)
      BY <1>1 DEF Tip, DiskOK
    <3> QED
      BY <3>1, AcceptType
  <2>2. /\ IsSequence(file') /\ Len(file') = Len(file) + 1 /\ file'[Len(file) + 1] = e
        /\ \A i \in 1..Len(file) : file'[i] = file[i]
    BY <1>1, <1>3, AppendFacts
  <2>3. /\ IsSequence(trail') /\ Len(trail') = Len(trail) + 1
        /\ trail'[Len(trail) + 1] = Accept(Tip, e)
        /\ \A i \in 1..Len(trail) : trail'[i] = trail[i]
    BY <1>1, <1>3, AppendFacts
  <2>4. \A i \in 1..Len(file') : EntryOK(file'[i])
    BY <1>1, <2>2 DEF DiskOK
  <2>5. \A i \in 1..Len(trail') : ScanOK(trail'[i])
    BY <1>1, <2>1, <2>3 DEF DiskOK
  <2>6. file' # << >>
    BY <1>1, <2>2
  <2> QED
    BY <1>1, <1>3, <2>2, <2>3, <2>4, <2>5, <2>6 DEF DiskOK
<1>4. CASE /\ tail = "noeol" /\ tail' = "garbage"
           /\ file' = SubSeq(file, 1, Len(file) - 1)
           /\ trail' = SubSeq(trail, 1, Len(trail) - 1)
  <2>1. Len(file) > 0
    <3>1. file # << >> /\ file \in Seq({file[i] : i \in 1..Len(file)})
      BY <1>4 DEF DiskOK, IsSequence
    <3> QED
      BY <3>1, EmptySeq, <1>1
  <2>2. Len(file) - 1 \in 0..Len(file) /\ Len(trail) - 1 = (Len(file) - 1) + 1
    BY <1>1, <2>1
  <2> QED
    BY <1>4, <2>2, CutType DEF DiskOK
<1> QED
  BY <1>2, <1>3, <1>4 DEF WriteLine

\* The part of TypeOK about the file.
LEMMA DiskPart == TypeOK => DiskOK
BY DEF TypeOK, DiskOK

\* append keeps the types, however its write ends.
LEMMA AppendType ==
  ASSUME TypeOK, NEW hh, ViewOK(hh), DOMAIN hh = HandleFields, NEW ks \in Seq(Seeds),
         NEW etype \in {DATA_EVENT, KEY_ROTATION_EVENT, SEAL_EVENT}, NEW body,
         BodyFits(etype, body),
         NEW published \in SUBSET Nat,
         append(hh, ks, etype, body, published)
  PROVE  TypeOK'
<1> DEFINE e == NewEvent(hh, ks, etype, body)
<1>1. EntryOK(e)
  BY NewEventType
<1>2. DiskOK
  BY DiskPart
<1>3. CASE h' = hh /\ keys' = ks /\ UNCHANGED <<disk, pc, scan, flags>>
  BY <1>3 DEF TypeOK, disk, flags
<1>4. CASE /\ WriteLine(e, "line")
           /\ synced' = IF durable THEN Len(file') ELSE synced
           /\ h' = [hh EXCEPT !.last_hash = e.hash, !.seq = e.seq,
                              !.revealed_epochs = @ \cup published]
           /\ keys' = ks /\ UNCHANGED <<pc, scan, flags>>
  <2>1. synced' \in Nat
    <3>1. IsSequence(file')
      <4>1. CASE file' = file
        BY <4>1, <1>2 DEF DiskOK
      <4>2. CASE file' = Append(file, e)
        BY <4>2, <1>2, AppendFacts DEF DiskOK
      <4>3. CASE tail = "noeol" /\ file' = SubSeq(file, 1, Len(file) - 1)
        <5>1. file # << >> /\ file \in Seq({file[i] : i \in 1..Len(file)})
          BY <4>3, <1>2 DEF DiskOK, IsSequence
        <5>2. Len(file) - 1 \in 0..Len(file)
          BY <5>1, EmptySeq
        <5> QED
          BY <4>3, <5>2, <1>2, SubSeqFacts DEF DiskOK
      <4> QED
        BY <1>4, <4>1, <4>2, <4>3 DEF WriteLine
    <3> QED
      BY <1>4, <3>1, LenNat, <1>2 DEF DiskOK
  <2>2. DiskOK'
    BY <1>1, <1>2, <1>4, <2>1, WriteType
  <2>3. ViewOK(h') /\ DOMAIN h' = HandleFields
    BY <1>1, <1>4 DEF ViewOK, HandleFields, EntryOK
  <2> QED
    BY <1>4, <2>2, <2>3 DEF TypeOK, DiskOK, flags
<1>5. CASE /\ \E how : WriteLine(e, how)
           /\ synced' = synced /\ h' = hh /\ keys' = ks /\ UNCHANGED <<pc, scan, flags>>
  <2>1. DiskOK'
    BY <1>1, <1>2, <1>5, WriteType DEF DiskOK
  <2> QED
    BY <1>5, <2>1 DEF TypeOK, DiskOK, flags
<1>6. CASE /\ \E how : WriteLine(e, how)
           /\ synced' = synced /\ Released
  <2>1. DiskOK'
    BY <1>1, <1>2, <1>6, WriteType DEF DiskOK
  <2>2. << >> \in Seq(Seeds)
    OBVIOUS
  <2> QED
    BY <1>6, <2>1, <2>2, ScanInitType, ViewType DEF TypeOK, DiskOK, Released
<1> QED
  <2>1. \/ h' = hh /\ keys' = ks /\ UNCHANGED <<disk, pc, scan, flags>>
        \/ /\ WriteLine(e, "line")
           /\ synced' = IF durable THEN Len(file') ELSE synced
           /\ h' = [hh EXCEPT !.last_hash = e.hash, !.seq = e.seq,
                              !.revealed_epochs = @ \cup published]
           /\ keys' = ks /\ UNCHANGED <<pc, scan, flags>>
        \/ /\ \E how : WriteLine(e, how)
           /\ synced' = synced /\ h' = hh /\ keys' = ks /\ UNCHANGED <<pc, scan, flags>>
        \/ /\ \E how : WriteLine(e, how)
           /\ synced' = synced /\ Released
    BY DEF append, Written
  <2> QED
    BY <2>1, <1>3, <1>4, <1>5, <1>6

\* The type invariant holds before the first open.
LEMMA TypeInit == Init => TypeOK
<1> SUFFICES ASSUME Init PROVE TypeOK
  OBVIOUS
<1>1. IsSequence(file) /\ Len(file) = 0
  <2>1. file \in Seq({}) /\ Len(file) = 0
    BY DEF Init
  <2> QED
    BY <2>1, SelfTyped
<1>2. IsSequence(trail) /\ Len(trail) = 1 /\ trail[1] = ScanInit
  <2>1. trail \in Seq({ScanInit}) /\ Len(trail) = 1 /\ trail[1] = ScanInit
    BY DEF Init
  <2> QED
    BY <2>1, SelfTyped
<1>3. keys \in Seq(Seeds)
  BY DEF Init
<1>4. ViewOK(View(ScanInit)) /\ DOMAIN View(ScanInit) = HandleFields /\ ScanOK(ScanInit)
  BY ScanInitType, ViewType
<1>5. ViewOK(h) /\ DOMAIN h = HandleFields /\ ScanOK(scan)
  BY <1>4, Zenon DEF Init
<1>6. \A i \in 1..Len(trail) : ScanOK(trail[i])
  BY <1>2, <1>4
<1>7. \A i \in 1..Len(file) : EntryOK(file[i])
  BY <1>1
<1>8. /\ tail \in {"eol", "noeol", "garbage"} /\ (tail = "noeol" => file # << >>)
      /\ synced \in Nat /\ pc \in {"closed", "opening", "ready"}
      /\ read_only \in BOOLEAN /\ compromised \in BOOLEAN /\ durable \in BOOLEAN
  BY DEF Init
<1> QED
  BY <1>1, <1>2, <1>3, <1>5, <1>6, <1>7, <1>8 DEF TypeOK

\* The handle is released, the file stays in shape.
LEMMA ReleasedType ==
  ASSUME DiskOK', Released
  PROVE  TypeOK'
<1>1. << >> \in Seq(Seeds)
  OBVIOUS
<1> QED
  BY <1>1, ScanInitType, ViewType DEF TypeOK, DiskOK, Released

\* A call that leaves the file alone leaves its shape alone.
LEMMA DiskUnchanged ==
  ASSUME DiskOK, UNCHANGED disk
  PROVE  DiskOK'
BY DEF DiskOK, disk

\* Every call, crash and power loss preserves the type invariant.
LEMMA TypeStep == TypeOK /\ [Next]_vars => TypeOK'
<1> SUFFICES ASSUME TypeOK, [Next]_vars PROVE TypeOK'
  OBVIOUS
<1> USE DEF DATA_EVENT, KEY_ROTATION_EVENT, SEAL_EVENT
<1>0. DiskOK /\ Len(file) \in Nat
  BY DiskPart, LenNat DEF DiskOK
<1>1. ASSUME NEW ring \in Rings, Open(ring) PROVE TypeOK'
  <2>1. ring \in Seq(Seeds)
    BY RingAssumption
  <2> QED
    BY <1>1, <2>1 DEF Open, TypeOK, disk, flags
<1>2. ASSUME ScanLine PROVE TypeOK'
  <2> DEFINE e == file[scan.seq + 1]
  <2>1. EntryOK(e) /\ ScanOK(scan)
    <3>1. scan.seq < Len(file) /\ scan.seq \in Nat
      BY <1>2 DEF ScanLine, TypeOK, ScanOK, ViewOK
    <3>2. scan.seq + 1 \in 1..Len(file)
      BY <3>1, <1>0
    <3> QED
      BY <3>2 DEF TypeOK
  <2>2. ScanOK(Counted(scan, e)) /\ ScanOK(Accept(scan, e))
    BY <2>1, AcceptType
  <2>3. CASE Released /\ UNCHANGED disk
    BY <2>3, <1>0, DiskUnchanged, ReleasedType
  <2>4. CASE scan' = Accept(scan, e) /\ UNCHANGED <<disk, pc, keys, h, flags>>
    BY <2>2, <2>4 DEF TypeOK, disk, flags
  <2>5. CASE Opened(Counted(scan, e), TRUE)
    BY <2>2, <2>5, ScanInitType, ViewType DEF Opened, TypeOK, disk
  <2> QED
    BY <1>2, <2>3, <2>4, <2>5 DEF ScanLine
<1>3. ASSUME ScanEnd PROVE TypeOK'
  <2>1. CASE Opened(scan, FALSE)
    BY <2>1, ScanInitType, ViewType DEF Opened, TypeOK, disk
  <2>2. CASE Released /\ UNCHANGED disk
    BY <2>2, <1>0, DiskUnchanged, ReleasedType
  <2> QED
    BY <1>3, <2>1, <2>2 DEF ScanEnd
<1>4. ASSUME NEW etype \in EventTypes, NEW body \in Payloads, AppendData(etype, body)
      PROVE  TypeOK'
  <2>1. ViewOK(h) /\ DOMAIN h = HandleFields /\ keys \in Seq(Seeds)
    BY DEF TypeOK
  <2>2. etype \in {DATA_EVENT, KEY_ROTATION_EVENT, SEAL_EVENT} /\ BodyFits(etype, body)
    BY TypesAssumption DEF BodyFits
  <2> QED
    BY <1>4, <2>1, <2>2, AppendType DEF AppendData
<1>5. ASSUME NEW seed \in Seeds, rotate_key(seed) PROVE TypeOK'
  <2> DEFINE hh == [h EXCEPT !.epoch = @ + 1]
             ks == Append(keys, seed)
  <2>1. ks \in Seq(Seeds)
    BY DEF TypeOK
  <2>2. ViewOK(hh) /\ DOMAIN hh = HandleFields
    BY DEF TypeOK, ViewOK, HandleFields
  <2>3. CASE keys' = ks /\ UNCHANGED <<disk, pc, scan, h, flags>>
    BY <2>1, <2>3 DEF TypeOK, disk, flags
  <2>4. CASE append(hh, ks, KEY_ROTATION_EVENT, [epoch |-> h.epoch + 1], {})
    <3>1. BodyFits(KEY_ROTATION_EVENT, [epoch |-> h.epoch + 1])
      BY DEF BodyFits
    <3> HIDE DEF hh, ks
    <3> QED
      BY <2>1, <2>2, <2>4, <3>1, AppendType
  <2> QED
    BY <1>5, <2>3, <2>4 DEF rotate_key
<1>6. ASSUME NEW signer \in Signers, seal(signer) PROVE TypeOK'
  <2> DEFINE hh == [h EXCEPT !.seals_seen = @ + 1, !.sealed_through = h.seq]
             body == sign_record(SealRecord(signer), signer)
             published == IF h.seals_seen = 0 /\ h.legacy_segment0 THEN SegmentEpochs ELSE {}
  <2>1. ViewOK(hh) /\ DOMAIN hh = HandleFields /\ keys \in Seq(Seeds)
    <3>1. ViewOK(h) /\ DOMAIN h = HandleFields /\ keys \in Seq(Seeds)
      BY DEF TypeOK
    <3> QED
      BY <3>1 DEF ViewOK, HandleFields
  <2>2. BodyFits(SEAL_EVENT, body)
    BY DEF BodyFits, sign_record, SealRecord, TypeOK, ViewOK
  <2>3. published \in SUBSET Nat
    BY DEF SegmentEpochs, SegmentIndexes, TypeOK, EntryOK
  <2>4. append(hh, keys, SEAL_EVENT, body, published)
    BY <1>6 DEF seal
  <2> HIDE DEF hh, body, published
  <2> QED
    BY <2>1, <2>2, <2>3, <2>4, AppendType
<1>7. ASSUME mark_readonly \/ mark_compromised \/ \E d \in BOOLEAN : set_durable(d)
      PROVE  TypeOK'
  BY <1>7 DEF mark_readonly, mark_compromised, set_durable, TypeOK, disk
<1>8. ASSUME sync PROVE TypeOK'
  BY <1>8, <1>0 DEF sync, TypeOK, flags
<1>9. ASSUME Close PROVE TypeOK'
  BY <1>9, <1>0, DiskUnchanged, ReleasedType DEF Close
<1>10. ASSUME PowerLoss PROVE TypeOK'
  <2>1. PICK k \in 0..Len(file) :
          /\ file' = SubSeq(file, 1, k) /\ trail' = SubSeq(trail, 1, k + 1)
          /\ tail' \in {"eol", "garbage"} \/ (tail' = "noeol" /\ k > synced)
                \/ (k = Len(file) /\ tail' = tail)
    BY <1>10 DEF PowerLoss
  <2>2. synced' = synced /\ Released
    BY <1>10 DEF PowerLoss
  <2>3. tail' = "noeol" => k > 0
    <3>1. tail = "noeol" => Len(file) > 0
      <4>1. tail = "noeol" => file # << >> /\ file \in Seq({file[i] : i \in 1..Len(file)})
        BY DEF TypeOK, IsSequence
      <4> QED
        BY <4>1, EmptySeq, <1>0
    <3> QED
      BY <2>1, <3>1, <1>0 DEF TypeOK
  <2>4. /\ IsSequence(file') /\ IsSequence(trail') /\ Len(trail') = Len(file') + 1
        /\ Len(file') = k
        /\ \A i \in 1..Len(file') : EntryOK(file'[i])
        /\ \A i \in 1..Len(trail') : ScanOK(trail'[i])
    BY <1>0, <2>1, CutType
  <2>5. file' = << >> => k = 0
    BY <2>4
  <2>6. DiskOK'
    BY <1>0, <2>1, <2>2, <2>3, <2>4, <2>5 DEF DiskOK
  <2> QED
    BY <2>2, <2>6, ReleasedType
<1>11. ASSUME NEW v \in {1, 2}, NEW seed \in Seeds, NEW body \in Payloads,
              LegacyWrite(v, seed, body)
       PROVE  TypeOK'
  <2> DEFINE e == Event(v, Tip.last_hash, Tip.seq + 1, DATA_EVENT, body, 0, BaseKey(seed))
  <2>1. ScanOK(Tip)
    BY <1>0 DEF DiskOK, Tip
  <2>2. EntryOK(e)
    BY <2>1 DEF Event, EntryOK, ScanOK, ViewOK, IsSeal
  <2>3. WriteLine(e, "line") /\ synced' = synced /\ UNCHANGED <<pc, keys, scan, h, flags>>
    BY <1>11 DEF LegacyWrite
  <2>4. DiskOK'
    BY <1>0, <2>2, <2>3, WriteType DEF DiskOK
  <2> QED
    BY <2>3, <2>4 DEF TypeOK, DiskOK, flags
<1>12. ASSUME UNCHANGED vars PROVE TypeOK'
  BY <1>12 DEF TypeOK, vars, disk, flags
<1> QED
  BY <1>1, <1>2, <1>3, <1>4, <1>5, <1>6, <1>7, <1>8, <1>9, <1>10, <1>11, <1>12 DEF Next

\* Every variable keeps the shape its declaration gives it, in every
\* behaviour, write failures and crashes included.
THEOREM TypeCorrect == Spec => []TypeOK
BY TypeInit, TypeStep, PTL DEF Spec

(***************************************************************************)
(* The inductive invariant behind InSync and HonestReopen.                 *)
(***************************************************************************)

\* Line k of f continues what was known before it, under a key whose seed
\* is its own affair but whose segment is the one a reader has counted.
LineOK(f, t, k) ==
  /\ t[k + 1] = Accept(t[k], f[k])
  /\ Linked(t[k], f[k]) /\ f[k].seq = k
  /\ f[k].hash = event_hash(f[k].v, f[k].prev_hash, f[k].seq, f[k].etype, f[k].body,
                            f[k].hash.key)
  /\ f[k].hash.key = [seed |-> f[k].hash.key.seed,
                      seg |-> IF f[k].v < 3 THEN BASE ELSE t[k + 1].seals_seen]
  /\ IsSeal(f[k]) => f[k].v = 3

\* What is known after k lines.  The last conjunct is why seal() never trips
\* over the refusal in append(): when the epoch's key is public, all that is
\* left unsealed are seals.
PointOK(f, t, k) ==
  LET s == t[k + 1] IN
  /\ s.seq = k /\ (k = 0 => s.epoch = 0)
  /\ s.revealed_epochs \subseteq 0..s.epoch /\ s.seg0_epochs \subseteq 0..s.epoch
  /\ s.seals_seen = 0 =>
       /\ s.seg0_epochs = {f[i].epoch : i \in 1..k}
       /\ s.sealed_through = 0 /\ s.revealed_epochs = {}
       /\ k > 0 => s.epoch \in s.seg0_epochs
  /\ s.seals_seen > 0 => \E i \in 1..k : IsSeal(f[i])
  /\ s.epoch \in s.revealed_epochs =>
       \A i \in 1..k : i > s.sealed_through => IsSeal(f[i])

HistoryThrough(f, t, n) ==
  /\ \A k \in 1..n : LineOK(f, t, k)
  /\ \A k \in 0..n : PointOK(f, t, k)

HistoryOK(f, t) == t[1] = ScanInit /\ HistoryThrough(f, t, Len(f))

\* The scan follows the history line by line; a handle that would append
\* knows the tip and holds its epoch's key.
HandleOK ==
  /\ tail # "noeol"
  /\ pc = "closed" => scan = ScanInit
  /\ pc = "opening" => /\ scan.seq \in 0..Len(file) /\ scan = trail[scan.seq + 1]
                       /\ scan.epoch < Len(keys)
  /\ pc = "ready" /\ ~compromised => tail = "eol"
  /\ pc = "ready" /\ ~compromised /\ ~read_only /\ h.seq < MAX_SEQ =>
       Agrees(h, Tip) /\ h.epoch < Len(keys)

\* The inductive invariant: InSync alone is not inductive, since a handle is
\* only as good as the scan it came from, and that scan as the lines it read.
Inv == TypeOK /\ HistoryOK(file, trail) /\ HandleOK

\* g and u begin as f and t do.
SameThrough(f, t, g, u, m) ==
  (\A i \in 1..m : g[i] = f[i]) /\ (\A i \in 1..(m + 1) : u[i] = t[i])

\* The history of the first lines depends on them only.
LEMMA HistoryPrefix ==
  ASSUME NEW f, NEW t, NEW n \in Nat, NEW m \in Nat, m <= n,
         HistoryThrough(f, t, n), NEW g, NEW u, SameThrough(f, t, g, u, m)
  PROVE  HistoryThrough(g, u, m)
<1> USE DEF HistoryThrough, SameThrough
<1>1. ASSUME NEW k \in 1..m PROVE LineOK(g, u, k)
  <2>1. k \in 1..n /\ k \in 1..(m + 1) /\ k + 1 \in 1..(m + 1)
    OBVIOUS
  <2>2. g[k] = f[k] /\ u[k] = t[k] /\ u[k + 1] = t[k + 1] /\ LineOK(f, t, k)
    BY <2>1
  <2> QED
    BY <2>2, Zenon DEF LineOK
<1>2. ASSUME NEW k \in 0..m PROVE PointOK(g, u, k)
  <2>1. u[k + 1] = t[k + 1] /\ PointOK(f, t, k) /\ \A i \in 1..k : g[i] = f[i]
    OBVIOUS
  <2>2. {g[i].epoch : i \in 1..k} = {f[i].epoch : i \in 1..k}
    BY <2>1
  <2> QED
    BY <2>1, <2>2 DEF PointOK
<1> QED
  BY <1>1, <1>2

\* What an entry must be like to go behind n lines after which s is known.
Fits(s, n, e) ==
  /\ EntryOK(e)
  /\ Linked(s, e) /\ e.seq = n + 1
  /\ e.hash = event_hash(e.v, e.prev_hash, e.seq, e.etype, e.body, e.hash.key)
  /\ e.hash.key = [seed |-> e.hash.key.seed,
                   seg |-> IF e.v < 3 THEN BASE ELSE Counted(s, e).seals_seen]
  /\ IsSeal(e) => e.v = 3 /\ e.body.end_seq = n /\ n > 0
  /\ ~IsSeal(e) => Larger(s.epoch, e.epoch) \notin s.revealed_epochs

\* r is s with an accepted entry e counted in, field by field.
AcceptedAs(s, e, r) ==
  /\ r.last_hash = e.hash /\ r.seq = e.seq /\ r.epoch = Larger(s.epoch, e.epoch)
  /\ r.seals_seen = Counted(s, e).seals_seen
  /\ r.seals_seen = IF IsSeal(e) THEN s.seals_seen + 1 ELSE s.seals_seen
  /\ r.sealed_through = IF IsSeal(e) THEN Larger(s.sealed_through, e.body.end_seq)
                                     ELSE s.sealed_through
  /\ r.legacy_segment0 = (s.legacy_segment0 \/ (s.seals_seen = 0 /\ e.v < 3))
  /\ r.seg0_epochs = IF s.seals_seen = 0 THEN s.seg0_epochs \cup {e.epoch}
                                         ELSE s.seg0_epochs
  /\ r.revealed_epochs =
       IF IsSeal(e) /\ r.legacy_segment0 /\ s.seals_seen = 0
       THEN s.revealed_epochs \cup r.seg0_epochs ELSE s.revealed_epochs

\* What a reader knows after a line, field by field.
LEMMA AcceptFields ==
  ASSUME NEW s, NEW e
  PROVE  AcceptedAs(s, e, Accept(s, e))
BY CallersAssumption DEF AcceptedAs, Accept, Counted, ParseFails

\* Reading one more entry that fits.
LEMMA NextPoint ==
  ASSUME NEW f, NEW t, NEW n \in Nat, PointOK(f, t, n), ScanOK(t[n + 1]),
         NEW e, Fits(t[n + 1], n, e),
         NEW g, NEW u, SameThrough(f, t, g, u, n), g[n + 1] = e,
         u[n + 2] = Accept(t[n + 1], e)
  PROVE  PointOK(g, u, n + 1)
<1>0. \A i \in 1..n : g[i] = f[i]
  BY DEF SameThrough
<1>1. PICK s : s = t[n + 1]
  OBVIOUS
<1>2. PICK r : r = Accept(s, e)
  OBVIOUS
<1>3. /\ r.seq = e.seq /\ r.epoch = Larger(s.epoch, e.epoch)
      /\ r.seals_seen = IF IsSeal(e) THEN s.seals_seen + 1 ELSE s.seals_seen
      /\ r.sealed_through = IF IsSeal(e) THEN Larger(s.sealed_through, e.body.end_seq)
                                         ELSE s.sealed_through
      /\ r.seg0_epochs = IF s.seals_seen = 0 THEN s.seg0_epochs \cup {e.epoch}
                                             ELSE s.seg0_epochs
      /\ r.revealed_epochs =
           IF IsSeal(e) /\ r.legacy_segment0 /\ s.seals_seen = 0
           THEN s.revealed_epochs \cup r.seg0_epochs ELSE s.revealed_epochs
  <2>1. AcceptedAs(s, e, r)
    BY <1>2, AcceptFields, Zenon
  <2> QED
    BY <2>1 DEF AcceptedAs
<1>4. /\ e.seq = n + 1 /\ e.epoch \in Nat
      /\ IsSeal(e) => e.body.end_seq = n /\ n > 0
      /\ ~IsSeal(e) => Larger(s.epoch, e.epoch) \notin s.revealed_epochs
  BY <1>1 DEF Fits, EntryOK
<1>5. /\ s.epoch \in Nat /\ s.seals_seen \in Nat /\ s.sealed_through \in Nat
      /\ s.revealed_epochs \in SUBSET Nat /\ s.seg0_epochs \in SUBSET Nat
  BY <1>1 DEF ScanOK, ViewOK
<1>6. /\ s.revealed_epochs \subseteq 0..s.epoch /\ s.seg0_epochs \subseteq 0..s.epoch
      /\ s.seals_seen = 0 =>
           /\ s.seg0_epochs = {f[i].epoch : i \in 1..n}
           /\ s.sealed_through = 0 /\ s.revealed_epochs = {}
           /\ n > 0 => s.epoch \in s.seg0_epochs
      /\ s.seals_seen > 0 => \E i \in 1..n : IsSeal(f[i])
  BY <1>1 DEF PointOK
<1>7. r.revealed_epochs \subseteq 0..r.epoch /\ r.seg0_epochs \subseteq 0..r.epoch
  BY <1>3, <1>4, <1>5, <1>6 DEF Larger
<1>8. ASSUME r.seals_seen = 0
      PROVE  /\ r.seg0_epochs = {g[i].epoch : i \in 1..(n + 1)}
             /\ r.sealed_through = 0 /\ r.revealed_epochs = {}
             /\ r.epoch \in r.seg0_epochs
  <2>1. ~IsSeal(e) /\ s.seals_seen = 0
    BY <1>3, <1>5, <1>8
  <2>2. r.sealed_through = 0 /\ r.revealed_epochs = {}
    BY <2>1, <1>3, <1>6
  <2>3. r.seg0_epochs = {f[i].epoch : i \in 1..n} \cup {e.epoch}
    BY <2>1, <1>3, <1>6
  <2>4. {g[i].epoch : i \in 1..(n + 1)} = {f[i].epoch : i \in 1..n} \cup {e.epoch}
    <3>1. 1..(n + 1) = (1..n) \cup {n + 1}
      OBVIOUS
    <3>2. \A x : (x \in {g[i].epoch : i \in 1..(n + 1)})
                 <=> (x \in {f[i].epoch : i \in 1..n} \/ x = e.epoch)
      BY <1>0, <3>1
    <3> QED
      BY <3>2
  <2>5. r.epoch \in r.seg0_epochs
    <3>1. CASE n > 0
      BY <3>1, <2>1, <1>3, <1>4, <1>5, <1>6 DEF Larger
    <3>2. CASE n = 0
      <4>1. s.epoch = 0
        BY <3>2, <1>1 DEF PointOK
      <4> QED
        BY <4>1, <2>1, <1>3, <1>4 DEF Larger
    <3> QED
      BY <3>1, <3>2
  <2> QED
    BY <2>2, <2>3, <2>4, <2>5
<1>9. r.seals_seen > 0 => \E i \in 1..(n + 1) : IsSeal(g[i])
  <2>1. CASE IsSeal(e)
    BY <2>1
  <2>2. CASE ~IsSeal(e)
    <3>1. r.seals_seen = s.seals_seen
      BY <2>2, <1>3
    <3>2. s.seals_seen > 0 => \E i \in 1..n : IsSeal(g[i])
      BY <1>0, <1>6
    <3> QED
      BY <3>1, <3>2
  <2> QED
    BY <2>1, <2>2
<1>10. r.epoch \in r.revealed_epochs =>
         \A i \in 1..(n + 1) : i > r.sealed_through => IsSeal(g[i])
  <2>1. CASE ~IsSeal(e)
    BY <2>1, <1>3, <1>4
  <2>2. CASE IsSeal(e)
    <3>1. r.sealed_through >= n
      BY <2>2, <1>3, <1>4, <1>5 DEF Larger
    <3>2. r.sealed_through \in Nat
      BY <2>2, <1>3, <1>4, <1>5 DEF Larger
    <3> QED
      BY <2>2, <3>1, <3>2
  <2> QED
    BY <2>1, <2>2
<1>11. u[(n + 1) + 1] = r /\ r.seq = n + 1
  BY <1>1, <1>2, <1>3, <1>4
<1> QED
  BY <1>7, <1>8, <1>9, <1>10, <1>11 DEF PointOK

\* A history with an entry that fits appended is a history.
LEMMA HistoryAppend ==
  ASSUME NEW f, NEW t, IsSequence(f), IsSequence(t), Len(t) = Len(f) + 1,
         HistoryOK(f, t), ScanOK(t[Len(t)]),
         NEW e, Fits(t[Len(t)], Len(f), e),
         NEW g, g = Append(f, e), NEW u, u = Append(t, Accept(t[Len(t)], e))
  PROVE  HistoryOK(g, u)
<1>1. PICK n : n = Len(f)
  OBVIOUS
<1>2. n \in Nat /\ Len(t) = n + 1
  BY <1>1, LenNat
<1>3. /\ Len(g) = n + 1 /\ g[n + 1] = e /\ \A i \in 1..n : g[i] = f[i]
  BY <1>1, AppendFacts
<1>4. /\ u[n + 2] = Accept(t[n + 1], e) /\ \A i \in 1..(n + 1) : u[i] = t[i]
  <2>1. /\ u[Len(t) + 1] = Accept(t[Len(t)], e) /\ \A i \in 1..Len(t) : u[i] = t[i]
    BY AppendFacts
  <2> QED
    BY <1>2, <2>1
<1>5. HistoryThrough(f, t, n) /\ t[1] = ScanInit /\ SameThrough(f, t, g, u, n)
  BY <1>1, <1>3, <1>4 DEF HistoryOK, SameThrough
<1>6. HistoryThrough(g, u, n)
  <2>1. n <= n
    BY <1>2
  <2> QED
    BY <1>2, <1>5, <2>1, HistoryPrefix
<1>7. Fits(t[n + 1], n, e) /\ ScanOK(t[n + 1])
  BY <1>1, <1>2
<1>8. PointOK(g, u, n + 1)
  <2>1. PointOK(f, t, n)
    BY <1>2, <1>5 DEF HistoryThrough
  <2> QED
    BY <1>2, <1>3, <1>4, <1>5, <1>7, <2>1, NextPoint
<1>9. LineOK(g, u, n + 1)
  <2>1. AcceptedAs(t[n + 1], e, u[n + 2])
    BY <1>4, AcceptFields, Zenon
  <2>2. /\ g[n + 1] = e /\ u[n + 1] = t[n + 1] /\ u[(n + 1) + 1] = Accept(t[n + 1], e)
        /\ u[(n + 1) + 1].seals_seen = Counted(t[n + 1], e).seals_seen
    BY <1>2, <1>3, <1>4, <2>1 DEF AcceptedAs
  <2> QED
    BY <1>7, <2>2 DEF LineOK, Fits
<1>10. u[1] = ScanInit
  BY <1>2, <1>4, <1>5
<1> QED
  BY <1>2, <1>3, <1>6, <1>8, <1>9, <1>10 DEF HistoryOK, HistoryThrough

\* A history cut short is a history.
LEMMA HistoryCut ==
  ASSUME NEW f, NEW t, IsSequence(f), IsSequence(t), Len(t) = Len(f) + 1,
         HistoryOK(f, t), NEW k \in 0..Len(f),
         NEW g, g = SubSeq(f, 1, k), NEW u, u = SubSeq(t, 1, k + 1)
  PROVE  HistoryOK(g, u)
<1>1. PICK n : n = Len(f)
  OBVIOUS
<1>2. n \in Nat /\ Len(t) = n + 1 /\ k \in Nat /\ k <= n
  BY <1>1, LenNat
<1>3. k + 1 \in 0..Len(t)
  BY <1>2
<1>4. Len(g) = k /\ \A i \in 1..k : g[i] = f[i]
  BY SubSeqFacts
<1>5. \A i \in 1..(k + 1) : u[i] = t[i]
  BY <1>3, SubSeqFacts
<1>6. HistoryThrough(f, t, n) /\ t[1] = ScanInit /\ SameThrough(f, t, g, u, k)
  BY <1>1, <1>4, <1>5 DEF HistoryOK, SameThrough
<1>7. HistoryThrough(g, u, k)
  BY <1>2, <1>6, HistoryPrefix
<1> QED
  BY <1>2, <1>4, <1>5, <1>6, <1>7 DEF HistoryOK

(***************************************************************************)
(* The steps.  Storage is reliable when no append fails half-way and a     *)
(* writer that dies leaves nothing, a whole line, or a line that does not  *)
(* parse: the findings show what happens otherwise.                        *)
(***************************************************************************)
Reliable == WriteFaults = {} /\ "noeol" \notin CrashTails

\* The fields append is called with, when it will not refuse: s is what is
\* known of the file.
Prepared(s, hh, ks, etype, body, published) ==
  /\ hh.last_hash = s.last_hash /\ hh.seq = s.seq
  /\ hh.legacy_segment0 = s.legacy_segment0 /\ hh.revealed_epochs = s.revealed_epochs
  /\ hh.epoch \in Nat /\ hh.epoch < Len(ks) /\ hh.epoch \notin s.revealed_epochs
  /\ \/ /\ etype # SEAL_EVENT /\ published = {} /\ hh.epoch >= s.epoch
        /\ hh.seals_seen = s.seals_seen /\ hh.sealed_through = s.sealed_through
     \/ /\ etype = SEAL_EVENT /\ hh.epoch = s.epoch
        /\ hh.seals_seen = s.seals_seen + 1 /\ hh.sealed_through = s.seq
        /\ body.end_seq = s.seq /\ s.sealed_through < s.seq
        /\ published = IF s.seals_seen = 0 /\ s.legacy_segment0
                       THEN s.seg0_epochs \cup {s.epoch} ELSE {}

\* The entry append builds, by fields.
LEMMA NewEventFields ==
  ASSUME NEW hh, NEW ks, NEW etype, NEW body, NEW e, e = NewEvent(hh, ks, etype, body)
  PROVE  /\ e.v = WriteVersion(hh) /\ e.seq = hh.seq + 1 /\ e.etype = etype
         /\ e.body = body /\ e.epoch = hh.epoch /\ e.prev_hash = hh.last_hash
         /\ e.hash = event_hash(e.v, e.prev_hash, e.seq, e.etype, e.body, e.hash.key)
         /\ e.hash.key = entry_key(ks, hh.epoch, hh.seals_seen, e.v)
BY DEF NewEvent, Event, event_hash

\* It fits behind the file.
LEMMA PreparedFits ==
  ASSUME NEW s, ScanOK(s), NEW hh, NEW ks, NEW body, NEW published,
         NEW etype \in {DATA_EVENT, KEY_ROTATION_EVENT, SEAL_EVENT},
         Prepared(s, hh, ks, etype, body, published),
         NEW e, e = NewEvent(hh, ks, etype, body), EntryOK(e)
  PROVE  Fits(s, s.seq, e)
<1>1. /\ e.v = WriteVersion(hh) /\ e.seq = hh.seq + 1 /\ e.etype = etype
      /\ e.body = body /\ e.epoch = hh.epoch /\ e.prev_hash = hh.last_hash
      /\ e.hash = event_hash(e.v, e.prev_hash, e.seq, e.etype, e.body, e.hash.key)
      /\ e.hash.key = entry_key(ks, hh.epoch, hh.seals_seen, e.v)
  BY NewEventFields
<1>2. /\ s.seq \in Nat /\ s.epoch \in Nat /\ s.seals_seen \in Nat /\ s.sealed_through \in Nat
  BY DEF ScanOK, ViewOK
<1>3. Linked(s, e) /\ e.seq = s.seq + 1
  BY <1>1 DEF Prepared, Linked
<1>4. Counted(s, e).seals_seen = hh.seals_seen
  BY <1>1 DEF Counted, IsSeal, Prepared
<1>5. e.hash.key = [seed |-> e.hash.key.seed,
                    seg |-> IF e.v < 3 THEN BASE ELSE Counted(s, e).seals_seen]
  <2>1. e.hash.key = entry_key(ks, hh.epoch, Counted(s, e).seals_seen, e.v)
    BY <1>1, <1>4
  <2> QED
    BY <2>1 DEF entry_key, segment_key, BaseKey
<1>6. IsSeal(e) => e.v = 3 /\ e.body.end_seq = s.seq /\ s.seq > 0
  BY <1>1, <1>2 DEF IsSeal, Prepared, WriteVersion, FORMAT_VERSION
<1>7. ~IsSeal(e) => Larger(s.epoch, e.epoch) \notin s.revealed_epochs
  BY <1>1, <1>2 DEF IsSeal, Prepared, Larger
<1> QED
  BY <1>1, <1>3, <1>5, <1>6, <1>7 DEF Fits

\* The handle q after a successful append, field by field.
Advanced(hh, e, published, q) ==
  /\ q.last_hash = e.hash /\ q.seq = e.seq /\ q.epoch = hh.epoch
  /\ q.seals_seen = hh.seals_seen /\ q.sealed_through = hh.sealed_through
  /\ q.legacy_segment0 = hh.legacy_segment0
  /\ q.revealed_epochs = hh.revealed_epochs \cup published

\* Afterwards the handle knows what a reader of the longer file would.
LEMMA PreparedAgrees ==
  ASSUME NEW s, ScanOK(s), NEW hh, NEW ks, NEW body, NEW published,
         NEW etype \in {DATA_EVENT, KEY_ROTATION_EVENT, SEAL_EVENT},
         Prepared(s, hh, ks, etype, body, published),
         NEW e, e = NewEvent(hh, ks, etype, body), NEW r, r = Accept(s, e),
         NEW q, Advanced(hh, e, published, q)
  PROVE  Agrees(q, r)
<1>1. /\ e.v = WriteVersion(hh) /\ e.etype = etype /\ e.body = body /\ e.epoch = hh.epoch
  BY NewEventFields
<1>2. AcceptedAs(s, e, r)
  BY AcceptFields, Zenon
<1>3. /\ q.last_hash = e.hash /\ q.seq = e.seq /\ q.epoch = hh.epoch
      /\ q.seals_seen = hh.seals_seen /\ q.sealed_through = hh.sealed_through
      /\ q.legacy_segment0 = hh.legacy_segment0
      /\ q.revealed_epochs = hh.revealed_epochs \cup published
  BY DEF Advanced
<1>4. /\ s.seq \in Nat /\ s.epoch \in Nat /\ s.seals_seen \in Nat /\ s.sealed_through \in Nat
      /\ s.legacy_segment0 \in BOOLEAN
  BY DEF ScanOK, ViewOK
<1>5. q.last_hash = r.last_hash /\ q.seq = r.seq
  BY <1>2, <1>3 DEF AcceptedAs
<1>6. q.epoch = r.epoch
  BY <1>1, <1>2, <1>3, <1>4 DEF AcceptedAs, Prepared, Larger
<1>7. q.seals_seen = r.seals_seen
  BY <1>1, <1>2, <1>3 DEF AcceptedAs, Prepared, IsSeal
<1>8. q.sealed_through = r.sealed_through
  BY <1>1, <1>2, <1>3, <1>4 DEF AcceptedAs, Prepared, IsSeal, Larger
<1>9. r.legacy_segment0 = s.legacy_segment0
  <2>1. s.seals_seen = 0 /\ e.v < 3 => s.legacy_segment0
    BY <1>1, <1>4 DEF Prepared, WriteVersion, FORMAT_VERSION
  <2>2. r.legacy_segment0 = (s.legacy_segment0 \/ (s.seals_seen = 0 /\ e.v < 3))
    BY <1>2 DEF AcceptedAs
  <2> QED
    BY <2>1, <2>2, <1>4
<1>10. q.legacy_segment0 = r.legacy_segment0
  BY <1>3, <1>9 DEF Prepared
<1>11. q.revealed_epochs = r.revealed_epochs
  <2>1. /\ r.seg0_epochs = IF s.seals_seen = 0 THEN s.seg0_epochs \cup {e.epoch}
                                               ELSE s.seg0_epochs
        /\ r.revealed_epochs =
             IF IsSeal(e) /\ s.legacy_segment0 /\ s.seals_seen = 0
             THEN s.revealed_epochs \cup r.seg0_epochs ELSE s.revealed_epochs
    BY <1>2, <1>9 DEF AcceptedAs
  <2>2. CASE etype # SEAL_EVENT
    BY <2>1, <2>2, <1>1, <1>3 DEF Prepared, IsSeal
  <2>3. CASE etype = SEAL_EVENT
    BY <2>1, <2>3, <1>1, <1>3 DEF Prepared, IsSeal
  <2> QED
    BY <2>2, <2>3
<1> QED
  BY <1>3, <1>5, <1>6, <1>7, <1>8, <1>10, <1>11 DEF Agrees

\* What the history says of the whole file.
LEMMA TipFacts ==
  ASSUME TypeOK, HistoryOK(file, trail)
  PROVE  /\ Len(file) \in Nat /\ Len(trail) = Len(file) + 1
         /\ ScanOK(Tip) /\ Tip = trail[Len(file) + 1] /\ Tip.seq = Len(file)
         /\ PointOK(file, trail, Len(file))
<1>1. Len(file) \in Nat /\ Len(trail) = Len(file) + 1
  BY LenNat DEF TypeOK
<1>2. ScanOK(Tip) /\ Tip = trail[Len(file) + 1]
  BY <1>1 DEF Tip, TypeOK
<1>3. PointOK(file, trail, Len(file))
  BY <1>1 DEF HistoryOK, HistoryThrough
<1> QED
  BY <1>1, <1>2, <1>3 DEF PointOK

\* Whatever leaves the file alone, or only spoils what follows it, keeps the
\* history.
LEMMA ReleasedStep ==
  ASSUME HistoryOK(file, trail), UNCHANGED <<file, trail>>, tail' # "noeol", Released
  PROVE  HistoryOK(file', trail') /\ HandleOK'
BY DEF Released, HandleOK

\* append, called by a handle that is prepared or bound to be refused.
LEMMA AppendStep ==
  ASSUME Reliable, Inv, pc = "ready",
         NEW hh, ViewOK(hh), DOMAIN hh = HandleFields, NEW ks, NEW body, NEW published,
         NEW etype \in {DATA_EVENT, KEY_ROTATION_EVENT, SEAL_EVENT},
         etype = SEAL_EVENT => body.end_seq \in Nat,
         hh.seq = h.seq,
         ~compromised /\ ~read_only /\ h.seq < MAX_SEQ =>
           Prepared(Tip, hh, ks, etype, body, published),
         append(hh, ks, etype, body, published)
  PROVE  HistoryOK(file', trail') /\ HandleOK'
<1>1. PICK e : e = NewEvent(hh, ks, etype, body)
  OBVIOUS
<1>2. /\ HistoryOK(file, trail) /\ tail # "noeol"
      /\ ~compromised => tail = "eol"
  BY DEF Inv, HandleOK
<1>3. CASE ~Writable(hh, ks) /\ h' = hh /\ keys' = ks /\ UNCHANGED <<disk, pc, scan, flags>>
  <2>1. compromised \/ read_only \/ ~(h.seq < MAX_SEQ)
    BY <1>3 DEF Writable, Prepared, HasKey
  <2> QED
    BY <1>2, <1>3, <2>1 DEF HandleOK, disk, flags
<1>4. CASE /\ Writable(hh, ks) /\ WriteLine(e, "line")
           /\ h' = [hh EXCEPT !.last_hash = e.hash, !.seq = e.seq,
                              !.revealed_epochs = @ \cup published]
           /\ keys' = ks /\ UNCHANGED <<pc, scan, flags>>
  <2>1. ~compromised /\ ~read_only /\ Prepared(Tip, hh, ks, etype, body, published)
    BY <1>4 DEF Writable
  <2>2. tail = "eol"
    BY <1>2, <2>1
  <2>3. /\ file' = Append(file, e) /\ trail' = Append(trail, Accept(Tip, e)) /\ tail' = "eol"
    BY <1>4, <2>2 DEF WriteLine
  <2>4. EntryOK(e)
    BY <1>1, NewEventType DEF BodyFits
  <2>5. /\ Len(file) \in Nat /\ Len(trail) = Len(file) + 1
        /\ ScanOK(Tip) /\ Tip = trail[Len(trail)] /\ Tip.seq = Len(file)
        /\ IsSequence(file) /\ IsSequence(trail)
    BY <1>2, TipFacts DEF Inv, TypeOK, Tip
  <2>6. Fits(Tip, Len(file), e)
    <3>1. Fits(Tip, Tip.seq, e)
      BY <1>1, <2>1, <2>4, <2>5, PreparedFits
    <3> QED
      BY <3>1, <2>5
  <2>7. HistoryOK(file', trail')
    BY <1>2, <2>3, <2>5, <2>6, HistoryAppend
  <2>8. Tip' = Accept(Tip, e)
    <3>1. Len(trail') = Len(trail) + 1 /\ trail'[Len(trail) + 1] = Accept(Tip, e)
      BY <2>3, <2>5, AppendFacts
    <3> QED
      BY <3>1 DEF Tip
  <2>9. Agrees(h', Tip') /\ h'.epoch = hh.epoch
    <3>1. Advanced(hh, e, published, h')
      BY <1>4 DEF Advanced, HandleFields
    <3>2. Agrees(h', Accept(Tip, e))
      BY <1>1, <2>1, <2>5, <3>1, PreparedAgrees
    <3> QED
      BY <3>1, <3>2, <2>8 DEF Advanced
  <2>10. h'.epoch < Len(keys')
    BY <1>4, <2>1, <2>9 DEF Prepared
  <2> QED
    BY <1>4, <2>3, <2>7, <2>9, <2>10 DEF HandleOK
<1>5. CASE (\E how \in CrashTails : WriteLine(e, how)) /\ Writable(hh, ks) /\ Released
  <2>1. PICK how \in CrashTails : WriteLine(e, how)
    BY <1>5
  <2>2. how = "torn"
    BY <2>1, FaultAssumption DEF Reliable
  <2>3. tail = "eol"
    BY <1>2, <1>5 DEF Writable
  <2>4. UNCHANGED <<file, trail>> /\ tail' = "garbage"
    BY <2>1, <2>2, <2>3 DEF WriteLine
  <2> QED
    BY <1>2, <1>5, <2>4, ReleasedStep
<1> QED
  BY <1>1, <1>3, <1>4, <1>5 DEF append, Written, Reliable

\* The inductive invariant holds before the first open.
LEMMA InvInit == Init => Inv
<1> SUFFICES ASSUME Init PROVE Inv
  OBVIOUS
<1>1. Len(file) = 0 /\ trail[1] = ScanInit
  BY DEF Init
<1>2. PointOK(file, trail, 0)
  BY <1>1 DEF PointOK, ScanInit
<1>3. HistoryOK(file, trail)
  BY <1>1, <1>2 DEF HistoryOK, HistoryThrough
<1>4. HandleOK
  BY DEF Init, HandleOK
<1> QED
  BY <1>3, <1>4, TypeInit DEF Inv

\* An ordinary append is prepared.
LEMMA DataPrepared ==
  ASSUME Inv, pc = "ready", Writable(h, keys), NEW etype \in EventTypes, NEW body
  PROVE  Prepared(Tip, h, keys, etype, body, {})
<1>1. Agrees(h, Tip) /\ h.epoch < Len(keys) /\ h.epoch \in Nat /\ h.epoch \notin h.revealed_epochs
  BY DEF Inv, HandleOK, Writable, TypeOK, ViewOK
<1> QED
  BY <1>1, CallersAssumption, TypesAssumption DEF Agrees, Prepared

\* The epoch after the last one in use has never been revealed, and the key
\* just pushed, or one that was there before, serves it.
LEMMA RotationPrepared ==
  ASSUME Inv, pc = "ready", ~compromised, ~read_only, h.seq < MAX_SEQ,
         NEW seed \in Seeds, NEW body,
         NEW hh, hh.last_hash = h.last_hash, hh.seq = h.seq, hh.epoch = h.epoch + 1,
         hh.seals_seen = h.seals_seen, hh.sealed_through = h.sealed_through,
         hh.legacy_segment0 = h.legacy_segment0, hh.revealed_epochs = h.revealed_epochs
  PROVE  Prepared(Tip, hh, Append(keys, seed), KEY_ROTATION_EVENT, body, {})
<1>1. Agrees(h, Tip) /\ h.epoch < Len(keys) /\ h.epoch \in Nat /\ keys \in Seq(Seeds)
  BY DEF Inv, HandleOK, TypeOK, ViewOK
<1>2. Tip.revealed_epochs \subseteq 0..Tip.epoch
  <2>1. PointOK(file, trail, Len(file)) /\ Tip = trail[Len(file) + 1]
    BY TipFacts DEF Inv
  <2> QED
    BY <2>1 DEF PointOK
<1>3. Len(Append(keys, seed)) = Len(keys) + 1 /\ Len(keys) \in Nat
  BY <1>1
<1>4. hh.epoch \in Nat /\ hh.epoch < Len(Append(keys, seed)) /\ hh.epoch >= Tip.epoch
  BY <1>1, <1>3 DEF Agrees
<1>5. hh.epoch \notin Tip.revealed_epochs
  BY <1>1, <1>2 DEF Agrees
<1> QED
  BY <1>1, <1>4, <1>5 DEF Agrees, Prepared, KEY_ROTATION_EVENT, SEAL_EVENT

\* seal is never refused for a revealed epoch, and what it reveals of a
\* legacy segment 0 are the epochs a reader of the seal notes.
LEMMA SealPrepared ==
  ASSUME Inv, pc = "ready", Sealable, ~read_only, h.seq < MAX_SEQ,
         NEW body, body.end_seq = h.seq,
         NEW hh, hh.last_hash = h.last_hash, hh.seq = h.seq, hh.epoch = h.epoch,
         hh.seals_seen = h.seals_seen + 1, hh.sealed_through = h.seq,
         hh.legacy_segment0 = h.legacy_segment0, hh.revealed_epochs = h.revealed_epochs,
         NEW published,
         published = IF h.seals_seen = 0 /\ h.legacy_segment0 THEN SegmentEpochs ELSE {}
  PROVE  Prepared(Tip, hh, keys, SEAL_EVENT, body, published)
<1>1. Agrees(h, Tip) /\ h.epoch < Len(keys) /\ h.epoch \in Nat /\ h.seq \in Nat
      /\ h.sealed_through \in Nat
  BY DEF Inv, HandleOK, TypeOK, ViewOK, Sealable
<1>2. PICK n : n = Len(file)
  OBVIOUS
<1>3. /\ n \in Nat /\ Tip = trail[n + 1] /\ Tip.seq = n /\ PointOK(file, trail, n)
  BY <1>2, TipFacts DEF Inv
<1>4. \A i \in 1..n : file[i].seq = i
  BY <1>2 DEF Inv, HistoryOK, HistoryThrough, LineOK
<1>5. h.seq = n /\ h.sealed_through < n
  BY <1>1, <1>3 DEF Agrees, Sealable
<1>6. \A i \in SegmentIndexes : i \in 1..n /\ i > h.sealed_through
  BY <1>1, <1>2, <1>3, <1>4 DEF SegmentIndexes, InSegment
<1>7. h.epoch \notin Tip.revealed_epochs
  <2>1. PICK i \in SegmentIndexes : ~IsSeal(file[i])
    BY DEF Sealable
  <2>2. i \in 1..n /\ i > Tip.sealed_through
    BY <2>1, <1>1, <1>6 DEF Agrees
  <2>3. Tip.epoch \in Tip.revealed_epochs =>
          \A j \in 1..n : j > Tip.sealed_through => IsSeal(file[j])
    BY <1>3 DEF PointOK
  <2> QED
    BY <1>1, <2>1, <2>2, <2>3 DEF Agrees
<1>8. ASSUME Tip.seals_seen = 0
      PROVE  SegmentEpochs = Tip.seg0_epochs \cup {Tip.epoch}
  <2>1. /\ Tip.seg0_epochs = {file[i].epoch : i \in 1..n}
        /\ Tip.sealed_through = 0 /\ Tip.epoch \in Tip.seg0_epochs
    BY <1>3, <1>5, <1>8, <1>1 DEF PointOK
  <2>2. SegmentIndexes = 1..n
    BY <1>1, <1>2, <1>3, <1>4, <1>5, <2>1 DEF SegmentIndexes, InSegment, Agrees
  <2> QED
    BY <2>1, <2>2 DEF SegmentEpochs
<1> QED
  BY <1>1, <1>3, <1>5, <1>7, <1>8 DEF Agrees, Prepared

\* A file without v3 entries has no seals, so no key is public.
LEMMA LegacyUnsealed ==
  ASSUME Inv, NEW v \in {1, 2}, \A i \in 1..Len(file) : file[i].v <= v
  PROVE  Tip.revealed_epochs = {}
<1>1. /\ Len(file) \in Nat /\ Tip = trail[Len(file) + 1]
      /\ PointOK(file, trail, Len(file)) /\ ScanOK(Tip)
  BY TipFacts DEF Inv
<1>2. CASE Tip.seals_seen = 0
  BY <1>2, <1>1 DEF PointOK
<1>3. CASE Tip.seals_seen > 0
  <2>1. PICK i \in 1..Len(file) : IsSeal(file[i])
    BY <1>3, <1>1 DEF PointOK
  <2>2. file[i].v = 3
    BY <2>1 DEF Inv, HistoryOK, HistoryThrough, LineOK
  <2> QED
    BY <2>1, <2>2
<1> QED
  BY <1>1, <1>2, <1>3 DEF ScanOK, ViewOK

\* What a release from before sealing wrote fits, too.
LEMMA LegacyFits ==
  ASSUME Inv, NEW v \in {1, 2}, NEW seed, NEW body,
         \A i \in 1..Len(file) : file[i].v <= v,
         NEW e, e = Event(v, Tip.last_hash, Tip.seq + 1, DATA_EVENT, body, 0, BaseKey(seed))
  PROVE  Fits(Tip, Len(file), e)
<1>1. /\ Len(file) \in Nat /\ Tip.seq = Len(file) /\ Tip = trail[Len(file) + 1]
      /\ PointOK(file, trail, Len(file)) /\ ScanOK(Tip)
  BY TipFacts DEF Inv
<1>2. /\ e.v = v /\ e.seq = Tip.seq + 1 /\ e.etype = DATA_EVENT /\ e.body = body
      /\ e.epoch = 0 /\ e.prev_hash = Tip.last_hash /\ e.hash.key = BaseKey(seed)
      /\ e.hash = event_hash(e.v, e.prev_hash, e.seq, e.etype, e.body, e.hash.key)
  BY DEF Event, event_hash
<1>3. ~IsSeal(e) /\ EntryOK(e) /\ Linked(Tip, e)
  BY <1>1, <1>2 DEF IsSeal, DATA_EVENT, SEAL_EVENT, EntryOK, Linked
<1>4. Tip.revealed_epochs = {}
  BY LegacyUnsealed
<1>5. e.hash.key = [seed |-> e.hash.key.seed,
                    seg |-> IF e.v < 3 THEN BASE ELSE Counted(Tip, e).seals_seen]
  BY <1>2 DEF BaseKey
<1> QED
  BY <1>1, <1>2, <1>3, <1>4, <1>5 DEF Fits

\* On reliable storage every step preserves the inductive invariant.
LEMMA InvStep ==
  ASSUME Reliable
  PROVE  Inv /\ [Next]_vars => Inv'
<1> SUFFICES ASSUME Inv, [Next]_vars PROVE HistoryOK(file', trail') /\ HandleOK'
  BY TypeStep DEF Inv
<1>0. TypeOK /\ HistoryOK(file, trail) /\ HandleOK
  BY DEF Inv
<1>00. /\ Len(file) \in Nat /\ Len(trail) = Len(file) + 1
       /\ IsSequence(file) /\ IsSequence(trail) /\ ScanOK(Tip)
       /\ Tip = trail[Len(file) + 1] /\ trail[1] = ScanInit
  BY <1>0, TipFacts DEF TypeOK, HistoryOK
<1>1. ASSUME NEW ring \in Rings, Open(ring) PROVE HistoryOK(file', trail') /\ HandleOK'
  <2>1. scan = ScanInit /\ scan.seq = 0 /\ scan.epoch = 0
    BY <1>0, <1>1 DEF Open, HandleOK, ScanInit
  <2>2. 0 < Len(ring)
    <3>1. ring \in Seq(Seeds) /\ ring # << >>
      BY RingAssumption
    <3> QED
      BY <3>1, EmptySeq
  <2> QED
    BY <1>0, <1>00, <1>1, <2>1, <2>2 DEF Open, HandleOK, disk, flags
<1>2. ASSUME ScanLine PROVE HistoryOK(file', trail') /\ HandleOK'
  <2>1. PICK k : k = scan.seq + 1
    OBVIOUS
  <2>2. /\ k \in 1..Len(file) /\ scan = trail[k] /\ scan.epoch < Len(keys)
        /\ scan.seq \in Nat /\ pc = "opening"
    BY <1>0, <1>00, <1>2, <2>1 DEF ScanLine, HandleOK
  <2>3. CASE Released /\ UNCHANGED disk
    BY <1>0, <2>3, ReleasedStep DEF disk, HandleOK
  <2>4. CASE /\ HasKey(keys, file[k].epoch) /\ scan' = Accept(scan, file[k])
             /\ UNCHANGED <<disk, pc, keys, h, flags>>
    <3>1. LineOK(file, trail, k) /\ PointOK(file, trail, k)
      BY <1>0, <1>00, <2>2 DEF HistoryOK, HistoryThrough
    <3>2. scan' = trail[k + 1] /\ scan'.seq = k
      BY <2>2, <2>4, <3>1 DEF LineOK, PointOK
    <3>3. scan'.epoch < Len(keys)
      <4>1. AcceptedAs(scan, file[k], scan')
        BY <2>4, AcceptFields, Zenon
      <4>2. scan'.epoch = Larger(scan.epoch, file[k].epoch)
        BY <4>1 DEF AcceptedAs
      <4> QED
        BY <4>2, <2>2, <2>4 DEF Larger, HasKey
    <3> QED
      BY <1>0, <2>2, <2>4, <3>2, <3>3 DEF HandleOK, disk, flags
  <2>5. CASE Opened(Counted(scan, file[k]), TRUE)
    BY <1>0, <2>5 DEF Opened, HandleOK, disk
  <2> QED
    BY <1>2, <2>1, <2>3, <2>4, <2>5 DEF ScanLine, Refused
<1>3. ASSUME ScanEnd PROVE HistoryOK(file', trail') /\ HandleOK'
  <2>1. scan = Tip /\ scan.epoch < Len(keys) /\ tail # "noeol"
    BY <1>0, <1>00, <1>3 DEF ScanEnd, HandleOK
  <2>2. CASE tail # "garbage" /\ Opened(scan, FALSE)
    <3>1. tail = "eol"
      BY <1>0, <2>1, <2>2 DEF TypeOK
    <3>2. Agrees(h', Tip') /\ h'.epoch = scan.epoch
      BY <2>1, <2>2 DEF Opened, View, Agrees, Tip, disk
    <3> QED
      BY <1>0, <2>1, <2>2, <3>1, <3>2 DEF Opened, HandleOK, disk
  <2>3. CASE Released /\ UNCHANGED disk
    BY <1>0, <2>1, <2>3, ReleasedStep DEF disk
  <2> QED
    BY <1>3, <2>2, <2>3 DEF ScanEnd
<1>4. ASSUME NEW etype \in EventTypes, NEW body \in Payloads, AppendData(etype, body)
      PROVE  HistoryOK(file', trail') /\ HandleOK'
  <2>1. pc = "ready" /\ Prepared(Tip, h, keys, etype, body, {})
    BY <1>4, DataPrepared DEF AppendData
  <2>2. /\ ViewOK(h) /\ DOMAIN h = HandleFields /\ etype # SEAL_EVENT
        /\ etype \in {DATA_EVENT, KEY_ROTATION_EVENT, SEAL_EVENT}
    BY <1>0, CallersAssumption, TypesAssumption DEF TypeOK
  <2> QED
    BY <1>4, <2>1, <2>2, AppendStep DEF AppendData
<1>5. ASSUME NEW seed \in Seeds, rotate_key(seed)
      PROVE  HistoryOK(file', trail') /\ HandleOK'
  <2>1. CASE keys' = Append(keys, seed) /\ UNCHANGED <<disk, pc, scan, h, flags>>
    <3>1. Len(keys') = Len(keys) + 1 /\ Len(keys) \in Nat /\ h.epoch \in Nat
      BY <1>0, <2>1 DEF TypeOK, ViewOK
    <3>2. pc = "ready" /\ Tip' = Tip
      BY <1>5, <2>1 DEF rotate_key, Tip, disk
    <3> QED
      BY <1>0, <2>1, <3>1, <3>2 DEF HandleOK, disk, flags
  <2>2. ASSUME NEW hh, hh = [h EXCEPT !.epoch = @ + 1],
               append(hh, Append(keys, seed), KEY_ROTATION_EVENT, [epoch |-> h.epoch + 1], {})
        PROVE  HistoryOK(file', trail') /\ HandleOK'
    <3>1. /\ hh.last_hash = h.last_hash /\ hh.seq = h.seq /\ hh.epoch = h.epoch + 1
          /\ hh.seals_seen = h.seals_seen /\ hh.sealed_through = h.sealed_through
          /\ hh.legacy_segment0 = h.legacy_segment0
          /\ hh.revealed_epochs = h.revealed_epochs /\ DOMAIN hh = HandleFields
      BY <1>0, <2>2 DEF TypeOK, HandleFields
    <3>2. ViewOK(hh)
      BY <1>0, <3>1 DEF TypeOK, ViewOK
    <3>3. pc = "ready"
      BY <1>5 DEF rotate_key
    <3>4. ~compromised /\ ~read_only /\ h.seq < MAX_SEQ =>
            Prepared(Tip, hh, Append(keys, seed), KEY_ROTATION_EVENT, [epoch |-> h.epoch + 1], {})
      BY <3>1, <3>3, RotationPrepared
    <3>5. KEY_ROTATION_EVENT # SEAL_EVENT
      BY DEF KEY_ROTATION_EVENT, SEAL_EVENT
    <3> QED
      BY <2>2, <3>1, <3>2, <3>3, <3>4, <3>5, AppendStep
  <2> QED
    BY <1>5, <2>1, <2>2 DEF rotate_key
<1>6. ASSUME NEW signer \in Signers, seal(signer)
      PROVE  HistoryOK(file', trail') /\ HandleOK'
  <2>1. PICK hh : hh = [h EXCEPT !.seals_seen = @ + 1, !.sealed_through = h.seq]
    OBVIOUS
  <2>2. PICK body : body = sign_record(SealRecord(signer), signer)
    OBVIOUS
  <2>3. PICK published :
          published = IF h.seals_seen = 0 /\ h.legacy_segment0 THEN SegmentEpochs ELSE {}
    OBVIOUS
  <2>4. pc = "ready" /\ Sealable /\ append(hh, keys, SEAL_EVENT, body, published)
    BY <1>6, <2>1, <2>2, <2>3 DEF seal
  <2>5. /\ hh.last_hash = h.last_hash /\ hh.seq = h.seq /\ hh.epoch = h.epoch
        /\ hh.seals_seen = h.seals_seen + 1 /\ hh.sealed_through = h.seq
        /\ hh.legacy_segment0 = h.legacy_segment0
        /\ hh.revealed_epochs = h.revealed_epochs /\ DOMAIN hh = HandleFields
    BY <1>0, <2>1 DEF TypeOK, HandleFields
  <2>6. ViewOK(hh)
    BY <1>0, <2>5 DEF TypeOK, ViewOK
  <2>7. body.end_seq = h.seq /\ h.seq \in Nat
    BY <1>0, <2>2 DEF sign_record, SealRecord, TypeOK, ViewOK
  <2>8. ~compromised /\ ~read_only /\ h.seq < MAX_SEQ =>
          Prepared(Tip, hh, keys, SEAL_EVENT, body, published)
    BY <2>3, <2>4, <2>5, <2>7, SealPrepared
  <2> QED
    BY <2>4, <2>5, <2>6, <2>7, <2>8, AppendStep
<1>7. ASSUME mark_readonly \/ mark_compromised \/ \E d \in BOOLEAN : set_durable(d)
      PROVE  HistoryOK(file', trail') /\ HandleOK'
  <2>1. Tip' = Tip
    BY <1>7 DEF mark_readonly, mark_compromised, set_durable, Tip, disk
  <2> QED
    BY <1>0, <1>7, <2>1 DEF mark_readonly, mark_compromised, set_durable, HandleOK, disk
<1>8. ASSUME sync PROVE HistoryOK(file', trail') /\ HandleOK'
  <2>1. Tip' = Tip
    BY <1>8 DEF sync, Tip
  <2> QED
    BY <1>0, <1>8, <2>1 DEF sync, HandleOK, flags
<1>9. ASSUME Close PROVE HistoryOK(file', trail') /\ HandleOK'
  BY <1>0, <1>9, ReleasedStep DEF Close, disk, HandleOK
<1>10. ASSUME PowerLoss PROVE HistoryOK(file', trail') /\ HandleOK'
  <2>1. PICK k \in 0..Len(file) :
          /\ file' = SubSeq(file, 1, k) /\ trail' = SubSeq(trail, 1, k + 1)
          /\ tail' \in {"eol", "garbage", tail}
    BY <1>10 DEF PowerLoss, Reliable
  <2>2. HistoryOK(file', trail')
    BY <1>0, <1>00, <2>1, HistoryCut
  <2> QED
    BY <1>0, <1>10, <2>1, <2>2 DEF PowerLoss, Released, HandleOK
<1>11. ASSUME NEW v \in {1, 2}, NEW seed \in Seeds, NEW body \in Payloads,
              LegacyWrite(v, seed, body)
       PROVE  HistoryOK(file', trail') /\ HandleOK'
  <2>1. PICK e : e = Event(v, Tip.last_hash, Tip.seq + 1, DATA_EVENT, body, 0, BaseKey(seed))
    OBVIOUS
  <2>2. Fits(Tip, Len(file), e)
    BY <1>11, <2>1, LegacyFits DEF LegacyWrite
  <2>3. /\ file' = Append(file, e) /\ trail' = Append(trail, Accept(Tip, e)) /\ tail' = "eol"
    BY <1>11, <2>1 DEF LegacyWrite, WriteLine
  <2>4. HistoryOK(file', trail')
    <3>1. Tip = trail[Len(trail)]
      BY DEF Tip
    <3> QED
      BY <1>0, <1>00, <2>2, <2>3, <3>1, HistoryAppend
  <2>5. pc' = "closed" /\ scan' = ScanInit
    BY <1>0, <1>11 DEF LegacyWrite, HandleOK
  <2> QED
    BY <2>3, <2>4, <2>5 DEF HandleOK
<1>12. ASSUME UNCHANGED vars PROVE HistoryOK(file', trail') /\ HandleOK'
  BY <1>0, <1>12 DEF vars, disk, flags, HandleOK, Tip
<1> QED
  BY <1>1, <1>2, <1>3, <1>4, <1>5, <1>6, <1>7, <1>8, <1>9, <1>10, <1>11, <1>12 DEF Next

\* On reliable storage the inductive invariant always holds.
LEMMA InvAlways ==
  ASSUME Reliable
  PROVE  Spec => []Inv
BY InvInit, InvStep, PTL DEF Spec

\* On reliable storage a handle that appends always knows what a reader of
\* the file would know: the counters each call keeps by hand never drift
\* from the ones `open' recomputes.
THEOREM HandleInSync ==
  ASSUME Reliable
  PROVE  Spec => []InSync
<1>1. Inv => InSync
  BY DEF Inv, HandleOK, InSync
<1> QED
  BY <1>1, InvAlways, PTL

\* On reliable storage, with the keyring that wrote the file, the scan of
\* `open' refuses no line of it.
THEOREM UntamperedLedgerOpens ==
  ASSUME Reliable
  PROVE  Spec => []HonestReopen
<1>1. Inv => HonestReopen
  <2> SUFFICES ASSUME Inv, pc = "opening", RingMatches(keys)
               PROVE  /\ scan = trail[scan.seq + 1]
                      /\ scan.seq < Len(file) =>
                           /\ Linked(scan, file[scan.seq + 1])
                           /\ Authentic(scan, file[scan.seq + 1], keys)
    BY DEF HonestReopen
  <2>1. scan = trail[scan.seq + 1] /\ scan.seq \in 0..Len(file)
    BY DEF Inv, HandleOK
  <2>2. ASSUME scan.seq < Len(file)
        PROVE  Linked(scan, file[scan.seq + 1]) /\ Authentic(scan, file[scan.seq + 1], keys)
    <3>1. PICK k : k = scan.seq + 1
      OBVIOUS
    <3>2. Len(file) \in Nat
      BY LenNat DEF Inv, TypeOK
    <3>3. k \in 1..Len(file) /\ scan = trail[k]
      BY <2>1, <2>2, <3>1, <3>2
    <3>4. PICK e : e = file[k]
      OBVIOUS
    <3>5. LineOK(file, trail, k)
      BY <3>3 DEF Inv, HistoryOK, HistoryThrough
    <3>6. /\ Linked(scan, e) /\ trail[k + 1] = Accept(scan, e)
          /\ e.hash = event_hash(e.v, e.prev_hash, e.seq, e.etype, e.body, e.hash.key)
          /\ e.hash.key = [seed |-> e.hash.key.seed,
                           seg |-> IF e.v < 3 THEN BASE ELSE trail[k + 1].seals_seen]
      BY <3>3, <3>4, <3>5 DEF LineOK
    <3>7. trail[k + 1].seals_seen = Counted(scan, e).seals_seen
      <4>1. AcceptedAs(scan, e, trail[k + 1])
        BY <3>6, AcceptFields, Zenon
      <4> QED
        BY <4>1 DEF AcceptedAs
    <3>8. keys[e.epoch + 1] = e.hash.key.seed
      BY <3>3, <3>4 DEF RingMatches
    <3>9. e.hash.key = entry_key(keys, e.epoch, Counted(scan, e).seals_seen, e.v)
      BY <3>6, <3>7, <3>8 DEF entry_key, segment_key, BaseKey
    <3>10. e.prev_hash = scan.last_hash
      BY <3>6 DEF Linked
    <3>11. Authentic(scan, e, keys)
      BY <3>6, <3>9, <3>10 DEF Authentic
    <3> QED
      BY <3>1, <3>4, <3>6, <3>11
  <2> QED
    BY <2>1, <2>2
<1> QED
  BY <1>1, InvAlways, PTL
=============================================================================
