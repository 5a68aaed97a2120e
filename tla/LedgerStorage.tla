--------------------------- MODULE LedgerStorage ---------------------------
(***************************************************************************)
(* What becomes of the entries on file: proofs about Ledger for every      *)
(* value of the constants.                                                 *)
(***************************************************************************)
EXTENDS LedgerProofs

(***************************************************************************)
(* Whatever storage does: appends that fail half-way, writers that die,    *)
(* power losses.  The handle may then no longer know what the file holds,  *)
(* but it never stands on a file that another keyring wrote, and no        *)
(* promised entry goes without a trace.                                    *)
(***************************************************************************)
\* Entry e is one that the ring ks would authenticate.
WrittenUnder(ks, e) == HasKey(ks, e.epoch) /\ ks[e.epoch + 1] = e.hash.key.seed

\* The scan vouches for the lines it has passed, a handle for the file.
RingOK ==
  /\ pc # "opening" => scan = ScanInit
  /\ pc = "opening" => /\ scan.seq <= Len(file)
                       /\ \A i \in 1..scan.seq : WrittenUnder(keys, file[i])
  /\ pc = "ready" /\ ~compromised => RingMatches(keys)

\* The line with hash x is on file and on stable storage.
Kept(x) == \E i \in 1..Len(file) : i <= synced /\ file[i].hash = x

\* The promised entry is kept, or what took its place does not parse and is
\* itself on stable storage: a power loss does not bring the file back into
\* a shape that reads well.
LossOK ==
  /\ stable # ZeroHash => Kept(stable) \/ (tail = "garbage" /\ synced >= Len(file))
  /\ pc = "opening" /\ scan.seq > 0 => scan.last_hash = file[scan.seq].hash
  /\ pc = "ready" => \/ h.seq = 0
                     \/ \E i \in 1..Len(file) : file[i].hash = h.last_hash
                     \/ tail = "garbage"

\* The inductive invariant.  ForeignRingRejected needs to know what the scan
\* has seen so far, LossIsDetected what a later sync would promise.
FaultInv == TypeOK /\ RingOK /\ LossOK

\* The three things a write can do to the file.
WriteShape(e) ==
  \/ UNCHANGED file /\ tail' \in {tail, "garbage"}
  \/ /\ tail = "eol" /\ tail' \in {"eol", "noeol"}
     /\ Len(file') = Len(file) + 1 /\ file'[Len(file) + 1] = e
     /\ \A i \in 1..Len(file) : file'[i] = file[i]
  \/ /\ tail = "noeol" /\ tail' = "garbage"
     /\ Len(file) = Len(file') + 1
     /\ \A i \in 1..Len(file') : file'[i] = file[i]

\* However it ends, a write keeps the lines, adds one or spoils the last one.
LEMMA WriteShapes ==
  ASSUME DiskOK, NEW e, NEW how, WriteLine(e, how)
  PROVE  WriteShape(e) /\ Len(file) \in Nat /\ Len(file') \in Nat
<1>1. Len(file) \in Nat /\ IsSequence(file)
  BY LenNat DEF DiskOK
<1>2. CASE UNCHANGED file /\ tail' \in {tail, "garbage"}
  BY <1>1, <1>2 DEF WriteShape
<1>3. CASE tail = "eol" /\ file' = Append(file, e) /\ tail' \in {"eol", "noeol"}
  <2>1. /\ Len(file') = Len(file) + 1 /\ file'[Len(file) + 1] = e
        /\ \A i \in 1..Len(file) : file'[i] = file[i]
    BY <1>1, <1>3, AppendFacts
  <2> QED
    BY <1>1, <1>3, <2>1 DEF WriteShape
<1>4. CASE tail = "noeol" /\ tail' = "garbage" /\ file' = SubSeq(file, 1, Len(file) - 1)
  <2>1. file # << >> /\ file \in Seq({file[i] : i \in 1..Len(file)})
    BY <1>4 DEF DiskOK, IsSequence
  <2>2. Len(file) - 1 \in 0..Len(file)
    BY <2>1, <1>1, EmptySeq
  <2>3. /\ Len(file') = Len(file) - 1
        /\ \A i \in 1..(Len(file) - 1) : file'[i] = file[i]
    BY <1>1, <1>4, <2>2, SubSeqFacts
  <2> QED
    BY <1>1, <1>4, <2>2, <2>3 DEF WriteShape
<1> QED
  BY <1>2, <1>3, <1>4 DEF WriteLine

\* A promise that is kept, or whose loss shows, stays so when a line is
\* written and nothing new is promised.
LEMMA PromiseKept ==
  ASSUME TypeOK, NEW e, NEW how, WriteLine(e, how), UNCHANGED <<synced, stable>>,
         stable # ZeroHash => Kept(stable) \/ (tail = "garbage" /\ synced >= Len(file))
  PROVE  stable' # ZeroHash => Kept(stable)' \/ (tail' = "garbage" /\ synced' >= Len(file'))
<1>1. WriteShape(e) /\ Len(file) \in Nat /\ Len(file') \in Nat /\ synced \in Nat
  BY DiskPart, WriteShapes DEF TypeOK
<1> QED
  BY <1>1 DEF WriteShape, Kept

\* The file keeps holding the entry a handle stands on, or ends in text that
\* does not parse.
LEMMA FooterKept ==
  ASSUME TypeOK, NEW e, NEW how, WriteLine(e, how), NEW x,
         (\E i \in 1..Len(file) : file[i].hash = x) \/ tail = "garbage"
  PROVE  (\E i \in 1..Len(file') : file'[i].hash = x) \/ tail' = "garbage"
<1>1. WriteShape(e) /\ Len(file) \in Nat /\ Len(file') \in Nat
  BY DiskPart, WriteShapes
<1> QED
  BY <1>1 DEF WriteShape

\* The new entry is under the ring's key, so the ring still matches.
LEMMA MatchKept ==
  ASSUME TypeOK, NEW ks, RingMatches(ks), NEW e, WrittenUnder(ks, e),
         NEW how, WriteLine(e, how)
  PROVE  \A i \in 1..Len(file') :
           HasKey(ks, file'[i].epoch) /\ ks[file'[i].epoch + 1] = file'[i].hash.key.seed
<1>1. WriteShape(e) /\ Len(file) \in Nat /\ Len(file') \in Nat
  BY DiskPart, WriteShapes
<1>2. \A i \in 1..Len(file') : (i \in 1..Len(file) /\ file'[i] = file[i]) \/ file'[i] = e
  BY <1>1 DEF WriteShape
<1> QED
  BY <1>2 DEF RingMatches, WrittenUnder

\* A ring that serves the file still does with one seed more.
LEMMA RingExtended ==
  ASSUME TypeOK, keys \in Seq(Seeds), RingMatches(keys), NEW seed \in Seeds,
         NEW ks, ks = Append(keys, seed)
  PROVE  RingMatches(ks)
<1>1. /\ Len(ks) = Len(keys) + 1 /\ Len(keys) \in Nat
      /\ \A i \in 1..Len(keys) : ks[i] = keys[i]
  OBVIOUS
<1>2. ASSUME NEW i \in 1..Len(file)
      PROVE  HasKey(ks, file[i].epoch) /\ ks[file[i].epoch + 1] = file[i].hash.key.seed
  <2>1. /\ file[i].epoch < Len(keys) /\ keys[file[i].epoch + 1] = file[i].hash.key.seed
        /\ file[i].epoch \in Nat
    BY <1>2 DEF RingMatches, HasKey, TypeOK, EntryOK
  <2>2. file[i].epoch + 1 \in 1..Len(keys)
    BY <1>1, <2>1
  <2> QED
    BY <1>1, <2>1, <2>2 DEF HasKey
<1> QED
  BY <1>2 DEF RingMatches

\* Whoever lets go of the file without changing it keeps the invariant.
LEMMA ReleasedFault ==
  ASSUME Released,
         stable' # ZeroHash => Kept(stable)' \/ (tail' = "garbage" /\ synced' >= Len(file'))
  PROVE  RingOK' /\ LossOK'
BY DEF Released, RingOK, LossOK

\* append keeps it, however its write ends.
LEMMA AppendFault ==
  ASSUME FaultInv, pc = "ready", NEW hh, NEW ks, NEW etype, NEW body, NEW published,
         DOMAIN hh = HandleFields, hh.seq = h.seq, hh.last_hash = h.last_hash,
         h.seq \in Nat, ~compromised => RingMatches(ks),
         append(hh, ks, etype, body, published)
  PROVE  RingOK' /\ LossOK'
<1>1. PICK e : e = NewEvent(hh, ks, etype, body)
  OBVIOUS
<1>2. TypeOK /\ RingOK /\ LossOK /\ scan = ScanInit
  BY DEF FaultInv, RingOK
<1>3. h.seq = 0 \/ (\E i \in 1..Len(file) : file[i].hash = h.last_hash) \/ tail = "garbage"
  BY <1>2 DEF LossOK
<1>4. ASSUME Writable(hh, ks) PROVE WrittenUnder(ks, e) /\ RingMatches(ks)
  <2>1. e.epoch = hh.epoch /\ e.hash.key = entry_key(ks, hh.epoch, hh.seals_seen, e.v)
    BY <1>1, NewEventFields
  <2> QED
    BY <1>4, <2>1 DEF Writable, WrittenUnder, entry_key, segment_key, BaseKey
<1>5. CASE ~Writable(hh, ks) /\ h' = hh /\ keys' = ks /\ UNCHANGED <<disk, pc, scan, flags>>
  BY <1>2, <1>5 DEF RingOK, LossOK, Kept, RingMatches, disk, flags
<1>6. CASE Writable(hh, ks) /\ Written(hh, ks, e, published)
  <2>1. /\ WriteLine(e, "line") /\ keys' = ks /\ UNCHANGED <<pc, scan, flags>>
        /\ synced' = IF durable THEN Len(file') ELSE synced
        /\ stable' = IF durable THEN e.hash ELSE stable
        /\ h' = [hh EXCEPT !.last_hash = e.hash, !.seq = e.seq,
                           !.revealed_epochs = @ \cup published]
    BY <1>6 DEF Written
  <2>2. WriteShape(e) /\ Len(file) \in Nat /\ Len(file') \in Nat
    BY <1>2, <2>1, DiskPart, WriteShapes
  <2>3. h'.last_hash = e.hash
    BY <2>1 DEF HandleFields
  <2>4. (\E i \in 1..Len(file') : file'[i].hash = e.hash) \/ tail' = "garbage"
    <3>1. tail' = "garbage" \/ (Len(file') = Len(file) + 1 /\ file'[Len(file) + 1] = e)
      <4>1. CASE tail = "eol"
        <5>1. IsSequence(file) /\ file' = Append(file, e)
          BY <1>2, <2>1, <4>1 DEF WriteLine, TypeOK
        <5> QED
          BY <5>1, AppendFacts
      <4>2. CASE tail # "eol"
        BY <2>1, <4>2 DEF WriteLine
      <4> QED
        BY <4>1, <4>2
    <3> QED
      BY <2>2, <3>1
  <2>5. stable' # ZeroHash => Kept(stable)' \/ (tail' = "garbage" /\ synced' >= Len(file'))
    <3>1. CASE durable
      BY <2>1, <2>2, <2>4, <3>1 DEF Kept
    <3>2. CASE ~durable
      BY <1>2, <2>1, <3>2, PromiseKept DEF LossOK
    <3> QED
      BY <3>1, <3>2
  <2>6. LossOK'
    BY <2>1, <2>3, <2>4, <2>5 DEF LossOK
  <2>7. RingOK'
    BY <1>2, <1>4, <1>6, <2>1, MatchKept DEF RingOK, RingMatches, flags
  <2> QED
    BY <2>6, <2>7
<1>7. CASE /\ Writable(hh, ks) /\ \E how : WriteLine(e, how)
           /\ h' = hh /\ keys' = ks /\ UNCHANGED <<synced, stable, pc, scan, flags>>
  <2>1. PICK how : WriteLine(e, how)
    BY <1>7
  <2>2. stable' # ZeroHash => Kept(stable)' \/ (tail' = "garbage" /\ synced' >= Len(file'))
    BY <1>2, <1>7, <2>1, PromiseKept DEF LossOK
  <2>3. h.seq = 0 \/ (\E i \in 1..Len(file') : file'[i].hash = h.last_hash) \/ tail' = "garbage"
    BY <1>2, <1>3, <2>1, FooterKept
  <2>4. LossOK'
    BY <1>7, <2>2, <2>3 DEF LossOK
  <2>5. RingOK'
    BY <1>2, <1>4, <1>7, <2>1, MatchKept DEF RingOK, RingMatches, flags
  <2> QED
    BY <2>4, <2>5
<1>8. CASE (\E how : WriteLine(e, how)) /\ UNCHANGED <<synced, stable>> /\ Released
  <2>1. stable' # ZeroHash => Kept(stable)' \/ (tail' = "garbage" /\ synced' >= Len(file'))
    BY <1>2, <1>8, PromiseKept DEF LossOK
  <2> QED
    BY <1>8, <2>1, ReleasedFault
<1> QED
  BY <1>1, <1>5, <1>6, <1>7, <1>8 DEF append

\* Before the first open.
LEMMA FaultInit == Init => FaultInv
<1> SUFFICES ASSUME Init PROVE RingOK /\ LossOK
  BY TypeInit DEF FaultInv
<1> QED
  BY DEF Init, RingOK, LossOK, Kept

\* Every call, failure, crash and power loss preserves the invariant.
LEMMA FaultStep == FaultInv /\ [Next]_vars => FaultInv'
<1> SUFFICES ASSUME FaultInv, [Next]_vars PROVE RingOK' /\ LossOK'
  BY TypeStep DEF FaultInv
<1>0. TypeOK /\ RingOK /\ LossOK /\ Len(file) \in Nat
  BY LenNat DEF FaultInv, TypeOK
<1>00. ViewOK(h) /\ DOMAIN h = HandleFields /\ h.seq \in Nat /\ synced \in Nat
       /\ scan.seq \in Nat /\ keys \in Seq(Seeds)
  BY <1>0 DEF TypeOK, ViewOK, ScanOK
<1>1. ASSUME NEW ring \in Rings, Open(ring) PROVE RingOK' /\ LossOK'
  <2>1. scan = ScanInit /\ scan.seq = 0
    BY <1>0, <1>1 DEF Open, RingOK, ScanInit
  <2> QED
    BY <1>0, <1>1, <2>1 DEF Open, RingOK, LossOK, Kept, disk, flags
<1>2. ASSUME ScanLine PROVE RingOK' /\ LossOK'
  <2>1. PICK e : e = file[scan.seq + 1]
    OBVIOUS
  <2>2. /\ pc = "opening" /\ scan.seq + 1 \in 1..Len(file)
        /\ \A i \in 1..scan.seq : WrittenUnder(keys, file[i])
    BY <1>0, <1>00, <1>2 DEF ScanLine, RingOK
  <2>3. CASE Released /\ UNCHANGED disk
    BY <1>0, <2>3, ReleasedFault DEF disk, LossOK, Kept
  <2>4. CASE /\ HasKey(keys, e.epoch) /\ Linked(scan, e) /\ Authentic(scan, e, keys)
             /\ scan' = Accept(scan, e) /\ UNCHANGED <<disk, pc, keys, h, flags>>
    <3>1. scan'.seq = scan.seq + 1 /\ scan'.last_hash = e.hash
      <4>1. AcceptedAs(scan, e, scan')
        BY <2>4, AcceptFields, Zenon
      <4> QED
        BY <2>4, <4>1 DEF AcceptedAs, Linked
    <3>2. WrittenUnder(keys, e)
      BY <2>4 DEF Authentic, event_hash, entry_key, segment_key, BaseKey, WrittenUnder
    <3>3. \A i \in 1..scan'.seq : WrittenUnder(keys, file[i])
      BY <1>00, <2>1, <2>2, <3>1, <3>2
    <3>4. RingOK'
      BY <1>0, <2>2, <2>4, <3>1, <3>3 DEF RingOK, disk, WrittenUnder, HasKey
    <3>5. LossOK'
      BY <1>0, <2>1, <2>2, <2>4, <3>1 DEF LossOK, Kept, disk
    <3> QED
      BY <3>4, <3>5
  <2>5. CASE Opened(Counted(scan, e), TRUE)
    <3>1. h'.seq = scan.seq /\ h'.last_hash = scan.last_hash
      BY <2>5 DEF Opened, View, Counted
    <3> QED
      BY <1>0, <1>00, <2>2, <2>5, <3>1 DEF Opened, RingOK, LossOK, Kept, disk
  <2> QED
    BY <1>2, <2>1, <2>3, <2>4, <2>5 DEF ScanLine, Refused
<1>3. ASSUME ScanEnd PROVE RingOK' /\ LossOK'
  <2>1. CASE Opened(scan, FALSE)
    <3>1. h'.seq = scan.seq /\ h'.last_hash = scan.last_hash
      BY <2>1 DEF Opened, View
    <3>2. /\ pc = "opening" /\ scan.seq = Len(file)
          /\ \A i \in 1..Len(file) : WrittenUnder(keys, file[i])
      BY <1>0, <1>3 DEF ScanEnd, RingOK
    <3>3. RingOK'
      BY <2>1, <3>2 DEF Opened, RingOK, RingMatches, WrittenUnder, disk
    <3>4. LossOK'
      BY <1>0, <1>00, <2>1, <3>1, <3>2 DEF Opened, LossOK, Kept, disk
    <3> QED
      BY <3>3, <3>4
  <2>2. CASE Released /\ UNCHANGED disk
    BY <1>0, <2>2, ReleasedFault DEF disk, LossOK, Kept
  <2> QED
    BY <1>3, <2>1, <2>2 DEF ScanEnd
<1>4. ASSUME NEW etype \in EventTypes, NEW body \in Payloads, AppendData(etype, body) PROVE RingOK' /\ LossOK'
  <2>1. pc = "ready" /\ (~compromised => RingMatches(keys))
    BY <1>0, <1>4 DEF AppendData, RingOK
  <2> QED
    BY <1>00, <1>4, <2>1, AppendFault DEF AppendData
<1>5. ASSUME NEW seed \in Seeds, rotate_key(seed) PROVE RingOK' /\ LossOK'
  <2>1. PICK ks : ks = Append(keys, seed)
    OBVIOUS
  <2>2. pc = "ready" /\ (~compromised => RingMatches(keys))
    BY <1>0, <1>5 DEF rotate_key, RingOK
  <2>3. ~compromised => RingMatches(ks)
    BY <1>0, <1>00, <2>1, <2>2, RingExtended
  <2>4. CASE keys' = ks /\ UNCHANGED <<disk, pc, scan, h, flags>>
    BY <1>0, <2>2, <2>3, <2>4 DEF RingOK, LossOK, Kept, RingMatches, disk, flags
  <2>5. ASSUME NEW hh, hh = [h EXCEPT !.epoch = @ + 1],
               append(hh, ks, KEY_ROTATION_EVENT, [epoch |-> h.epoch + 1], {})
        PROVE  RingOK' /\ LossOK'
    <3>1. DOMAIN hh = HandleFields /\ hh.seq = h.seq /\ hh.last_hash = h.last_hash
      BY <1>00, <2>5 DEF HandleFields
    <3> QED
      BY <1>00, <2>2, <2>3, <2>5, <3>1, AppendFault
  <2> QED
    BY <1>5, <2>1, <2>4, <2>5 DEF rotate_key
<1>6. ASSUME NEW signer \in Signers, seal(signer) PROVE RingOK' /\ LossOK'
  <2>1. PICK hh : hh = [h EXCEPT !.seals_seen = @ + 1, !.sealed_through = h.seq]
    OBVIOUS
  <2>2. pc = "ready" /\ (~compromised => RingMatches(keys))
    BY <1>0, <1>6 DEF seal, RingOK
  <2>3. DOMAIN hh = HandleFields /\ hh.seq = h.seq /\ hh.last_hash = h.last_hash
    BY <1>00, <2>1 DEF HandleFields
  <2>4. \E body, published : append(hh, keys, SEAL_EVENT, body, published)
    BY <1>6, <2>1 DEF seal
  <2> QED
    BY <1>00, <2>2, <2>3, <2>4, AppendFault
<1>7. ASSUME mark_readonly \/ mark_compromised \/ \E d \in BOOLEAN : set_durable(d)
      PROVE  RingOK' /\ LossOK'
  BY <1>0, <1>7 DEF mark_readonly, mark_compromised, set_durable, RingOK, LossOK, Kept,
                    RingMatches, disk
<1>8. ASSUME sync PROVE RingOK' /\ LossOK'
  <2>1. /\ pc = "ready" /\ synced' = Len(file) /\ stable' = IF h.seq = 0 THEN stable ELSE h.last_hash
        /\ UNCHANGED <<file, tail, trail, pc, keys, scan, h, flags>>
    BY <1>8 DEF sync
  <2>2. RingOK'
    BY <1>0, <2>1 DEF RingOK, RingMatches, flags
  <2>3. stable' # ZeroHash => Kept(stable)' \/ (tail' = "garbage" /\ synced' >= Len(file'))
    BY <1>0, <2>1 DEF LossOK, Kept
  <2> QED
    BY <1>0, <2>1, <2>2, <2>3 DEF LossOK
<1>9. ASSUME Close PROVE RingOK' /\ LossOK'
  BY <1>0, <1>9, ReleasedFault DEF Close, disk, LossOK, Kept
<1>10. ASSUME PowerLoss PROVE RingOK' /\ LossOK'
  <2>1. PICK k \in 0..Len(file) :
          /\ k >= synced \/ k = Len(file)
          /\ file' = SubSeq(file, 1, k)
          /\ k = Len(file) /\ tail = "garbage" => tail' = "garbage"
    BY <1>10 DEF PowerLoss
  <2>2. UNCHANGED <<synced, stable>> /\ Released
    BY <1>10 DEF PowerLoss
  <2>3. Len(file') = k /\ \A i \in 1..k : file'[i] = file[i]
    BY <1>0, <2>1, SubSeqFacts DEF TypeOK
  <2>4. stable' # ZeroHash => Kept(stable)' \/ (tail' = "garbage" /\ synced' >= Len(file'))
    BY <1>0, <1>00, <2>1, <2>2, <2>3 DEF LossOK, Kept
  <2> QED
    BY <2>2, <2>4, ReleasedFault
<1>11. ASSUME NEW v \in {1, 2}, NEW seed \in Seeds, NEW body \in Payloads,
              LegacyWrite(v, seed, body)
       PROVE  RingOK' /\ LossOK'
  <2>1. PICK e : WriteLine(e, "line")
    BY <1>11 DEF LegacyWrite
  <2>2. pc = "closed" /\ UNCHANGED <<synced, stable, pc, keys, scan, h, flags>>
    BY <1>11 DEF LegacyWrite
  <2>3. stable' # ZeroHash => Kept(stable)' \/ (tail' = "garbage" /\ synced' >= Len(file'))
    BY <1>0, <2>1, <2>2, PromiseKept DEF LossOK
  <2> QED
    BY <1>0, <2>2, <2>3 DEF RingOK, LossOK
<1>12. ASSUME UNCHANGED vars PROVE RingOK' /\ LossOK'
  BY <1>0, <1>12 DEF vars, disk, flags, RingOK, LossOK, Kept, RingMatches
<1> QED
  BY <1>1, <1>2, <1>3, <1>4, <1>5, <1>6, <1>7, <1>8, <1>9, <1>10, <1>11, <1>12 DEF Next

\* Whatever storage does, no handle that would append holds another seed than
\* the one an entry of the file was written under: the scan of `open' checks
\* each line against the ring, and append and rotate_key only extend both.
THEOREM RingChecked == Spec => []ForeignRingRejected
<1>1. FaultInv => ForeignRingRejected
  BY DEF FaultInv, RingOK, ForeignRingRejected
<1> QED
  BY <1>1, FaultInit, FaultStep, PTL DEF Spec

\* Whatever storage does, a promised entry that is gone has left behind a
\* file that `open' refuses: sync and durable appends never let a loss pass
\* for an ordinary, shorter ledger.
THEOREM LossShows == Spec => []LossIsDetected
<1>1. FaultInv => LossIsDetected
  BY DEF FaultInv, LossOK, Kept, LossIsDetected, Readable
<1> QED
  BY <1>1, FaultInit, FaultStep, PTL DEF Spec

(***************************************************************************)
(* On reliable storage Ledger implements AppendLog, and what it promises   *)
(* to be durable stays.                                                    *)
(***************************************************************************)
\* A handle stands on a line of the file, and on the last one as long as it
\* may append; what is synced is there; what was promised is synced.
HoldsOK ==
  /\ synced <= Len(file)
  /\ pc = "opening" /\ scan.seq > 0 => scan.last_hash = file[scan.seq].hash
  /\ pc = "ready" => /\ h.seq <= Len(file)
                     /\ h.seq > 0 => h.last_hash = file[h.seq].hash
                     /\ ~compromised => h.seq = Len(file)
  /\ stable # ZeroHash => Kept(stable)

\* The inductive invariant: a log entry continues the last one only because
\* the handle agrees with the history, and a promise survives a power loss
\* only because sync covers the line the handle stands on.
LogInv == Inv /\ HoldsOK

\* A step of the abstract log, or none.
LogStep == Log!Next \/ UNCHANGED Log!logVars

\* What a reader of the whole file takes for the last hash.
LEMMA TipHashFact ==
  ASSUME TypeOK, HistoryOK(file, trail)
  PROVE  Tip.last_hash = Log!TipHash
<1>1. /\ Len(file) \in Nat /\ Tip = trail[Len(file) + 1] /\ IsSequence(file)
      /\ trail[1] = ScanInit
  BY TipFacts DEF TypeOK, HistoryOK
<1>2. file \in Seq({file[i] : i \in 1..Len(file)})
  BY <1>1 DEF IsSequence
<1>3. CASE file = << >>
  <2>1. Len(file) = 0
    BY <1>3
  <2>2. Tip = ScanInit
    BY <1>1, <2>1
  <2> QED
    BY <1>3, <2>2 DEF Log!TipHash, ScanInit
<1>4. CASE file # << >>
  <2>1. Len(file) \in 1..Len(file)
    BY <1>1, <1>2, <1>4, EmptySeq
  <2>2. LineOK(file, trail, Len(file))
    BY <2>1 DEF HistoryOK, HistoryThrough
  <2>3. Tip = Accept(trail[Len(file)], file[Len(file)])
    BY <1>1, <2>2 DEF LineOK
  <2>4. AcceptedAs(trail[Len(file)], file[Len(file)], Tip)
    BY <2>3, AcceptFields, Zenon
  <2> QED
    BY <1>4, <2>4 DEF AcceptedAs, Log!TipHash
<1> QED
  BY <1>3, <1>4

\* A linked entry behind the last line is an entry of the abstract log.
LEMMA LogAppends ==
  ASSUME TypeOK, HistoryOK(file, trail), NEW e, Linked(Tip, e),
         file' = Append(file, e), synced' = synced \/ synced' = Len(file')
  PROVE  Log!AppendEntry
<1>1. /\ Len(file) \in Nat /\ Tip.seq = Len(file) /\ Tip.last_hash = Log!TipHash
      /\ IsSequence(file)
  BY TipFacts, TipHashFact DEF TypeOK
<1>2. Len(file') = Len(file) + 1 /\ file'[Len(file) + 1] = e
  BY <1>1, AppendFacts
<1>3. file'[Len(file')] = e
  BY <1>2
<1>4. file' # << >>
  BY <1>1, <1>2
<1>5. file' = Append(file, file'[Len(file')])
  BY <1>3
<1>6. e.prev_hash = Log!TipHash /\ e.seq = Len(file) + 1
  BY <1>1 DEF Linked
<1> QED
  BY <1>3, <1>4, <1>5, <1>6 DEF Log!AppendEntry

\* The file is let go as it is.
LEMMA ReleasedHolds ==
  ASSUME HoldsOK, Released, UNCHANGED <<file, synced, stable>>
  PROVE  HoldsOK' /\ LogStep
BY DEF HoldsOK, Released, Kept, LogStep, Log!logVars

\* append on reliable storage adds one entry to the log, or nothing.
LEMMA AppendHolds ==
  ASSUME Reliable, LogInv, pc = "ready",
         NEW hh, DOMAIN hh = HandleFields, hh.seq = h.seq, hh.last_hash = h.last_hash,
         NEW ks, NEW etype, NEW body, NEW published,
         append(hh, ks, etype, body, published)
  PROVE  HoldsOK' /\ LogStep
<1>1. PICK e : e = NewEvent(hh, ks, etype, body)
  OBVIOUS
<1>2. /\ TypeOK /\ HistoryOK(file, trail) /\ HandleOK /\ HoldsOK
      /\ Len(file) \in Nat /\ h.seq \in Nat /\ synced \in Nat /\ IsSequence(file)
      /\ Tip.seq = Len(file)
  BY TipFacts DEF LogInv, Inv, TypeOK, ViewOK
<1>3. ASSUME Writable(hh, ks)
      PROVE  tail = "eol" /\ ~compromised /\ Linked(Tip, e) /\ e.seq = Len(file) + 1
  <2>1. ~compromised /\ ~read_only /\ h.seq < MAX_SEQ
    BY <1>3 DEF Writable
  <2>2. tail = "eol" /\ h.last_hash = Tip.last_hash /\ h.seq = Tip.seq
    BY <1>2, <2>1 DEF HandleOK, Agrees
  <2>3. e.prev_hash = hh.last_hash /\ e.seq = hh.seq + 1
    BY <1>1, NewEventFields
  <2> QED
    BY <1>2, <2>1, <2>2, <2>3 DEF Linked
<1>4. CASE ~Writable(hh, ks) /\ h' = hh /\ UNCHANGED <<disk, pc, scan, flags>>
  BY <1>2, <1>4 DEF HoldsOK, Kept, LogStep, Log!logVars, disk, flags
<1>5. CASE Writable(hh, ks) /\ Written(hh, ks, e, published)
  <2>1. /\ WriteLine(e, "line") /\ UNCHANGED <<pc, scan, flags>>
        /\ synced' = IF durable THEN Len(file') ELSE synced
        /\ stable' = IF durable THEN e.hash ELSE stable
        /\ h' = [hh EXCEPT !.last_hash = e.hash, !.seq = e.seq,
                           !.revealed_epochs = @ \cup published]
    BY <1>5 DEF Written
  <2>2. file' = Append(file, e)
    BY <1>3, <1>5, <2>1 DEF WriteLine
  <2>3. /\ Len(file') = Len(file) + 1 /\ file'[Len(file) + 1] = e
        /\ \A i \in 1..Len(file) : file'[i] = file[i]
    BY <1>2, <2>2, AppendFacts
  <2>4. h'.last_hash = e.hash /\ h'.seq = e.seq
    BY <2>1 DEF HandleFields
  <2>5. e.seq = Len(file) + 1 /\ Linked(Tip, e) /\ ~compromised
    BY <1>3, <1>5
  <2>6. Log!AppendEntry
    BY <1>2, <2>1, <2>2, <2>5, LogAppends
  <2>7. stable' # ZeroHash => Kept(stable)'
    <3>1. CASE durable
      BY <1>2, <2>1, <2>3, <3>1 DEF Kept
    <3>2. CASE ~durable
      BY <1>2, <2>1, <2>3, <3>2 DEF HoldsOK, Kept
    <3> QED
      BY <3>1, <3>2
  <2>8. synced' <= Len(file')
    BY <1>2, <2>1, <2>3 DEF HoldsOK
  <2>9. HoldsOK'
    BY <1>2, <2>1, <2>3, <2>4, <2>5, <2>7, <2>8 DEF HoldsOK, flags
  <2> QED
    BY <2>6, <2>9 DEF LogStep, Log!Next
<1>6. CASE /\ Writable(hh, ks) /\ \E how \in CrashTails : WriteLine(e, how)
           /\ UNCHANGED <<synced, stable>> /\ Released
  <2>1. WriteLine(e, "torn")
    BY <1>6, FaultAssumption DEF Reliable
  <2>2. UNCHANGED file
    BY <1>3, <1>6, <2>1 DEF WriteLine
  <2> QED
    BY <1>2, <1>6, <2>2, ReleasedHolds
<1> QED
  BY <1>1, <1>4, <1>5, <1>6 DEF append, Reliable

\* On reliable storage every step is a step of the log or leaves it alone.
LEMMA HoldsStep ==
  ASSUME Reliable
  PROVE  LogInv /\ [Next]_vars => HoldsOK' /\ LogStep
<1> SUFFICES ASSUME LogInv, [Next]_vars PROVE HoldsOK' /\ LogStep
  OBVIOUS
<1>0. /\ TypeOK /\ HistoryOK(file, trail) /\ HandleOK /\ HoldsOK
      /\ Len(file) \in Nat /\ h.seq \in Nat /\ synced \in Nat /\ IsSequence(file)
      /\ scan.seq \in Nat /\ DOMAIN h = HandleFields
  BY LenNat DEF LogInv, Inv, TypeOK, ViewOK, ScanOK
<1>1. ASSUME NEW ring \in Rings, Open(ring) PROVE HoldsOK' /\ LogStep
  <2>1. scan.seq = 0
    BY <1>0, <1>1 DEF Open, HandleOK, ScanInit
  <2> QED
    BY <1>0, <1>1, <2>1 DEF Open, HoldsOK, Kept, LogStep, Log!logVars, disk, flags
<1>2. ASSUME ScanLine PROVE HoldsOK' /\ LogStep
  <2>1. PICK e : e = file[scan.seq + 1]
    OBVIOUS
  <2>2. pc = "opening" /\ scan.seq < Len(file)
    BY <1>2 DEF ScanLine
  <2>3. CASE Released /\ UNCHANGED disk
    BY <1>0, <2>3, ReleasedHolds DEF disk
  <2>4. CASE /\ Linked(scan, e) /\ scan' = Accept(scan, e)
             /\ UNCHANGED <<disk, pc, keys, h, flags>>
    <3>1. scan'.seq = scan.seq + 1 /\ scan'.last_hash = e.hash
      <4>1. AcceptedAs(scan, e, scan')
        BY <2>4, AcceptFields, Zenon
      <4> QED
        BY <2>4, <4>1 DEF AcceptedAs, Linked
    <3> QED
      BY <1>0, <2>1, <2>2, <2>4, <3>1 DEF HoldsOK, Kept, LogStep, Log!logVars, disk, flags
  <2>5. CASE Opened(Counted(scan, e), TRUE)
    <3>1. h'.seq = scan.seq /\ h'.last_hash = scan.last_hash
      BY <2>5 DEF Opened, View, Counted
    <3> QED
      BY <1>0, <2>2, <2>5, <3>1 DEF Opened, HoldsOK, Kept, LogStep, Log!logVars, disk
  <2> QED
    BY <1>2, <2>1, <2>3, <2>4, <2>5 DEF ScanLine
<1>3. ASSUME ScanEnd PROVE HoldsOK' /\ LogStep
  <2>1. CASE Opened(scan, FALSE)
    <3>1. h'.seq = scan.seq /\ h'.last_hash = scan.last_hash
      BY <2>1 DEF Opened, View
    <3>2. pc = "opening" /\ scan.seq = Len(file)
      BY <1>3 DEF ScanEnd
    <3> QED
      BY <1>0, <2>1, <3>1, <3>2 DEF Opened, HoldsOK, Kept, LogStep, Log!logVars, disk
  <2>2. CASE Released /\ UNCHANGED disk
    BY <1>0, <2>2, ReleasedHolds DEF disk
  <2> QED
    BY <1>3, <2>1, <2>2 DEF ScanEnd
<1>4. ASSUME NEW etype \in EventTypes, NEW body \in Payloads, AppendData(etype, body) PROVE HoldsOK' /\ LogStep
  BY <1>0, <1>4, AppendHolds DEF AppendData
<1>5. ASSUME NEW seed \in Seeds, rotate_key(seed) PROVE HoldsOK' /\ LogStep
  <2>1. CASE UNCHANGED <<disk, pc, scan, h, flags>>
    BY <1>0, <2>1 DEF HoldsOK, Kept, LogStep, Log!logVars, disk, flags
  <2>2. ASSUME NEW hh, hh = [h EXCEPT !.epoch = @ + 1], NEW ks,
               append(hh, ks, KEY_ROTATION_EVENT, [epoch |-> h.epoch + 1], {})
        PROVE  HoldsOK' /\ LogStep
    <3>1. DOMAIN hh = HandleFields /\ hh.seq = h.seq /\ hh.last_hash = h.last_hash
      BY <1>0, <2>2 DEF HandleFields
    <3>2. pc = "ready"
      BY <1>5 DEF rotate_key
    <3> QED
      BY <2>2, <3>1, <3>2, AppendHolds
  <2> QED
    BY <1>5, <2>1, <2>2 DEF rotate_key
<1>6. ASSUME NEW signer \in Signers, seal(signer) PROVE HoldsOK' /\ LogStep
  <2>1. PICK hh : hh = [h EXCEPT !.seals_seen = @ + 1, !.sealed_through = h.seq]
    OBVIOUS
  <2>2. DOMAIN hh = HandleFields /\ hh.seq = h.seq /\ hh.last_hash = h.last_hash
    BY <1>0, <2>1 DEF HandleFields
  <2>3. pc = "ready" /\ \E body, published : append(hh, keys, SEAL_EVENT, body, published)
    BY <1>6, <2>1 DEF seal
  <2> QED
    BY <2>2, <2>3, AppendHolds
<1>7. ASSUME mark_readonly \/ mark_compromised \/ \E d \in BOOLEAN : set_durable(d)
      PROVE  HoldsOK' /\ LogStep
  BY <1>0, <1>7 DEF mark_readonly, mark_compromised, set_durable, HoldsOK, Kept,
                    LogStep, Log!logVars, disk
<1>8. ASSUME sync PROVE HoldsOK' /\ LogStep
  <2>1. /\ pc = "ready" /\ synced' = Len(file)
        /\ stable' = IF h.seq = 0 THEN stable ELSE h.last_hash
        /\ UNCHANGED <<file, tail, trail, pc, keys, scan, h, flags>>
    BY <1>8 DEF sync
  <2>2. stable' # ZeroHash => Kept(stable)'
    <3>1. CASE h.seq = 0
      BY <1>0, <2>1, <3>1 DEF HoldsOK, Kept
    <3>2. CASE h.seq # 0
      <4>1. h.seq \in 1..Len(file) /\ file[h.seq].hash = h.last_hash
        BY <1>0, <2>1, <3>2 DEF HoldsOK
      <4> QED
        BY <2>1, <3>2, <4>1 DEF Kept
    <3> QED
      BY <3>1, <3>2
  <2>3. HoldsOK'
    BY <1>0, <2>1, <2>2 DEF HoldsOK, flags
  <2> QED
    BY <2>1, <2>3 DEF LogStep, Log!Next, Log!Sync
<1>9. ASSUME Close PROVE HoldsOK' /\ LogStep
  BY <1>0, <1>9, ReleasedHolds DEF Close, disk
<1>10. ASSUME PowerLoss PROVE HoldsOK' /\ LogStep
  <2>1. PICK k \in 0..Len(file) :
          (k >= synced \/ k = Len(file)) /\ file' = SubSeq(file, 1, k)
    BY <1>10 DEF PowerLoss
  <2>2. UNCHANGED <<synced, stable>> /\ Released
    BY <1>10 DEF PowerLoss
  <2>3. Len(file') = k /\ \A i \in 1..k : file'[i] = file[i]
    BY <1>0, <2>1, SubSeqFacts
  <2>4. synced <= k
    BY <1>0, <2>1 DEF HoldsOK
  <2>5. HoldsOK'
    BY <1>0, <2>1, <2>2, <2>3, <2>4 DEF HoldsOK, Kept, Released
  <2>6. LogStep
    <3>1. CASE k = Len(file)
      <4>1. file' = file
        <5>1. file \in Seq({file[i] : i \in 1..Len(file)})
          BY <1>0 DEF IsSequence
        <5> QED
          BY <2>1, <3>1, <5>1
      <4> QED
        BY <2>2, <4>1 DEF LogStep, Log!logVars
    <3>2. CASE k < Len(file)
      <4>1. file' = SubSeq(file, 1, Len(file'))
        BY <2>1, <2>3
      <4> QED
        BY <2>2, <2>3, <2>4, <3>2, <4>1 DEF LogStep, Log!Next, Log!Lose
    <3> QED
      BY <1>0, <3>1, <3>2
  <2> QED
    BY <2>5, <2>6
<1>11. ASSUME NEW v \in {1, 2}, NEW seed \in Seeds, NEW body \in Payloads,
              LegacyWrite(v, seed, body)
       PROVE  HoldsOK' /\ LogStep
  <2>1. PICK e : e = Event(v, Tip.last_hash, Tip.seq + 1, DATA_EVENT, body, 0, BaseKey(seed))
    OBVIOUS
  <2>2. /\ file' = Append(file, e) /\ pc = "closed"
        /\ UNCHANGED <<synced, stable, pc, keys, scan, h, flags>>
    BY <1>11, <2>1 DEF LegacyWrite, WriteLine
  <2>3. Linked(Tip, e)
    BY <2>1 DEF Linked, Event
  <2>4. Log!AppendEntry
    BY <1>0, <2>2, <2>3, LogAppends
  <2>5. Len(file') = Len(file) + 1 /\ \A i \in 1..Len(file) : file'[i] = file[i]
    BY <1>0, <2>2, AppendFacts
  <2>6. HoldsOK'
    BY <1>0, <2>2, <2>5 DEF HoldsOK, Kept
  <2> QED
    BY <2>4, <2>6 DEF LogStep, Log!Next
<1>12. ASSUME UNCHANGED vars PROVE HoldsOK' /\ LogStep
  BY <1>0, <1>12 DEF vars, disk, flags, HoldsOK, Kept, LogStep, Log!logVars
<1> QED
  BY <1>1, <1>2, <1>3, <1>4, <1>5, <1>6, <1>7, <1>8, <1>9, <1>10, <1>11, <1>12 DEF Next

\* On reliable storage the invariant always holds.
LEMMA LogInvAlways ==
  ASSUME Reliable
  PROVE  Spec => []LogInv
<1>1. Init => HoldsOK
  BY DEF Init, HoldsOK
<1>2. LogInv /\ [Next]_vars => LogInv'
  BY InvStep, HoldsStep DEF LogInv
<1> QED
  BY <1>1, <1>2, InvInit, PTL DEF Spec, LogInv

\* On reliable storage the ledger is an append-only log: each call, crash and
\* power loss adds one entry that continues the last, makes what is there
\* safe, drops unsafe entries from the end, or leaves the lines alone.
THEOREM LedgerImplementsLog ==
  ASSUME Reliable
  PROVE  Spec => ImplementsLog
<1>1. Init => Log!Init
  BY DEF Init, Log!Init
<1>2. LogInv /\ [Next]_vars => [Log!Next]_(Log!logVars)
  BY HoldsStep DEF LogStep
<1> QED
  BY <1>1, <1>2, LogInvAlways, PTL DEF Spec, ImplementsLog, Log!Spec

\* On reliable storage an entry promised to be durable, by a durable append
\* or by sync, is on file for good, and every handle that appends stands on
\* it or behind it.
THEOREM DurableForGood ==
  ASSUME Reliable
  PROVE  Spec => []DurableEntriesSurvive
<1>1. LogInv => DurableEntriesSurvive
  BY DEF LogInv, HoldsOK, Kept, DurableEntriesSurvive
<1> QED
  BY <1>1, LogInvAlways, PTL
=============================================================================
