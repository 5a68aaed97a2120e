------------------------------- MODULE Ledger -------------------------------
(***************************************************************************)
(* SovereignLedger (src/src/lib.rs): one ledger file, the processes that   *)
(* open it one after the other, and what storage can do to it.             *)
(*                                                                         *)
(* open_with_seeds takes an exclusive flock and keeps it as long as the    *)
(* handle lives, so at most one handle exists: it is the state below.  The *)
(* scan of `open' is one step per line, because it may end at each of them *)
(* in three ways; every other call is one step, and an append is split by  *)
(* how its write ends.                                                     *)
(***************************************************************************)
EXTENDS Chain, FiniteSets

CONSTANTS
  Seeds,        \* key seeds
  Rings,        \* keyrings a caller may open the ledger with
  EventTypes,   \* event types that callers pass to append
  Payloads,     \* bodies that callers pass to append
  Signers,      \* seal signers: records with scheme and public_key
  MAX_SEQ,      \* u64::MAX, the last sequence number
  MAX_EPOCH,    \* u32::MAX, the last key epoch
  MaxLines,     \* bound: lines the file may hold
  MaxLegacy,    \* bound: entries left by a writer that predates v3
  WriteFaults,  \* ways an append may fail and return Err
  CrashTails    \* what a writer that dies inside an append may leave

(***************************************************************************)
(* What a write call leaves on disk: the line, the line without its end,   *)
(* a proper prefix of it, or nothing.  `writeln!' on a File is two writes, *)
(* the text and the newline.  "nosync" is a complete line whose fsync      *)
(* failed.                                                                 *)
(***************************************************************************)
ASSUME FaultAssumption ==
  /\ WriteFaults \subseteq {"none", "torn", "noeol", "nosync"}
  /\ CrashTails \subseteq {"torn", "noeol"}

ASSUME BoundAssumption ==
  /\ MAX_SEQ \in Nat /\ MAX_EPOCH \in Nat
  /\ MaxLines \in Nat /\ MaxLegacy \in Nat

\* DATA_EVENT stands for every name that is not reserved.
ASSUME TypesAssumption ==
  EventTypes \subseteq {DATA_EVENT, KEY_ROTATION_EVENT, SEAL_EVENT}

\* A keyring is never empty, and a seed serves one epoch only.
ASSUME RingAssumption ==
  \A r \in Rings :
    /\ r \in Seq(Seeds) /\ r # << >>
    /\ \A i, j \in DOMAIN r : r[i] = r[j] => i = j

VARIABLES
  file,         \* the lines of the file that parse, in order
  tail,         \* what follows them: "eol", nothing; "noeol", the last line
                \* lacks its newline; "garbage", text that does not parse
  synced,       \* lines that have reached stable storage
  trail,        \* history: trail[k + 1], what a reader knows after k lines
  stable,       \* history: the entry whose durability was last promised
  pc,           \* "closed", "opening" (the scan), "ready" (a handle)
  keys,         \* keys of the handle
  scan,         \* locals of the scan
  h,            \* last_hash ... revealed_epochs of the handle
  read_only, compromised, durable

disk == <<file, tail, synced, trail, stable>>
flags == <<read_only, compromised, durable>>
vars == <<disk, pc, keys, scan, h, flags>>

(***************************************************************************)
(* The scan of open_with_seeds.                                            *)
(***************************************************************************)
\* Mutant of ScanInit: entries are numbered from 0.
ScanInit_FromZero ==
  [last_hash |-> ZeroHash, seq |-> -1, epoch |-> 0, seals_seen |-> 0,
   sealed_through |-> 0, legacy_segment0 |-> FALSE,
   revealed_epochs |-> {}, seg0_epochs |-> {}]

ScanInit ==
  [last_hash |-> ZeroHash, seq |-> 0, epoch |-> 0, seals_seen |-> 0,
   sealed_through |-> 0, legacy_segment0 |-> FALSE,
   revealed_epochs |-> {}, seg0_epochs |-> {}]

\* parse_body: what a caller gave the type of a seal has not the body of one.
ParseFails(e) == SEAL_EVENT \in EventTypes /\ IsSeal(e) /\ e.body \in Payloads

\* The counters an entry moves before it is authenticated.  A seal is the
\* first entry of the segment it opens.
Counted(s, e) ==
  LET first  == s.seals_seen = 0
      legacy == s.legacy_segment0 \/ (first /\ e.v < 3)
      seg0   == IF first THEN s.seg0_epochs \cup {e.epoch} ELSE s.seg0_epochs
  IN [last_hash |-> s.last_hash, seq |-> s.seq, epoch |-> s.epoch,
      seals_seen |-> IF IsSeal(e) THEN s.seals_seen + 1 ELSE s.seals_seen,
      sealed_through |-> IF IsSeal(e) /\ ~ParseFails(e)
                         THEN Larger(s.sealed_through, e.body.end_seq)
                         ELSE s.sealed_through,
      legacy_segment0 |-> legacy,
      revealed_epochs |-> IF IsSeal(e) /\ legacy /\ first
                          THEN s.revealed_epochs \cup seg0 ELSE s.revealed_epochs,
      seg0_epochs |-> seg0]

Linked(s, e) == e.prev_hash = s.last_hash /\ e.seq = s.seq + 1

\* Mutant of Authentic: a seal is authenticated before it is counted.
Authentic_SealNotCounted(s, e, ks) ==
  e.hash = event_hash(e.v, s.last_hash, e.seq, e.etype, e.body,
                      entry_key(ks, e.epoch, s.seals_seen, e.v))

\* Mutant of Authentic: the hash is recomputed without the keyring.
Authentic_Unkeyed(s, e, ks) ==
  e.hash = event_hash(e.v, s.last_hash, e.seq, e.etype, e.body, e.hash.key)

Authentic(s, e, ks) ==
  e.hash = event_hash(e.v, s.last_hash, e.seq, e.etype, e.body,
                      entry_key(ks, e.epoch, Counted(s, e).seals_seen, e.v))

\* All three checks passed.
Accept(s, e) ==
  [Counted(s, e) EXCEPT !.last_hash = e.hash, !.seq = e.seq,
                        !.epoch = Larger(s.epoch, e.epoch)]

\* The fields of the scan a handle keeps.
View(s) ==
  [last_hash |-> s.last_hash, seq |-> s.seq, epoch |-> s.epoch,
   seals_seen |-> s.seals_seen, sealed_through |-> s.sealed_through,
   legacy_segment0 |-> s.legacy_segment0, revealed_epochs |-> s.revealed_epochs]

HandleFields == {"last_hash", "seq", "epoch", "seals_seen", "sealed_through",
                 "legacy_segment0", "revealed_epochs"}

\* A handle knows what the scan would know.
Agrees(hh, s) ==
  /\ hh.last_hash = s.last_hash /\ hh.seq = s.seq /\ hh.epoch = s.epoch
  /\ hh.seals_seen = s.seals_seen /\ hh.sealed_through = s.sealed_through
  /\ hh.legacy_segment0 = s.legacy_segment0
  /\ hh.revealed_epochs = s.revealed_epochs

\* What a reader who accepts the whole file knows.
Tip == trail[Len(trail)]

Init ==
  /\ file = << >> /\ tail = "eol" /\ synced = 0
  /\ trail = <<ScanInit>> /\ stable = ZeroHash
  /\ pc = "closed" /\ keys = << >> /\ scan = ScanInit /\ h = View(ScanInit)
  /\ read_only = FALSE /\ compromised = FALSE /\ durable = FALSE

\* The handle, and with it the lock, is gone.
Released ==
  /\ pc' = "closed" /\ keys' = << >> /\ scan' = ScanInit /\ h' = View(ScanInit)
  /\ read_only' = FALSE /\ compromised' = FALSE /\ durable' = FALSE

Open(ring) ==
  /\ pc = "closed"
  /\ pc' = "opening" /\ keys' = ring
  /\ UNCHANGED <<disk, scan, h, flags>>

\* Ok(Self { .. }): the scan's locals become the handle.
Opened(s, broken) ==
  /\ pc' = "ready" /\ scan' = ScanInit /\ h' = View(s) /\ compromised' = broken
  /\ UNCHANGED <<disk, keys, read_only, durable>>

\* The line at which `open' returns an error: no handle, not even a
\* compromised one.
Refused(e) ==
  \/ ParseFails(e)                                  \* InvalidLine
  \/ ~HasKey(keys, e.epoch)                         \* MissingKey
  \/ Linked(scan, e) /\ ~SupportedVersion(e.v)      \* UnsupportedVersion

\* Mutant of ScanLine: a line whose key is missing ends the scan.
ScanLine_StopAtMissingKey ==
  /\ pc = "opening" /\ scan.seq < Len(file)
  /\ LET e == file[scan.seq + 1]
         ok == Linked(scan, e) /\ Authentic(scan, e, keys) IN
     \/ ~HasKey(keys, e.epoch) /\ Opened(scan, FALSE)
     \/ /\ HasKey(keys, e.epoch) /\ ok
        /\ scan' = Accept(scan, e)
        /\ UNCHANGED <<disk, pc, keys, h, flags>>
     \/ HasKey(keys, e.epoch) /\ ~ok /\ Opened(Counted(scan, e), TRUE)

ScanLine ==
  /\ pc = "opening" /\ scan.seq < Len(file)
  /\ LET e == file[scan.seq + 1] IN
     \/ /\ Refused(e) /\ Released /\ UNCHANGED disk
     \/ /\ ~Refused(e)
        /\ Linked(scan, e) /\ Authentic(scan, e, keys)
        /\ scan' = Accept(scan, e)
        /\ UNCHANGED <<disk, pc, keys, h, flags>>
     \/ /\ ~Refused(e)
        /\ ~(Linked(scan, e) /\ Authentic(scan, e, keys))
        /\ Opened(Counted(scan, e), TRUE)

ScanEnd ==
  /\ pc = "opening" /\ scan.seq = Len(file)
  /\ \/ tail # "garbage" /\ Opened(scan, FALSE)
     \/ tail = "garbage" /\ Released /\ UNCHANGED disk   \* InvalidLine

(***************************************************************************)
(* append.  hh and ks are the handle's fields as the caller left them:     *)
(* rotate_key and seal change some before they append, and a failure does  *)
(* not undo it.                                                            *)
(***************************************************************************)
Writable(hh, ks) ==
  /\ ~compromised /\ ~read_only
  /\ hh.epoch \notin hh.revealed_epochs
  /\ HasKey(ks, hh.epoch)
  /\ hh.seq < MAX_SEQ

\* A segment 0 that predates v3 goes on under the base key until it is sealed.
WriteVersion(hh) ==
  IF hh.seals_seen = 0 /\ hh.legacy_segment0 THEN 2 ELSE FORMAT_VERSION

NewEvent(hh, ks, etype, body) ==
  LET v == WriteVersion(hh)
  IN Event(v, hh.last_hash, hh.seq + 1, etype, body, hh.epoch,
           entry_key(ks, hh.epoch, hh.seals_seen, v))

\* O_APPEND: the text lands behind whatever the file ends with.  Behind a
\* line without its newline the two make one line that does not parse, and
\* behind text that does not parse nothing is read any more.
WriteLine(e, how) ==
  LET whole == how \in {"line", "noeol"} IN
  CASE how = "none" -> UNCHANGED <<file, trail, tail>>
    [] how # "none" /\ tail = "eol" /\ whole ->
         /\ file' = Append(file, e)
         /\ trail' = Append(trail, Accept(Tip, e))
         /\ tail' = IF how = "line" THEN "eol" ELSE "noeol"
    [] how # "none" /\ tail = "noeol" ->
         /\ file' = SubSeq(file, 1, Len(file) - 1)
         /\ trail' = SubSeq(trail, 1, Len(trail) - 1)
         /\ tail' = "garbage"
    [] OTHER -> UNCHANGED <<file, trail>> /\ tail' = "garbage"

\* Mutant of Written: the file is synced before the line is written.
Written_SyncFirst(hh, ks, e, published) ==
  /\ WriteLine(e, "line")
  /\ synced' = IF durable THEN Len(file) ELSE synced
  /\ stable' = IF durable THEN e.hash ELSE stable
  /\ h' = [hh EXCEPT !.last_hash = e.hash, !.seq = e.seq,
                     !.revealed_epochs = @ \cup published]
  /\ keys' = ks
  /\ UNCHANGED <<pc, scan, flags>>

\* The append that returns Ok: write, sync if durable, then move the handle.
Written(hh, ks, e, published) ==
  /\ WriteLine(e, "line")
  /\ synced' = IF durable THEN Len(file') ELSE synced
  /\ stable' = IF durable THEN e.hash ELSE stable
  /\ h' = [hh EXCEPT !.last_hash = e.hash, !.seq = e.seq,
                     !.revealed_epochs = @ \cup published]
  /\ keys' = ks
  /\ UNCHANGED <<pc, scan, flags>>

append(hh, ks, etype, body, published) ==
  LET e == NewEvent(hh, ks, etype, body) IN
  \/ /\ ~Writable(hh, ks)
     /\ h' = hh /\ keys' = ks
     /\ UNCHANGED <<disk, pc, scan, flags>>
  \/ /\ Writable(hh, ks) /\ Len(file) < MaxLines
     /\ Written(hh, ks, e, published)
  \/ /\ Writable(hh, ks) /\ Len(file) < MaxLines
     /\ \E how \in WriteFaults :
          /\ how = "nosync" => durable
          /\ WriteLine(e, IF how = "nosync" THEN "line" ELSE how)
     /\ h' = hh /\ keys' = ks
     /\ UNCHANGED <<synced, stable, pc, scan, flags>>
  \/ /\ Writable(hh, ks) /\ Len(file) < MaxLines
     /\ \E how \in CrashTails : WriteLine(e, how)
     /\ UNCHANGED <<synced, stable>>
     /\ Released

\* append for a caller, who may pass any event_type, the reserved ones too.
AppendData(etype, body) ==
  /\ pc = "ready" /\ Writable(h, keys)
  /\ append(h, keys, etype, body, {})

\* The key is pushed before the epoch is known to fit.  The caller promises
\* a fresh seed.
rotate_key(seed) ==
  /\ pc = "ready"
  /\ \A i \in DOMAIN keys : keys[i] # seed
  /\ \/ /\ h.epoch >= MAX_EPOCH
        /\ keys' = Append(keys, seed)
        /\ UNCHANGED <<disk, pc, scan, h, flags>>
     \/ /\ h.epoch < MAX_EPOCH
        /\ append([h EXCEPT !.epoch = @ + 1], Append(keys, seed),
                  KEY_ROTATION_EVENT, [epoch |-> h.epoch + 1], {})

(***************************************************************************)
(* seal.                                                                   *)
(***************************************************************************)
InSegment(e) == e.seq >= h.sealed_through + 1 /\ e.seq <= h.seq

SegmentIndexes == {i \in 1..Len(file) : InSegment(file[i])}

\* The entries of the segment, collected line by line.
Leaves ==
  LET collected[i \in 0..Len(file)] ==
        IF i = 0 THEN << >>
        ELSE IF InSegment(file[i]) THEN Append(collected[i - 1], file[i])
        ELSE collected[i - 1]
  IN collected[Len(file)]

SegmentEpochs == {file[i].epoch : i \in SegmentIndexes}

\* Hash of the last seal among the segment's entries.
PrevSeal ==
  LET seals == {i \in SegmentIndexes : IsSeal(file[i])}
  IN IF seals = {} THEN NoHash
     ELSE file[CHOOSE i \in seals : \A j \in seals : j <= i].hash

SealRecord(signer) ==
  [segment |-> h.seals_seen, start_seq |-> h.sealed_through + 1, end_seq |-> h.seq,
   tip_hash |-> Leaves[Len(Leaves)].hash,
   merkle_root |-> mth([i \in 1..Len(Leaves) |-> Leaves[i].hash]),
   revealed |-> [ep \in SegmentEpochs |->
                   entry_key(keys, ep, h.seals_seen, WriteVersion(h))],
   prev_seal |-> PrevSeal, scheme |-> signer.scheme,
   public_key |-> signer.public_key, signature |-> NoHash, payload |-> NoHash]

\* The early returns: nothing to seal, a line that does not parse, a key the
\* handle lacks, a segment that is not where the counters say.
Sealable ==
  /\ ~compromised
  /\ h.sealed_through + 1 <= h.seq
  /\ tail # "garbage"
  /\ \A ep \in SegmentEpochs : HasKey(keys, ep)
  /\ Len(Leaves) = h.seq - h.sealed_through
  /\ \E i \in SegmentIndexes : ~IsSeal(file[i])

\* Mutant of seal: sealed_through stays behind.
seal_KeepBounds(signer) ==
  /\ pc = "ready" /\ Sealable
  /\ append([h EXCEPT !.seals_seen = @ + 1], keys,
            SEAL_EVENT, sign_record(SealRecord(signer), signer),
            IF h.seals_seen = 0 /\ h.legacy_segment0 THEN SegmentEpochs ELSE {})

\* Mutant of seal: the handle forgets which base keys it has published.
seal_ForgetRevealed(signer) ==
  /\ pc = "ready" /\ Sealable
  /\ append([h EXCEPT !.seals_seen = @ + 1, !.sealed_through = h.seq], keys,
            SEAL_EVENT, sign_record(SealRecord(signer), signer), {})

\* Mutant of seal: the segment index moves after the append, not before.
seal_AppendFirst(signer) ==
  /\ pc = "ready" /\ Sealable
  /\ append([h EXCEPT !.sealed_through = h.seq], keys,
            SEAL_EVENT, sign_record(SealRecord(signer), signer), {})

seal(signer) ==
  /\ pc = "ready" /\ Sealable
  /\ append([h EXCEPT !.seals_seen = @ + 1, !.sealed_through = h.seq], keys,
            SEAL_EVENT, sign_record(SealRecord(signer), signer),
            IF h.seals_seen = 0 /\ h.legacy_segment0 THEN SegmentEpochs ELSE {})

(***************************************************************************)
(* The other calls on a handle.                                            *)
(***************************************************************************)
mark_readonly ==
  /\ pc = "ready" /\ read_only' = TRUE
  /\ UNCHANGED <<disk, pc, keys, scan, h, compromised, durable>>

mark_compromised ==
  /\ pc = "ready" /\ compromised' = TRUE
  /\ UNCHANGED <<disk, pc, keys, scan, h, read_only, durable>>

set_durable(d) ==
  /\ pc = "ready" /\ durable' = d
  /\ UNCHANGED <<disk, pc, keys, scan, h, read_only, compromised>>

\* Mutant of sync: the file is opened and closed, never synced.
sync_Nothing ==
  /\ pc = "ready" /\ file # << >>
  /\ stable' = IF h.seq = 0 THEN stable ELSE h.last_hash
  /\ UNCHANGED <<file, tail, synced, trail, pc, keys, scan, h, flags>>

\* On success everything this handle appended is promised to be durable.
sync ==
  /\ pc = "ready" /\ file # << >>
  /\ synced' = Len(file)
  /\ stable' = IF h.seq = 0 THEN stable ELSE h.last_hash
  /\ UNCHANGED <<file, tail, trail, pc, keys, scan, h, flags>>

\* Drop, or death of the process outside a write.
Close ==
  /\ pc # "closed" /\ Released /\ UNCHANGED disk

(***************************************************************************)
(* The world around the library.                                           *)
(***************************************************************************)

\* The machine stops: what was not synced may be gone, wholly or in part.
\* Text that does not parse stays.
PowerLoss ==
  /\ \E k \in {n \in 0..Len(file) : n >= synced \/ n = Len(file)} :
       /\ file' = SubSeq(file, 1, k) /\ trail' = SubSeq(trail, 1, k + 1)
       /\ \/ k < Len(file) /\ tail' = "eol"
          \/ k < Len(file) /\ "torn" \in CrashTails /\ tail' = "garbage"
          \/ k > synced /\ tail = "eol" /\ "noeol" \in CrashTails /\ tail' = "noeol"
          \/ k = Len(file) /\ tail' = tail
  /\ UNCHANGED <<synced, stable>>
  /\ Released

\* A release from before sealing wrote v1, later v2, under the base key of
\* epoch 0; this code reads and continues its ledgers.
LegacyWrite(v, seed, body) ==
  /\ pc = "closed" /\ tail = "eol" /\ Len(file) < MaxLegacy
  /\ \A i \in 1..Len(file) : file[i].v <= v /\ file[i].hash.key = BaseKey(seed)
  /\ LET e == Event(v, Tip.last_hash, Tip.seq + 1, DATA_EVENT, body, 0, BaseKey(seed))
     IN WriteLine(e, "line")
  /\ UNCHANGED <<synced, stable, pc, keys, scan, h, flags>>

Next ==
  \/ \E ring \in Rings : Open(ring)
  \/ ScanLine
  \/ ScanEnd
  \/ \E etype \in EventTypes, body \in Payloads : AppendData(etype, body)
  \/ \E seed \in Seeds : rotate_key(seed)
  \/ \E signer \in Signers : seal(signer)
  \/ mark_readonly
  \/ mark_compromised
  \/ \E d \in BOOLEAN : set_durable(d)
  \/ sync
  \/ Close
  \/ PowerLoss
  \/ \E v \in {1, 2}, seed \in Seeds, body \in Payloads : LegacyWrite(v, seed, body)

Spec == Init /\ [][Next]_vars

(***************************************************************************)
(* Properties.                                                             *)
(***************************************************************************)
EntryOK(e) ==
  /\ e.v \in 1..3 /\ e.seq \in Nat /\ e.epoch \in Nat
  /\ e.etype \in {DATA_EVENT, KEY_ROTATION_EVENT, SEAL_EVENT}
  /\ IsSeal(e) /\ ~ParseFails(e) => e.body.end_seq \in Nat

ViewOK(s) ==
  /\ s.seq \in Nat /\ s.epoch \in Nat
  /\ s.seals_seen \in Nat /\ s.sealed_through \in Nat
  /\ s.legacy_segment0 \in BOOLEAN /\ s.revealed_epochs \in SUBSET Nat

ScanOK(s) == ViewOK(s) /\ s.seg0_epochs \in SUBSET Nat

\* The type invariant: every variable has the shape its declaration in
\* lib.rs gives it, and the history has one more element than the file.
TypeOK ==
  /\ IsSequence(file) /\ IsSequence(trail) /\ Len(trail) = Len(file) + 1
  /\ \A i \in 1..Len(file) : EntryOK(file[i])
  /\ \A i \in 1..Len(trail) : ScanOK(trail[i])
  /\ tail \in {"eol", "noeol", "garbage"} /\ (tail = "noeol" => file # << >>)
  /\ synced \in Nat
  /\ pc \in {"closed", "opening", "ready"}
  /\ keys \in Seq(Seeds)
  /\ ScanOK(scan) /\ ViewOK(h) /\ DOMAIN h = HandleFields
  /\ read_only \in BOOLEAN /\ compromised \in BOOLEAN /\ durable \in BOOLEAN

\* The handle that appends knows what a reader of the file would know: each
\* call keeps last_hash, seq, epoch, seals_seen, sealed_through,
\* legacy_segment0 and revealed_epochs by hand, and `open' recomputes them
\* from the lines.  Were one of them off, the next entry would be linked,
\* numbered or keyed so that the next open calls the ledger compromised.
InSync ==
  pc = "ready" /\ ~compromised /\ ~read_only /\ h.seq < MAX_SEQ => Agrees(h, Tip)

\* The keyring that wrote the file: one seed per epoch the file uses.
RingMatches(ks) ==
  \A i \in 1..Len(file) :
    HasKey(ks, file[i].epoch) /\ ks[file[i].epoch + 1] = file[i].hash.key.seed

\* An untampered ledger opens: with the keyring that wrote it, no line is
\* rejected, whatever mix of rotations, seals, restarts and formats led to
\* it, and the scan arrives at the history.
HonestReopen ==
  pc = "opening" /\ RingMatches(keys) =>
    /\ scan = trail[scan.seq + 1]
    /\ scan.seq < Len(file) =>
         Linked(scan, file[scan.seq + 1]) /\ Authentic(scan, file[scan.seq + 1], keys)

\* Swapping the key is detected on open: no handle that would append holds
\* another seed than the one an entry of the file was written under.
ForeignRingRejected ==
  pc = "ready" /\ ~compromised => RingMatches(keys)

\* Keys published on file before line j.
PublishedBefore(j) ==
  UNION {RevealedBy(file[i]) :
           i \in {k \in 1..(j - 1) : IsSeal(file[k]) /\ ~ParseFails(file[k])}}

\* A seal publishes keys for verification only: no entry behind it is
\* authenticated under a key that its readers can compute.
NoRevealedKeyReuse ==
  \A j \in 1..Len(file) : ~Derivable(file[j].hash.key, PublishedBefore(j))

\* An entry whose append returned in durable mode, or that a returned sync
\* covers, is on file for good, and every handle that appends stands on it.
DurableEntriesSurvive ==
  stable # ZeroHash =>
    \E i \in 1..Len(file) :
      /\ file[i].hash = stable
      /\ pc = "ready" /\ ~compromised => i <= h.seq

\* Every line continues the one before it, and nothing else follows.
Readable ==
  tail # "garbage" /\ \A i \in 1..Len(file) : Linked(trail[i], file[i])

\* Fail closed: whatever the failures, an entry that was promised to be
\* durable is never lost in silence; without it, the file is one that `open'
\* refuses or calls compromised.
LossIsDetected ==
  stable # ZeroHash /\ (\A i \in 1..Len(file) : file[i].hash # stable) => ~Readable

\* What callers are promised, and how this module's state shows it: the log
\* is the file's lines.
Log == INSTANCE AppendLog WITH log <- file, safe <- synced, Replaceable <- FALSE

\* The handle implements an append-only log: whatever the calls, crashes and
\* power losses, a step of the library adds one entry that continues the
\* last, or makes what is there safe, or the storage loses entries from the
\* unsafe end; no entry is changed, reordered or skipped over.
ImplementsLog == Log!Spec

\* rotate_key records an entry "authenticated under the new key", the one
\* it has just pushed.
RotationUnderNewKey ==
  [][ pc = "ready" /\ pc' = "ready" /\ keys' # keys /\ Len(file') > Len(file)
        => file'[Len(file')].hash.key.seed = keys'[Len(keys')] ]_vars
=============================================================================
