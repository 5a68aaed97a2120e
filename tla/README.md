# Sovereign ledger: specification, checks and proofs

TLA+ models of `sovereign_ledger` (Rust, `src/src/`): a tamper-evident,
append-only log in one JSONL file. Each entry is authenticated by a keyed hash
that covers the hash before it; seals close segments of the log, publish the
key the segment was written under and sign its Merkle root, so that anybody can
verify what is sealed.

## 1. The system

| Part | Source | State | Operations |
|---|---|---|---|
| Ledger handle | `lib.rs` | the file; `keys`, `last_hash`, `seq`, `epoch`, `seals_seen`, `sealed_through`, `legacy_segment0`, `revealed_epochs`; flags `read_only`, `compromised`, `durable`; the flock | `open_with_seeds`, `append`, `rotate_key`, `seal`, `sync`, `set_durable`, `mark_readonly`, `mark_compromised`, drop |
| Key schedule, entries | `lib.rs` | – | `Key::new`, `segment_key`, `entry_key`, `event_hash` (v1, v2, v3) |
| Seal records | `seal.rs` | – | `seal_payload`, `sign_record` |
| Keyed verification | `lib.rs` | locals of one pass | `verify` |
| Public verification | `seal.rs` | locals of one pass | `verify_public`, `verify_signature` |
| Merkle tree | `merkle.rs` | – | `mth`, `audit_path`, `consistency_proof`, both `verify` |
| Anchors, checkpoints | `anchor.rs` | key files, the agent, checkpoint file | `attest`, `verify`, `write_checkpoint` |
| Import | `import.rs` | temporary ledger | three source formats, then a rename |
| Command line | `main.rs` | keys file, ledger path | one process per command |
| WebAssembly, JavaScript verifiers | `wasm.rs`, `verifiers/js` | – | `verify_public` again |

How they interact: a command is a process. It opens the ledger, which takes a
blocking exclusive `flock` for as long as the handle lives, reads the whole file
and rebuilds the handle's fields from it. `rotate_key` and `seal` change some of
these fields and then call `append`. `seal` reads the file back and calls a
signer, an anchor. Verifiers only read; the public one takes no lock.
`rotate-key` also appends to the keys file, `import` builds a second ledger and
renames it over the first, `anchor` reads the tip under the lock and then signs
and writes a checkpoint without it, and asks an identity agent over a socket
when it is told to.

What is hard:

* the handle keeps by hand what the scan of `open` recomputes, and `rotate_key`
  and `seal` move fields before a call that may fail;
* three entry formats, epochs and segments decide together which key an entry is
  under, and writer, scan, `verify` and `verify_public` each decide it anew;
* a writer may die inside a write, an fsync may fail, a machine may stop;
* a seal publishes keys, so the order of sealing, rotating and restarting
  decides whether a public key is used again;
* the Merkle provers recurse, the verifiers do bit arithmetic;
* the lock covers the ledger only: seeds are read before it, checkpoints and
  imports are written beside it, `tail --follow` goes on without it;
* the keys file grows by two writes, behind a line that may lack its end;
* the agent may hang, stop, send its answer byte by byte, or come back with
  another key between two calls;
* two programs implement the same verifier.

The properties that make each part correct are those of section 3; the list of
hazards, each at its line, is in `PROJECT.json`.

## 2. The modules

* **`Chain`**: keys, entries, seals. Cryptography is ideal: a digest is the
  record of what was hashed, for v1 the text of `event_type` and `body` run
  together (`Joined`). A signature names scheme, key and payload. A key is a
  seed and the segment it was derived for; `Derivable` says which keys follow
  from which. `ts`, hex and JSON are left out.
* **`Ledger`** (extends `Chain`): one file, one handle at a time (the lock).
  Variables named as in `lib.rs`: `h` holds `last_hash` to `revealed_epochs`,
  `keys` the keyring, `scan` the locals of the scan. `file` are the lines that
  parse, `tail` what follows them, `synced` how many are on stable storage.
  `trail` and `stable` are history variables: what a reader knows after each
  line, and the entry last promised to be durable. One action per call; the scan
  is a step per line (`ScanLine`, `ScanEnd`), because it can end at each of them
  with an error (`Refused`), with a compromised handle, or go on. Callers may
  pass any type of `EventTypes` to `append`, the reserved ones too. `append` is
  an operator over the handle as its caller left it, with four outcomes:
  refused, returned, failed (`WriteFaults`), died (`CrashTails`). `Close`,
  `PowerLoss` and `LegacyWrite` (a release from before format v3) are the world
  outside.
* **`Callers`** (extends `Ledger`): the one thing a ledger needs of its callers
  and does not check, that no entry but a seal has the type of a seal.
* **`AppendLog`**: what a ledger promises, without handles, locks or files: a
  sequence of linked entries that grows by one at a time, of which a failure
  takes only entries nobody was told are safe. `Replaceable` says whether the
  whole log may be exchanged for another one.
* **`Lines`** (extends `Chain`): the checks every reader makes of line `i`.
* **`Verify`** (extends `Callers`, `Lines`): `verify` and `verify_public` as
  operators on a file, and the edits they must refuse: every field of an entry
  (versions that do not exist included), every field of a seal's record, text
  moved between `event_type` and `body` (`Resplit`), lines deleted from before
  others, duplicated, exchanged. Both take `&self` or a
  reader and change nothing, so they are not actions.
* **`JsVerify`** (extends `Verify`): `verifyKeyed` and `verifyPublic` of
  `verify.mjs` as walks, with their own counters and buffer.
* **`Merkle`**: the tree, provers and verifiers with words of `W` bits, and an
  auditor who adopts a root when a consistency proof from his last one verifies,
  while the log may be rolled back or rewritten under him.
* **`Import`** (extends `Chain`): one line of a foreign log, its verification in
  the schema it claims, and the entry it becomes. A line is the record of its
  fields; `inner` is a `"hash"` inside `data`, which `strip_hash_field` meets
  first.
* **`Cli`** (extends `Lines`, `Import`): processes that run one command each.
  `path` is the file the ledger's name stands for, `disk` and `synced` the files
  (a rename is an assignment to `path`, and who opened by name before it writes
  to the new file after it), `torn` the files that end in part of a line,
  `lock` the holder of the flock. `keysfile` is the keys file: each of its lines
  is the sequence of texts written on it (one seed, as a rule; `Piece` is part
  of one) and the last may lack its newline; `kept` are the contents a power
  loss may leave. Per process `pc`, `cmd`, the keyring it read, its handle, and a
  position in a file or a source. `Start` reads the seeds, `Acquire` waits for
  the lock, `OpenLedger` is the scan in one step (its steps are `Ledger`'s),
  then `ReadBody`, `StoreSeed`, `EndSeed`, `Write`, `Report` for what writes,
  `Read`, `Seek`, `Follow`, `PublicVerify` for what reads, `ImportLine`,
  `ImportCheck`, `Rename` for `import`. `StoreSeed` and `EndSeed` are the two
  writes of `writeln!` and the sync, each of which may fail or be the last thing
  the process does. `Write` may fail before anything is written, behind part of
  the line, or in the `sync_all` behind all of it. `Kill` and `PowerLoss` may
  come between any two steps. A ledger line that only lacks its newline is left
  to `Ledger`, and the I/O of `import` on its own copy does not fail.
* **`Checkpoint`**: `anchor` and `anchor-verify` processes over one key file
  (absent, empty, or a key), one identity agent and one checkpoint name with its
  temporary file. The tip is read behind the ledger's lock, which other programs
  take and keep as they like (`locked`), and reading it may fail. The agent is
  `up`, `down`, `hung` (a read times out) or `slow` (it does not accept, or sends
  so that no read times out and no line ends). A file that is written is not yet
  `durable`; two writers of one file may leave a garbled one. A signature is the
  record of its scheme, key and payload.
* **`MCLedger`**, **`MCVerify`**, **`MCCli`**, **`MCCheckpoint`**: seeds,
  keyrings, signers, sources and commands for TLC.
* The proofs: **`SequenceFacts`** (sequences whose elements have no type, least
  and greatest elements), **`LedgerProofs`**, **`LedgerStorage`** (failures and
  the refinement of `AppendLog`) and **`LedgerKeys`** about `Ledger`,
  **`VerifyProofs`**, **`JsVerifyProofs`**, **`CheckpointProofs`** and
  **`CliProofs`** about the modules they are named after. Section 5 goes through
  them.

Definitions called `X_Something` under a comment "Mutant of X" are faulty
versions of `X`; no specification uses them. Each one breaks the property
`PROJECT.json` pairs it with, which shows that the property can fail.

## 3. The runs

| Run | Result | What it shows |
|---|---|---|
| `ledger` | pass | the handle: `InSync`: one that may append knows what a reader of the file would. `HonestReopen`: the keyring that wrote the file opens it without one refused line. `ForeignRingRejected`: no other keyring gives a handle that appends. `NoRevealedKeyReuse`: no entry is under a key that an earlier seal published, directly or by derivation. `DurableEntriesSurvive`. `ImplementsLog`: every step is one of `AppendLog`. The verifiers: `KeyedVerifyAccepts`, `PublicVerifyAccepts`: both accept every untampered file (the public one exactly when its seals are by one public anchor, at whatever line it stops). `KeyedTamperEvident`, `PublicTamperEvident`: they refuse every single edit, with the exceptions named there. `OpenAgreesWithVerify`: `open` and `verify` decide alike on the ledger with every keyring, and `open` accepts every altered file that `verify` accepts. `VerifiersAgree`: the JavaScript verifier agrees with the Rust ones on all of these files |
| `faults` | pass | with every write and fsync failure: `LossIsDetected` (what was durable is there, or open refuses the file), and the two key properties |
| `merkle` | pass | proofs are complete and sound, with every index and size a word holds, and consistency proofs keep an auditor's log append-only |
| `cli` | pass | `SerialLog`: processes side by side implement `AppendLog`, imports that exchange the log included. `ReportedOnce`: what was reported is on the ledger, nothing is there twice, and what failed is not there unless it was `--durable` and only its sync failed. `RingInStep`, `SeedsKept`: the keys file and the epochs. `TailNeverRepeats`. `LockTurn`: who waits for the ledger gets it. `ImportComplete`, `ImportOpens`, `IntactSourceAccepted`: an import is all of an intact source or nothing, the result opens, and an intact source without a nested `"hash"` is not refused |
| `checkpoint` | pass | `PublishedWhole`: what has the final name is a whole checkpoint, whatever fails. `PublishedVerifies`: under the key it was made with. `ForgeryRefused`: a checkpoint an anchor accepts describes a tip that the ledger has had, whichever signature, fields and payload it is put together from. `CommandsEnd`: a command ends unless it waits for somebody else's lock or for an agent that keeps each read short of its timeout |
| `rotate_surplus`, `lost_newline`, `seal_unsynced`, `tail_deleted`, `import_race`, `keys_lines`, `merkle_word` | violation | section 4 |

Bounds. `ledger`: four lines, one legacy line, two epochs, three seeds, three
keyrings (right, reordered, longer than needed), three signers (two public, one
symmetric). Four lines hold a seal of a legacy segment and what comes before and
after it, or two seals with an entry each, with a rotation in either place, and
let `seq` and `epoch` meet their limits `MAX_SEQ` and `MAX_EPOCH`, so the
overflow branches are taken; longer files are the business of the proofs, which
cover all of these properties. Storage is the one assumed in the proofs: a write
fails only when its process dies. The properties of the verifiers are read where
the whole file is synced, which every file of the run comes to be, with every
field of every entry edited, one edit at a time (several edits that would have
to fit together are not tried). `faults`: three lines, all failures of `append`,
with callers that use the type of a seal. `merkle`: logs of up to seven entries
over two values, which covers every shape of tree below eight leaves; words of
four bits, proofs with every index and size a word holds.

`cli`: three processes, of which the first runs any command, the second one that
writes, the third `rotate-key`; more processes of the same kinds add no new pair
of neighbours in the file. Two processes are killed and the power fails once.
Eleven sources: two-line Bad Apple ledgers in three mixes of schema and key
form, one with a `"hash"` in its data, five edits of one of them, a journald
record that names a reserved type, plain text. The keys file starts with its
newline; that it may come without one (`KeysEol`) is left to the proofs, and a
process that dies inside `writeln!` leaves such a file in the run too.
`ImportExclusive` is assumed: nobody has the ledger open when `import` renames;
`import_race` is the run without it. `RingInStep` leaves out what `keys_lines` is
about, a seed stored by a process that then died or failed (`Orphaned`) and two
texts on one line (`OneSeedPerLine`).
`checkpoint`: two processes, the first with the options of `anchor`, the second
with those of `anchor` or `anchor-verify`, so that each kind of anchor meets
each and two may generate one key file; one more ledger entry, one change of the
agent's key, one kill or power loss. Pairs are enough since the processes meet
in three places only, each held by one file.

Fairness. `Cli` and `Checkpoint` assume weak fairness of each process: one that
can go on does (the scheduler), a read from the agent that gets nothing ends
after ten seconds, and `flock` is granted when the lock is free. Weak fairness
suffices for the lock because a process asks for it once. Nothing is assumed of
users (starting a command, ending the input of `append -`), of failures, of the
program that holds the ledger's lock in `Checkpoint` or of the agent, and the two
liveness properties say so: `LockTurn` excepts the time in which a process reads
its input with the ledger locked, `CommandsEnd` a command that waits for that
lock or for a `slow` agent, since the timeouts are per read and write and set
after `connect` (`anchor.rs:155`). An output that nobody reads would block a
`tail` or an `export` under the lock in the same way; output never blocks here.
The runs of `MCCli` do not check deadlock, since every command of a finite set of
processes ends; all other runs do.

The rename of a file is taken to be durable at once (the code does not sync the
directory), the labels of `genesis` to be free of quotes (the payload does not
escape them).

`OpenAgreesWithVerify` does not say of altered files that what opens also
verifies, because that is false: `epoch` is not under the MAC, so with a keyring
that holds the seeds in another order an entry opens whose epoch was relabelled
to match, and only `verify` compares the keys that seals reveal with the
keyring. It takes an altered file and a foreign keyring together; with the
keyring that wrote the file both readers refuse (`KeyedTamperEvident`).

What the tamper properties leave out is what the code does not refuse: a file
without its last lines is a shorter ledger (`tail_deleted`), only a checkpoint
shows it; in a v1 line text can move between `event_type` and `body`
(`SameText`); and nobody vouches for the last seal but its own
signature, which does not cover the copy of the payload, so that copy may be
removed (`seal.rs:254` then rebuilds it), though not changed.

A label `v` is not under the MAC. `verify` notices a changed one since it
selects the key; the public verifier takes the key from the seal, and v2 and v3
are then the same construction. `PublicTamperEvident` says exactly that.

## 4. Findings

Each is a run in which TLC shows that the code does not do what a comment or a
document of the repository says; `PROJECT.json` quotes the lines.

* `rotate_surplus`: `rotate_key` pushes the new key at the end of the keyring
  and uses the one at `epoch + 1`. If the keyring is longer, the rotation is
  authenticated under an old seed. `rotate-key --keys-file` makes this keyring
  when it dies between the keys file and the ledger.
* `lost_newline`: a writer that dies between a line and its newline leaves a
  file that opens; the next append is glued to that line.
* `seal_unsynced`: a seal of a legacy segment whose fsync fails has published
  the base key, but the handle does not know.
* `tail_deleted`: the README says that deleting a line is detected on open and on
  `verify`; without its last line the file opens and verifies.
* `import_race`: `import` renames its file over the ledger without the
  ledger's lock; an `append` that was open writes an entry of the old chain
  behind the new one.
* `keys_lines`: `rotate-key` writes its seed and the newline apart. After a short
  write or a death in between the next seed is written on the same line; that
  rotation is recorded and reported, but the line of its epoch is not its seed,
  and the ledger does not open under its keys file. `SeedsKept` says what remains
  true: the text is there. The property also fails with every seed on a line of
  its own: the keys file is read before the lock is waited for (`main.rs:212`),
  and if another `rotate-key` stores its seed in between and dies before its
  rotation, epoch 1 is recorded under the seed on line 3.
* `merkle_word`: a proof that claims more than 2^63 entries makes
  `InclusionProof::verify` shift a word by its width (`merkle.rs:97`): a panic
  where overflow is checked. The fuzz target that says "must never panic" clamps
  its sizes below.

Met while modelling, without a run of their own:

* `append` takes any type (`lib.rs:546`). An entry that a caller names
  `sovereign:seal` is not under the key that the readers select for it, its body
  is no seal record, and the ledger does not open again; SPEC.md calls the names
  reserved, and nothing enforces it;
* the README says that modifying any field is detected; in v1, which is still
  read, the hash does not separate `event_type` from `body` (`lib.rs:264`), the
  exception `SameText` of the tamper properties;
* `strip_hash_field` takes a `"hash"` of 64 digits inside `data` for the top-level
  one (`import.rs:38`), and an intact source is refused, the exception
  `NestedHash` of `IntactSourceAccepted`;
* `anchor-verify` passes `--key-file` in the place of `--ed25519-gen-key-file`
  (`main.rs:687`): a checkpoint made with a key file is never accepted, and a key
  file that does not exist is created;
* a failed `append` inside `seal` leaves `seals_seen` and `sealed_through`
  moved (`lib.rs:781`), and `segment()` is then one ahead of the file;
* `verify` reports a broken chain and does not mark the handle (`lib.rs:624`),
  while the README calls compromise sticky;
* at `seq` = 2^64 - 1 `rotate_key` moves the epoch before `append` refuses
  (`InSync` leaves that state out);
* the help text of `import` (`main.rs:102`) says that entries are appended into
  this ledger; the ledger is replaced;
* two `anchor` runs at the same time share one temporary file and may publish a
  mixture (`anchor.rs:113`); an agent that changes its key between its two calls
  gives a checkpoint that names the wrong key (`anchor.rs:205`); a key file read
  between its creation and its writing is taken for an empty HMAC key
  (`anchor.rs:250`). `PublishedWhole` and `PublishedVerifies` name these as what
  they leave out;
* `tail --follow` never shows what is appended between the drop of its handle
  and its seek (`main.rs:451`);
* a durable `append` whose `sync_all` fails exits with an error and is on the
  ledger all the same (`lib.rs:596`), as `ReportedOnce` says.

## 5. The proofs

Checked by TLAPS for every value of the constants: any number of lines, epochs,
seeds, keyrings, signers, processes and sources. The theorems cover every safety
property the passing runs check of `Ledger`, `Verify`, `JsVerify`, `Cli` and
`Checkpoint`, the two refinements included.

| Module | Theorem | Statement | Assuming |
|---|---|---|---|
| `LedgerProofs` | `TypeCorrect` | `Spec => []TypeOK` | – |
| | `HandleInSync` | `Spec => []InSync` | `Reliable` |
| | `UntamperedLedgerOpens` | `Spec => []HonestReopen` | `Reliable` |
| `LedgerStorage` | `RingChecked` | `Spec => []ForeignRingRejected` | – |
| | `LossShows` | `Spec => []LossIsDetected` | – |
| | `LedgerImplementsLog` | `Spec => ImplementsLog` | `Reliable` |
| | `DurableForGood` | `Spec => []DurableEntriesSurvive` | `Reliable` |
| `LedgerKeys` | `PublishedKeysRetired` | `Spec => []NoRevealedKeyReuse` | `Reliable` or no legacy entries |
| `VerifyProofs` | `TipBindsLedger` | files that open and end in one hash are equal, but for the split of v1 lines | – |
| | `LedgerVerifies` | `Spec => []KeyedVerifyAccepts` | `Reliable` |
| | `ReadersAgree` | `Spec => []OpenAgreesWithVerify` | `Reliable` |
| | `TamperingShows` | `Spec => []KeyedTamperEvident` | `Reliable`, `MarksApart` |
| | `PublicAccepts` | `Spec => []PublicVerifyAccepts` | `Reliable`, `KnownSchemes` |
| | `PublicTamperingShows` | `Spec => []PublicTamperEvident` | `Reliable`, `MarksApart` |
| `JsVerifyProofs` | `ImplementationsAgree` | on any lines, with any keyring, JavaScript and Rust give one verdict | – |
| | `AuditorsAgree` | `Spec => []VerifiersAgree` | – |
| `CheckpointProofs` | `CheckpointTypes` | `Spec => []TypeOK` | – |
| | `CheckpointAtomic` | `Spec => []PublishedWhole` | – |
| | `CheckpointVerifiable` | `Spec => []PublishedVerifies` | – |
| | `ForgeriesRefused` | `Spec => []ForgeryRefused` | – |
| `CliProofs` | `CliTypes` | `Spec => []TypeOK` | – |
| | `SeedsAlwaysKept` | `Spec => []SeedsKept` | – |
| | `FollowersNeverRepeat` | `Spec => []TailNeverRepeats` | – |
| | `ProcessesSerialize` | `Spec => SerialLog` | `ImportExclusive` |
| | `ReportsAreTrue` | `Spec => []ReportedOnce` | – |
| | `RotationsStayInStep` | `Spec => []RingInStep` | – |
| | `ImportsAreComplete` | `Spec => []ImportComplete` | – |
| | `ImportsOpen` | `Spec => []ImportOpens` | – |
| | `IntactSourcesAccepted` | `Spec => []IntactSourceAccepted` | – |

### Assumptions

`Reliable`: an append does not fail and live on, and no crash leaves a line
without its newline. Without either half `InSync` is false, and without the
first so is `HonestReopen`: TLC refutes them with the constants of `faults`.
Where a theorem does not name it, every failure is allowed. `seal_unsynced` is
the case `PublishedKeysRetired` excludes and `import_race` the one
`ProcessesSerialize` excludes, so neither hypothesis can go.

`CallersAssumption`: no caller uses the type of a seal. The theorems about
`Ledger` and `Verify` stand on it; section 4 says what happens otherwise.

`MarksApart` makes the edits of `Verify` edits: the empty string is no digest and
no signature, and the body, seed and key that stand for forged ones (`Tampered`,
`"other"`) are nobody's. `KnownSchemes`: a signer is one of the three anchors.
Model values and records give TLC both; the prover needs to be told.

On the constants. In `Ledger`: the bounds are natural numbers, a keyring is a
nonempty sequence of distinct seeds, the failures are those listed
(`BoundAssumption`, `RingAssumption`, `FaultAssumption`, `TypesAssumption`);
that a seed serves one epoch only is what `rotate_key` asks of its caller ("a
fresh seed"). In `Cli`: processes, the first seed, a part of a seed and the
first file are different things (`CliAssumption`), and sources are lists of
lines of one of the three formats, of which `intact` says exactly that their
program wrote them (`Authentic`), whose hashes are not the empty string, and in
which a `"hash"` inside `data` is not by chance the digest that the line without
it would have (`SourcesAssumption`). In `Checkpoint`: bounds, and that an
absent, empty or garbled file is not a checkpoint (`CheckpointAssumption`). TLC
evaluates all of them in the runs.

### The ledger

`InSync` is not inductive: a handle is as good as the scan that
made it, and the scan as the lines it read. The invariant `Inv` adds
`HistoryOK`: every line is linked to what was known before it, its MAC is under
a key of the segment a reader has counted there, and what is known after it is
`Accept` of the line (`LineOK`). Of what is known at each point it says
(`PointOK`) that revealed epochs and those of segment 0 are not beyond the
current one, that before the first seal nothing is revealed and segment 0 is all
there is, and that once the current epoch's key is public all that is left
unsealed are seals: this is why `seal` never moves its counters for an `append`
that then refuses. `HandleOK` adds that the scan is at
the point of the history of its line and that a handle that may append agrees
with the last one and has its epoch's key. `InvStep` goes through the actions:
`AppendStep` is the one lemma for everything that writes, with `Prepared` as the
condition under which `rotate_key`, `seal` and a plain append hand their fields
to it (`DataPrepared`, `RotationPrepared`, `SealPrepared`); `HistoryAppend` and
`HistoryCut` say what a written line and a lost one do to the history.
Sequences are typed by their own elements (`IsSequence`), because a digest
contains the one before it and has no finite type.

The first half of `LedgerStorage` does without the history, which a failed write
may leave behind. `RingOK` says that the scan vouches for the lines it has
passed and a handle for the file. `LossOK` says that a promised entry is on
stable storage, or that what took its place does not parse and is on stable
storage itself (so that a later power loss cannot turn the file into one that
reads well), and that a handle stands on a line of the file unless the file ends
in garbage: otherwise a later `sync` would promise something that is not there.
What a write does to the file is one disjunction (`WriteShape`), whichever
operation made it.

Its second half, the refinement, adds `HoldsOK` to `Inv`: what is synced is
there, what was promised is synced, and a handle stands on the line that its
`seq` says. Then each action is a step of `AppendLog` or leaves its variables
alone.

`LedgerKeys` has two arguments. Without legacy entries only segment keys are
published, and `SegmentsOK` says that the segments of the keys in use only go up
and that a seal is under a key of a later segment than those it publishes. This
needs no assumption on storage, because a handle whose counters ran ahead
(`seal` that failed) skips a number and never repeats one (`CountersOK`). With
legacy entries a seal may publish a base key. Then `PublishedOK` ties each
published base key to an epoch in `revealed_epochs` of the reader's state at
every later point, `append` refuses such an epoch, and the seeds of a keyring
are distinct.

### The verifiers

`TipBindsLedger` is about files, not behaviours. `OpenMeans` and `VerifyMeans`
say what the two readers check of each line (`KeyedOK`), in terms of the lines
alone; the scan's counters are eliminated by a least counterexample
(`ReadsCount`, `ReadsLast`), which stands in for induction. Then equal hashes of
two lines at one place give equal lines and equal hashes before them
(`LineBound`: the MAC's inputs, the key included, and from the key the epoch
because a keyring's seeds are distinct), and so on down to the first line; the
sequence numbers exclude different lengths. It covers any number of simultaneous
edits, which the runs do not try.

The others need `VerifyInv`: `KeyInv` of `LedgerKeys` with `SealedOK`, which says
of each point of the history where the open segment begins and under which
segment's key its lines are (`SegmentOK`), of each seal that its fields describe
the segment before it and reveal the keys that are in its MACs (`SealBody`), and
that a seed is that of one epoch. `SealMade` shows it of the record that `seal`
builds from the file it reads back (`LeavesAre`). An honest seal's keys are then
those of `entry_key`, which is `LedgerVerifies`. An edit that keeps the stored
hash is refused where it stands, by `LineBound`; one that changes the hash, by
the MAC.

Without a key the next seal takes the keyring's place. `FinishAt` reduces
`finish_segment` at a seal of the ledger to a comparison with that seal's fields
(`StandsFor`), from which both `PublicAccepts` and the case of an edited seal
follow. For an entry before the last seal, `NextSealReads` shows that the
next seal still covers its line even when the edited line was a seal itself and
the segments merge, and `CoveredLine` that the keys this seal reveals admit no
other entry under the same hash but the one with the label v2 for v3.

The verifier in JavaScript is compared with the Rust ones on every file, not only
on what a ledger writes, and without an assumption on storage. It keeps running
state where the Rust model names lines, so the proof says what that state is after
`i` lines, again by a least counterexample (`VerifyKeyedMeans`,
`VerifyPublicMeans`). `KeyedState`: its seal count, its mark for a legacy segment 0
and its running hash are those of the first `i` lines, and it has accepted
exactly when each of them passes. `PublicState` adds, while it accepts, that the
buffer holds the lines from the last seal on, or from line 1, that
`segmentStart` and `prevSealHash` are that seal's, and that the pinned anchor is
that seal's too, which is the first one's because every seal accepted so far was
compared with it (`AnchorMeans`). `RecomputedMeans` is the step between the two
ways to check a segment: `finishSegment` chains the hashes it has itself
recomputed, `finish_segment` the ones on file, and the first difference would be
a wrong MAC in both. `WalkExists` shows once, for the three walks, that a
function defined by recursion on the line number is there.

### Checkpoints

`WholeInv`: unless two runs have overlapped, at most one process is between
`create` and `rename`, the temporary name is its file, and the file under the
final name is whole and durable. `SignInv`: the key file is created once and
written once by the process that created it, so all processes that loaded a key
have the one it holds or the empty one; a checkpoint is signed by the key it
names. `TipInv`: every signature that exists is over a tip that the ledger has
had, with `payload_binds_fields` as the step from the payload to the fields.

### Processes

The lemma `Kinds` sorts the steps of a process by what they do to the files
(give up, end, move on, open, append, copy a line, check a copy), and the
invariants are shown step kind by step kind. `BaseInv` holds what everything
needs: the step of a process belongs to its command (`InCommand`), a keyring was
read from the keys file as it is now, each of its seeds at the start of a line
(`KeysOK`; lines only grow), entries are under stored seeds (`EntriesOK`),
handles are sane, and the ledger's name belongs to the first file or to a
finished import. `SerialInv` adds that the holder of the lock knows the file
(`SyncOK`), that a copy is an own, linked log (`CopyOK`), and where a follower
is (`TailOK`): with it an append continues the last entry of the file that has
the name *now*, which is what `ImportExclusive` is needed for. `Stored` says of
a seed that its text is in every content the keys file may have, now or after a
power loss (`Sure`): `EndSeed` syncs before the entry is written, so that what
is `kept` is then one file with the seed in it. `OnceOf` counts the lines of
each process, which are none unless it is past its append or failed in the sync
behind it (`MayHave`). `RingOK`: while no seed is orphaned and each has a line
of its own, only the last line of the keys file may lack its rotation, and then
its owner holds the lock; that is why a `rotate-key` with a stale keyring is
refused by the scan. `ImportOK`: a copy has exactly the entries of the source
lines read so far, and `ImportedFacts` is the crux: `verify_badapple_line`
accepts a line exactly when a program of the source wrote it behind the one
before it, or one with a nested `"hash"` was at hand.

### Only model-checked

* Liveness, `LockTurn` and `CommandsEnd`: out of the prover's reach.
* `Merkle` (`ProofsComplete`, `InclusionSound`, `AuditedLogGrows`): the tree and
  its provers recurse on the halves of a sequence, with `RECURSIVE` operators,
  and the verifiers shift and `xor` words; neither is within the prover's reach.
  The least counterexamples used elsewhere stand in for induction over line
  numbers only.
* The violation runs, which are counterexamples.

## 6. Plan

What is left: a history of keys ever published, for seals lost in a power
failure.

Not modelled: the encodings (hex, JSON, base64), memory locking and
zeroization, file modes, output formats and argument parsing; keys given by
`--key` or the environment, and rotation with `--seed`, which leave the keys
file alone; `wasm.rs` (a call of `verify_public`); tests, benches and examples;
and `archive/main.rs`, a prototype that is not built.
