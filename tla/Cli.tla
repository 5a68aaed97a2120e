-------------------------------- MODULE Cli --------------------------------
(***************************************************************************)
(* The command line (src/src/main.rs): processes that run one command each *)
(* on one ledger, side by side.                                            *)
(*                                                                         *)
(* What they share: the ledger's name, the files behind it, the flock on   *)
(* <ledger>.lock and the keys file.  A command is a sequence of steps, and *)
(* between any two of them other processes run, the process is killed, or  *)
(* the power fails.  The seeds are read before the lock is asked for; the  *)
(* ledger is opened by name at each append; `import' builds a file of its  *)
(* own and renames it over the ledger without the ledger's lock; `tail'    *)
(* releases the lock before it follows.                                    *)
(*                                                                         *)
(* An append may fail without a trace, behind part of its line or behind   *)
(* all of it, where a sync_all comes last; storing a seed may fail or be   *)
(* cut off at each of its writes.  A ledger line that only lacks its       *)
(* newline is the subject of Ledger, and the I/O of `import' itself, which *)
(* ends it before the rename, does not fail here.                          *)
(***************************************************************************)
EXTENDS Lines, Import, FiniteSetsExt

CONSTANTS
  Procs,           \* processes
  NoProc,          \* the lock is free
  Seed0,           \* the first seed of the keys file
  Piece,           \* the part of a seed that a short write leaves
  KeysEol,         \* the keys file the user wrote ends in a newline
  Commands,        \* Commands[p], the commands p may run
  Sources,         \* foreign logs that are imported
  ImportExclusive, \* environment: nobody holds the ledger when import renames
  MaxKills         \* bound: processes that are killed

AllCommands == {"append", "durable", "stdin", "seal", "rotate", "read", "public", "tail", "import"}

Ledger0 == "ledger"          \* the file the ledger starts as
Files == {Ledger0} \cup Procs \* a process may create one

ASSUME CliAssumption ==
  /\ NoProc \notin Procs /\ Ledger0 \notin Procs
  /\ Seed0 \notin Procs \cup {Piece} /\ Piece \notin Procs /\ KeysEol \in BOOLEAN
  /\ \A p \in Procs : Commands[p] \subseteq AllCommands
  /\ ImportExclusive \in BOOLEAN /\ MaxKills \in Nat

\* A source has lines, `intact' says that its program wrote them all, and one
\* that is not `reserved' names no seal.  A "hash" inside `data' is not the
\* digest of the line it stands in, the empty string is not a digest, and an
\* error is neither a hash nor a result.
ASSUME SourcesAssumption ==
  \A s \in Sources :
    /\ IsSequence(s.lines) /\ s.lines # << >>
    /\ s.from \in {"badapple", "journald", "jsonl"} /\ s.reserved \in BOOLEAN
    /\ s.intact = \A i \in 1..Len(s.lines) : Authentic(s, i)
    /\ \A i \in 1..Len(s.lines) :
         LET line == s.lines[i] IN
         /\ line = [schema |-> line.schema, prev |-> line.prev, type |-> line.type,
                    data |-> line.data, inner |-> line.inner, hash |-> line.hash]
         /\ line.schema # "explicit" => line.prev = NoHash
         /\ line.type = SEAL_EVENT => s.reserved \/ s.from = "jsonl" \/ ~s.intact
         /\ s.from = "badapple" /\ Authentic(s, i) => line.hash # NoHash
         /\ line.inner # NoHash =>
              \A key \in SourceKeys(s.raw) :
                line.inner # digest(key, material(line.schema, [line EXCEPT !.inner = NoHash],
                                                  Prior(s, i)))
         /\ line.hash # Refused
         /\ \A q \in {Genesis, line.hash}, t \in {DATA_EVENT, line.type} :
              [prev |-> q, entry |-> [etype |-> t, body |-> [text |-> line.data]]] # Refused

VARIABLES
  path,       \* the file the ledger's name stands for
  disk,       \* disk[f], the lines of file f
  synced,     \* synced[f], lines of f on stable storage
  torn,       \* files whose last line is cut off
  keysfile,   \* the keys file: its lines, and whether the last one has its newline
  kept,       \* what a power loss may leave of it: the contents since its last sync
  lock,       \* holder of the flock
  outage,     \* history: the power has failed
  pc,         \* next step of each process
  cmd, src,   \* its command and, of an import, the source
  keys, h,    \* its handle: the keyring, and what the scan found
  at, n, prev \* its file and position in it (tail), in the source (import)

keyfiles == <<keysfile, kept>>
files == <<path, disk, synced, torn, keyfiles>>
locals == <<cmd, src, keys, h, at, n, prev>>
vars == <<files, lock, outage, pc, locals>>

Ended == {"done", "failed", "dead"}

\* A line of the keys file is the texts that were written on it; as a rule
\* that is one seed.  No two processes draw the same random seed.
RandomSeed(p) == <<p>>

FirstKeys == [lines |-> <<<<Seed0>>>>, eol |-> KeysEol]

NoHandle == [last_hash |-> ZeroHash, seq |-> 0, epoch |-> 0, seals_seen |-> 0,
             sealed_through |-> 0, compromised |-> FALSE]

Init ==
  /\ path = Ledger0
  /\ disk = [f \in Files |-> << >>] /\ synced = [f \in Files |-> 0] /\ torn = {}
  /\ keysfile = FirstKeys /\ kept = {FirstKeys} /\ lock = NoProc /\ outage = FALSE
  /\ pc = [p \in Procs |-> "new"] /\ cmd = [p \in Procs |-> "none"]
  /\ src = [p \in Procs |-> NoHash]
  /\ keys = [p \in Procs |-> << >>] /\ h = [p \in Procs |-> NoHandle]
  /\ at = [p \in Procs |-> Ledger0] /\ n = [p \in Procs |-> 0]
  /\ prev = [p \in Procs |-> Genesis]

Goto(p, step) == pc' = [pc EXCEPT ![p] = step]

\* Mutant of Exit: a dead process keeps the lock.
Exit_KeepLock(p, how) ==
  /\ Goto(p, how)
  /\ lock' = IF lock = p /\ how # "dead" THEN NoProc ELSE lock
  /\ keys' = [keys EXCEPT ![p] = << >>] /\ h' = [h EXCEPT ![p] = NoHandle]
  /\ UNCHANGED <<cmd, src, at, n, prev>>

\* The process ends and its handle, if it has one, is dropped with the lock.
Exit(p, how) ==
  /\ Goto(p, how)
  /\ lock' = IF lock = p THEN NoProc ELSE lock
  /\ keys' = [keys EXCEPT ![p] = << >>] /\ h' = [h EXCEPT ![p] = NoHandle]
  /\ UNCHANGED <<cmd, src, at, n, prev>>

(***************************************************************************)
(* Starting and opening.                                                   *)
(***************************************************************************)

\* gather_seeds.  `import' then opens its own temporary file, whose lock
\* nobody else asks for.
Start(p, c, s) ==
  /\ pc[p] = "new"
  /\ cmd' = [cmd EXCEPT ![p] = c] /\ src' = [src EXCEPT ![p] = s]
  /\ keys' = [keys EXCEPT ![p] = keysfile.lines]
  /\ Goto(p, IF c \in {"import", "public"} THEN c ELSE "flock")
  /\ UNCHANGED <<files, lock, outage, h, at, n, prev>>

\* seal asks for its signer before it opens the ledger: a key file that is
\* missing or malformed, or an agent without a socket, ends it there.
pick_seal_signer(p) ==
  /\ pc[p] = "new"
  /\ cmd' = [cmd EXCEPT ![p] = "seal"] /\ Goto(p, "failed")
  /\ UNCHANGED <<files, lock, outage, src, keys, h, at, n, prev>>

\* Mutant of Acquire: the lock is not waited for.
Acquire_NoWait(p) ==
  /\ pc[p] = "flock"
  /\ lock' = p /\ Goto(p, "open")
  /\ UNCHANGED <<files, outage, locals>>

\* flock_ex: blocks until the lock is free.
Acquire(p) ==
  /\ pc[p] = "flock" /\ lock = NoProc
  /\ lock' = p /\ Goto(p, "open")
  /\ UNCHANGED <<files, outage, locals>>

\* The body of a seal event parses.
parse_body(e) == "end_seq" \in DOMAIN e.body

\* open_with_seeds ends at the first line with one of these faults: the
\* first two are errors, the third is a handle marked compromised.
LineFault(f, i, ks) ==
  IF IsSeal(f[i]) /\ ~parse_body(f[i]) THEN "InvalidLine"
  ELSE IF ~HasKey(ks, f[i].epoch) THEN "MissingKey"
  ELSE IF /\ ChainLinked(f, i)
          /\ MacUnder(f, i, entry_key(ks, f[i].epoch, SealsThrough(f, i), f[i].v))
       THEN "none" ELSE "compromised"

FirstFault(f, ks) ==
  LET bad == {i \in 1..Len(f) : LineFault(f, i, ks) # "none"}
  IN IF bad = {} THEN "none" ELSE LineFault(f, Min(bad), ks)

\* The handle of a scan that met no fault.
Scanned(f) ==
  [last_hash |-> LastHash(f, Len(f) + 1), seq |-> Len(f),
   epoch |-> Max({0} \cup {f[i].epoch : i \in 1..Len(f)}),
   seals_seen |-> SealsThrough(f, Len(f)),
   sealed_through |-> Max({0} \cup {f[i].body.end_seq : i \in {j \in 1..Len(f) : IsSeal(f[j])}}),
   compromised |-> FALSE]

\* Mutant of AfterOpen: rotate-key does not store its seed.
AfterOpen_NoStore(c) ==
  CASE c \in {"append", "durable", "seal", "rotate"} -> "write"
    [] c = "stdin" -> "stdin"
    [] c \in {"read", "tail"} -> "read"

\* Where a command goes once the ledger is open.
AfterOpen(c) ==
  CASE c \in {"append", "durable", "seal"} -> "write"
    [] c = "stdin" -> "stdin"
    [] c = "rotate" -> "newkey"
    [] c \in {"read", "tail"} -> "read"

\* The scan reads the file that has the ledger's name at that moment.
OpenLedger(p) ==
  LET f == disk[path]  found == FirstFault(f, keys[p])
      fault == IF found = "none" /\ path \in torn THEN "InvalidLine" ELSE found IN
  /\ pc[p] = "open"
  /\ \/ /\ fault \in {"InvalidLine", "MissingKey"}
        /\ Exit(p, "failed") /\ UNCHANGED <<files, outage>>
     \/ /\ fault \in {"none", "compromised"}
        /\ h' = [h EXCEPT ![p] = IF fault = "none" THEN Scanned(f)
                                 ELSE [NoHandle EXCEPT !.compromised = TRUE]]
        /\ Goto(p, AfterOpen(cmd[p]))
        /\ UNCHANGED <<files, lock, outage, cmd, src, keys, at, n, prev>>

(***************************************************************************)
(* append, seal and rotate-key.                                            *)
(***************************************************************************)

\* `append -' reads its body with the ledger open and locked.
ReadBody(p) ==
  /\ pc[p] = "stdin" /\ Goto(p, "write")
  /\ UNCHANGED <<files, lock, outage, locals>>

\* The keys file when `text' is written at its end.
Typed(text) ==
  [lines |-> IF keysfile.eol THEN Append(keysfile.lines, <<text>>)
             ELSE [keysfile.lines EXCEPT ![Len(keysfile.lines)] = Append(@, text)],
   eol |-> FALSE]

\* rotate-key without --seed: the first write of writeln! is the seed.  The
\* open may fail before it, and a short write ends the process.
StoreSeed(p) ==
  /\ pc[p] = "newkey"
  /\ \/ Exit(p, "failed") /\ UNCHANGED keyfiles
     \/ /\ keysfile' = Typed(Piece) /\ kept' = kept \cup {keysfile'}
        /\ Exit(p, "failed")
     \/ /\ keysfile' = Typed(p) /\ kept' = kept \cup {keysfile'}
        /\ Goto(p, "newline") /\ UNCHANGED <<lock, locals>>
  /\ UNCHANGED <<path, disk, synced, torn, outage>>

\* Mutant of EndSeed: the keys file is not synced.
EndSeed_Unsynced(p) ==
  /\ pc[p] = "newline"
  /\ keysfile' = [keysfile EXCEPT !.eol = TRUE] /\ kept' = kept \cup {keysfile'}
  /\ Goto(p, "write")
  /\ UNCHANGED <<path, disk, synced, torn, lock, outage, locals>>

\* The second write is the newline, and sync_all follows.  A process that is
\* cut off between the two leaves what one whose sync fails leaves.
EndSeed(p) ==
  /\ pc[p] = "newline"
  /\ \/ Exit(p, "failed") /\ UNCHANGED keyfiles
     \/ /\ keysfile' = [keysfile EXCEPT !.eol = TRUE] /\ kept' = kept \cup {keysfile'}
        /\ Exit(p, "failed")
     \/ /\ keysfile' = [keysfile EXCEPT !.eol = TRUE] /\ kept' = {keysfile'}
        /\ Goto(p, "write") /\ UNCHANGED <<lock, locals>>
  /\ UNCHANGED <<path, disk, synced, torn, outage>>

\* The fields of the handle the new entry is made from: rotate_key and seal
\* move some of them first.
Advanced(p) ==
  CASE cmd[p] = "rotate" -> [h[p] EXCEPT !.epoch = @ + 1]
    [] cmd[p] = "seal" -> [h[p] EXCEPT !.seals_seen = @ + 1, !.sealed_through = h[p].seq]
    [] OTHER -> h[p]

Ring(p) == IF cmd[p] = "rotate" THEN Append(keys[p], RandomSeed(p)) ELSE keys[p]

NewEntry(p) ==
  LET hh == Advanced(p)
      body == CASE cmd[p] = "seal" -> [end_seq |-> h[p].seq]
                [] cmd[p] = "rotate" -> [epoch |-> hh.epoch]
                [] OTHER -> [text |-> p]
      etype == CASE cmd[p] = "seal" -> SEAL_EVENT
                 [] cmd[p] = "rotate" -> KEY_ROTATION_EVENT
                 [] OTHER -> DATA_EVENT
  IN Event(FORMAT_VERSION, hh.last_hash, hh.seq + 1, etype, body, hh.epoch,
           entry_key(Ring(p), hh.epoch, hh.seals_seen, FORMAT_VERSION))

\* seal: how it may end before its append.  The segment is read from the
\* file that has the name now, and the signer is asked last.
SealOutcome(p) ==
  LET seg == {i \in 1..Len(disk[path]) :
                disk[path][i].seq \in (h[p].sealed_through + 1)..h[p].seq}
  IN IF h[p].seq <= h[p].sealed_through THEN {"done"}
     ELSE IF Cardinality(seg) # h[p].seq - h[p].sealed_through THEN {"failed"}
     ELSE IF \A i \in seg : IsSeal(disk[path][i]) THEN {"done"}
     ELSE {"append", "failed"}

\* How a command ends before its append writes, the failing open of the file
\* included.
WriteOutcome(p) ==
  IF h[p].compromised THEN {"failed"}
  ELSE IF cmd[p] = "seal" THEN SealOutcome(p) ELSE {"append", "failed"}

\* Mutant of Synced: --durable does not sync.
Synced_NotDurable(p) == cmd[p] = "seal"

\* Commands that sync the ledger before they report.
Synced(p) == cmd[p] \in {"durable", "seal"}

\* The append opens the file by name and writes behind its last line: part
\* of its own, all of it but the sync fails, or all that was asked for.
Write(p) ==
  /\ pc[p] = "write"
  /\ \/ /\ \E how \in WriteOutcome(p) \ {"append"} : Exit(p, how)
        /\ UNCHANGED <<disk, synced, torn>>
     \/ /\ "append" \in WriteOutcome(p)
        /\ torn' = torn \cup {path} /\ Exit(p, "failed")
        /\ UNCHANGED <<disk, synced>>
     \/ /\ "append" \in WriteOutcome(p)
        /\ disk' = [disk EXCEPT ![path] = Append(@, NewEntry(p))] /\ UNCHANGED torn
        /\ \/ /\ Synced(p) /\ Exit(p, "failed") /\ UNCHANGED synced
           \/ /\ synced' = IF Synced(p) THEN [synced EXCEPT ![path] = Len(disk'[path])]
                          ELSE synced
              /\ Goto(p, "wrote") /\ UNCHANGED <<lock, locals>>
  /\ UNCHANGED <<path, keyfiles, outage>>

\* The result is printed and the process ends.
Report(p) ==
  /\ pc[p] = "wrote"
  /\ Exit(p, "done") /\ UNCHANGED <<files, outage>>

(***************************************************************************)
(* Commands that read.  `read' stands for init, export and prove, which    *)
(* only need the ledger to open, and for verify, root and the tip that     *)
(* `anchor' signs, which fail on a broken chain.  Those that iterate need  *)
(* the file, which the first append creates; a power loss may leave it     *)
(* without a line.                                                         *)
(***************************************************************************)
Read(p) ==
  /\ pc[p] = "read"
  /\ \/ cmd[p] = "read" /\ Exit(p, "done")
     \/ /\ disk[path] = << >> \/ (cmd[p] = "read" /\ h[p].compromised)
        /\ Exit(p, "failed")
     \/ /\ cmd[p] = "tail" /\ (disk[path] # << >> \/ outage)
        /\ lock' = NoProc /\ Goto(p, "seek")              \* drop(ledger)
        /\ UNCHANGED locals
  /\ UNCHANGED <<files, outage>>

\* verify --public: no seeds, no lock, whatever the file holds by now.
PublicVerify(p) ==
  LET f == disk[path] IN
  /\ pc[p] = "public"
  /\ Exit(p, IF /\ path \notin torn /\ SealsThrough(f, Len(f)) > 0
                /\ \A i \in 1..Len(f) : ChainLinked(f, i)
             THEN "done" ELSE "failed")
  /\ UNCHANGED <<files, outage>>

\* Mutant of Seek: the follower starts at the top of the file again.
Seek_Start(p) ==
  /\ pc[p] = "seek"
  /\ at' = [at EXCEPT ![p] = path] /\ n' = [n EXCEPT ![p] = 0]
  /\ Goto(p, "follow")
  /\ UNCHANGED <<files, lock, outage, cmd, src, keys, h, prev>>

\* File::open, then seek to the end.
Seek(p) ==
  /\ pc[p] = "seek"
  /\ at' = [at EXCEPT ![p] = path] /\ n' = [n EXCEPT ![p] = Len(disk[path])]
  /\ Goto(p, "follow")
  /\ UNCHANGED <<files, lock, outage, cmd, src, keys, h, prev>>

\* One more line is printed.
Follow(p) ==
  /\ pc[p] = "follow" /\ n[p] < Len(disk[at[p]])
  /\ n' = [n EXCEPT ![p] = @ + 1]
  /\ UNCHANGED <<files, lock, outage, pc, cmd, src, keys, h, at, prev>>

(***************************************************************************)
(* import.                                                                 *)
(***************************************************************************)

\* The entry append makes of a source line, in the temporary file of p.
Copied(p, entry) ==
  LET f == disk[p]
  IN Event(FORMAT_VERSION, LastHash(f, Len(f) + 1), Len(f) + 1, entry.etype, entry.body,
           0, entry_key(keys[p], 0, 0, FORMAT_VERSION))

ImportLine(p) ==
  LET r == Imported(src[p], src[p].lines[n[p] + 1], prev[p]) IN
  /\ pc[p] = "import" /\ n[p] < Len(src[p].lines)
  /\ \/ /\ r = Refused
        /\ Exit(p, "failed") /\ UNCHANGED <<files, outage>>
     \/ /\ r # Refused
        /\ disk' = [disk EXCEPT ![p] = Append(@, Copied(p, r.entry))]
        /\ n' = [n EXCEPT ![p] = @ + 1] /\ prev' = [prev EXCEPT ![p] = r.prev]
        /\ UNCHANGED <<path, synced, torn, keyfiles, lock, outage, pc, cmd, src, keys, h, at>>

\* Mutant of ImportCheck: the copy is not verified.
ImportCheck_Unverified(p) ==
  /\ pc[p] = "import" /\ n[p] = Len(src[p].lines)
  /\ synced' = [synced EXCEPT ![p] = Len(disk[p])]
  /\ Goto(p, "rename")
  /\ UNCHANGED <<path, disk, torn, keyfiles, lock, outage, locals>>

\* Mutant of ImportCheck: the copy is renamed before it is synced.
ImportCheck_Unsynced(p) ==
  /\ pc[p] = "import" /\ n[p] = Len(src[p].lines)
  /\ Goto(p, "rename")
  /\ UNCHANGED <<files, lock, outage, locals>>

\* ledger.verify, then sync, which fails when there is no file because no
\* line was appended; then the handle is dropped.
ImportCheck(p) ==
  /\ pc[p] = "import" /\ n[p] = Len(src[p].lines)
  /\ \/ /\ FirstFault(disk[p], keys[p]) # "none" \/ disk[p] = << >>
        /\ Exit(p, "failed") /\ UNCHANGED <<files, outage>>
     \/ /\ FirstFault(disk[p], keys[p]) = "none" /\ disk[p] # << >>
        /\ synced' = [synced EXCEPT ![p] = Len(disk[p])]
        /\ Goto(p, "rename")
        /\ UNCHANGED <<path, disk, torn, keyfiles, lock, outage, locals>>

\* fs::rename over the ledger, whoever has it open.
Rename(p) ==
  /\ pc[p] = "rename"
  /\ ImportExclusive => lock = NoProc
  /\ path' = p
  /\ Exit(p, "done")
  /\ UNCHANGED <<disk, synced, torn, keyfiles, outage>>

(***************************************************************************)
(* What befalls processes.                                                 *)
(***************************************************************************)
Running(p) == pc[p] \notin {"new"} \cup Ended

\* The kernel drops the lock of a process that dies.
Kill(p) ==
  /\ Running(p)
  /\ Cardinality({q \in Procs : pc[q] = "dead"}) < MaxKills
  /\ Exit(p, "dead") /\ UNCHANGED <<files, outage>>

\* At most once: every process dies, and what was not synced may go, of the
\* ledger whole lines or all but a part of one.
PowerLoss ==
  /\ ~outage /\ outage' = TRUE /\ lock' = NoProc
  /\ \E k \in synced[path]..Len(disk[path]) :
       /\ disk' = [disk EXCEPT ![path] = SubSeq(@, 1, k)]
       /\ \/ torn' = torn \ {path}
          \/ (path \in torn \/ k < Len(disk[path])) /\ torn' = torn \cup {path}
  /\ keysfile' \in kept /\ kept' = {keysfile'}
  /\ pc' = [p \in Procs |-> IF Running(p) THEN "dead" ELSE pc[p]]
  /\ keys' = [p \in Procs |-> << >>] /\ h' = [p \in Procs |-> NoHandle]
  /\ UNCHANGED <<path, synced, cmd, src, at, n, prev>>

\* Steps a process takes by itself.
Step(p) ==
  \/ Acquire(p) \/ OpenLedger(p) \/ StoreSeed(p) \/ EndSeed(p) \/ Write(p)
  \/ Report(p) \/ Read(p) \/ PublicVerify(p) \/ Seek(p) \/ Follow(p)
  \/ ImportLine(p) \/ ImportCheck(p) \/ Rename(p)

Next ==
  \/ \E p \in Procs :
       \/ \E c \in Commands[p] \ {"import"} : Start(p, c, NoHash)
       \/ "seal" \in Commands[p] /\ pick_seal_signer(p)
       \/ "import" \in Commands[p] /\ \E s \in Sources : Start(p, "import", s)
       \/ Step(p)
       \/ ReadBody(p)
       \/ Kill(p)
  \/ PowerLoss

(***************************************************************************)
(* Fairness: a process that can go on does.  Nothing makes a user start a  *)
(* command or end the input of `append -', and nobody has to be killed.    *)
(* Weak fairness is enough for the lock, because a process asks for it     *)
(* once.                                                                   *)
(***************************************************************************)
Fairness == \A p \in Procs : WF_vars(Step(p))

Spec == Init /\ [][Next]_vars /\ Fairness

(***************************************************************************)
(* Properties.                                                             *)
(***************************************************************************)
Steps == {"new", "flock", "open", "stdin", "newkey", "newline", "write", "wrote",
          "read", "public", "seek", "follow", "import", "rename"} \cup Ended

KeyLines == Seq(Procs \cup {Seed0, Piece})
KeyFiles == [lines : Seq(KeyLines), eol : BOOLEAN]

\* The type invariant; at most one process is between open and drop, and it
\* is the one that has the lock.
TypeOK ==
  /\ path \in Files /\ lock \in Procs \cup {NoProc} /\ outage \in BOOLEAN
  /\ DOMAIN disk = Files /\ \A f \in Files : IsSequence(disk[f])
  /\ synced \in [Files -> Nat] /\ \A f \in Files : synced[f] <= Len(disk[f])
  /\ torn \subseteq Files
  /\ keysfile \in kept /\ kept \subseteq KeyFiles
  /\ pc \in [Procs -> Steps] /\ cmd \in [Procs -> AllCommands \cup {"none"}]
  /\ keys \in [Procs -> Seq(KeyLines)]
  /\ at \in [Procs -> Files] /\ n \in [Procs -> Nat]
  /\ DOMAIN src = Procs /\ DOMAIN h = Procs /\ DOMAIN prev = Procs
  /\ \A p \in Procs :
       pc[p] \in {"open", "stdin", "newkey", "newline", "write", "wrote", "read"} <=> lock = p

\* Many processes, one log: concurrent commands act as if each appended in
\* one step to the log as it was then, and an import exchanges the whole log
\* for another one.  (README: "Concurrent processes serialize instead of
\* interleaving".)
Log == INSTANCE AppendLog WITH log <- disk[path], safe <- synced[path], Replaceable <- TRUE
SerialLog == Log!Spec

\* Entries that process p appended to the ledger.
EntriesOf(p) ==
  {i \in 1..Len(disk[path]) : disk[path][i].body = [text |-> p]}

\* No append is on the ledger twice; one that was reported is there, also
\* after a power loss when it was --durable; and one that failed is not,
\* unless it was --durable and what failed is the sync behind its line.
ReportedOnce ==
  path = Ledger0 =>
    \A p \in Procs :
      /\ Cardinality(EntriesOf(p)) <= 1
      /\ pc[p] = "done" /\ (cmd[p] = "durable" \/ (cmd[p] \in {"append", "stdin"} /\ ~outage))
           => EntriesOf(p) # {}
      /\ pc[p] = "failed" /\ cmd[p] # "durable" => EntriesOf(p) = {}

\* Line e of the keys file is the seed of epoch e.
RingInOrder ==
  \A i \in 1..Len(disk[path]) :
    LET e == disk[path][i]
    IN e.epoch < Len(keysfile.lines) /\ keysfile.lines[e.epoch + 1] = e.hash.key.seed

\* The keys file holds one seed per line.
OneSeedPerLine == \A i \in 1..Len(keysfile.lines) : Len(keysfile.lines[i]) = 1

\* A process that stored a seed, or a part of one, did not live to report
\* its rotation.
Orphaned ==
  \E i \in 1..Len(keysfile.lines) :
    \/ keysfile.lines[i] = <<Piece>>
    \/ \E p \in Procs : keysfile.lines[i] = RandomSeed(p) /\ pc[p] \in {"dead", "failed"}

\* rotate-key reads the seeds before it has the lock.  As long as each
\* stored seed has a line of its own and is also recorded in the ledger, the
\* rotations of concurrent processes keep the keys file and the epochs in
\* step: whoever read the seeds too early is refused.
RingInStep ==
  path = Ledger0 /\ ~outage /\ OneSeedPerLine /\ ~Orphaned => RingInOrder

\* The text of `seed' stands on one of these lines, alone or with others.
OnLine(seed, lines) ==
  \E j \in 1..Len(lines) : \E a, b \in 1..Len(lines[j]) : SubSeq(lines[j], a, b) = seed

\* Whatever is killed or fails, and when: the text of the seed an entry was
\* written under is in the keys file, if not always on a line of its own.
\* A power loss can only break that when the file came without its last
\* newline: an unsynced seed may then have changed the seed of epoch 0.
SeedsKept ==
  KeysEol \/ ~outage =>
    \A i \in 1..Len(disk[path]) : OnLine(disk[path][i].hash.key.seed, keysfile.lines)

\* A partial import never passes for a complete one: a ledger that has
\* replaced another starts with an entry for every line of its source, and
\* the source is one that its own format says is intact.
ImportComplete ==
  path # Ledger0 =>
    /\ src[path].intact
    /\ Len(disk[path]) >= Len(src[path].lines)
    /\ \A i \in 1..Len(src[path].lines) :
         disk[path][i].body = [text |-> src[path].lines[i].data]

\* The ledger that `import' leaves opens under the seed it was built with,
\* also when the source names the reserved event types.
ImportOpens ==
  path # Ledger0 =>
    FirstFault(SubSeq(disk[path], 1, Len(src[path].lines)),
               <<disk[path][1].hash.key.seed>>) = "none"

\* A "hash" inside the data of a line comes before that of the line, and
\* strip_hash_field takes the first one.
NestedHash(s) == s.from = "badapple" /\ \E i \in 1..Len(s.lines) : s.lines[i].inner # NoHash

\* An intact source is never refused, in whichever of its schemas each line
\* was written and under whichever form of slicks.key its era used, unless
\* one of its types is reserved or one of its lines has a "hash" in its data.
IntactSourceAccepted ==
  \A p \in Procs :
    cmd[p] = "import" /\ pc[p] = "failed"
      => ~src[p].intact \/ src[p].reserved \/ NestedHash(src[p])

\* A follower never prints a line again that `tail' has printed.
TailNeverRepeats ==
  \A p \in Procs : pc[p] = "follow" /\ path = Ledger0 => n[p] >= h[p].seq

\* Nobody waits for the ledger forever: who asks for the lock gets it or
\* dies, unless another process sits on it and reads its standard input.  (A
\* tail or an export whose output nobody reads sits on it in the same way;
\* here output never blocks.)
LockTurn ==
  \A p \in Procs :
    pc[p] = "flock" ~> (pc[p] # "flock" \/ \E q \in Procs : pc[q] = "stdin")

\* The chain at the ledger's name is one chain.
Serialized == \A i \in 1..Len(disk[path]) : ChainLinked(disk[path], i)
=============================================================================
