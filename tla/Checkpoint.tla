----------------------------- MODULE Checkpoint -----------------------------
(***************************************************************************)
(* Anchors and checkpoints (src/src/anchor.rs) and the commands that use   *)
(* them, `anchor' and `anchor-verify' (src/src/main.rs).                   *)
(*                                                                         *)
(* Processes run one command each, on one ledger, one key file, one        *)
(* checkpoint name and one identity agent.  They hold the ledger's lock    *)
(* only while the tip is read; other programs hold it for as long as they  *)
(* like (`append -' does until its input ends).  A signature names its    *)
(* scheme, its key and the payload it covers; a payload is the record of   *)
(* the fields it spells out (genesis labels are taken to be free of        *)
(* quotes, which the code does not escape).  public_key and key_id are     *)
(* injective, so they stand for the key.                                   *)
(***************************************************************************)
EXTENDS Integers, FiniteSets

CONSTANTS
  Procs,       \* processes
  Options(_),  \* Options(p), the command lines process p may be started with
  Absent,      \* no such file, no such field
  Empty,       \* a file without content
  Garbled,     \* text that is not one JSON object
  MaxLen,      \* bound: entries of the ledger
  MaxKeys,     \* bound: times the agent comes to own another signing key
  MaxKills     \* bound: processes that are killed

(***************************************************************************)
(* What is signed, signatures and checkpoints.                             *)
(***************************************************************************)
Schemes == {"hmac-sha256", "ed25519-file", "secure-enclave"}
Keys == Procs \cup {Absent, Empty} \cup 0..MaxKeys
Payloads == [entry_count : 0..MaxLen, tip_hash : 0..MaxLen, merkle_root : 0..MaxLen,
             signed_at : Procs]
Signatures == [scheme : Schemes, by : Keys, over : Payloads]
Checkpoints ==
  [entry_count : 0..MaxLen, tip_hash : 0..MaxLen, merkle_root : 0..MaxLen,
   signed_at : Procs, scheme : Schemes, public_key : Keys, signature : Signatures,
   payload : Payloads]

ASSUME CheckpointAssumption ==
  /\ MaxLen \in Nat /\ MaxKeys \in Nat /\ MaxKills \in Nat
  /\ Absent \notin Procs \cup 0..MaxKeys \cup {Empty}
  /\ Empty \notin Procs /\ Empty \notin Checkpoints
  /\ Garbled \notin Procs /\ Garbled \notin Checkpoints

VARIABLES
  len,         \* entries of the ledger; they determine tip_hash and root
  locked,      \* another program holds the ledger's lock
  keyfile,     \* Absent, Empty or the key it holds
  agent,       \* the identity agent: its state, and the number of its signing key
  data,        \* data[f], content of file f (named after the process that created it)
  durable,     \* durable[f], what a power loss leaves of it
  tmp, out,    \* the files behind the temporary and the final name
  pc, opt,     \* next step and option of each process
  key, tip, ckpt, file, \* its anchor's key, the tip it read, its checkpoint, the file it writes
  signed,      \* history: everything any key has signed
  overlapped   \* history: a run created the temporary file during another's write

filevars == <<data, durable, tmp, out>>
history == <<signed, overlapped>>
vars == <<len, locked, keyfile, agent, filevars, pc, opt, key, tip, ckpt, file, history>>

(***************************************************************************)
(* Payloads.                                                               *)
(***************************************************************************)
canonical_payload(t, signed_at) ==
  [entry_count |-> t, tip_hash |-> t, merkle_root |-> t, signed_at |-> signed_at]

\* Without a merkle_root the field is not spelled out.
rebuilt_payload(c) ==
  [entry_count |-> c.entry_count, tip_hash |-> c.tip_hash,
   merkle_root |-> c.merkle_root, signed_at |-> c.signed_at]

\* Checkpoints of older tools carry no payload.
checkpoint_payload(c) == IF c.payload # Absent THEN c.payload ELSE rebuilt_payload(c)

\* Mutant of payload_binds_fields: the payload is trusted as it is stored.
payload_binds_fields_Any(c) == TRUE

payload_binds_fields(c) == c.payload = Absent \/ c.payload = rebuilt_payload(c)

(***************************************************************************)
(* The three anchors.  A random key: no two processes draw the same.       *)
(***************************************************************************)
RandomKey(p) == p

Signature(scheme, k, payload) == [scheme |-> scheme, by |-> k, over |-> payload]

\* attest, once the signature and the public key are there.
checkpoint(t, signed_at, scheme, public_key, signature) ==
  [entry_count |-> t, tip_hash |-> t, merkle_root |-> t, signed_at |-> signed_at,
   scheme |-> scheme, public_key |-> public_key, signature |-> signature,
   payload |-> canonical_payload(t, signed_at)]

\* FileKeyAnchor::verify: the scheme the checkpoint claims is not read.
VerifyHmac(k, c) ==
  /\ payload_binds_fields(c)
  /\ c.signature = Signature("hmac-sha256", k, checkpoint_payload(c))

\* Ed25519FileAnchor::verify, under the anchor's own key.
VerifyEd25519(k, c) ==
  /\ c.scheme = "ed25519-file" /\ payload_binds_fields(c)
  /\ c.signature = Signature("ed25519-file", k, checkpoint_payload(c))

\* IdentityAgentAnchor::verify: the agent checks the signature under the key
\* the checkpoint names.
VerifyAgent(c) ==
  /\ payload_binds_fields(c) /\ c.public_key # Absent
  /\ c.signature = Signature("secure-enclave", c.public_key, checkpoint_payload(c))

IsCheckpoint(x) == x \notin {Empty, Garbled}

(***************************************************************************)
(* Processes.                                                              *)
(***************************************************************************)
Ended == {"done", "valid", "failed", "dead"}

Init ==
  /\ len = 0 /\ locked = FALSE /\ keyfile = Absent
  /\ agent = [state |-> "up", id |-> 0]
  /\ data = [p \in Procs |-> Empty] /\ durable = data /\ tmp = Absent /\ out = Absent
  /\ pc = [p \in Procs |-> "new"] /\ opt = [p \in Procs |-> "none"]
  /\ key = [p \in Procs |-> Absent] /\ tip = [p \in Procs |-> 0]
  /\ ckpt = [p \in Procs |-> Empty] /\ file = [p \in Procs |-> Absent]
  /\ signed = {} /\ overlapped = FALSE

Goto(p, step) == pc' = [pc EXCEPT ![p] = step]

\* Mutant of CreateKey: the key file is created whether it exists or not.
CreateKey_Overwrite(p) ==
  keyfile' = Empty /\ key' = key /\ Goto(p, "genkey")

\* `generate' opens the key file with create_new, then writes and syncs it.
CreateKey(p) ==
  /\ key' = key
  /\ \/ keyfile = Absent /\ keyfile' = Empty /\ Goto(p, "genkey")
     \/ keyfile # Absent /\ keyfile' = keyfile /\ Goto(p, "failed")

\* from_file: any bytes make an HMAC key, an Ed25519 seed has 32 of them.
LoadKey(p, seed, next) ==
  /\ keyfile' = keyfile
  /\ \/ /\ keyfile # Absent /\ (seed => keyfile # Empty)
        /\ key' = [key EXCEPT ![p] = keyfile] /\ Goto(p, next)
     \/ /\ keyfile = Absent \/ (seed /\ keyfile = Empty)
        /\ key' = key /\ Goto(p, "failed")

\* is_available: the socket is there.
FindAgent(p, next) ==
  /\ UNCHANGED <<keyfile, key>>
  /\ Goto(p, IF agent.state = "down" THEN "failed" ELSE next)

\* pick_anchor: the first option that is given decides.
pick_anchor(p, o, next) ==
  CASE o \in {"ed25519-gen-key-file", "gen-key-file"} -> CreateKey(p)
    [] o = "ed25519-key-file" -> LoadKey(p, TRUE, next)
    [] o = "key-file" -> LoadKey(p, FALSE, next)
    [] o = "agent" -> FindAgent(p, next)

StartAnchor(p, o) ==
  /\ pc[p] = "new"
  /\ opt' = [opt EXCEPT ![p] = o]
  /\ pick_anchor(p, o, "tip")
  /\ UNCHANGED <<len, locked, agent, filevars, tip, ckpt, file, history>>

WriteKey(p) ==
  /\ pc[p] = "genkey"
  /\ keyfile' = RandomKey(p) /\ key' = [key EXCEPT ![p] = RandomKey(p)]
  /\ Goto(p, IF opt[p] = "verify-key-file" THEN "check" ELSE "tip")
  /\ UNCHANGED <<len, locked, agent, filevars, opt, tip, ckpt, file, history>>

\* Mutant of ReadTip: entry_count is one too high.
ReadTip_OffByOne(p) ==
  /\ pc[p] = "tip" /\ ~locked
  /\ tip' = [tip EXCEPT ![p] = len + 1]
  /\ Goto(p, "attest")
  /\ UNCHANGED <<len, locked, keyfile, agent, filevars, opt, key, ckpt, file, history>>

\* ledger_tip waits for the ledger's lock, opens, verifies and drops the
\* ledger; it may find the file unreadable or altered.
ReadTip(p) ==
  /\ pc[p] = "tip" /\ ~locked
  /\ \/ tip' = [tip EXCEPT ![p] = len] /\ Goto(p, "attest")
     \/ tip' = tip /\ Goto(p, "failed")
  /\ UNCHANGED <<len, locked, keyfile, agent, filevars, opt, key, ckpt, file, history>>

Scheme(p) ==
  IF opt[p] \in {"ed25519-gen-key-file", "ed25519-key-file"} THEN "ed25519-file"
                                                            ELSE "hmac-sha256"

\* attest of the two file anchors; p stands for the time it signs at.
AttestFile(p) ==
  LET sig == Signature(Scheme(p), key[p], canonical_payload(tip[p], p)) IN
  /\ pc[p] = "attest" /\ opt[p] # "agent"
  /\ ckpt' = [ckpt EXCEPT ![p] = checkpoint(tip[p], p, Scheme(p), key[p], sig)]
  /\ signed' = signed \cup {sig}
  /\ Goto(p, "create")
  /\ UNCHANGED <<len, locked, keyfile, agent, filevars, opt, key, tip, file, overlapped>>

\* attest of the agent: one connection to sign ...
AgentSign(p) ==
  LET sig == Signature("secure-enclave", agent.id, canonical_payload(tip[p], p)) IN
  /\ pc[p] = "attest" /\ opt[p] = "agent" /\ agent.state = "up"
  /\ ckpt' = [ckpt EXCEPT ![p] = checkpoint(tip[p], p, "secure-enclave", Absent, sig)]
  /\ signed' = signed \cup {sig}
  /\ Goto(p, "pubkey")
  /\ UNCHANGED <<len, locked, keyfile, agent, filevars, opt, key, tip, file, overlapped>>

\* ... and another one for the public key.
AgentPublicKey(p) ==
  /\ pc[p] = "pubkey" /\ agent.state = "up"
  /\ ckpt' = [ckpt EXCEPT ![p].public_key = agent.id]
  /\ Goto(p, "create")
  /\ UNCHANGED <<len, locked, keyfile, agent, filevars, opt, key, tip, file, history>>

\* The next step of p is a call to the agent.
Calls(p) ==
  \/ pc[p] = "attest" /\ opt[p] = "agent"
  \/ pc[p] = "pubkey"
  \/ pc[p] = "check" /\ opt[p] = "verify-agent"

\* Mutant of AgentFails: a read has no timeout.
AgentFails_NoTimeout(p) ==
  /\ Calls(p) /\ agent.state \in {"up", "down"} /\ Goto(p, "failed")
  /\ UNCHANGED <<len, locked, keyfile, agent, filevars, opt, key, tip, ckpt, file, history>>

\* The socket is gone, the agent closes the connection, answers with an
\* error, or lets one read or write wait for ten seconds.  The timeout is per
\* read and write and set after connect: an agent that does not accept the
\* connection, or sends its line byte by byte, is waited for without a bound.
AgentFails(p) ==
  /\ Calls(p) /\ agent.state # "slow" /\ Goto(p, "failed")
  /\ UNCHANGED <<len, locked, keyfile, agent, filevars, opt, key, tip, ckpt, file, history>>

(***************************************************************************)
(* write_checkpoint.                                                       *)
(***************************************************************************)

Writing(p) == pc[p] \in {"write", "sync", "publish"}

\* Mutant of CreateTmp: the checkpoint is written in place.
CreateTmp_InPlace(p) ==
  /\ pc[p] = "create"
  /\ tmp' = p /\ out' = p /\ data' = [data EXCEPT ![p] = Empty]
  /\ file' = [file EXCEPT ![p] = p]
  /\ overlapped' = (overlapped \/ \E q \in Procs \ {p} : Writing(q))
  /\ Goto(p, "write")
  /\ UNCHANGED <<len, locked, keyfile, agent, durable, opt, key, tip, ckpt, signed>>

\* File::create: an existing temporary file is emptied and shared.
CreateTmp(p) ==
  LET f == IF tmp = Absent THEN p ELSE tmp IN
  /\ pc[p] = "create"
  /\ tmp' = f /\ data' = [data EXCEPT ![f] = Empty]
  /\ file' = [file EXCEPT ![p] = f]
  /\ overlapped' = (overlapped \/ \E q \in Procs \ {p} : Writing(q))
  /\ Goto(p, "write")
  /\ UNCHANGED <<len, locked, keyfile, agent, durable, out, opt, key, tip, ckpt, signed>>

\* Two writers of one file each write from its start: the longer text shows
\* behind the shorter one.  A write that fails leaves a part of the text.
WriteTmp(p) ==
  LET f == file[p] IN
  /\ pc[p] = "write"
  /\ \/ data' = [data EXCEPT ![f] = ckpt[p]] /\ Goto(p, "sync")
     \/ data[f] # Empty /\ data' = [data EXCEPT ![f] = Garbled] /\ Goto(p, "sync")
     \/ data' = [data EXCEPT ![f] = Garbled] /\ Goto(p, "failed")
  /\ UNCHANGED <<len, locked, keyfile, agent, durable, tmp, out, opt, key, tip, ckpt, file, history>>

\* sync_all; one that fails leaves the file as it is.
SyncTmp(p) ==
  /\ pc[p] = "sync"
  /\ \/ durable' = [durable EXCEPT ![file[p]] = data[file[p]]] /\ Goto(p, "publish")
     \/ durable' = durable /\ Goto(p, "failed")
  /\ UNCHANGED <<len, locked, keyfile, agent, data, tmp, out, opt, key, tip, ckpt, file, history>>

\* rename: whatever has the temporary name now gets the final one.
Publish(p) ==
  /\ pc[p] = "publish"
  /\ \/ /\ tmp # Absent /\ out' = tmp /\ tmp' = Absent /\ Goto(p, "done")
     \/ /\ tmp = Absent /\ UNCHANGED <<out, tmp>> /\ Goto(p, "failed")
  /\ UNCHANGED <<len, locked, keyfile, agent, data, durable, opt, key, tip, ckpt, file, history>>

(***************************************************************************)
(* anchor-verify.  It hands --key-file to pick_anchor in the place of      *)
(* --ed25519-gen-key-file.                                                 *)
(***************************************************************************)
StartVerify(p, o) ==
  /\ pc[p] = "new" /\ out # Absent
  /\ opt' = [opt EXCEPT ![p] = o]
  /\ \/ /\ ~IsCheckpoint(data[out])
        /\ Goto(p, "failed") /\ UNCHANGED <<keyfile, key, ckpt>>
     \/ /\ IsCheckpoint(data[out])
        /\ ckpt' = [ckpt EXCEPT ![p] = data[out]]
        /\ pick_anchor(p, CASE o = "verify-key-file" -> "ed25519-gen-key-file"
                            [] o = "verify-ed25519-key-file" -> "ed25519-key-file"
                            [] o = "verify-agent" -> "agent", "check")
  /\ UNCHANGED <<len, locked, agent, filevars, tip, file, history>>

\* An Err and an Ok(false) both end the process with status 1.
Check(p) ==
  /\ pc[p] = "check"
  /\ opt[p] = "verify-agent" => agent.state = "up"
  /\ Goto(p, IF \/ opt[p] = "verify-agent" /\ VerifyAgent(ckpt[p])
                \/ opt[p] # "verify-agent" /\ VerifyEd25519(key[p], ckpt[p])
             THEN "valid" ELSE "failed")
  /\ UNCHANGED <<len, locked, keyfile, agent, filevars, opt, key, tip, ckpt, file, history>>

(***************************************************************************)
(* The world around the processes.                                         *)
(***************************************************************************)
Running(p) == pc[p] \notin {"new"} \cup Ended

Dead == {p \in Procs : pc[p] = "dead"}

Kill(p) ==
  /\ Running(p) /\ Cardinality(Dead) < MaxKills
  /\ Goto(p, "dead")
  /\ UNCHANGED <<len, locked, keyfile, agent, filevars, opt, key, tip, ckpt, file, history>>

\* Every process dies; a file keeps what was synced, or more.
PowerLoss ==
  LET hit == {p \in Procs : Running(p)} IN
  /\ hit # {} /\ Cardinality(Dead) < MaxKills
  /\ pc' = [p \in Procs |-> IF p \in hit THEN "dead" ELSE pc[p]]
  /\ data' \in {data, durable} /\ durable' = data'
  /\ UNCHANGED <<len, locked, keyfile, agent, tmp, out, opt, key, tip, ckpt, file, history>>

LedgerGrows ==
  /\ len < MaxLen /\ len' = len + 1
  /\ UNCHANGED <<locked, keyfile, agent, filevars, pc, opt, key, tip, ckpt, file, history>>

\* Another program takes the ledger's lock, or lets go of it.
LockChanges ==
  /\ locked' = ~locked
  /\ UNCHANGED <<len, keyfile, agent, filevars, pc, opt, key, tip, ckpt, file, history>>

AgentStates == {"up", "hung", "slow", "down"}

\* The agent stops, hangs, slows down or comes back, with its key or a new one.
AgentChanges(state, id) ==
  /\ agent' = [state |-> state, id |-> id] /\ agent' # agent
  /\ id \in {agent.id, agent.id + 1} /\ id <= MaxKeys
  /\ UNCHANGED <<len, locked, keyfile, filevars, pc, opt, key, tip, ckpt, file, history>>

Step(p) ==
  \/ WriteKey(p) \/ ReadTip(p) \/ AttestFile(p) \/ AgentSign(p) \/ AgentPublicKey(p)
  \/ AgentFails(p) \/ CreateTmp(p) \/ WriteTmp(p) \/ SyncTmp(p) \/ Publish(p) \/ Check(p)

AnchorOptions == {"agent", "key-file", "gen-key-file", "ed25519-key-file",
                  "ed25519-gen-key-file"}
VerifyOptions == {"verify-agent", "verify-key-file", "verify-ed25519-key-file"}

Next ==
  \/ \E p \in Procs :
       \/ \E o \in Options(p) \cap AnchorOptions : StartAnchor(p, o)
       \/ \E o \in Options(p) \cap VerifyOptions : StartVerify(p, o)
       \/ Step(p)
       \/ Kill(p)
  \/ PowerLoss
  \/ LedgerGrows
  \/ LockChanges
  \/ \E state \in AgentStates, id \in 0..MaxKeys : AgentChanges(state, id)

\* A process that can go on does; a read that gets no answer times out.
\* Neither the lock's holder nor the agent is assumed to get on.
Fairness == \A p \in Procs : WF_vars(Step(p))

Spec == Init /\ [][Next]_vars /\ Fairness

(***************************************************************************)
(* Properties.                                                             *)
(***************************************************************************)
Steps == {"new", "genkey", "tip", "attest", "pubkey", "create", "write", "sync",
          "publish", "check"} \cup Ended

\* The type invariant.
TypeOK ==
  /\ len \in 0..MaxLen /\ locked \in BOOLEAN /\ keyfile \in Procs \cup {Absent, Empty}
  /\ agent \in [state : AgentStates, id : 0..MaxKeys]
  /\ data \in [Procs -> Checkpoints \cup {Empty, Garbled}]
  /\ durable \in [Procs -> Checkpoints \cup {Empty, Garbled}]
  /\ tmp \in Procs \cup {Absent} /\ out \in Procs \cup {Absent}
  /\ pc \in [Procs -> Steps]
  /\ opt \in [Procs -> {"none"} \cup AnchorOptions \cup VerifyOptions]
  /\ key \in [Procs -> Procs \cup {Absent, Empty}] /\ tip \in [Procs -> 0..MaxLen]
  /\ ckpt \in [Procs -> Checkpoints \cup {Empty}]
  /\ file \in [Procs -> Procs \cup {Absent}]
  /\ signed \subseteq Signatures /\ overlapped \in BOOLEAN

\* The checkpoint under the final name.
Published == out # Absent /\ IsCheckpoint(data[out])

\* write_checkpoint is atomic: whenever its process is killed, its write fails
\* or the power is lost, what has the final name is a whole checkpoint, unless
\* two runs wrote at the same time.
PublishedWhole == out # Absent /\ ~overlapped => IsCheckpoint(data[out])

\* A checkpoint stays verifiable under the key it was made with: a key file
\* is never written a second time, whoever generates keys, and the agent is
\* asked for the key it has just signed with.  Two cases are left out: an agent
\* that has come to own another key, and a key file read before `generate'
\* wrote it, whose no bytes from_file takes for an HMAC key.
PublishedVerifies ==
  Published /\ data[out].public_key # Empty =>
    LET c == data[out] IN
    CASE c.scheme = "hmac-sha256" -> VerifyHmac(keyfile, c)
      [] c.scheme = "ed25519-file" -> VerifyEd25519(keyfile, c)
      [] c.scheme = "secure-enclave" -> agent.id > 0 \/ VerifyAgent(c)

\* Checkpoints that somebody may put together from signatures that exist:
\* any fields, with the payload, another one or none.
Forgeries ==
  UNION {[entry_count : 0..MaxLen, tip_hash : 0..MaxLen,
          merkle_root : (0..MaxLen) \cup {Absent}, signed_at : {s.over.signed_at},
          scheme : {s.scheme}, public_key : {s.by}, signature : {s},
          payload : {s.over, Absent}] : s \in signed}

\* Whatever an anchor accepts describes a tip that the ledger has had: an old
\* signature vouches for no other fields than the ones that it covers.
ForgeryRefused ==
  \A c \in Forgeries :
    VerifyHmac(c.signature.by, c) \/ VerifyEd25519(c.signature.by, c) \/ VerifyAgent(c)
      => \E t \in 0..len : rebuilt_payload(c) = canonical_payload(t, c.signed_at)

\* p waits for somebody else without a bound: for the ledger's lock, or for an
\* agent that keeps each read short of its timeout.
Blocked(p) ==
  \/ pc[p] = "tip" /\ locked
  \/ Calls(p) /\ agent.state = "slow"

\* Every command ends, unless it waits for a lock that another program does
\* not let go of or for an agent that does not finish its line: an agent that
\* stops, hangs or answers nonsense never keeps one from ending.
CommandsEnd == \A p \in Procs : Running(p) ~> pc[p] \in Ended \/ Blocked(p)
=============================================================================
