-------------------------- MODULE CheckpointProofs --------------------------
(***************************************************************************)
(* Proofs about module Checkpoint, for any processes, options and bounds:  *)
(* types, the atomicity of write_checkpoint, the life of a key and what a  *)
(* signature covers.  Only Init and Next are used, never the fairness.     *)
(***************************************************************************)
EXTENDS Checkpoint, TLAPS

(***************************************************************************)
(* Types.                                                                  *)
(***************************************************************************)
Attested(p) == pc[p] \in {"pubkey", "create", "write", "sync", "publish"}

\* What attest and File::create have assigned once they are done.
AssignedOK ==
  \A p \in Procs : /\ Attested(p) => ckpt[p] \in Checkpoints
                   /\ Writing(p) => file[p] \in Procs

TypeInv == TypeOK /\ AssignedOK

\* The ways pick_anchor can end.
Picked(p, o, next) ==
  \/ /\ o \in {"ed25519-gen-key-file", "gen-key-file"}
     /\ keyfile = Absent /\ keyfile' = Empty /\ key' = key /\ Goto(p, "genkey")
  \/ keyfile' = keyfile /\ key' = key /\ Goto(p, "failed")
  \/ /\ o # "agent" /\ keyfile # Absent /\ keyfile' = keyfile
     /\ key' = [key EXCEPT ![p] = keyfile] /\ Goto(p, next)
  \/ o = "agent" /\ keyfile' = keyfile /\ key' = key /\ Goto(p, next)

\* The ways StartVerify can end: the checkpoint is read before the anchor is
\* picked.
Loaded(p, o) ==
  /\ pc[p] = "new" /\ out # Absent
  /\ opt' = [opt EXCEPT ![p] = o]
  /\ \/ Goto(p, "failed") /\ keyfile' = keyfile /\ key' = key /\ ckpt' = ckpt
     \/ /\ IsCheckpoint(data[out])
        /\ ckpt' = [ckpt EXCEPT ![p] = data[out]]
        /\ \/ /\ o = "verify-key-file"
              /\ keyfile = Absent /\ keyfile' = Empty /\ key' = key /\ Goto(p, "genkey")
           \/ keyfile' = keyfile /\ key' = key /\ Goto(p, "failed")
           \/ /\ keyfile # Absent /\ keyfile' = keyfile
              /\ key' = [key EXCEPT ![p] = keyfile] /\ Goto(p, "check")
           \/ keyfile' = keyfile /\ key' = key /\ Goto(p, "check")
  /\ UNCHANGED <<len, locked, agent, filevars, tip, file, history>>

\* pick_anchor ends in one of the ways that Picked lists.
LEMMA PickedWays ==
  ASSUME NEW p \in Procs, NEW o \in AnchorOptions, NEW next, pick_anchor(p, o, next)
  PROVE  Picked(p, o, next)
<1>1. CASE o \in {"ed25519-gen-key-file", "gen-key-file"}
  <2>1. CreateKey(p)
    BY <1>1 DEF pick_anchor
  <2> QED BY <2>1, <1>1 DEF CreateKey, Picked
<1>2. CASE o = "ed25519-key-file"
  <2>1. LoadKey(p, TRUE, next)
    BY <1>2 DEF pick_anchor
  <2> QED BY <2>1, <1>2 DEF LoadKey, Picked
<1>3. CASE o = "key-file"
  <2>1. LoadKey(p, FALSE, next)
    BY <1>3 DEF pick_anchor
  <2> QED BY <2>1, <1>3 DEF LoadKey, Picked
<1>4. CASE o = "agent"
  <2>1. FindAgent(p, next)
    BY <1>4 DEF pick_anchor
  <2> QED BY <2>1, <1>4 DEF FindAgent, Picked, Goto
<1> QED BY <1>1, <1>2, <1>3, <1>4 DEF AnchorOptions

\* StartVerify ends in one of the ways that Loaded lists.
LEMMA LoadedWays ==
  ASSUME NEW p \in Procs, NEW o \in VerifyOptions, StartVerify(p, o)
  PROVE  Loaded(p, o)
<1> DEFINE a == CASE o = "verify-key-file" -> "ed25519-gen-key-file"
                  [] o = "verify-ed25519-key-file" -> "ed25519-key-file"
                  [] o = "verify-agent" -> "agent"
<1>1. /\ a \in AnchorOptions
      /\ a = "ed25519-gen-key-file" => o = "verify-key-file"
      /\ a # "gen-key-file"
  BY DEF VerifyOptions, AnchorOptions
<1>2. CASE ~IsCheckpoint(data[out])
  BY <1>2 DEF StartVerify, Loaded
<1>3. CASE IsCheckpoint(data[out])
  <2>1. ckpt' = [ckpt EXCEPT ![p] = data[out]] /\ pick_anchor(p, a, "check")
    BY <1>3 DEF StartVerify
  <2>2. Picked(p, a, "check")
    BY <1>1, <2>1, PickedWays
  <2> HIDE DEF a
  <2> QED BY <1>1, <1>3, <2>1, <2>2 DEF Picked, StartVerify, Loaded
<1> QED BY <1>2, <1>3

\* A checkpoint is not mistaken for an empty or a garbled file.
LEMMA CheckpointsShow ==
  ASSUME NEW c \in Checkpoints
  PROVE  IsCheckpoint(c)
BY CheckpointAssumption DEF IsCheckpoint

LEMMA TypeInit == Init => TypeInv
<1> SUFFICES ASSUME Init PROVE TypeInv
  OBVIOUS
<1>1. 0 \in 0..MaxLen /\ agent \in [state : AgentStates, id : 0..MaxKeys]
  BY CheckpointAssumption DEF Init, AgentStates
<1>2. pc \in [Procs -> Steps] /\ \A p \in Procs : pc[p] = "new"
  BY DEF Init, Steps
<1>3. TypeOK
  BY <1>1, <1>2 DEF Init, TypeOK
<1> QED BY <1>2, <1>3 DEF TypeInv, AssignedOK, Attested, Writing

\* What attest makes out of a tip and a key.
LEMMA AttestTypes ==
  ASSUME NEW t \in 0..MaxLen, NEW at \in Procs, NEW scheme \in Schemes, NEW k \in Keys,
         NEW by \in Keys
  PROVE  LET sig == Signature(scheme, by, canonical_payload(t, at)) IN
         sig \in Signatures /\ checkpoint(t, at, scheme, k, sig) \in Checkpoints
<1>1. canonical_payload(t, at) \in Payloads
  BY DEF canonical_payload, Payloads
<1>2. Signature(scheme, by, canonical_payload(t, at)) \in Signatures
  BY <1>1 DEF Signature, Signatures
<1> QED BY <1>1, <1>2 DEF checkpoint, Checkpoints

LEMMA TypeStep == TypeInv /\ [Next]_vars => TypeInv'
<1> SUFFICES ASSUME TypeInv, [Next]_vars PROVE TypeInv'
  OBVIOUS
<1> USE CheckpointAssumption DEF TypeInv, TypeOK, AssignedOK, Attested, Writing
<1>1. ASSUME NEW p \in Procs, NEW o \in AnchorOptions, StartAnchor(p, o) PROVE TypeInv'
  <2>1. Picked(p, o, "tip")
    BY <1>1, PickedWays DEF StartAnchor
  <2> QED BY <1>1, <2>1 DEF StartAnchor, Picked, Goto, filevars, history, Steps, Ended
<1>2. ASSUME NEW p \in Procs, NEW o \in VerifyOptions, StartVerify(p, o) PROVE TypeInv'
  <2>1. Loaded(p, o)
    BY <1>2, LoadedWays
  <2>2. IsCheckpoint(data[out]) => data[out] \in Checkpoints
    BY <2>1 DEF Loaded, IsCheckpoint
  <2> QED BY <2>1, <2>2 DEF Loaded, Goto, filevars, history, Steps, Ended
<1>3. ASSUME NEW p \in Procs, WriteKey(p) PROVE TypeInv'
  BY <1>3 DEF WriteKey, RandomKey, Goto, filevars, history, Steps
<1>4. ASSUME NEW p \in Procs, ReadTip(p) PROVE TypeInv'
  BY <1>4 DEF ReadTip, Goto, filevars, history, Steps, Ended
<1>5. ASSUME NEW p \in Procs, AttestFile(p) PROVE TypeInv'
  <2>1. Scheme(p) \in Schemes /\ key[p] \in Keys
    BY DEF Scheme, Schemes, Keys
  <2>2. PICK sig \in Signatures : /\ signed' = signed \cup {sig}
                                  /\ \E c \in Checkpoints : ckpt' = [ckpt EXCEPT ![p] = c]
    BY <1>5, <2>1, AttestTypes DEF AttestFile
  <2> QED BY <1>5, <2>2 DEF AttestFile, Goto, filevars, history, Steps
<1>6. ASSUME NEW p \in Procs, AgentSign(p) PROVE TypeInv'
  <2>1. "secure-enclave" \in Schemes /\ Absent \in Keys /\ agent.id \in Keys
    BY DEF Schemes, Keys
  <2>2. PICK sig \in Signatures : /\ signed' = signed \cup {sig}
                                  /\ \E c \in Checkpoints : ckpt' = [ckpt EXCEPT ![p] = c]
    BY <1>6, <2>1, AttestTypes DEF AgentSign
  <2> QED BY <1>6, <2>2 DEF AgentSign, Goto, filevars, history, Steps
<1>7. ASSUME NEW p \in Procs, AgentPublicKey(p) PROVE TypeInv'
  <2>1. ckpt[p] \in Checkpoints /\ agent.id \in Keys
    BY <1>7 DEF AgentPublicKey, Keys
  <2>2. [ckpt[p] EXCEPT !.public_key = agent.id] \in Checkpoints
    BY <2>1 DEF Checkpoints
  <2>3. ckpt' = [ckpt EXCEPT ![p] = [ckpt[p] EXCEPT !.public_key = agent.id]]
    BY <1>7 DEF AgentPublicKey
  <2> QED BY <1>7, <2>2, <2>3 DEF AgentPublicKey, Goto, filevars, history, Steps
<1>8. ASSUME NEW p \in Procs, AgentFails(p) PROVE TypeInv'
  BY <1>8 DEF AgentFails, Goto, filevars, history, Steps, Ended
<1>9. ASSUME NEW p \in Procs, CreateTmp(p) PROVE TypeInv'
  BY <1>9 DEF CreateTmp, Goto, filevars, history, Steps
<1>10. ASSUME NEW p \in Procs, WriteTmp(p) PROVE TypeInv'
  BY <1>10 DEF WriteTmp, Goto, filevars, history, Steps, Ended
<1>11. ASSUME NEW p \in Procs, SyncTmp(p) PROVE TypeInv'
  BY <1>11 DEF SyncTmp, Goto, filevars, history, Steps, Ended
<1>12. ASSUME NEW p \in Procs, Publish(p) PROVE TypeInv'
  BY <1>12 DEF Publish, Goto, filevars, history, Steps, Ended
<1>13. ASSUME NEW p \in Procs, Check(p) PROVE TypeInv'
  <2>1. \E s \in {"valid", "failed"} : Goto(p, s)
    BY <1>13 DEF Check
  <2> QED BY <1>13, <2>1 DEF Check, Goto, filevars, history, Steps, Ended
<1>14. ASSUME NEW p \in Procs, Kill(p) PROVE TypeInv'
  BY <1>14 DEF Kill, Goto, filevars, history, Steps, Ended
<1>15. CASE PowerLoss
  BY <1>15 DEF PowerLoss, Running, filevars, history, Steps, Ended
<1>16. CASE LedgerGrows
  BY <1>16 DEF LedgerGrows, filevars, history
<1>17. CASE LockChanges
  BY <1>17 DEF LockChanges, filevars, history
<1>18. ASSUME NEW state \in AgentStates, NEW id \in 0..MaxKeys,
              AgentChanges(state, id)
       PROVE  TypeInv'
  BY <1>18 DEF AgentChanges, filevars, history
<1>19. CASE UNCHANGED vars
  BY <1>19 DEF vars, filevars, history
<1> QED
  BY <1>1, <1>2, <1>3, <1>4, <1>5, <1>6, <1>7, <1>8, <1>9, <1>10, <1>11, <1>12, <1>13,
     <1>14, <1>15, <1>16, <1>17, <1>18, <1>19 DEF Next, Step

LEMMA TypeInvAlways == Spec => []TypeInv
BY TypeInit, TypeStep, PTL DEF Spec

\* Every variable of the checkpoint model keeps its type: the key file and the
\* keys read from it, the files behind the two names, what each process has
\* read, attested and written, and everything that was signed.
THEOREM CheckpointTypes == Spec => []TypeOK
<1>1. TypeInv => TypeOK
  BY DEF TypeInv
<1> QED BY <1>1, TypeInvAlways, PTL

(***************************************************************************)
(* write_checkpoint is atomic.                                             *)
(***************************************************************************)

\* p has not created a file yet.
Fresh(p) == pc[p] \in {"new", "genkey", "tip", "attest", "pubkey", "create"}

\* A file is created by the process it is named after, and never has both
\* names.
NamesOK ==
  /\ \A p \in Procs : Fresh(p) => tmp # p /\ out # p
  /\ tmp # Absent => tmp # out

\* There is one writer, it writes the file with the temporary name, and that
\* file is whole, and durable, before it is renamed.
WriterOK ==
  /\ \A p \in Procs, q \in Procs : Writing(p) /\ Writing(q) => p = q
  /\ \A p \in Procs : Writing(p) => tmp = file[p]
  /\ \A p \in Procs : pc[p] = "write" => data[file[p]] = Empty
  /\ \A p \in Procs : pc[p] \in {"sync", "publish"} => IsCheckpoint(data[file[p]])
  /\ \A p \in Procs : pc[p] = "publish" => IsCheckpoint(durable[file[p]])
  /\ out # Absent => IsCheckpoint(data[out]) /\ IsCheckpoint(durable[out])

WholeInv == TypeInv /\ NamesOK /\ (~overlapped => WriterOK)

LEMMA WholeInit == Init => WholeInv
<1> SUFFICES ASSUME Init PROVE WholeInv
  OBVIOUS
<1>1. TypeInv
  BY TypeInit
<1>2. NamesOK
  BY CheckpointAssumption DEF Init, NamesOK
<1>3. WriterOK
  BY DEF Init, WriterOK, Writing
<1> QED BY <1>1, <1>2, <1>3 DEF WholeInv

\* A step that leaves the files and their names alone, and starts no write.
LEMMA WholeKept ==
  ASSUME WholeInv, UNCHANGED <<filevars, file, overlapped>>,
         \A p \in Procs : \/ pc'[p] = pc[p]
                          \/ pc'[p] \notin {"write", "sync", "publish"} /\ (Fresh(p)' => Fresh(p))
  PROVE  NamesOK' /\ (~overlapped' => WriterOK')
<1>1. NamesOK'
  BY DEF WholeInv, NamesOK, Fresh, filevars
<1>2. ASSUME ~overlapped PROVE WriterOK'
  BY <1>2 DEF WholeInv, WriterOK, Writing, filevars, IsCheckpoint
<1> QED BY <1>1, <1>2

LEMMA WholeStep == WholeInv /\ [Next]_vars => WholeInv'
<1> SUFFICES ASSUME WholeInv, [Next]_vars PROVE NamesOK' /\ (~overlapped' => WriterOK')
  BY TypeStep DEF WholeInv
<1> DEFINE Goal == NamesOK' /\ (~overlapped' => WriterOK')
<1>0. TypeOK /\ AssignedOK /\ NamesOK /\ (~overlapped => WriterOK)
  BY DEF WholeInv, TypeInv
<1>1. ASSUME NEW p \in Procs, NEW o \in AnchorOptions, StartAnchor(p, o) PROVE Goal
  <2>1. Picked(p, o, "tip")
    BY <1>1, PickedWays DEF StartAnchor
  <2> QED BY <1>0, <1>1, <2>1, WholeKept DEF StartAnchor, Picked, Goto, history, Fresh, TypeOK
<1>2. ASSUME NEW p \in Procs, NEW o \in VerifyOptions, StartVerify(p, o) PROVE Goal
  <2>1. Loaded(p, o)
    BY <1>2, LoadedWays
  <2> QED BY <1>0, <2>1, WholeKept DEF Loaded, Goto, history, Fresh, TypeOK
<1>3. ASSUME NEW p \in Procs, WriteKey(p) PROVE Goal
  BY <1>0, <1>3, WholeKept DEF WriteKey, Goto, history, Fresh, TypeOK
<1>4. ASSUME NEW p \in Procs, ReadTip(p) PROVE Goal
  BY <1>0, <1>4, WholeKept DEF ReadTip, Goto, history, Fresh, TypeOK
<1>5. ASSUME NEW p \in Procs, AttestFile(p) PROVE Goal
  BY <1>0, <1>5, WholeKept DEF AttestFile, Goto, Fresh, TypeOK
<1>6. ASSUME NEW p \in Procs, AgentSign(p) PROVE Goal
  BY <1>0, <1>6, WholeKept DEF AgentSign, Goto, Fresh, TypeOK
<1>7. ASSUME NEW p \in Procs, AgentPublicKey(p) PROVE Goal
  BY <1>0, <1>7, WholeKept DEF AgentPublicKey, Goto, history, Fresh, TypeOK
<1>8. ASSUME NEW p \in Procs, AgentFails(p) PROVE Goal
  BY <1>0, <1>8, WholeKept DEF AgentFails, Goto, history, Fresh, TypeOK
<1>9. ASSUME NEW p \in Procs, CreateTmp(p) PROVE Goal
  <2>1. PICK f \in Procs : /\ f = (IF tmp = Absent THEN p ELSE tmp)
                           /\ tmp' = f /\ data' = [data EXCEPT ![f] = Empty]
                           /\ file' = [file EXCEPT ![p] = f]
    BY <1>0, <1>9 DEF CreateTmp, TypeOK
  <2>2. f # out /\ \A q \in Procs : q # p /\ Fresh(q) => f # q /\ out # q
    BY <1>0, <1>9, <2>1 DEF CreateTmp, NamesOK, Fresh
  <2>3. NamesOK'
    BY <1>0, <1>9, <2>1, <2>2 DEF CreateTmp, NamesOK, Fresh, Goto, TypeOK
  <2>4. ASSUME ~overlapped' PROVE WriterOK'
    <3>1. ~overlapped /\ \A q \in Procs : q # p => ~Writing(q)
      BY <1>9, <2>4 DEF CreateTmp
    <3>2. \A q \in Procs : q # p => ~Writing(q)'
      BY <1>0, <1>9, <3>1 DEF CreateTmp, Writing, Goto, TypeOK
    <3>3. pc'[p] = "write" /\ file'[p] = f /\ data'[f] = Empty
      BY <1>0, <1>9, <2>1 DEF CreateTmp, Goto, TypeOK
    <3>4. out' # Absent => IsCheckpoint(data'[out']) /\ IsCheckpoint(durable'[out'])
      BY <1>0, <1>9, <2>1, <2>2, <3>1 DEF CreateTmp, WriterOK, TypeOK
    <3> QED BY <2>1, <3>2, <3>3, <3>4 DEF WriterOK, Writing
  <2> QED BY <2>3, <2>4
<1>10. ASSUME NEW p \in Procs, WriteTmp(p) PROVE Goal
  <2>1. NamesOK'
    BY <1>0, <1>10 DEF WriteTmp, NamesOK, Fresh, Goto, TypeOK
  <2>2. ASSUME ~overlapped' PROVE WriterOK'
    <3>1. ~overlapped /\ WriterOK
      BY <1>0, <1>10, <2>2 DEF WriteTmp, history
    <3>2. /\ file[p] \in Procs /\ tmp = file[p] /\ data[file[p]] = Empty
          /\ \A q \in Procs : q # p => ~Writing(q)
      BY <1>0, <1>10, <3>1 DEF WriteTmp, WriterOK, Writing, AssignedOK
    <3>3. \A q \in Procs : q # p => ~Writing(q)'
      BY <1>0, <1>10, <3>2 DEF WriteTmp, Writing, Goto, TypeOK
    <3>4. file[p] # out
      BY <1>0, <3>2, CheckpointAssumption DEF NamesOK
    <3>5. out' # Absent => IsCheckpoint(data'[out']) /\ IsCheckpoint(durable'[out'])
      BY <1>0, <1>10, <3>1, <3>2, <3>4 DEF WriteTmp, WriterOK, TypeOK
    <3>6. pc'[p] = "failed" \/ (pc'[p] = "sync" /\ IsCheckpoint(data'[file[p]]))
      <4>1. IsCheckpoint(ckpt[p])
        BY <1>0, <1>10, CheckpointsShow DEF WriteTmp, AssignedOK, Attested
      <4> QED BY <1>0, <1>10, <3>2, <4>1 DEF WriteTmp, Goto, TypeOK
    <3>7. file' = file /\ tmp' = tmp
      BY <1>10 DEF WriteTmp
    <3> QED BY <3>2, <3>3, <3>5, <3>6, <3>7 DEF WriterOK, Writing
  <2> QED BY <2>1, <2>2
<1>11. ASSUME NEW p \in Procs, SyncTmp(p) PROVE Goal
  <2>1. NamesOK'
    BY <1>0, <1>11 DEF SyncTmp, NamesOK, Fresh, Goto, TypeOK
  <2>2. ASSUME ~overlapped' PROVE WriterOK'
    <3>1. ~overlapped /\ WriterOK
      BY <1>0, <1>11, <2>2 DEF SyncTmp, history
    <3>2. /\ file[p] \in Procs /\ tmp = file[p] /\ IsCheckpoint(data[file[p]])
          /\ \A q \in Procs : q # p => ~Writing(q)
      BY <1>0, <1>11, <3>1 DEF SyncTmp, WriterOK, Writing, AssignedOK
    <3>3. \A q \in Procs : q # p => ~Writing(q)'
      BY <1>0, <1>11, <3>2 DEF SyncTmp, Writing, Goto, TypeOK
    <3>4. /\ \/ pc'[p] = "publish" /\ IsCheckpoint(durable'[file[p]])
             \/ pc'[p] = "failed"
          /\ data' = data /\ file' = file /\ tmp' = tmp
      BY <1>0, <1>11, <3>2 DEF SyncTmp, Goto, TypeOK
    <3>5. out' # Absent => IsCheckpoint(data'[out']) /\ IsCheckpoint(durable'[out'])
      BY <1>0, <1>11, <3>1, <3>2 DEF SyncTmp, WriterOK, TypeOK
    <3> QED BY <3>2, <3>3, <3>4, <3>5 DEF WriterOK, Writing
  <2> QED BY <2>1, <2>2
<1>12. ASSUME NEW p \in Procs, Publish(p) PROVE Goal
  <2>1. NamesOK'
    BY <1>0, <1>12, CheckpointAssumption DEF Publish, NamesOK, Fresh, Goto, TypeOK
  <2>2. ASSUME ~overlapped' PROVE WriterOK'
    <3>1. ~overlapped /\ WriterOK
      BY <1>0, <1>12, <2>2 DEF Publish, history
    <3>2. /\ file[p] \in Procs /\ tmp = file[p] /\ IsCheckpoint(data[tmp])
          /\ IsCheckpoint(durable[tmp]) /\ \A q \in Procs : q # p => ~Writing(q)
      BY <1>0, <1>12, <3>1 DEF Publish, WriterOK, Writing, AssignedOK
    <3>3. \A q \in Procs : ~Writing(q)'
      BY <1>0, <1>12, <3>2 DEF Publish, Writing, Goto, TypeOK
    <3>4. out' # Absent => IsCheckpoint(data'[out']) /\ IsCheckpoint(durable'[out'])
      BY <1>0, <1>12, <3>1, <3>2 DEF Publish, WriterOK
    <3> QED BY <3>3, <3>4 DEF WriterOK, Writing
  <2> QED BY <2>1, <2>2
<1>13. ASSUME NEW p \in Procs, Check(p) PROVE Goal
  <2>1. \E s \in {"valid", "failed"} : Goto(p, s)
    BY <1>13 DEF Check
  <2> QED BY <1>0, <1>13, <2>1, WholeKept DEF Check, Goto, history, Fresh, TypeOK
<1>14. ASSUME NEW p \in Procs, Kill(p) PROVE Goal
  BY <1>0, <1>14, WholeKept DEF Kill, Goto, history, Fresh, TypeOK
<1>15. CASE PowerLoss
  <2>1. \A p \in Procs : ~Writing(p)' /\ (Fresh(p)' => Fresh(p))
    BY <1>0, <1>15 DEF PowerLoss, Running, Ended, Writing, Fresh, TypeOK
  <2>2. NamesOK'
    BY <1>0, <1>15, <2>1 DEF PowerLoss, NamesOK
  <2>3. ASSUME ~overlapped' PROVE WriterOK'
    <3>1. WriterOK
      BY <1>0, <1>15, <2>3 DEF PowerLoss, history
    <3>2. out' # Absent => IsCheckpoint(data'[out']) /\ IsCheckpoint(durable'[out'])
      BY <1>15, <3>1 DEF PowerLoss, WriterOK
    <3> QED BY <2>1, <3>2 DEF WriterOK, Writing
  <2> QED BY <2>2, <2>3
<1>16. CASE LedgerGrows
  BY <1>16, WholeKept DEF LedgerGrows, history
<1>17. CASE LockChanges
  BY <1>17, WholeKept DEF LockChanges, history
<1>18. ASSUME NEW state \in AgentStates, NEW id \in 0..MaxKeys,
              AgentChanges(state, id)
       PROVE  Goal
  BY <1>18, WholeKept DEF AgentChanges, history
<1>19. CASE UNCHANGED vars
  BY <1>19, WholeKept DEF vars, history
<1> QED
  BY <1>1, <1>2, <1>3, <1>4, <1>5, <1>6, <1>7, <1>8, <1>9, <1>10, <1>11, <1>12, <1>13,
     <1>14, <1>15, <1>16, <1>17, <1>18, <1>19 DEF Next, Step

\* write_checkpoint writes, syncs and renames, so that a process that is killed,
\* a write that fails and a power loss leave a whole checkpoint under the final
\* name, as long as no two runs wrote at once.
THEOREM CheckpointAtomic == Spec => []PublishedWhole
<1>1. WholeInv => PublishedWhole
  BY DEF WholeInv, WriterOK, PublishedWhole
<1> QED BY <1>1, WholeInit, WholeStep, PTL DEF Spec

(***************************************************************************)
(* A key file is written once, and a checkpoint names the key that signed  *)
(* it.                                                                     *)
(***************************************************************************)

\* One process at most generates the key; the others read nothing, no bytes
\* or that key.
KeyFileOK ==
  /\ \A p \in Procs, q \in Procs : pc[p] = "genkey" /\ pc[q] = "genkey" => p = q
  /\ \A p \in Procs : pc[p] = "genkey" => keyfile = Empty /\ opt[p] # "agent"
  /\ \A p \in Procs : key[p] \in {Absent, Empty, keyfile}
  /\ \A p \in Procs : pc[p] \in {"tip", "attest"} /\ opt[p] # "agent" => key[p] # Absent

\* c is what attest returns: signed over its own fields, with the key k of the
\* key file, or the agent's as long as that has had one key only.
WellSigned(c, k, id) ==
  /\ c.payload = rebuilt_payload(c)
  /\ c.signature = Signature(c.scheme, c.signature.by, c.payload)
  /\ c.scheme # "secure-enclave" =>
       c.signature.by = c.public_key /\ c.public_key # Absent /\ c.public_key \in {Empty, k}
  /\ c.scheme = "secure-enclave" =>
       id > 0 \/ (c.signature.by = 0 /\ c.public_key \in {0, Absent})

SignedOK ==
  /\ \A p \in Procs : Attested(p) =>
       /\ WellSigned(ckpt[p], keyfile, agent.id)
       /\ IF pc[p] = "pubkey" THEN ckpt[p].scheme = "secure-enclave"
                               ELSE ckpt[p].public_key # Absent
  /\ \A f \in Procs, c \in Checkpoints :
       c \in {data[f], durable[f]} =>
         WellSigned(c, keyfile, agent.id) /\ c.public_key # Absent

SignInv == TypeInv /\ KeyFileOK /\ SignedOK

LEMMA SignInit == Init => SignInv
<1> SUFFICES ASSUME Init PROVE SignInv
  OBVIOUS
<1>1. TypeInv
  BY TypeInit
<1>2. KeyFileOK
  BY DEF Init, KeyFileOK
<1>3. SignedOK
  BY CheckpointAssumption DEF Init, SignedOK, Attested
<1> QED BY <1>1, <1>2, <1>3 DEF SignInv

\* A checkpoint stays well signed when the key file gets its only key, or the
\* agent another one.
LEMMA WellSignedKept ==
  ASSUME NEW c, NEW k, NEW k2, NEW id \in Nat, NEW id2 \in Nat,
         WellSigned(c, k, id), k2 = k \/ k \in {Absent, Empty}, id2 >= id
  PROVE  WellSigned(c, k2, id2)
BY DEF WellSigned

\* What the two attests make is well signed.
LEMMA AttestSigns ==
  ASSUME NEW t, NEW at, NEW scheme, NEW public_key, NEW by, NEW k, NEW id \in Nat,
         scheme # "secure-enclave" =>
           by = public_key /\ public_key # Absent /\ public_key \in {Empty, k},
         scheme = "secure-enclave" => by = id /\ public_key = Absent
  PROVE  WellSigned(checkpoint(t, at, scheme, public_key,
                               Signature(scheme, by, canonical_payload(t, at))), k, id)
BY DEF WellSigned, checkpoint, Signature, rebuilt_payload, canonical_payload

\* A step that attests nothing and writes no file.
LEMMA SignedKept ==
  ASSUME SignInv, TypeOK', UNCHANGED <<data, durable>>,
         keyfile' = keyfile \/ keyfile \in {Absent, Empty}, agent'.id >= agent.id,
         \A p \in Procs : Attested(p)' =>
            ckpt'[p] = ckpt[p] /\ Attested(p) /\ (pc'[p] = "pubkey" <=> pc[p] = "pubkey")
  PROVE  SignedOK'
<1>1. TypeOK /\ AssignedOK /\ SignedOK /\ agent.id \in Nat /\ agent'.id \in Nat
  BY CheckpointAssumption DEF SignInv, TypeInv, TypeOK
<1>2. \A c : WellSigned(c, keyfile, agent.id) => WellSigned(c, keyfile', agent'.id)
  BY <1>1, WellSignedKept
<1> QED BY <1>1, <1>2 DEF SignedOK

\* A step that leaves the keys alone.
LEMMA KeyFileKept ==
  ASSUME KeyFileOK, UNCHANGED <<keyfile, key, opt>>,
         \A p \in Procs : \/ pc'[p] = pc[p]
                          \/ pc'[p] = "attest" /\ pc[p] = "tip"
                          \/ pc'[p] \notin {"genkey", "tip", "attest"}
  PROVE  KeyFileOK'
BY DEF KeyFileOK

LEMMA SignStep == SignInv /\ [Next]_vars => SignInv'
<1> SUFFICES ASSUME SignInv, [Next]_vars PROVE KeyFileOK' /\ SignedOK'
  BY TypeStep DEF SignInv
<1> DEFINE Goal == KeyFileOK' /\ SignedOK'
<1>0. /\ TypeOK /\ TypeOK' /\ AssignedOK /\ KeyFileOK /\ SignedOK
      /\ agent.id \in Nat /\ agent'.id \in Nat
  BY TypeStep, CheckpointAssumption DEF SignInv, TypeInv, TypeOK
<1>1. ASSUME NEW p \in Procs, NEW o \in AnchorOptions, StartAnchor(p, o) PROVE Goal
  <2>1. Picked(p, o, "tip") /\ pc[p] = "new" /\ opt' = [opt EXCEPT ![p] = o]
    BY <1>1, PickedWays DEF StartAnchor
  <2>2. KeyFileOK'
    <3>1. /\ opt'[p] = o /\ pc'[p] \in {"genkey", "failed", "tip"}
          /\ \A q \in Procs : q # p => pc'[q] = pc[q] /\ opt'[q] = opt[q]
      BY <1>0, <2>1 DEF Picked, Goto, TypeOK
    <3>2. CASE /\ keyfile = Absent /\ keyfile' = Empty /\ key' = key /\ pc'[p] = "genkey"
               /\ o # "agent"
      <4>1. \A q \in Procs : pc[q] # "genkey" /\ key[q] \in {Absent, Empty}
        BY <1>0, <3>2, CheckpointAssumption DEF KeyFileOK
      <4>2. \A q \in Procs : pc'[q] = "genkey" => q = p
        BY <3>1, <4>1
      <4> QED BY <1>0, <3>1, <3>2, <4>1, <4>2 DEF KeyFileOK
    <3>3. CASE keyfile' = keyfile /\ key' = key /\ pc'[p] = "failed"
      BY <1>0, <3>1, <3>3 DEF KeyFileOK
    <3>4. CASE keyfile # Absent /\ keyfile' = keyfile /\ key' = [key EXCEPT ![p] = keyfile]
               /\ pc'[p] = "tip"
      <4>1. key'[p] = keyfile /\ \A q \in Procs : q # p => key'[q] = key[q]
        BY <1>0, <3>4 DEF TypeOK
      <4> QED BY <1>0, <3>1, <3>4, <4>1 DEF KeyFileOK
    <3>5. CASE o = "agent" /\ keyfile' = keyfile /\ key' = key /\ pc'[p] = "tip"
      BY <1>0, <3>1, <3>5 DEF KeyFileOK
    <3> QED BY <1>0, <2>1, <3>2, <3>3, <3>4, <3>5 DEF Picked, Goto, TypeOK
  <2>3. SignedOK'
    BY <1>0, <1>1, <2>1, SignedKept DEF StartAnchor, Picked, Goto, filevars, TypeOK, Attested
  <2> QED BY <2>2, <2>3
<1>2. ASSUME NEW p \in Procs, NEW o \in VerifyOptions, StartVerify(p, o) PROVE Goal
  <2>1. Loaded(p, o)
    BY <1>2, LoadedWays
  <2>2. KeyFileOK'
    BY <1>0, <2>1, CheckpointAssumption DEF Loaded, KeyFileOK, Goto, TypeOK
  <2>3. SignedOK'
    BY <1>0, <2>1, SignedKept DEF Loaded, Goto, filevars, TypeOK, Attested
  <2> QED BY <2>2, <2>3
<1>3. ASSUME NEW p \in Procs, WriteKey(p) PROVE Goal
  <2>1. KeyFileOK'
    BY <1>0, <1>3, CheckpointAssumption DEF WriteKey, RandomKey, KeyFileOK, Goto, TypeOK
  <2>2. SignedOK'
    BY <1>0, <1>3, SignedKept DEF WriteKey, KeyFileOK, Goto, filevars, TypeOK, Attested
  <2> QED BY <2>1, <2>2
<1>4. ASSUME NEW p \in Procs, ReadTip(p) PROVE Goal
  <2>1. KeyFileOK'
    BY <1>0, <1>4, KeyFileKept DEF ReadTip, Goto, TypeOK
  <2>2. SignedOK'
    BY <1>0, <1>4, SignedKept DEF ReadTip, Goto, filevars, TypeOK, Attested
  <2> QED BY <2>1, <2>2
<1>5. ASSUME NEW p \in Procs, AttestFile(p) PROVE Goal
  <2>1. KeyFileOK'
    BY <1>0, <1>5, KeyFileKept DEF AttestFile, Goto, TypeOK
  <2>2. PICK c : /\ ckpt' = [ckpt EXCEPT ![p] = c] /\ WellSigned(c, keyfile, agent.id)
                 /\ c.public_key # Absent
    <3>1. Scheme(p) # "secure-enclave"
      BY DEF Scheme
    <3>2. key[p] # Absent /\ key[p] \in {Empty, keyfile}
      BY <1>0, <1>5 DEF AttestFile, KeyFileOK
    <3>3. \A sig : checkpoint(tip[p], p, Scheme(p), key[p], sig).public_key = key[p]
      BY DEF checkpoint
    <3> QED BY <1>0, <1>5, <3>1, <3>2, <3>3, AttestSigns DEF AttestFile
  <2>3. SignedOK'
    BY <1>0, <1>5, <2>2 DEF AttestFile, SignedOK, Goto, filevars, TypeOK, Attested
  <2> QED BY <2>1, <2>3
<1>6. ASSUME NEW p \in Procs, AgentSign(p) PROVE Goal
  <2>1. KeyFileOK'
    BY <1>0, <1>6, KeyFileKept DEF AgentSign, Goto, TypeOK
  <2>2. PICK c : /\ ckpt' = [ckpt EXCEPT ![p] = c] /\ WellSigned(c, keyfile, agent.id)
                 /\ c.scheme = "secure-enclave"
    <3>1. \A sig : checkpoint(tip[p], p, "secure-enclave", Absent, sig).scheme = "secure-enclave"
      BY DEF checkpoint
    <3> QED BY <1>0, <1>6, <3>1, AttestSigns DEF AgentSign
  <2>3. SignedOK'
    BY <1>0, <1>6, <2>2 DEF AgentSign, SignedOK, Goto, filevars, TypeOK, Attested
  <2> QED BY <2>1, <2>3
<1>7. ASSUME NEW p \in Procs, AgentPublicKey(p) PROVE Goal
  <2>1. KeyFileOK'
    BY <1>0, <1>7, KeyFileKept DEF AgentPublicKey, Goto, TypeOK
  <2>2. PICK c : /\ ckpt' = [ckpt EXCEPT ![p] = c] /\ WellSigned(c, keyfile, agent.id)
                 /\ c.public_key # Absent
    <3>1. /\ ckpt[p] \in Checkpoints /\ ckpt[p].scheme = "secure-enclave"
          /\ WellSigned(ckpt[p], keyfile, agent.id)
      BY <1>0, <1>7 DEF AgentPublicKey, AssignedOK, SignedOK, Attested
    <3>2. ckpt' = [ckpt EXCEPT ![p] = [ckpt[p] EXCEPT !.public_key = agent.id]]
      BY <1>7 DEF AgentPublicKey
    <3>3. WellSigned([ckpt[p] EXCEPT !.public_key = agent.id], keyfile, agent.id)
      BY <1>0, <3>1 DEF WellSigned, rebuilt_payload, Checkpoints
    <3>4. agent.id # Absent /\ [ckpt[p] EXCEPT !.public_key = agent.id].public_key = agent.id
      BY <1>0, <3>1, CheckpointAssumption DEF TypeOK, Checkpoints
    <3> QED BY <3>2, <3>3, <3>4
  <2>3. SignedOK'
    BY <1>0, <1>7, <2>2 DEF AgentPublicKey, SignedOK, Goto, filevars, TypeOK, Attested
  <2> QED BY <2>1, <2>3
<1>8. ASSUME NEW p \in Procs, AgentFails(p) PROVE Goal
  <2>1. KeyFileOK'
    BY <1>0, <1>8, KeyFileKept DEF AgentFails, Goto, TypeOK
  <2>2. SignedOK'
    BY <1>0, <1>8, SignedKept DEF AgentFails, Goto, filevars, TypeOK, Attested
  <2> QED BY <2>1, <2>2
<1>9. ASSUME NEW p \in Procs, CreateTmp(p) PROVE Goal
  <2>1. KeyFileOK'
    BY <1>0, <1>9, KeyFileKept DEF CreateTmp, Goto, TypeOK
  <2>2. \A f \in Procs : data'[f] \in {data[f], Empty} /\ durable'[f] = durable[f]
    BY <1>0, <1>9 DEF CreateTmp, TypeOK
  <2>3. SignedOK'
    BY <1>0, <1>9, <2>2, CheckpointAssumption DEF CreateTmp, SignedOK, Goto, TypeOK, Attested
  <2> QED BY <2>1, <2>3
<1>10. ASSUME NEW p \in Procs, WriteTmp(p) PROVE Goal
  <2>1. KeyFileOK'
    BY <1>0, <1>10, KeyFileKept DEF WriteTmp, Goto, TypeOK
  <2>2. \A f \in Procs : data'[f] \in {data[f], ckpt[p], Garbled} /\ durable'[f] = durable[f]
    BY <1>0, <1>10 DEF WriteTmp, TypeOK
  <2>3. WellSigned(ckpt[p], keyfile, agent.id) /\ ckpt[p].public_key # Absent
    BY <1>0, <1>10 DEF WriteTmp, SignedOK, Attested
  <2>4. SignedOK'
    BY <1>0, <1>10, <2>2, <2>3, CheckpointAssumption
       DEF WriteTmp, SignedOK, Goto, TypeOK, Attested
  <2> QED BY <2>1, <2>4
<1>11. ASSUME NEW p \in Procs, SyncTmp(p) PROVE Goal
  <2>1. KeyFileOK'
    BY <1>0, <1>11, KeyFileKept DEF SyncTmp, Goto, TypeOK
  <2>2. \A f \in Procs : durable'[f] \in {data[f], durable[f]} /\ data'[f] = data[f]
    BY <1>0, <1>11 DEF SyncTmp, TypeOK
  <2>3. SignedOK'
    BY <1>0, <1>11, <2>2 DEF SyncTmp, SignedOK, Goto, TypeOK, Attested
  <2> QED BY <2>1, <2>3
<1>12. ASSUME NEW p \in Procs, Publish(p) PROVE Goal
  <2>1. KeyFileOK'
    BY <1>0, <1>12, KeyFileKept DEF Publish, Goto, TypeOK
  <2>2. SignedOK'
    BY <1>0, <1>12, SignedKept DEF Publish, Goto, filevars, TypeOK, Attested
  <2> QED BY <2>1, <2>2
<1>13. ASSUME NEW p \in Procs, Check(p) PROVE Goal
  <2>0. \E s \in {"valid", "failed"} : Goto(p, s)
    BY <1>13 DEF Check
  <2>1. KeyFileOK'
    BY <1>0, <1>13, <2>0, KeyFileKept DEF Check, Goto, TypeOK
  <2>2. SignedOK'
    BY <1>0, <1>13, <2>0, SignedKept DEF Check, Goto, filevars, TypeOK, Attested
  <2> QED BY <2>1, <2>2
<1>14. ASSUME NEW p \in Procs, Kill(p) PROVE Goal
  <2>1. KeyFileOK'
    BY <1>0, <1>14, KeyFileKept DEF Kill, Goto, TypeOK
  <2>2. SignedOK'
    BY <1>0, <1>14, SignedKept DEF Kill, Goto, filevars, TypeOK, Attested
  <2> QED BY <2>1, <2>2
<1>15. CASE PowerLoss
  <2>1. \A p \in Procs : pc'[p] = pc[p] \/ pc'[p] = "dead"
    BY <1>15 DEF PowerLoss
  <2>2. KeyFileOK'
    BY <1>0, <1>15, <2>1, KeyFileKept DEF PowerLoss
  <2>3. SignedOK'
    BY <1>0, <1>15, <2>1 DEF PowerLoss, SignedOK, Attested
  <2> QED BY <2>2, <2>3
<1>16. CASE LedgerGrows
  BY <1>0, <1>16, KeyFileKept, SignedKept DEF LedgerGrows, filevars, Attested
<1>17. CASE LockChanges
  BY <1>0, <1>17, KeyFileKept, SignedKept DEF LockChanges, filevars, Attested
<1>18. ASSUME NEW state \in AgentStates, NEW id \in 0..MaxKeys,
              AgentChanges(state, id)
       PROVE  Goal
  <2>1. agent'.id >= agent.id
    BY <1>0, <1>18 DEF AgentChanges
  <2> QED BY <1>0, <1>18, <2>1, KeyFileKept, SignedKept DEF AgentChanges, filevars, Attested
<1>19. CASE UNCHANGED vars
  BY <1>0, <1>19, KeyFileKept, SignedKept DEF vars, filevars, Attested
<1> QED
  BY <1>1, <1>2, <1>3, <1>4, <1>5, <1>6, <1>7, <1>8, <1>9, <1>10, <1>11, <1>12, <1>13,
     <1>14, <1>15, <1>16, <1>17, <1>18, <1>19 DEF Next, Step

\* A checkpoint stays verifiable: a key file is written once, whoever generates
\* keys at the same time and whoever is killed in between, so the key in it is
\* the one every file anchor signed with; the agent's public key is the one it
\* signed with as long as it has had one key.
THEOREM CheckpointVerifiable == Spec => []PublishedVerifies
<1>1. ASSUME SignInv PROVE PublishedVerifies
  <2> SUFFICES ASSUME Published, data[out].public_key # Empty
               PROVE  LET c == data[out] IN
                      CASE c.scheme = "hmac-sha256" -> VerifyHmac(keyfile, c)
                        [] c.scheme = "ed25519-file" -> VerifyEd25519(keyfile, c)
                        [] c.scheme = "secure-enclave" -> agent.id > 0 \/ VerifyAgent(c)
    BY DEF PublishedVerifies
  <2>1. PICK c \in Checkpoints : c = data[out]
    BY <1>1 DEF SignInv, TypeInv, TypeOK, Published, IsCheckpoint
  <2>2. WellSigned(c, keyfile, agent.id) /\ c.public_key # Absent /\ c.public_key # Empty
    BY <1>1, <2>1 DEF SignInv, SignedOK, TypeInv, TypeOK, Published
  <2>3. payload_binds_fields(c) /\ checkpoint_payload(c) = c.payload
    BY <2>2 DEF WellSigned, payload_binds_fields, checkpoint_payload
  <2>4. CASE c.scheme = "hmac-sha256"
    BY <2>1, <2>2, <2>3, <2>4 DEF WellSigned, VerifyHmac
  <2>5. CASE c.scheme = "ed25519-file"
    BY <2>1, <2>2, <2>3, <2>5 DEF WellSigned, VerifyEd25519
  <2>6. CASE c.scheme = "secure-enclave"
    BY <2>1, <2>2, <2>3, <2>6 DEF WellSigned, VerifyAgent
  <2> QED BY <2>1, <2>4, <2>5, <2>6 DEF Checkpoints, Schemes
<1> QED BY <1>1, SignInit, SignStep, PTL DEF Spec

(***************************************************************************)
(* What a signature covers.                                                *)
(***************************************************************************)

\* Whatever checkpoint one of the anchors accepts, its fields are the ones the
\* signature covers: payload_binds_fields is what makes the stored payload
\* stand for them.
LEMMA AcceptedIsSigned ==
  ASSUME NEW c, NEW k, VerifyHmac(k, c) \/ VerifyEd25519(k, c) \/ VerifyAgent(c)
  PROVE  c.signature.over = rebuilt_payload(c)
<1>1. checkpoint_payload(c) = rebuilt_payload(c)
  BY DEF VerifyHmac, VerifyEd25519, VerifyAgent, payload_binds_fields, checkpoint_payload
<1>2. c.signature.over = checkpoint_payload(c)
  BY DEF VerifyHmac, VerifyEd25519, VerifyAgent, Signature
<1> QED BY <1>1, <1>2

\* Every signature covers a tip that the ledger has had.
TrueTips ==
  /\ \A p \in Procs : tip[p] \in 0..len
  /\ \A s \in signed : \E t \in 0..len, at \in Procs : s.over = canonical_payload(t, at)

TipInv == TypeOK /\ AssignedOK /\ TrueTips

LEMMA TipStep == TipInv /\ [Next]_vars => TipInv'
<1> SUFFICES ASSUME TipInv, [Next]_vars PROVE TrueTips'
  BY TypeStep DEF TipInv, TypeInv
<1>1. TypeOK /\ TypeOK' /\ TrueTips /\ len \in Nat /\ len' \in Nat
  BY TypeStep, CheckpointAssumption DEF TipInv, TypeInv, TypeOK
<1>2. len' >= len
  BY <1>1 DEF Next, Step, vars, StartAnchor, StartVerify, WriteKey, ReadTip, AttestFile, AgentSign,
     AgentPublicKey, AgentFails, CreateTmp, WriteTmp, SyncTmp, Publish, Check, Kill, PowerLoss,
     LedgerGrows, LockChanges, AgentChanges
<1>3. (tip' = tip /\ signed' = signed) \/ \E p \in Procs : ReadTip(p) \/ AttestFile(p) \/ AgentSign(p)
  BY DEF Next, Step, vars, history, StartAnchor, StartVerify, WriteKey, AgentPublicKey, AgentFails,
     CreateTmp, WriteTmp, SyncTmp, Publish, Check, Kill, PowerLoss, LedgerGrows, LockChanges, AgentChanges
<1>4. CASE tip' = tip /\ signed' = signed
  BY <1>1, <1>2, <1>4 DEF TrueTips
<1>5. ASSUME NEW p \in Procs, ReadTip(p) PROVE TrueTips'
  BY <1>1, <1>5 DEF ReadTip, TrueTips, TypeOK, history
<1>6. ASSUME NEW p \in Procs, AttestFile(p) PROVE TrueTips'
  <2>1. signed' = signed \cup {Signature(Scheme(p), key[p], canonical_payload(tip[p], p))}
    BY <1>6 DEF AttestFile
  <2>2. tip' = tip /\ len' = len
    BY <1>6 DEF AttestFile
  <2> QED BY <1>1, <2>1, <2>2 DEF TrueTips, Signature
<1>7. ASSUME NEW p \in Procs, AgentSign(p) PROVE TrueTips'
  <2>1. signed' = signed \cup {Signature("secure-enclave", agent.id, canonical_payload(tip[p], p))}
    BY <1>7 DEF AgentSign
  <2>2. tip' = tip /\ len' = len
    BY <1>7 DEF AgentSign
  <2> QED BY <1>1, <2>1, <2>2 DEF TrueTips, Signature
<1> QED BY <1>3, <1>4, <1>5, <1>6, <1>7

\* Whatever checkpoint is put together from an existing signature, other fields
\* and any payload, an anchor's verify accepts it only if the ledger has had the
\* tip that it describes.
THEOREM ForgeriesRefused == Spec => []ForgeryRefused
<1>1. Init => TipInv
  <2> SUFFICES ASSUME Init PROVE TipInv
    OBVIOUS
  <2>1. TypeOK /\ AssignedOK
    BY TypeInit DEF TypeInv
  <2>2. TrueTips
    BY DEF Init, TrueTips
  <2> QED BY <2>1, <2>2 DEF TipInv
<1>2. ASSUME TipInv PROVE ForgeryRefused
  <2> SUFFICES ASSUME NEW c \in Forgeries,
                      \/ VerifyHmac(c.signature.by, c)
                      \/ VerifyEd25519(c.signature.by, c)
                      \/ VerifyAgent(c)
               PROVE  \E t \in 0..len : rebuilt_payload(c) = canonical_payload(t, c.signed_at)
    BY DEF ForgeryRefused
  <2>1. c.signature \in signed
    BY DEF Forgeries
  <2>2. c.signature.over = rebuilt_payload(c)
    BY AcceptedIsSigned
  <2>3. PICK t \in 0..len, at \in Procs : rebuilt_payload(c) = canonical_payload(t, at)
    BY <1>2, <2>1, <2>2 DEF TipInv, TrueTips
  <2>4. at = c.signed_at
    BY <2>3 DEF rebuilt_payload, canonical_payload
  <2> QED BY <2>3, <2>4
<1> QED BY <1>1, <1>2, TipStep, PTL DEF Spec
=============================================================================
