----------------------------- MODULE CliProofs -----------------------------
(***************************************************************************)
(* Proofs about module Cli, for any processes, commands and sources: types *)
(* and the lock, the seeds, one log for all processes, what a report       *)
(* means, followers and imports.  Only Init and Next are used, never the   *)
(* fairness.                                                               *)
(***************************************************************************)
EXTENDS Cli, SequenceFacts

(***************************************************************************)
(* Types and the lock.                                                     *)
(***************************************************************************)

\* The conjuncts of TypeOK about files.
FilesOK ==
  /\ path \in Files
  /\ DOMAIN disk = Files /\ \A f \in Files : IsSequence(disk[f])
  /\ synced \in [Files -> Nat] /\ \A f \in Files : synced[f] <= Len(disk[f])
  /\ torn \subseteq Files
  /\ keysfile \in kept /\ kept \subseteq KeyFiles

\* The others.
ProcsOK ==
  /\ lock \in Procs \cup {NoProc} /\ outage \in BOOLEAN
  /\ pc \in [Procs -> Steps] /\ cmd \in [Procs -> AllCommands \cup {"none"}]
  /\ keys \in [Procs -> Seq(KeyLines)]
  /\ at \in [Procs -> Files] /\ n \in [Procs -> Nat]
  /\ DOMAIN src = Procs /\ DOMAIN h = Procs /\ DOMAIN prev = Procs
  /\ \A p \in Procs :
       pc[p] \in {"open", "stdin", "newkey", "newline", "write", "wrote", "read"} <=> lock = p

LEMMA TypeParts == TypeOK <=> FilesOK /\ ProcsOK
BY DEF TypeOK, FilesOK, ProcsOK

\* Each command starts with the steps it is made of.
StepsOf ==
  [new |-> {"none"}, flock |-> AllCommands \ {"import", "public"},
   open |-> AllCommands \ {"import", "public"},
   stdin |-> {"stdin"}, newkey |-> {"rotate"}, newline |-> {"rotate"},
   write |-> {"append", "durable", "stdin", "seal", "rotate"},
   wrote |-> {"append", "durable", "stdin", "seal", "rotate"},
   read |-> {"read", "tail"}, public |-> {"public"}, seek |-> {"tail"}, follow |-> {"tail"},
   import |-> {"import"}, rename |-> {"import"}]

\* A process runs the steps of its own command.
InCommand == \A p \in Procs : pc[p] \notin Ended => cmd[p] \in StepsOf[pc[p]]

LEMMA TypeInit == Init => TypeOK /\ InCommand
<1> SUFFICES ASSUME Init PROVE TypeOK /\ InCommand
  OBVIOUS
<1>1. IsSequence(<< >>) /\ Len(<< >>) = 0
  BY DEF IsSequence
<1>2. FilesOK
  <2>1. keysfile \in kept /\ kept \subseteq KeyFiles /\ torn = {}
    <3>1. <<Seed0>> \in KeyLines
      BY DEF KeyLines
    <3>2. <<<<Seed0>>>> \in Seq(KeyLines)
      BY <3>1
    <3>3. FirstKeys \in KeyFiles
      BY <3>2, CliAssumption DEF FirstKeys, KeyFiles
    <3> QED BY <3>3 DEF Init
  <2>2. path \in Files /\ DOMAIN disk = Files /\ synced \in [Files -> Nat]
    BY DEF Init, Files
  <2>3. \A f \in Files : disk[f] = << >> /\ synced[f] = 0
    BY DEF Init
  <2> QED BY <1>1, <2>1, <2>2, <2>3 DEF FilesOK
<1>3. ProcsOK
  <2>1. << >> \in Seq(KeyLines)
    OBVIOUS
  <2>2. /\ pc \in [Procs -> Steps] /\ cmd \in [Procs -> AllCommands \cup {"none"}]
        /\ at \in [Procs -> Files] /\ n \in [Procs -> Nat]
        /\ keys \in [Procs -> Seq(KeyLines)]
    BY <2>1 DEF Init, Steps, Files
  <2>3. \A p \in Procs : pc[p] = "new" /\ lock # p
    BY CliAssumption DEF Init
  <2> QED BY <2>2, <2>3 DEF Init, ProcsOK
<1>4. InCommand
  BY DEF Init, InCommand, StepsOf
<1> QED BY <1>2, <1>3, <1>4, TypeParts

LEMMA ExitProcs ==
  ASSUME ProcsOK, InCommand, NEW p \in Procs, NEW how \in Ended, Exit(p, how), outage' = outage
  PROVE  ProcsOK' /\ InCommand'
<1>1. << >> \in Seq(KeyLines)
  OBVIOUS
<1>2. ProcsOK'
  BY <1>1, CliAssumption DEF ProcsOK, Exit, Goto, Steps, Ended
<1>3. InCommand'
  BY DEF ProcsOK, InCommand, Exit, Goto
<1> QED BY <1>2, <1>3

\* One more line in file f, which is then synced or not.
LEMMA AppendFiles ==
  ASSUME FilesOK, NEW f \in Files, NEW e, disk' = [disk EXCEPT ![f] = Append(@, e)],
         UNCHANGED <<path, torn, keyfiles>>,
         synced' = synced \/ synced' = [synced EXCEPT ![f] = Len(disk'[f])]
  PROVE  FilesOK'
<1>1. IsSequence(disk[f]) /\ disk'[f] = Append(disk[f], e)
  BY DEF FilesOK
<1>2. IsSequence(disk'[f]) /\ Len(disk[f]) \in Nat /\ Len(disk'[f]) = Len(disk[f]) + 1
  BY <1>1, AppendFacts
<1>3. \A g \in Files : g # f => disk'[g] = disk[g]
  BY DEF FilesOK
<1>4. DOMAIN disk' = Files /\ \A g \in Files : IsSequence(disk'[g])
  BY <1>2, <1>3 DEF FilesOK
<1>5. synced' \in [Files -> Nat] /\ \A g \in Files : synced'[g] <= Len(disk'[g])
  <2>1. CASE synced' = synced
    BY <2>1, <1>2, <1>3 DEF FilesOK
  <2>2. CASE synced' = [synced EXCEPT ![f] = Len(disk'[f])]
    BY <2>2, <1>2, <1>3 DEF FilesOK
  <2> QED BY <2>1, <2>2
<1> QED BY <1>4, <1>5 DEF FilesOK, keyfiles

\* Text at the end of the keys file leaves a keys file.
LEMMA TypedOK ==
  ASSUME keysfile \in KeyFiles, NEW text \in Procs \cup {Seed0, Piece}
  PROVE  Typed(text) \in KeyFiles
<1>1. PICK L : L = keysfile.lines /\ L \in Seq(KeyLines)
  BY DEF KeyFiles
<1>2. <<text>> \in KeyLines /\ \A l \in KeyLines : Append(l, text) \in KeyLines
  BY DEF KeyLines
<1>3. Append(L, <<text>>) \in Seq(KeyLines)
  BY <1>1, <1>2
<1>4. [L EXCEPT ![Len(L)] = Append(@, text)] \in Seq(KeyLines)
  <2>1. Len(L) \in Nat /\ L \in [1..Len(L) -> KeyLines]
    BY <1>1, LenProperties
  <2>2. PICK k \in Nat : k = Len(L) /\ L \in [1..k -> KeyLines]
    BY <2>1, Zenon
  <2>3. [L EXCEPT ![k] = Append(@, text)] \in [1..k -> KeyLines]
    <3>1. CASE k \in 1..k
      <4>1. Append(L[k], text) \in KeyLines
        BY <1>2, <2>2, <3>1
      <4> QED BY <2>2, <4>1
    <3>2. CASE k \notin 1..k
      BY <2>2, <3>2
    <3> QED BY <3>1, <3>2
  <2>4. [1..k -> KeyLines] \in {[1..m -> KeyLines] : m \in Nat}
    OBVIOUS
  <2> QED BY <2>2, <2>3, <2>4, SeqDef, Zenon
<1> QED BY <1>1, <1>3, <1>4 DEF Typed, KeyFiles

LEMMA TypeStep == TypeOK /\ InCommand /\ [Next]_vars => TypeOK' /\ InCommand'
<1> SUFFICES ASSUME TypeOK, InCommand, [Next]_vars PROVE FilesOK' /\ ProcsOK' /\ InCommand'
  BY DEF TypeOK, FilesOK, ProcsOK
<1> DEFINE Goal == FilesOK' /\ ProcsOK' /\ InCommand'
<1>0. FilesOK /\ ProcsOK /\ InCommand
  BY TypeParts
<1>1. ASSUME NEW p \in Procs, NEW c \in AllCommands, NEW s, Start(p, c, s) PROVE Goal
  <2>1. FilesOK'
    BY <1>0, <1>1 DEF Start, FilesOK, files, keyfiles
  <2>0. keysfile.lines \in Seq(KeyLines)
    BY <1>0 DEF FilesOK, KeyFiles
  <2>2. ProcsOK'
    BY <1>0, <1>1, <2>0, CliAssumption DEF Start, ProcsOK, Goto, Steps, Ended, AllCommands
  <2>3. InCommand'
    <3>1. PICK step \in {"import", "public", "flock"} :
            /\ pc' = [pc EXCEPT ![p] = step] /\ cmd' = [cmd EXCEPT ![p] = c]
            /\ step \in {"import", "public"} => c = step
            /\ step = "flock" => c \notin {"import", "public"}
      BY <1>1 DEF Start, Goto
    <3>2. c \in StepsOf[step]
      BY <3>1 DEF StepsOf
    <3> QED BY <1>0, <3>1, <3>2 DEF ProcsOK, InCommand
  <2> QED BY <2>1, <2>2, <2>3
<1>2. ASSUME NEW p \in Procs, pick_seal_signer(p) PROVE Goal
  <2>1. FilesOK'
    BY <1>0, <1>2 DEF pick_seal_signer, FilesOK, files, keyfiles
  <2>2. ProcsOK' /\ InCommand'
    BY <1>0, <1>2, CliAssumption
       DEF pick_seal_signer, ProcsOK, InCommand, StepsOf, Goto, locals, Steps, Ended, AllCommands
  <2> QED BY <2>1, <2>2
<1>3. ASSUME NEW p \in Procs, Acquire(p) PROVE Goal
  <2>1. FilesOK'
    BY <1>0, <1>3 DEF Acquire, FilesOK, files, keyfiles
  <2>2. ProcsOK' /\ InCommand'
    BY <1>0, <1>3, CliAssumption
       DEF Acquire, ProcsOK, InCommand, StepsOf, Goto, locals, Steps, Ended, AllCommands
  <2> QED BY <2>1, <2>2
<1>4. ASSUME NEW p \in Procs, OpenLedger(p) PROVE Goal
  <2>1. FilesOK'
    BY <1>0, <1>4 DEF OpenLedger, FilesOK, files, keyfiles
  <2>2. CASE Exit(p, "failed") /\ outage' = outage
    BY <1>0, <2>1, <2>2, ExitProcs DEF Ended
  <2>3. CASE ~Exit(p, "failed")
    <3>0. cmd[p] \in AllCommands \ {"import", "public"}
      BY <1>0, <1>4 DEF OpenLedger, InCommand, StepsOf, Ended
    <3>1. /\ pc[p] = "open" /\ lock = p
          /\ DOMAIN h' = DOMAIN h /\ pc' = [pc EXCEPT ![p] = AfterOpen(cmd[p])]
          /\ UNCHANGED <<lock, outage, cmd, src, keys, at, n, prev>>
      BY <1>0, <1>4, <2>3 DEF OpenLedger, Goto, ProcsOK
    <3>2. /\ AfterOpen(cmd[p]) \in {"write", "stdin", "newkey", "read"}
          /\ cmd[p] \in StepsOf[AfterOpen(cmd[p])]
      BY <3>0 DEF AfterOpen, AllCommands, StepsOf
    <3>3. PICK step \in {"write", "stdin", "newkey", "read"} :
            cmd[p] \in StepsOf[step] /\ pc' = [pc EXCEPT ![p] = step]
      BY <3>1, <3>2
    <3>4. ProcsOK'
      BY <1>0, <3>1, <3>3 DEF ProcsOK, Steps
    <3>5. InCommand'
      BY <1>0, <3>1, <3>3 DEF ProcsOK, InCommand
    <3> QED BY <2>1, <3>4, <3>5
  <2> QED BY <1>4, <2>2, <2>3 DEF OpenLedger
<1>5. ASSUME NEW p \in Procs, ReadBody(p) PROVE Goal
  <2>1. FilesOK'
    BY <1>0, <1>5 DEF ReadBody, FilesOK, files, keyfiles
  <2>2. ProcsOK' /\ InCommand'
    BY <1>0, <1>5, CliAssumption
       DEF ReadBody, ProcsOK, InCommand, StepsOf, Goto, locals, Steps, Ended, AllCommands
  <2> QED BY <2>1, <2>2
<1>6. ASSUME NEW p \in Procs, StoreSeed(p) \/ EndSeed(p) PROVE Goal
  <2>0. keysfile \in KeyFiles
    BY <1>0 DEF FilesOK
  <2>1. keysfile' \in kept' /\ kept' \subseteq KeyFiles
    <3>1. Typed(Piece) \in KeyFiles /\ Typed(p) \in KeyFiles
      BY <2>0, TypedOK
    <3>2. [keysfile EXCEPT !.eol = TRUE] \in KeyFiles
      BY <2>0 DEF KeyFiles
    <3>3. keysfile \in kept /\ kept \subseteq KeyFiles
      BY <1>0 DEF FilesOK
    <3> QED BY <1>6, <3>1, <3>2, <3>3 DEF StoreSeed, EndSeed, keyfiles
  <2>2. FilesOK'
    BY <1>0, <1>6, <2>1 DEF StoreSeed, EndSeed, FilesOK
  <2>3. CASE Exit(p, "failed")
    BY <1>0, <1>6, <2>2, <2>3, ExitProcs DEF StoreSeed, EndSeed, Ended
  <2>4. CASE ~Exit(p, "failed")
    <3>1. PICK step \in {"newline", "write"} :
            /\ pc[p] \in {"newkey", "newline"} /\ pc' = [pc EXCEPT ![p] = step]
            /\ UNCHANGED <<lock, outage, locals>>
      BY <1>6, <2>4 DEF StoreSeed, EndSeed, Goto
    <3>2. ProcsOK' /\ InCommand'
      BY <1>0, <3>1 DEF ProcsOK, InCommand, StepsOf, locals, Steps, Ended
    <3> QED BY <2>2, <3>2
  <2> QED BY <2>3, <2>4
<1>7. ASSUME NEW p \in Procs, Write(p) PROVE Goal
  <2>0. path \in Files /\ path' = path /\ outage' = outage /\ UNCHANGED keyfiles
    BY <1>0, <1>7 DEF FilesOK, Write
  <2>1. FilesOK'
    <3>1. CASE UNCHANGED <<disk, synced>> /\ torn' \in {torn, torn \cup {path}}
      BY <1>0, <2>0, <3>1 DEF FilesOK, keyfiles
    <3>2. CASE /\ disk' = [disk EXCEPT ![path] = Append(@, NewEntry(p))] /\ UNCHANGED torn
               /\ synced' = synced \/ synced' = [synced EXCEPT ![path] = Len(disk'[path])]
      BY <1>0, <2>0, <3>2, AppendFiles
    <3> QED BY <1>7, <3>1, <3>2 DEF Write
  <2>2. WriteOutcome(p) \ {"append"} \subseteq Ended
    BY DEF WriteOutcome, SealOutcome, Ended
  <2>3. ASSUME NEW how \in Ended, Exit(p, how) PROVE Goal
    BY <1>0, <2>0, <2>1, <2>3, ExitProcs
  <2>4. CASE Goto(p, "wrote") /\ UNCHANGED <<lock, locals>>
    <3>1. ProcsOK' /\ InCommand'
      BY <1>0, <1>7, <2>0, <2>4 DEF Write, ProcsOK, InCommand, StepsOf, Goto, locals, Steps, Ended
    <3> QED BY <2>1, <3>1
  <2>5. \/ \E how \in Ended : Exit(p, how)
        \/ Goto(p, "wrote") /\ UNCHANGED <<lock, locals>>
    BY <1>7, <2>2 DEF Write, Ended
  <2> QED BY <2>3, <2>4, <2>5
<1>8. ASSUME NEW p \in Procs, Report(p) PROVE Goal
  <2>1. FilesOK'
    BY <1>0, <1>8 DEF Report, FilesOK, files, keyfiles
  <2> QED BY <1>0, <1>8, <2>1, ExitProcs DEF Report, Ended
<1>9. ASSUME NEW p \in Procs, Read(p) PROVE Goal
  <2>1. FilesOK'
    BY <1>0, <1>9 DEF Read, FilesOK, files, keyfiles
  <2>2. CASE Exit(p, "done") \/ Exit(p, "failed")
    BY <1>0, <1>9, <2>1, <2>2, ExitProcs DEF Read, Ended
  <2>3. CASE cmd[p] = "tail" /\ lock' = NoProc /\ Goto(p, "seek") /\ UNCHANGED locals
    <3>1. ProcsOK' /\ InCommand'
      BY <1>0, <1>9, <2>3, CliAssumption
         DEF Read, ProcsOK, InCommand, StepsOf, Goto, locals, Steps, Ended
    <3> QED BY <2>1, <3>1
  <2> QED BY <1>9, <2>2, <2>3 DEF Read
<1>10. ASSUME NEW p \in Procs, PublicVerify(p) PROVE Goal
  <2>1. FilesOK'
    BY <1>0, <1>10 DEF PublicVerify, FilesOK, files, keyfiles
  <2>2. \E how \in Ended : Exit(p, how)
    BY <1>10 DEF PublicVerify, Ended
  <2> QED BY <1>0, <1>10, <2>1, <2>2, ExitProcs DEF PublicVerify
<1>11. ASSUME NEW p \in Procs, Seek(p) PROVE Goal
  <2>1. FilesOK' /\ path \in Files /\ Len(disk[path]) \in Nat
    BY <1>0, <1>11, LenNat DEF Seek, FilesOK, files, keyfiles
  <2>2. ProcsOK' /\ InCommand'
    BY <1>0, <1>11, <2>1, CliAssumption
       DEF Seek, ProcsOK, InCommand, StepsOf, Goto, locals, Steps, Ended
  <2> QED BY <2>1, <2>2
<1>12. ASSUME NEW p \in Procs, Follow(p) PROVE Goal
  <2>1. FilesOK'
    BY <1>0, <1>12 DEF Follow, FilesOK, files, keyfiles
  <2>2. ProcsOK' /\ InCommand'
    BY <1>0, <1>12, CliAssumption
       DEF Follow, ProcsOK, InCommand, StepsOf, Goto, locals, Steps, Ended, AllCommands
  <2> QED BY <2>1, <2>2
<1>13. ASSUME NEW p \in Procs, ImportLine(p) PROVE Goal
  <2>1. CASE Exit(p, "failed") /\ UNCHANGED <<files, outage>>
    <3>1. FilesOK'
      BY <1>0, <2>1 DEF FilesOK, files, keyfiles
    <3> QED BY <1>0, <2>1, <3>1, ExitProcs DEF Ended
  <2>2. CASE ~(Exit(p, "failed") /\ UNCHANGED <<files, outage>>)
    <3>1. PICK e, q : /\ disk' = [disk EXCEPT ![p] = Append(@, e)]
                      /\ n' = [n EXCEPT ![p] = @ + 1] /\ prev' = [prev EXCEPT ![p] = q]
                      /\ UNCHANGED <<path, synced, torn, keyfiles, lock, outage, pc, cmd, src, keys, h, at>>
      BY <1>13, <2>2 DEF ImportLine
    <3>2. FilesOK'
      BY <1>0, <3>1, AppendFiles DEF Files
    <3>3. ProcsOK' /\ InCommand'
      BY <1>0, <3>1 DEF ProcsOK, InCommand
    <3> QED BY <3>2, <3>3
  <2> QED BY <1>13, <2>1, <2>2 DEF ImportLine
<1>14. ASSUME NEW p \in Procs, ImportCheck(p) PROVE Goal
  <2>1. CASE Exit(p, "failed") /\ UNCHANGED <<files, outage>>
    <3>1. FilesOK'
      BY <1>0, <2>1 DEF FilesOK, files, keyfiles
    <3> QED BY <1>0, <2>1, <3>1, ExitProcs DEF Ended
  <2>2. CASE ~(Exit(p, "failed") /\ UNCHANGED <<files, outage>>)
    <3>1. /\ pc[p] = "import" /\ synced' = [synced EXCEPT ![p] = Len(disk[p])] /\ Goto(p, "rename")
          /\ UNCHANGED <<path, disk, torn, keyfiles, lock, outage, locals>>
      BY <1>14, <2>2 DEF ImportCheck
    <3>2. p \in Files /\ Len(disk[p]) \in Nat
      BY <1>0, LenNat DEF FilesOK, Files
    <3>3. FilesOK'
      BY <1>0, <3>1, <3>2 DEF FilesOK, keyfiles
    <3>4. ProcsOK' /\ InCommand'
      BY <1>0, <3>1, CliAssumption
         DEF ProcsOK, InCommand, StepsOf, Goto, locals, Steps, Ended
    <3> QED BY <3>3, <3>4
  <2> QED BY <1>14, <2>1, <2>2 DEF ImportCheck
<1>15. ASSUME NEW p \in Procs, Rename(p) PROVE Goal
  <2>1. FilesOK'
    BY <1>0, <1>15 DEF Rename, FilesOK, Files, keyfiles
  <2> QED BY <1>0, <1>15, <2>1, ExitProcs DEF Rename, Ended
<1>16. ASSUME NEW p \in Procs, Kill(p) PROVE Goal
  <2>1. FilesOK'
    BY <1>0, <1>16 DEF Kill, FilesOK, files, keyfiles
  <2> QED BY <1>0, <1>16, <2>1, ExitProcs DEF Kill, Ended
<1>17. CASE PowerLoss
  <2>1. PICK k \in synced[path]..Len(disk[path]) : disk' = [disk EXCEPT ![path] = SubSeq(@, 1, k)]
    BY <1>17 DEF PowerLoss
  <2>2. /\ path \in Files /\ IsSequence(disk[path]) /\ k \in 0..Len(disk[path]) /\ k \in Nat
        /\ k >= synced[path] /\ disk'[path] = SubSeq(disk[path], 1, k)
        /\ \A g \in Files : g # path => disk'[g] = disk[g]
    BY <1>0, <2>1, LenNat DEF FilesOK
  <2>3. IsSequence(disk'[path]) /\ Len(disk'[path]) = k
    BY <2>2, SubSeqFacts
  <2>4. FilesOK'
    BY <1>0, <1>17, <2>1, <2>2, <2>3 DEF PowerLoss, FilesOK
  <2>5. << >> \in Seq(KeyLines)
    OBVIOUS
  <2>6. \A p \in Procs : pc'[p] \in Ended \cup {"new"} /\ (pc'[p] = "new" => pc[p] = "new")
    BY <1>0, <1>17 DEF PowerLoss, Running, ProcsOK, Ended
  <2>7. ProcsOK'
    BY <1>0, <1>17, <2>5, <2>6, CliAssumption DEF PowerLoss, ProcsOK, Steps, Ended
  <2>8. InCommand'
    BY <1>0, <1>17, <2>6 DEF PowerLoss, InCommand, ProcsOK, Ended
  <2> QED BY <2>4, <2>7, <2>8
<1>18. CASE UNCHANGED vars
  <2>1. FilesOK' /\ ProcsOK' /\ InCommand'
    BY <1>0, <1>18 DEF vars, files, keyfiles, locals, FilesOK, ProcsOK, InCommand
  <2> QED BY <2>1
<1>19. \A p \in Procs : Commands[p] \subseteq AllCommands
  BY CliAssumption
<1> QED
  BY <1>1, <1>2, <1>3, <1>4, <1>5, <1>6, <1>7, <1>8, <1>9, <1>10, <1>11, <1>12, <1>13, <1>14,
     <1>15, <1>16, <1>17, <1>18, <1>19 DEF Next, Step, AllCommands

\* Every variable of the command line keeps its type, and the flock admits one
\* process at a time to the ledger, whoever waits, fails or is killed.
THEOREM CliTypes == Spec => []TypeOK
BY TypeInit, TypeStep, PTL DEF Spec

(***************************************************************************)
(* What a scan finds.                                                      *)
(***************************************************************************)

\* A scan without a fault has met a line without a fault everywhere.
LEMMA NoFirstFault ==
  ASSUME NEW f, IsSequence(f), NEW ks
  PROVE  FirstFault(f, ks) = "none" <=> \A i \in 1..Len(f) : LineFault(f, i, ks) = "none"
<1> DEFINE bad == {i \in 1..Len(f) : LineFault(f, i, ks) # "none"}
<1>1. bad \subseteq Nat
  BY LenNat
<1>2. bad # {} => LineFault(f, Min(bad), ks) # "none"
  BY <1>1, MinFacts
<1>3. FirstFault(f, ks) = IF bad = {} THEN "none" ELSE LineFault(f, Min(bad), ks)
  BY DEF FirstFault
<1> HIDE DEF bad
<1>4. FirstFault(f, ks) = "none" <=> bad = {}
  BY <1>2, <1>3
<1> QED BY <1>4 DEF bad

LEMMA NoLineFault ==
  ASSUME NEW f, NEW i, NEW ks
  PROVE  LineFault(f, i, ks) = "none" <=>
           /\ ~IsSeal(f[i]) \/ parse_body(f[i])
           /\ HasKey(ks, f[i].epoch) /\ ChainLinked(f, i)
           /\ MacUnder(f, i, entry_key(ks, f[i].epoch, SealsThrough(f, i), f[i].v))
BY DEF LineFault

\* The handle has its six fields.
HandleOK(x) ==
  /\ DOMAIN x = {"last_hash", "seq", "epoch", "seals_seen", "sealed_through", "compromised"}
  /\ x.seq \in Nat /\ x.epoch \in Nat /\ x.compromised \in BOOLEAN

LEMMA NoHandleOK ==
  /\ HandleOK(NoHandle) /\ NoHandle.seq = 0 /\ ~NoHandle.compromised
  /\ HandleOK([NoHandle EXCEPT !.compromised = TRUE])
  /\ [NoHandle EXCEPT !.compromised = TRUE].compromised
  /\ [NoHandle EXCEPT !.compromised = TRUE].seq = 0
<1>1. HandleOK(NoHandle) /\ NoHandle.seq = 0 /\ ~NoHandle.compromised
  BY DEF HandleOK, NoHandle
<1>2. PICK x : x = [NoHandle EXCEPT !.compromised = TRUE]
  OBVIOUS
<1>3. DOMAIN x = DOMAIN NoHandle /\ x.seq = NoHandle.seq /\ x.epoch = NoHandle.epoch
  BY <1>1, <1>2 DEF HandleOK
<1>4. x.compromised = TRUE
  BY <1>1, <1>2 DEF HandleOK
<1> QED BY <1>1, <1>2, <1>3, <1>4 DEF HandleOK

\* The scan's handle stands at the end of the file, in the highest epoch it
\* met, for which it has a key.
LEMMA ScannedFacts ==
  ASSUME NEW f, IsSequence(f), NEW S, NEW ks \in Seq(S), Len(ks) >= 1,
         FirstFault(f, ks) = "none", \A i \in 1..Len(f) : f[i].epoch \in Nat
  PROVE  LET x == Scanned(f) IN
         /\ HandleOK(x) /\ ~x.compromised /\ x.epoch < Len(ks)
         /\ x.seq = Len(f) /\ x.last_hash = LastHash(f, Len(f) + 1)
         /\ \A i \in 1..Len(f) : f[i].epoch <= x.epoch
         /\ x.epoch = 0 \/ \E i \in 1..Len(f) : f[i].epoch = x.epoch
<1> DEFINE E == {0} \cup {f[i].epoch : i \in 1..Len(f)}
<1>1. Len(ks) \in Nat /\ Len(f) \in Nat
  BY LenNat
<1>2. \A i \in 1..Len(f) : f[i].epoch < Len(ks)
  <2>1. \A i \in 1..Len(f) : LineFault(f, i, ks) = "none"
    BY NoFirstFault
  <2> QED BY <2>1, NoLineFault DEF HasKey
<1>3. E \subseteq 0..(Len(ks) - 1) /\ E # {} /\ Len(ks) - 1 \in Nat
  BY <1>1, <1>2
<1>4. PICK m : m = Max(E) /\ m \in E /\ \A y \in E : y <= m
  BY <1>3, MaxFacts
<1>5. /\ m \in Nat /\ m < Len(ks) /\ \A i \in 1..Len(f) : f[i].epoch <= m
      /\ m = 0 \/ \E i \in 1..Len(f) : f[i].epoch = m
  <2>1. m \in 0..(Len(ks) - 1)
    BY <1>3, <1>4
  <2>2. \A i \in 1..Len(f) : f[i].epoch \in E
    OBVIOUS
  <2>3. m = 0 \/ \E i \in 1..Len(f) : f[i].epoch = m
    BY <1>4
  <2> HIDE DEF E
  <2>4. \A i \in 1..Len(f) : f[i].epoch <= m
    BY <1>4, <2>2
  <2> QED BY <1>1, <2>1, <2>3, <2>4
<1>6. PICK st : Scanned(f) = [last_hash |-> LastHash(f, Len(f) + 1), seq |-> Len(f), epoch |-> m,
                              seals_seen |-> SealsThrough(f, Len(f)), sealed_through |-> st,
                              compromised |-> FALSE]
  BY <1>4 DEF Scanned
<1> QED BY <1>1, <1>5, <1>6 DEF HandleOK

(***************************************************************************)
(* What an append writes.                                                  *)
(***************************************************************************)
Writers == {"append", "durable", "stdin", "seal", "rotate"}

LEMMA NewEntryFacts ==
  ASSUME NEW p \in Procs, HandleOK(h[p]), cmd[p] \in Writers
  PROVE  LET e == NewEntry(p) IN
         /\ e.v = 3 /\ e.seq = h[p].seq + 1 /\ e.prev_hash = h[p].last_hash
         /\ e.epoch = IF cmd[p] = "rotate" THEN h[p].epoch + 1 ELSE h[p].epoch
         /\ e.hash.key.seed = Ring(p)[e.epoch + 1]
         /\ e.body = CASE cmd[p] = "seal" -> [end_seq |-> h[p].seq]
                       [] cmd[p] = "rotate" -> [epoch |-> h[p].epoch + 1]
                       [] OTHER -> [text |-> p]
<1>1. /\ Advanced(p).seq = h[p].seq /\ Advanced(p).last_hash = h[p].last_hash
      /\ Advanced(p).epoch = IF cmd[p] = "rotate" THEN h[p].epoch + 1 ELSE h[p].epoch
  <2>1. CASE cmd[p] = "rotate"
    BY <2>1 DEF Advanced, HandleOK
  <2>2. CASE cmd[p] = "seal"
    BY <2>2 DEF Advanced, HandleOK
  <2>3. CASE cmd[p] \notin {"rotate", "seal"}
    BY <2>3 DEF Advanced
  <2> QED BY <2>1, <2>2, <2>3
<1>2. PICK etype, body :
        /\ NewEntry(p) = Event(3, Advanced(p).last_hash, Advanced(p).seq + 1, etype, body,
                               Advanced(p).epoch,
                               entry_key(Ring(p), Advanced(p).epoch, Advanced(p).seals_seen, 3))
        /\ body = CASE cmd[p] = "seal" -> [end_seq |-> h[p].seq]
                    [] cmd[p] = "rotate" -> [epoch |-> Advanced(p).epoch]
                    [] OTHER -> [text |-> p]
  BY DEF NewEntry, FORMAT_VERSION
<1>3. body = CASE cmd[p] = "seal" -> [end_seq |-> h[p].seq]
               [] cmd[p] = "rotate" -> [epoch |-> h[p].epoch + 1]
               [] OTHER -> [text |-> p]
  BY <1>1, <1>2
<1>4. \A k, x : entry_key(Ring(p), k, x, 3).seed = Ring(p)[k + 1]
  BY DEF entry_key, segment_key, BaseKey
<1> QED BY <1>1, <1>2, <1>3, <1>4 DEF Event, event_hash

(***************************************************************************)
(* The kinds of steps, by what they do to the files and to the process     *)
(* that takes them.                                                        *)
(***************************************************************************)

\* import gives up: a line is refused, or the copy does not verify.
GivesUp(p) ==
  /\ pc[p] = "import"
  /\ \/ /\ n[p] < Len(src[p].lines)
        /\ Imported(src[p], src[p].lines[n[p] + 1], prev[p]) = Refused
     \/ /\ n[p] = Len(src[p].lines)
        /\ FirstFault(disk[p], keys[p]) # "none" \/ disk[p] = << >>

MayFail == {"new", "open", "newkey", "newline", "write", "read", "public"}

\* p ends; a line it had begun may be cut off.
Ends(p, how) ==
  /\ pc[p] \notin Ended /\ pc' = [pc EXCEPT ![p] = how]
  /\ UNCHANGED <<path, disk, synced, keyfiles, outage, src, at, n, prev>>
  /\ \A q \in Procs : q # p => keys'[q] = keys[q] /\ h'[q] = h[q] /\ cmd'[q] = cmd[q]
  /\ keys'[p] \in {keys[p], << >>} /\ h'[p] \in {h[p], NoHandle}
  /\ cmd'[p] = cmd[p] \/ (pc[p] = "new" /\ cmd'[p] = "seal")
  /\ \/ how = "done" /\ pc[p] \in {"wrote", "read", "public"}
     \/ how = "done" /\ pc[p] = "write" /\ cmd[p] = "seal"
     \/ how = "failed" /\ (pc[p] \in MayFail \/ GivesUp(p))
     \/ how = "dead"

\* p goes on without touching a file or its handle.
Moves(p, step) ==
  /\ pc' = [pc EXCEPT ![p] = step]
  /\ UNCHANGED <<files, outage, cmd, src, keys, h, prev>>
  /\ \/ n' = n /\ <<pc[p], step>> \in {<<"flock", "open">>, <<"stdin", "write">>, <<"read", "seek">>}
     \/ pc[p] = "seek" /\ step = "follow" /\ n' = [n EXCEPT ![p] = Len(disk[path])]
     \/ pc[p] = "follow" /\ step = "follow" /\ n' = [n EXCEPT ![p] = @ + 1]

\* p opens the ledger and has handle x.
Opens(p, x) ==
  /\ pc[p] = "open" /\ pc' = [pc EXCEPT ![p] = AfterOpen(cmd[p])]
  /\ h' = [h EXCEPT ![p] = x]
  /\ UNCHANGED <<files, lock, outage, cmd, src, keys, at, n, prev>>
  /\ \/ x.compromised /\ HandleOK(x) /\ x.seq = 0
     \/ x = Scanned(disk[path]) /\ FirstFault(disk[path], keys[p]) = "none"

\* p comes to `step' with its handle, or ends without it.
Settles(p, step) ==
  /\ pc' = [pc EXCEPT ![p] = step] /\ UNCHANGED <<cmd, src, at, n, prev>>
  /\ \A q \in Procs : q # p => keys'[q] = keys[q] /\ h'[q] = h[q]
  /\ \/ keys'[p] = keys[p] /\ h'[p] = h[p] /\ step \notin Ended
     \/ keys'[p] = << >> /\ h'[p] = NoHandle /\ step \in Ended

\* The two ways in which the append of p may go, once its line is written.
Written(p) ==
  \/ Synced(p) /\ Exit(p, "failed") /\ synced' = synced
  \/ /\ synced' = IF Synced(p) THEN [synced EXCEPT ![path] = Len(disk'[path])] ELSE synced
     /\ Goto(p, "wrote") /\ UNCHANGED <<lock, locals>>

\* The keys file with a newline at its end.
Closed == [keysfile EXCEPT !.eol = TRUE]

\* p writes to the keys file, which is then kf.
Stores(p, kf, step) ==
  /\ \/ pc[p] = "newkey" /\ kf = Typed(Piece) /\ step = "failed"
     \/ pc[p] = "newkey" /\ kf = Typed(p) /\ step = "newline"
     \/ pc[p] = "newline" /\ kf = Closed /\ step \in {"failed", "write"}
  /\ keysfile' = kf /\ kept' = IF step = "write" THEN {kf} ELSE kept \cup {kf}
  /\ Settles(p, step) /\ UNCHANGED <<path, disk, synced, torn, outage>>

\* p appends an entry; if its sync fails, so does p.
Appends(p, step) ==
  /\ pc[p] = "write" /\ ~h[p].compromised
  /\ disk' = [disk EXCEPT ![path] = Append(@, NewEntry(p))]
  /\ \/ /\ step = "wrote"
        /\ synced' = IF Synced(p) THEN [synced EXCEPT ![path] = Len(disk'[path])] ELSE synced
     \/ step = "failed" /\ Synced(p) /\ synced' = synced
  /\ Settles(p, step) /\ UNCHANGED <<path, torn, keyfiles, outage>>

\* p copies a line of its source.
Copies(p, r) ==
  /\ pc[p] = "import" /\ n[p] < Len(src[p].lines) /\ r # Refused
  /\ r = Imported(src[p], src[p].lines[n[p] + 1], prev[p])
  /\ disk' = [disk EXCEPT ![p] = Append(@, Copied(p, r.entry))]
  /\ n' = [n EXCEPT ![p] = @ + 1] /\ prev' = [prev EXCEPT ![p] = r.prev]
  /\ UNCHANGED <<path, synced, torn, keyfiles, lock, outage, pc, cmd, src, keys, h, at>>

\* p has checked its copy.
Checks(p) ==
  /\ pc[p] = "import" /\ n[p] = Len(src[p].lines)
  /\ FirstFault(disk[p], keys[p]) = "none" /\ disk[p] # << >>
  /\ synced' = [synced EXCEPT ![p] = Len(disk[p])]
  /\ pc' = [pc EXCEPT ![p] = "rename"]
  /\ UNCHANGED <<path, disk, torn, keyfiles, lock, outage, locals>>

Kind(p) ==
  \/ \E c \in AllCommands \ {"import"} : Start(p, c, NoHash)
  \/ \E s \in Sources : Start(p, "import", s)
  \/ \E how \in Ended : Ends(p, how)
  \/ \E step \in Steps : Moves(p, step)
  \/ \E x : Opens(p, x)
  \/ \E kf, step : Stores(p, kf, step)
  \/ \E step : Appends(p, step)
  \/ \E r : Copies(p, r)
  \/ Checks(p)
  \/ Rename(p)

LEMMA ExitEnds ==
  ASSUME TypeOK, NEW p \in Procs, NEW how \in Ended, Exit(p, how),
         UNCHANGED <<path, disk, synced, keyfiles, outage>>, pc[p] \notin Ended,
         \/ how = "done" /\ pc[p] \in {"wrote", "read", "public"}
         \/ how = "done" /\ pc[p] = "write" /\ cmd[p] = "seal"
         \/ how = "failed" /\ (pc[p] \in MayFail \/ GivesUp(p))
         \/ how = "dead"
  PROVE  Ends(p, how)
BY DEF Exit, Ends, TypeOK, Goto

LEMMA ExitSettles ==
  ASSUME TypeOK, NEW p \in Procs, NEW how \in Ended, Exit(p, how)
  PROVE  Settles(p, how)
BY DEF Exit, Settles, TypeOK, Goto

LEMMA GotoSettles ==
  ASSUME TypeOK, NEW p \in Procs, NEW step \in Steps \ Ended, Goto(p, step), UNCHANGED <<lock, locals>>
  PROVE  Settles(p, step)
BY DEF Settles, Goto, locals

\* Every step of the command line is of one of these kinds.
LEMMA Kinds ==
  ASSUME TypeOK, InCommand, [Next]_vars
  PROVE  (\E p \in Procs : Kind(p)) \/ PowerLoss \/ UNCHANGED vars
<1>1. ASSUME NEW p \in Procs, pick_seal_signer(p) PROVE Ends(p, "failed")
  BY <1>1 DEF pick_seal_signer, Ends, TypeOK, Goto, Ended, files, MayFail
<1>2. ASSUME NEW p \in Procs, Acquire(p) PROVE Moves(p, "open")
  BY <1>2 DEF Acquire, Moves, Goto, locals
<1>3. ASSUME NEW p \in Procs, ReadBody(p) PROVE Moves(p, "write")
  BY <1>3 DEF ReadBody, Moves, Goto, locals
<1>4. ASSUME NEW p \in Procs, OpenLedger(p) PROVE Ends(p, "failed") \/ \E x : Opens(p, x)
  <2>1. CASE Exit(p, "failed") /\ UNCHANGED <<files, outage>>
    BY <1>4, <2>1, ExitEnds DEF OpenLedger, Ended, MayFail, files
  <2>4. CASE ~(Exit(p, "failed") /\ UNCHANGED <<files, outage>>)
    <3>1. FirstFault(disk[path], keys[p]) = "none" => path \notin torn
      BY <1>4, <2>4 DEF OpenLedger
    <3>2. CASE FirstFault(disk[path], keys[p]) = "none"
      BY <1>4, <2>4, <3>1, <3>2 DEF OpenLedger, Opens, Goto
    <3>3. CASE FirstFault(disk[path], keys[p]) # "none"
      <4>1. PICK x : x = [NoHandle EXCEPT !.compromised = TRUE]
        OBVIOUS
      <4>2. x.compromised /\ HandleOK(x) /\ x.seq = 0
        BY <4>1, NoHandleOK
      <4>3. Opens(p, x)
        BY <1>4, <2>4, <3>3, <4>1, <4>2 DEF OpenLedger, Opens, Goto
      <4> QED BY <4>3
    <3> QED BY <3>2, <3>3
  <2> QED BY <2>1, <2>4
<1>5. ASSUME NEW p \in Procs, Write(p)
      PROVE  (\E how \in Ended : Ends(p, how)) \/ \E step : Appends(p, step)
  <2>0. pc[p] = "write" /\ UNCHANGED <<path, keyfiles, outage>>
    BY <1>5 DEF Write
  <2>1. ASSUME NEW how \in WriteOutcome(p) \ {"append"}, Exit(p, how), UNCHANGED <<disk, synced>>
        PROVE  how \in Ended /\ Ends(p, how)
    <3>1. how = "failed" \/ (how = "done" /\ cmd[p] = "seal")
      BY <2>1 DEF WriteOutcome, SealOutcome
    <3> QED BY <2>0, <2>1, <3>1, ExitEnds DEF Ended, MayFail
  <2>2. "append" \in WriteOutcome(p) => ~h[p].compromised
    BY DEF WriteOutcome
  <2>3. ASSUME Exit(p, "failed"), UNCHANGED <<disk, synced>> PROVE Ends(p, "failed")
    BY <2>0, <2>3, ExitEnds DEF Ended, MayFail
  <2>4. ASSUME "append" \in WriteOutcome(p), UNCHANGED torn, Written(p),
               disk' = [disk EXCEPT ![path] = Append(@, NewEntry(p))]
        PROVE  \E step : Appends(p, step)
    <3>1. CASE Synced(p) /\ Exit(p, "failed") /\ synced' = synced
      <4>1. Settles(p, "failed")
        BY <3>1, ExitSettles DEF Ended
      <4>2. Appends(p, "failed")
        BY <2>0, <2>2, <2>4, <3>1, <4>1 DEF Appends
      <4> QED BY <4>2
    <3>2. CASE /\ synced' = IF Synced(p) THEN [synced EXCEPT ![path] = Len(disk'[path])] ELSE synced
               /\ Goto(p, "wrote") /\ UNCHANGED <<lock, locals>>
      <4>1. Settles(p, "wrote")
        BY <3>2, GotoSettles DEF Ended, Steps
      <4>2. Appends(p, "wrote")
        BY <2>0, <2>2, <2>4, <3>2, <4>1 DEF Appends
      <4> QED BY <4>2
    <3> QED BY <2>4, <3>1, <3>2 DEF Written
  <2>5. \/ \E how \in WriteOutcome(p) \ {"append"} : Exit(p, how) /\ UNCHANGED <<disk, synced>>
        \/ Exit(p, "failed") /\ UNCHANGED <<disk, synced>>
        \/ /\ "append" \in WriteOutcome(p) /\ UNCHANGED torn /\ Written(p)
           /\ disk' = [disk EXCEPT ![path] = Append(@, NewEntry(p))]
    BY <1>5 DEF Write, Written
  <2> QED BY <2>1, <2>3, <2>4, <2>5 DEF Ended
<1>15. ASSUME NEW p \in Procs, StoreSeed(p) \/ EndSeed(p)
       PROVE  Ends(p, "failed") \/ \E kf, step : Stores(p, kf, step)
  <2>0. pc[p] \in {"newkey", "newline"} /\ UNCHANGED <<path, disk, synced, torn, outage>>
    BY <1>15 DEF StoreSeed, EndSeed
  <2>1. CASE Exit(p, "failed") /\ UNCHANGED keyfiles
    BY <2>0, <2>1, ExitEnds DEF Ended, MayFail
  <2>2. ASSUME Exit(p, "failed") PROVE Settles(p, "failed")
    BY <2>2, ExitSettles DEF Ended
  <2>3. ASSUME NEW step \in {"newline", "write"}, Goto(p, step), UNCHANGED <<lock, locals>>
        PROVE  Settles(p, step)
    BY <2>3, GotoSettles DEF Ended, Steps
  <2>4. CASE ~(Exit(p, "failed") /\ UNCHANGED keyfiles) /\ StoreSeed(p)
    <3>1. \/ Stores(p, Typed(Piece), "failed") \/ Stores(p, Typed(p), "newline")
      BY <2>0, <2>2, <2>3, <2>4 DEF StoreSeed, Stores
    <3> QED BY <3>1
  <2>5. CASE ~(Exit(p, "failed") /\ UNCHANGED keyfiles) /\ EndSeed(p)
    <3>1. \/ Stores(p, Closed, "failed") \/ Stores(p, Closed, "write")
      BY <2>0, <2>2, <2>3, <2>5 DEF EndSeed, Stores, Closed
    <3> QED BY <3>1
  <2> QED BY <1>15, <2>1, <2>4, <2>5
<1>6. ASSUME NEW p \in Procs, Report(p) PROVE Ends(p, "done")
  BY <1>6, ExitEnds DEF Report, Ended, files
<1>7. ASSUME NEW p \in Procs, Read(p)
      PROVE  (\E how \in Ended : Ends(p, how)) \/ Moves(p, "seek")
  <2>1. CASE Exit(p, "done") \/ Exit(p, "failed")
    BY <1>7, <2>1, ExitEnds DEF Read, Ended, files, MayFail
  <2>2. CASE Goto(p, "seek") /\ UNCHANGED locals
    BY <1>7, <2>2 DEF Read, Moves, Goto, locals
  <2> QED BY <1>7, <2>1, <2>2 DEF Read
<1>8. ASSUME NEW p \in Procs, PublicVerify(p) PROVE \E how \in Ended : Ends(p, how)
  <2>1. Exit(p, "done") \/ Exit(p, "failed")
    BY <1>8 DEF PublicVerify
  <2> QED BY <1>8, <2>1, ExitEnds DEF PublicVerify, Ended, files, MayFail
<1>9. ASSUME NEW p \in Procs, Seek(p) \/ Follow(p) PROVE Moves(p, "follow")
  <2>1. CASE Seek(p)
    BY <2>1 DEF Seek, Moves, Goto
  <2>2. CASE Follow(p)
    <3>1. pc' = [pc EXCEPT ![p] = "follow"]
      BY <2>2 DEF Follow, TypeOK
    <3> QED BY <2>2, <3>1 DEF Follow, Moves
  <2> QED BY <1>9, <2>1, <2>2
<1>10. ASSUME NEW p \in Procs, ImportLine(p) PROVE Ends(p, "failed") \/ \E r : Copies(p, r)
  <2>1. PICK r : r = Imported(src[p], src[p].lines[n[p] + 1], prev[p])
    OBVIOUS
  <2>2. CASE r = Refused
    <3>1. GivesUp(p) /\ Exit(p, "failed") /\ UNCHANGED <<files, outage>>
      BY <1>10, <2>1, <2>2 DEF ImportLine, GivesUp
    <3> QED BY <1>10, <3>1, ExitEnds DEF GivesUp, Ended, files
  <2>3. CASE r # Refused
    BY <1>10, <2>1, <2>3 DEF ImportLine, Copies
  <2> QED BY <2>2, <2>3
<1>11. ASSUME NEW p \in Procs, ImportCheck(p) PROVE Ends(p, "failed") \/ Checks(p)
  <2>1. CASE FirstFault(disk[p], keys[p]) # "none" \/ disk[p] = << >>
    <3>1. GivesUp(p) /\ Exit(p, "failed") /\ UNCHANGED <<files, outage>>
      BY <1>11, <2>1 DEF ImportCheck, GivesUp
    <3> QED BY <1>11, <3>1, ExitEnds DEF GivesUp, Ended, files
  <2>2. CASE FirstFault(disk[p], keys[p]) = "none" /\ disk[p] # << >>
    BY <1>11, <2>2 DEF ImportCheck, Checks, Goto
  <2> QED BY <2>1, <2>2
<1>12. ASSUME NEW p \in Procs, Kill(p) PROVE Ends(p, "dead")
  BY <1>12, ExitEnds DEF Kill, Running, Ended, files
<1>13. \A p \in Procs : Commands[p] \subseteq AllCommands
  BY CliAssumption
<1>14. {"open", "write", "seek", "follow"} \subseteq Steps /\ {"failed", "done", "dead"} \subseteq Ended
  BY DEF Steps, Ended
<1> QED
  BY <1>1, <1>2, <1>3, <1>4, <1>5, <1>6, <1>7, <1>8, <1>9, <1>10, <1>11, <1>12, <1>13, <1>14,
     <1>15
  DEF Next, Step, Kind

(***************************************************************************)
(* Seeds: as long as the power does not fail, the lines of the keys file   *)
(* only grow, every process has read the beginnings of them, and whatever  *)
(* is written is written under one of those.  What is written under a seed *)
(* without a rotation of its own continues an entry under that seed, or    *)
(* uses the first one, so that the seed is on stable storage by then.      *)
(***************************************************************************)

\* a is how b starts.
Starts(a, b) == Len(a) <= Len(b) /\ \A i \in 1..Len(a) : b[i] = a[i]

\* Text has been written at the end of kf.
Grows(kf, new) ==
  /\ Len(kf.lines) <= Len(new.lines)
  /\ \A j \in 1..Len(kf.lines) : Starts(kf.lines[j], new.lines[j])

\* seed stands on line l.
Within(seed, l) == \E a, b \in 1..Len(l) : SubSeq(l, a, b) = seed

LEMMA WithinStarts ==
  ASSUME NEW S, NEW l \in Seq(S), NEW l2 \in Seq(S), Starts(l, l2), NEW seed, Within(seed, l)
  PROVE  Within(seed, l2)
<1>1. Len(l) \in Nat /\ Len(l2) \in Nat /\ Len(l) <= Len(l2)
  BY DEF Starts
<1>2. PICK a \in 1..Len(l), b \in 1..Len(l) : SubSeq(l, a, b) = seed
  BY DEF Within
<1>3. SubSeq(l2, a, b) = SubSeq(l, a, b)
  <2>1. \A i \in a..b : l2[i] = l[i] /\ l[i] \in S /\ l2[i] \in S
    BY <1>1 DEF Starts
  <2>2. PICK s : s = SubSeq(l, a, b)
    OBVIOUS
  <2>3. PICK t : t = SubSeq(l2, a, b)
    OBVIOUS
  <2>4. /\ s \in Seq(S) /\ Len(s) = IF a <= b THEN b - a + 1 ELSE 0
        /\ \A i \in 1..(b - a + 1) : s[i] = l[a + i - 1]
    BY <1>1, <2>1, <2>2, SubSeqProperties
  <2>5. /\ t \in Seq(S) /\ Len(t) = IF a <= b THEN b - a + 1 ELSE 0
        /\ \A i \in 1..(b - a + 1) : t[i] = l2[a + i - 1]
    BY <1>1, <2>1, <2>3, SubSeqProperties
  <2>6. Len(s) = Len(t) /\ \A i \in 1..Len(s) : s[i] = t[i]
    BY <1>1, <2>1, <2>4, <2>5
  <2>7. s = t
    BY <2>4, <2>5, <2>6, SeqEqual
  <2> QED BY <2>2, <2>3, <2>7
<1>4. a \in 1..Len(l2) /\ b \in 1..Len(l2)
  BY <1>1
<1> QED BY <1>2, <1>3, <1>4 DEF Within

\* A line holds what it starts with.
LEMMA StartWithin ==
  ASSUME NEW S, NEW l \in Seq(S), NEW seed \in Seq(S), Starts(seed, l), Len(seed) >= 1
  PROVE  Within(seed, l)
<1>1. Within(seed, seed)
  <2>1. Len(seed) \in Nat /\ SubSeq(seed, 1, Len(seed)) = seed
    OBVIOUS
  <2> QED BY <2>1 DEF Within
<1> QED BY <1>1, WithinStarts

\* It holds the text that was written last.
LEMMA LastWithin ==
  ASSUME NEW S, NEW l \in Seq(S), NEW text \in S
  PROVE  Within(<<text>>, Append(l, text))
<1>1. PICK m : m = Append(l, text)
  OBVIOUS
<1>2. m \in Seq(S) /\ Len(m) = Len(l) + 1 /\ Len(l) \in Nat /\ m[Len(m)] = text
  BY <1>1
<1>3. SubSeq(m, Len(m), Len(m)) = <<text>>
  <2>1. PICK k \in Nat : k = Len(m) /\ k >= 1 /\ m[k] = text
    BY <1>2
  <2>2. PICK s : s = SubSeq(m, k, k)
    OBVIOUS
  <2>3. \A i \in k..k : m[i] \in S
    BY <2>1
  <2>4. s \in Seq(S) /\ Len(s) = 1 /\ s[1] = text
    <3>1. /\ s \in Seq(S) /\ Len(s) = IF k <= k THEN k - k + 1 ELSE 0
          /\ \A i \in 1..(k - k + 1) : s[i] = m[k + i - 1]
      BY <1>2, <2>1, <2>2, <2>3, SubSeqProperties
    <3> QED BY <2>1, <3>1
  <2>5. s = <<text>>
    BY <2>4
  <2> QED BY <2>1, <2>2, <2>5
<1>4. Len(m) \in 1..Len(m)
  BY <1>2
<1> QED BY <1>1, <1>3, <1>4 DEF Within

LEMMA StartsFacts ==
  ASSUME NEW S, NEW a \in Seq(S), NEW b \in Seq(S), NEW c \in Seq(S)
  PROVE  /\ Starts(a, a) /\ (Starts(a, b) /\ Starts(b, c) => Starts(a, c))
         /\ \A t \in S : Starts(a, Append(a, t))
BY DEF Starts

LEMMA GrowsOnLine ==
  ASSUME NEW kf \in KeyFiles, NEW new \in KeyFiles, Grows(kf, new), NEW seed, OnLine(seed, kf.lines)
  PROVE  OnLine(seed, new.lines)
<1>1. PICK j \in 1..Len(kf.lines) : Within(seed, kf.lines[j])
  BY DEF OnLine, Within
<1>2. kf.lines \in Seq(KeyLines) /\ new.lines \in Seq(KeyLines)
  BY DEF KeyFiles
<1>3. j \in 1..Len(new.lines) /\ Starts(kf.lines[j], new.lines[j])
  BY <1>2 DEF Grows
<1>4. kf.lines[j] \in KeyLines /\ new.lines[j] \in KeyLines
  BY <1>2, <1>3
<1>5. Within(seed, new.lines[j])
  BY <1>1, <1>3, <1>4, WithinStarts DEF KeyLines
<1> QED BY <1>3, <1>5 DEF OnLine, Within

LEMMA GrowsSelf ==
  ASSUME NEW kf \in KeyFiles
  PROVE  Grows(kf, kf)
<1>1. kf.lines \in Seq(KeyLines)
  BY DEF KeyFiles
<1>2. \A j \in 1..Len(kf.lines) : kf.lines[j] \in Seq(Procs \cup {Seed0, Piece})
  BY <1>1 DEF KeyLines
<1> QED BY <1>1, <1>2, StartsFacts DEF Grows

\* A keys file has a line, none is empty, and if it came with its newline
\* then the first line is the seed it came with.
ShapeOK(c) ==
  /\ Len(c.lines) >= 1 /\ \A j \in 1..Len(c.lines) : Len(c.lines[j]) >= 1
  /\ KeysEol => c.lines[1] = <<Seed0>> /\ (Len(c.lines) = 1 => c.eol)

LEMMA TypedGrows ==
  ASSUME keysfile \in KeyFiles, ShapeOK(keysfile), NEW text \in Procs \cup {Seed0, Piece}
  PROVE  /\ Typed(text) \in KeyFiles /\ Grows(keysfile, Typed(text)) /\ ShapeOK(Typed(text))
         /\ OnLine(<<text>>, Typed(text).lines)
<1> DEFINE T == Procs \cup {Seed0, Piece}
<1>0. PICK new : new = Typed(text)
  OBVIOUS
<1>1. PICK L, k : L = keysfile.lines /\ L \in Seq(KeyLines) /\ k = Len(L) /\ k \in Nat /\ k >= 1
  BY DEF KeyFiles, ShapeOK
<1>2. \A j \in 1..k : L[j] \in Seq(T) /\ Len(L[j]) >= 1
  BY <1>1 DEF KeyLines, ShapeOK
<1>3. new \in KeyFiles
  BY <1>0, TypedOK
<1>4. CASE keysfile.eol
  <2>1. PICK M : M = Append(L, <<text>>) /\ M = new.lines
    BY <1>0, <1>1, <1>4 DEF Typed
  <2>2. PICK w : w = <<text>> /\ w \in KeyLines /\ Len(w) = 1
    <3>1. <<text>> \in KeyLines /\ Len(<<text>>) = 1
      BY DEF KeyLines
    <3> QED BY <3>1, Zenon
  <2>3. Len(M) = k + 1 /\ M[k + 1] = w /\ \A j \in 1..k : M[j] = L[j]
    BY <1>1, <2>1, <2>2
  <2>4. Grows(keysfile, new)
    <3>1. \A j \in 1..k : Starts(L[j], M[j])
      BY <1>2, <2>3, StartsFacts
    <3> QED BY <1>1, <2>1, <2>3, <3>1 DEF Grows
  <2>5. ShapeOK(new)
    <3>1. KeysEol => M[1] = <<Seed0>>
      BY <1>1, <2>3 DEF ShapeOK
    <3>2. ASSUME NEW j \in 1..Len(M) PROVE Len(M[j]) >= 1
      <4>1. CASE j \in 1..k
        BY <1>2, <2>3, <4>1
      <4>2. CASE j = k + 1
        <5>1. M[j] = w
          BY <2>3, <4>2
        <5> QED BY <2>2, <5>1
      <4> QED BY <1>1, <2>3, <4>1, <4>2
    <3>3. Len(M) >= 1 /\ Len(M) # 1
      BY <1>1, <2>3
    <3> QED BY <2>1, <3>1, <3>2, <3>3 DEF ShapeOK
  <2>6. OnLine(<<text>>, M)
    <3>1. << >> \in Seq(T) /\ Append(<< >>, text) = <<text>>
      OBVIOUS
    <3>2. Within(w, w)
      BY <2>2, <3>1, LastWithin
    <3>3. k + 1 \in 1..Len(M) /\ Within(w, M[k + 1])
      BY <1>1, <2>3, <3>2
    <3> QED BY <2>2, <3>3 DEF OnLine, Within
  <2> QED BY <1>0, <1>3, <2>1, <2>4, <2>5, <2>6
<1>5. CASE ~keysfile.eol
  <2>1. PICK M : M = [L EXCEPT ![k] = Append(@, text)] /\ M = new.lines
    BY <1>0, <1>1, <1>5 DEF Typed
  <2>2. Len(M) = k /\ M[k] = Append(L[k], text) /\ \A j \in 1..k : j # k => M[j] = L[j]
    <3>1. M \in Seq(KeyLines)
      BY <1>3, <2>1 DEF KeyFiles
    <3>2. DOMAIN L = 1..k /\ DOMAIN M = 1..k /\ DOMAIN M = 1..Len(M) /\ Len(M) \in Nat
      BY <1>1, <2>1, <3>1, LenProperties
    <3> QED BY <1>1, <2>1, <3>2
  <2>3. Append(L[k], text) \in Seq(T) /\ Len(Append(L[k], text)) >= 1
    BY <1>1, <1>2
  <2>4. Grows(keysfile, new)
    <3>1. ASSUME NEW j \in 1..k PROVE Starts(L[j], M[j])
      <4>1. CASE j = k
        <5>1. L[k] \in Seq(T) /\ M[k] = Append(L[k], text)
          BY <1>2, <2>2, <4>1
        <5>2. Starts(L[k], Append(L[k], text))
          BY <5>1, StartsFacts
        <5> QED BY <4>1, <5>1, <5>2
      <4>2. CASE j # k
        BY <1>2, <2>2, <4>2, StartsFacts
      <4> QED BY <4>1, <4>2
    <3>2. keysfile.lines = L /\ new.lines = M /\ Len(L) = k /\ Len(M) = k
      BY <1>1, <2>1, <2>2, Zenon
    <3>3. k <= k
      BY <1>1
    <3> QED BY <3>1, <3>2, <3>3 DEF Grows
  <2>5. ShapeOK(new)
    <3>1. KeysEol => k # 1 /\ M[1] = <<Seed0>>
      <4>1. KeysEol => k # 1 /\ L[1] = <<Seed0>>
        BY <1>1, <1>5 DEF ShapeOK
      <4>2. k # 1 => M[1] = L[1]
        <5>1. 1 \in 1..k
          BY <1>1
        <5> QED BY <2>2, <5>1
      <4> QED BY <4>1, <4>2
    <3>2. \A j \in 1..k : Len(M[j]) >= 1
      BY <1>2, <2>2, <2>3
    <3> QED BY <1>1, <2>1, <2>2, <3>1, <3>2 DEF ShapeOK
  <2>6. OnLine(<<text>>, M)
    <3>1. Within(<<text>>, M[k]) /\ k \in 1..k
      BY <1>1, <1>2, <2>2, LastWithin
    <3> QED BY <2>2, <3>1 DEF OnLine, Within
  <2> QED BY <1>0, <1>3, <2>1, <2>4, <2>5, <2>6
<1> QED BY <1>4, <1>5

LEMMA ClosedGrows ==
  ASSUME keysfile \in KeyFiles, ShapeOK(keysfile)
  PROVE  Closed \in KeyFiles /\ Grows(keysfile, Closed) /\ ShapeOK(Closed)
<1>1. Closed \in KeyFiles /\ Closed.lines = keysfile.lines /\ Closed.eol
  BY DEF Closed, KeyFiles
<1>2. Grows(keysfile, keysfile)
  BY GrowsSelf
<1> QED BY <1>1, <1>2 DEF Grows, ShapeOK

\* The seeds ks were read when the keys file held less than kf.
ReadFrom(ks, kf) ==
  /\ Len(ks) <= Len(kf.lines)
  /\ \A j \in 1..Len(ks) : Len(ks[j]) >= 1 /\ Starts(ks[j], kf.lines[j])

\* p has stored a seed and not yet recorded the rotation.
Pending(p) == pc[p] \in {"newline", "write"} /\ cmd[p] = "rotate"

KeysOK ==
  /\ \A c \in kept : ShapeOK(c)
  /\ \A p \in Procs : ReadFrom(keys[p], keysfile) /\ (Running(p) => Len(keys[p]) >= 1)
  /\ \A p \in Procs : Pending(p) =>
       OnLine(<<p>>, keysfile.lines) /\ (pc[p] = "write" => kept = {keysfile})

\* What the keys file may be, now or after a power loss.  A file that came
\* without its last newline has no such guarantee after one.
Sure == IF KeysEol THEN kept ELSE IF outage THEN {} ELSE {keysfile}

Stored(seed, S) == \A c \in S : OnLine(seed, c.lines)

EntriesOK ==
  \A f \in Files : \A i \in 1..Len(disk[f]) :
    disk[f][i].epoch \in Nat /\ Stored(disk[f][i].hash.key.seed, Sure)

Opened(p) == pc[p] \in {"stdin", "newkey", "newline", "write"}

HandlesOK ==
  \A p \in Procs :
    /\ HandleOK(h[p])
    /\ Opened(p) /\ ~h[p].compromised =>
         h[p].epoch < Len(keys[p]) /\ Stored(keys[p][h[p].epoch + 1], Sure)

\* The ledger is the first one, or what an import has left.
NameOK == path # Ledger0 => path \in Procs /\ pc[path] = "done" /\ cmd[path] = "import"

BaseInv == TypeOK /\ InCommand /\ KeysOK /\ EntriesOK /\ HandlesOK /\ NameOK

LEMMA ReadFacts ==
  ASSUME NEW kf \in KeyFiles, ShapeOK(kf)
  PROVE  /\ ReadFrom(<< >>, kf) /\ ReadFrom(kf.lines, kf)
         /\ \A new \in KeyFiles : \A ks \in Seq(KeyLines) :
              ReadFrom(ks, kf) /\ Grows(kf, new) => ReadFrom(ks, new)
<1>1. kf.lines \in Seq(KeyLines)
  BY DEF KeyFiles
<1>2. ReadFrom(<< >>, kf)
  BY <1>1 DEF ReadFrom
<1>3. ReadFrom(kf.lines, kf)
  BY <1>1, GrowsSelf DEF ReadFrom, Grows, ShapeOK
<1>4. ASSUME NEW new \in KeyFiles, NEW ks \in Seq(KeyLines), ReadFrom(ks, kf), Grows(kf, new)
      PROVE  ReadFrom(ks, new)
  <2>1. new.lines \in Seq(KeyLines) /\ Len(ks) <= Len(kf.lines) /\ Len(kf.lines) <= Len(new.lines)
    BY <1>4 DEF KeyFiles, ReadFrom, Grows
  <2>2. Len(ks) <= Len(new.lines) /\ Len(ks) \in Nat
    BY <1>1, <2>1
  <2>3. ASSUME NEW j \in 1..Len(ks) PROVE Len(ks[j]) >= 1 /\ Starts(ks[j], new.lines[j])
    <3>1. j \in 1..Len(kf.lines) /\ j \in 1..Len(new.lines)
      BY <1>1, <2>1
    <3>2. /\ ks[j] \in KeyLines /\ kf.lines[j] \in KeyLines /\ new.lines[j] \in KeyLines
      BY <1>1, <2>1, <3>1
    <3>3. Len(ks[j]) >= 1 /\ Starts(ks[j], kf.lines[j]) /\ Starts(kf.lines[j], new.lines[j])
      BY <1>4, <3>1 DEF ReadFrom, Grows
    <3> QED BY <3>2, <3>3, StartsFacts DEF KeyLines
  <2> QED BY <2>2, <2>3 DEF ReadFrom
<1> QED BY <1>2, <1>3, <1>4

\* A step that leaves the keys file alone and starts nobody.
KeepsKeys ==
  /\ UNCHANGED <<keyfiles, outage>>
  /\ \A q \in Procs :
       /\ keys'[q] = keys[q] \/ (keys'[q] = << >> /\ ~Running(q)')
       /\ Running(q)' => Running(q)
       /\ Pending(q)' => Pending(q) /\ pc'[q] = pc[q]

LEMMA KeysStep ==
  ASSUME TypeOK, KeysOK, KeepsKeys
  PROVE  KeysOK' /\ \A seed : Stored(seed, Sure) => Stored(seed, Sure')
<1>0. keysfile' = keysfile /\ kept' = kept /\ outage' = outage
  BY DEF KeepsKeys, keyfiles
<1>1. ReadFrom(<< >>, keysfile)
  BY ReadFacts DEF TypeOK, KeysOK
<1>2. ASSUME NEW q \in Procs PROVE ReadFrom(keys'[q], keysfile)
  <2>1. ReadFrom(keys[q], keysfile) /\ (keys'[q] = keys[q] \/ keys'[q] = << >>)
    BY DEF KeysOK, KeepsKeys
  <2> QED BY <1>1, <2>1
<1>3. ASSUME NEW q \in Procs, Running(q)' PROVE Len(keys'[q]) >= 1
  <2>1. Running(q) /\ keys'[q] = keys[q]
    BY <1>3 DEF KeepsKeys
  <2> QED BY <2>1 DEF KeysOK
<1>4. ASSUME NEW q \in Procs, Pending(q)'
      PROVE  OnLine(<<q>>, keysfile'.lines) /\ (pc'[q] = "write" => kept' = {keysfile'})
  <2>1. Pending(q) /\ pc'[q] = pc[q]
    BY <1>4 DEF KeepsKeys
  <2> QED BY <1>0, <2>1 DEF KeysOK
<1>5. \A c \in kept' : ShapeOK(c)
  BY <1>0 DEF KeysOK
<1>6. KeysOK'
  BY <1>0, <1>2, <1>3, <1>4, <1>5 DEF KeysOK
<1> QED BY <1>0, <1>6 DEF Stored, Sure

LEMMA BaseInit == Init => BaseInv
<1> SUFFICES ASSUME Init PROVE BaseInv
  OBVIOUS
<1>1. TypeOK /\ InCommand
  BY TypeInit
<1>2. KeysOK
  <2>1. \A p \in Procs : keys[p] = << >> /\ ~Running(p) /\ ~Pending(p)
    BY DEF Init, Running, Pending
  <2>2. FirstKeys \in KeyFiles /\ keysfile = FirstKeys /\ kept = {FirstKeys}
    BY <1>1 DEF Init, TypeOK
  <2>3. ShapeOK(FirstKeys)
    <3>1. FirstKeys.lines = <<<<Seed0>>>> /\ FirstKeys.eol = KeysEol
      BY DEF FirstKeys
    <3>2. Len(<<<<Seed0>>>>) = 1 /\ <<<<Seed0>>>>[1] = <<Seed0>> /\ Len(<<Seed0>>) = 1
      OBVIOUS
    <3> QED BY <3>1, <3>2 DEF ShapeOK
  <2>4. ReadFrom(<< >>, FirstKeys)
    BY <2>2, <2>3, ReadFacts
  <2>5. \A p \in Procs : ReadFrom(keys[p], keysfile)
    BY <2>1, <2>2, <2>4
  <2>6. \A c \in kept : ShapeOK(c)
    BY <2>2, <2>3
  <2> QED BY <2>1, <2>5, <2>6 DEF KeysOK
<1>3. EntriesOK
  BY DEF Init, EntriesOK
<1>4. HandlesOK
  BY NoHandleOK DEF Init, HandlesOK, Opened
<1>5. NameOK
  BY DEF Init, NameOK
<1> QED BY <1>1, <1>2, <1>3, <1>4, <1>5 DEF BaseInv

\* The seeds that p has read, and the first one for good.
LEMMA RingSound ==
  ASSUME TypeOK, KeysOK, NEW p \in Procs, NEW j \in 1..Len(keys[p]),
         j = 1 \/ kept = {keysfile}
  PROVE  Stored(keys[p][j], Sure)
<1>1. PICK ks : ks = keys[p] /\ ks \in Seq(KeyLines) /\ ReadFrom(ks, keysfile)
  BY DEF TypeOK, KeysOK
<1>2. keysfile \in KeyFiles /\ keysfile \in kept /\ kept \subseteq KeyFiles
  BY DEF TypeOK
<1>3. keysfile.lines \in Seq(KeyLines)
  BY <1>2 DEF KeyFiles
<1>4. j \in 1..Len(ks) /\ j \in 1..Len(keysfile.lines)
  BY <1>1, <1>3 DEF ReadFrom
<1>5. /\ ks[j] \in KeyLines /\ keysfile.lines[j] \in KeyLines
      /\ Len(ks[j]) >= 1 /\ Starts(ks[j], keysfile.lines[j])
  BY <1>1, <1>3, <1>4 DEF ReadFrom
<1>6. OnLine(ks[j], keysfile.lines)
  <2>1. Within(ks[j], keysfile.lines[j])
    BY <1>5, StartWithin DEF KeyLines
  <2> QED BY <1>4, <2>1 DEF OnLine, Within
<1>7. CASE Sure \subseteq {keysfile}
  BY <1>1, <1>6, <1>7 DEF Stored
<1>8. CASE KeysEol /\ j = 1
  <2>1. keysfile.lines[1] = <<Seed0>>
    BY <1>2, <1>8 DEF KeysOK, ShapeOK
  <2>2. ks[1] = <<Seed0>>
    <3>1. PICK a : a = ks[1] /\ a \in Seq(Procs \cup {Seed0, Piece}) /\ Len(a) >= 1 /\ Starts(a, <<Seed0>>)
      BY <1>5, <1>8, <2>1 DEF KeyLines
    <3>2. Len(a) = 1 /\ a[1] = Seed0
      BY <3>1 DEF Starts
    <3>3. a = <<Seed0>>
      BY <3>1, <3>2
    <3> QED BY <3>1, <3>3
  <2>3. ASSUME NEW c \in Sure PROVE OnLine(ks[1], c.lines)
    <3>1. c \in KeyFiles /\ ShapeOK(c)
      BY <1>2, <1>8, <2>3 DEF Sure, KeysOK
    <3>2. c.lines \in Seq(KeyLines) /\ 1 \in 1..Len(c.lines) /\ c.lines[1] = ks[1]
      BY <1>8, <2>2, <3>1 DEF KeyFiles, ShapeOK
    <3>3. ks[1] \in KeyLines /\ Len(ks[1]) >= 1
      BY <1>5, <1>8
    <3>4. Within(ks[1], ks[1])
      BY <3>3, StartWithin, StartsFacts DEF KeyLines
    <3> QED BY <3>2, <3>4 DEF OnLine, Within
  <2> QED BY <1>1, <1>8, <2>3 DEF Stored
<1> QED BY <1>7, <1>8 DEF Sure

\* The seed that an append writes under has been stored.
LEMMA SeedStored ==
  ASSUME BaseInv, NEW p \in Procs, NEW step, Appends(p, step)
  PROVE  LET e == NewEntry(p) IN e.epoch \in Nat /\ Stored(e.hash.key.seed, Sure)
<1>1. cmd[p] \in Writers
  BY DEF BaseInv, Appends, InCommand, StepsOf, Writers, Ended
<1>4. /\ HandleOK(h[p]) /\ h[p].epoch < Len(keys[p]) /\ h[p].epoch \in Nat
      /\ Stored(keys[p][h[p].epoch + 1], Sure)
  BY DEF BaseInv, Appends, HandlesOK, HandleOK, Opened
<1>5. keys[p] \in Seq(KeyLines)
  BY DEF BaseInv, TypeOK
<1>e. PICK e : e = NewEntry(p)
  OBVIOUS
<1>7. /\ e = NewEntry(p) /\ e.hash.key.seed = Ring(p)[e.epoch + 1]
      /\ e.epoch = IF cmd[p] = "rotate" THEN h[p].epoch + 1 ELSE h[p].epoch
  BY <1>1, <1>4, <1>e, NewEntryFacts, Zenon
<1>2. CASE cmd[p] # "rotate"
  <2>1. e.epoch = h[p].epoch /\ e.hash.key.seed = keys[p][h[p].epoch + 1]
    BY <1>2, <1>7 DEF Ring
  <2> QED BY <1>4, <1>7, <2>1
<1>3. CASE cmd[p] = "rotate"
  <2>1. /\ e.epoch = h[p].epoch + 1
        /\ e.hash.key.seed = Append(keys[p], <<p>>)[h[p].epoch + 1 + 1]
    BY <1>3, <1>7 DEF Ring, RandomSeed
  <2>2. OnLine(<<p>>, keysfile.lines) /\ kept = {keysfile}
    BY <1>3 DEF BaseInv, KeysOK, Appends, Pending
  <2>3. CASE h[p].epoch + 2 <= Len(keys[p])
    <3>1. h[p].epoch + 1 + 1 \in 1..Len(keys[p])
      BY <1>4, <1>5, <2>3
    <3>2. e.hash.key.seed = keys[p][h[p].epoch + 1 + 1]
      BY <1>5, <2>1, <3>1
    <3>3. Stored(keys[p][h[p].epoch + 1 + 1], Sure)
      BY <2>2, <3>1, RingSound DEF BaseInv
    <3> QED BY <1>4, <1>7, <2>1, <3>2, <3>3
  <2>4. CASE h[p].epoch + 1 = Len(keys[p])
    <3>1. PICK w : w = <<p>>
      OBVIOUS
    <3>2. e.hash.key.seed = w
      <4>1. e.hash.key.seed = Append(keys[p], w)[Len(keys[p]) + 1]
        BY <2>1, <2>4, <3>1
      <4> QED BY <1>5, <4>1
    <3>3. Stored(w, Sure)
      BY <2>2, <3>1 DEF Stored, Sure
    <3> QED BY <1>4, <1>7, <2>1, <3>2, <3>3
  <2> QED BY <1>4, <1>5, <2>3, <2>4
<1> QED BY <1>2, <1>3

\* A line that import copies is written under the first seed, in epoch 0.
LEMMA CopiedFacts ==
  ASSUME NEW p \in Procs, NEW entry
  PROVE  LET e == Copied(p, entry) IN
         /\ e.epoch = 0 /\ e.v = 3 /\ e.seq = Len(disk[p]) + 1 /\ e.etype = entry.etype
         /\ e.body = entry.body /\ e.prev_hash = LastHash(disk[p], Len(disk[p]) + 1)
         /\ e.hash.key.seed = keys[p][1]
         /\ e.hash = event_hash(3, e.prev_hash, e.seq, e.etype, e.body,
                                [seed |-> keys[p][1], seg |-> 0])
<1>1. entry_key(keys[p], 0, 0, 3) = [seed |-> keys[p][1], seg |-> 0]
  BY DEF entry_key, segment_key, BaseKey
<1>2. Copied(p, entry) = Event(3, LastHash(disk[p], Len(disk[p]) + 1), Len(disk[p]) + 1,
                               entry.etype, entry.body, 0, [seed |-> keys[p][1], seg |-> 0])
  BY <1>1 DEF Copied, FORMAT_VERSION
<1> QED BY <1>2 DEF Event, event_hash

\* One more entry on file f, with what the entries there satisfy.
LEMMA EntriesAppend ==
  ASSUME TypeOK, EntriesOK, NEW f \in Files, NEW e, disk' = [disk EXCEPT ![f] = Append(@, e)],
         \A seed : Stored(seed, Sure) => Stored(seed, Sure'), e.epoch \in Nat, Stored(e.hash.key.seed, Sure)
  PROVE  EntriesOK'
<1>1. IsSequence(disk[f]) /\ disk'[f] = Append(disk[f], e)
  BY DEF TypeOK
<1>2. /\ Len(disk[f]) \in Nat /\ Len(disk'[f]) = Len(disk[f]) + 1
      /\ \A i \in 1..Len(disk[f]) : disk'[f][i] = disk[f][i]
      /\ disk'[f][Len(disk[f]) + 1] = e
  BY <1>1, AppendFacts
<1>3. \A g \in Files : g # f => disk'[g] = disk[g]
  BY DEF TypeOK
<1>4. \A i \in 1..Len(disk'[f]) : i \in 1..Len(disk[f]) \/ i = Len(disk[f]) + 1
  BY <1>2
<1> QED BY <1>2, <1>3, <1>4 DEF EntriesOK

\* Steps that leave the entries alone.
LEMMA EntriesStep ==
  ASSUME EntriesOK, disk' = disk, \A seed : Stored(seed, Sure) => Stored(seed, Sure')
  PROVE  EntriesOK'
BY DEF EntriesOK

\* Steps that leave the handles alone or drop them.
LEMMA HandlesStep ==
  ASSUME HandlesOK, \A seed : Stored(seed, Sure) => Stored(seed, Sure'),
         \A q \in Procs :
           \/ keys'[q] = keys[q] /\ h'[q] = h[q] /\ (Opened(q)' => Opened(q))
           \/ h'[q] \in {h[q], NoHandle} /\ ~Opened(q)'
  PROVE  HandlesOK'
<1> SUFFICES ASSUME NEW q \in Procs
             PROVE  /\ HandleOK(h'[q])
                    /\ Opened(q)' /\ ~h'[q].compromised =>
                         h'[q].epoch < Len(keys'[q]) /\ Stored(keys'[q][h'[q].epoch + 1], Sure')
  BY DEF HandlesOK
<1>1. CASE keys'[q] = keys[q] /\ h'[q] = h[q] /\ (Opened(q)' => Opened(q))
  <2>1. /\ HandleOK(h[q])
        /\ Opened(q) /\ ~h[q].compromised =>
             h[q].epoch < Len(keys[q]) /\ Stored(keys[q][h[q].epoch + 1], Sure)
    BY DEF HandlesOK
  <2> QED BY <1>1, <2>1
<1>2. CASE h'[q] \in {h[q], NoHandle} /\ ~Opened(q)'
  BY <1>2, NoHandleOK DEF HandlesOK
<1> QED BY <1>1, <1>2

LEMMA SettlesFacts ==
  ASSUME NEW p \in Procs, NEW step \in Steps \ {"done", "dead"}, Settles(p, step)
  PROVE  \A q \in Procs : \/ keys'[q] = keys[q] /\ h'[q] = h[q]
                          \/ q = p /\ keys'[q] = << >> /\ h'[q] = NoHandle /\ step = "failed"
BY DEF Settles, Ended

LEMMA StoresFacts ==
  ASSUME TypeOK, NEW p \in Procs, NEW kf, NEW step, Stores(p, kf, step)
  PROVE  /\ step \in {"failed", "newline", "write"} /\ pc'[p] = step /\ Opened(p)
         /\ \A q \in Procs : q # p => pc'[q] = pc[q]
         /\ \A q \in Procs : \/ keys'[q] = keys[q] /\ h'[q] = h[q]
                             \/ q = p /\ keys'[q] = << >> /\ h'[q] = NoHandle /\ step = "failed"
         /\ UNCHANGED <<path, disk, synced, torn, outage, cmd, src, at, n, prev>>
<1>1. step \in {"failed", "newline", "write"} /\ pc[p] \in {"newkey", "newline"} /\ Settles(p, step)
  BY DEF Stores
<1>2. \A q \in Procs : \/ keys'[q] = keys[q] /\ h'[q] = h[q]
                       \/ q = p /\ keys'[q] = << >> /\ h'[q] = NoHandle /\ step = "failed"
  <2>1. step \in Steps \ {"done", "dead"}
    BY <1>1 DEF Steps, Ended
  <2> QED BY <1>1, <2>1, SettlesFacts
<1>3. UNCHANGED <<path, disk, synced, torn, outage, cmd, src, at, n, prev>>
  BY <1>1 DEF Stores, Settles
<1>4. pc'[p] = step /\ Opened(p) /\ \A q \in Procs : q # p => pc'[q] = pc[q]
  BY <1>1 DEF Settles, TypeOK, Opened
<1> QED BY <1>1, <1>2, <1>3, <1>4

LEMMA AppendsFacts ==
  ASSUME TypeOK, NEW p \in Procs, NEW step, Appends(p, step)
  PROVE  /\ step \in {"wrote", "failed"} /\ pc'[p] = step /\ pc[p] = "write" /\ ~h[p].compromised
         /\ \A q \in Procs : q # p => pc'[q] = pc[q]
         /\ \A q \in Procs : \/ keys'[q] = keys[q] /\ h'[q] = h[q]
                             \/ q = p /\ keys'[q] = << >> /\ h'[q] = NoHandle /\ step = "failed"
         /\ UNCHANGED <<path, torn, keyfiles, outage, cmd, src, at, n, prev>>
<1>1. step \in {"wrote", "failed"} /\ pc[p] = "write" /\ ~h[p].compromised /\ Settles(p, step)
  BY DEF Appends
<1>2. \A q \in Procs : \/ keys'[q] = keys[q] /\ h'[q] = h[q]
                       \/ q = p /\ keys'[q] = << >> /\ h'[q] = NoHandle /\ step = "failed"
  <2>1. step \in Steps \ {"done", "dead"}
    BY <1>1 DEF Steps, Ended
  <2> QED BY <1>1, <2>1, SettlesFacts
<1>3. UNCHANGED <<path, torn, keyfiles, outage, cmd, src, at, n, prev>>
  BY <1>1 DEF Appends, Settles
<1>4. pc'[p] = step /\ \A q \in Procs : q # p => pc'[q] = pc[q]
  BY <1>1 DEF Settles, TypeOK
<1> QED BY <1>1, <1>2, <1>3, <1>4

LEMMA StoreFacts ==
  ASSUME TypeOK, InCommand, KeysOK, NEW p \in Procs, NEW kf, NEW step, Stores(p, kf, step)
  PROVE  /\ kf \in KeyFiles /\ Grows(keysfile, kf) /\ ShapeOK(kf)
         /\ OnLine(<<p>>, kf.lines) \/ step = "failed"
         /\ cmd[p] = "rotate" /\ Opened(p) /\ \A q \in Procs : Opened(q) => q = p
         /\ \A seed : Stored(seed, Sure) => Stored(seed, Sure')
<1>1. keysfile \in KeyFiles /\ keysfile \in kept /\ kept \subseteq KeyFiles /\ ShapeOK(keysfile)
  BY DEF TypeOK, KeysOK
<1>2. /\ pc[p] \in {"newkey", "newline"} /\ kf \in {Typed(Piece), Typed(p), Closed}
      /\ step = "failed" \/ kf = Typed(p) \/ pc[p] = "newline"
      /\ keysfile' = kf /\ outage' = outage
      /\ kept' \subseteq kept \cup {kf} /\ kf \in kept'
  BY DEF Stores
<1>3. kf \in KeyFiles /\ Grows(keysfile, kf) /\ ShapeOK(kf)
  BY <1>1, <1>2, TypedGrows, ClosedGrows
<1>4. cmd[p] = "rotate" /\ Opened(p) /\ \A q \in Procs : Opened(q) => q = p
  <2>1. cmd[p] = "rotate"
    BY <1>2 DEF InCommand, StepsOf, Ended
  <2>2. Opened(p) /\ \A q \in Procs : Opened(q) => lock = q
    BY <1>2 DEF Opened, TypeOK
  <2> QED BY <2>1, <2>2
<1>5. OnLine(<<p>>, kf.lines) \/ step = "failed"
  <2>1. CASE kf = Typed(p)
    BY <1>1, <2>1, TypedGrows
  <2>2. CASE pc[p] = "newline"
    <3>1. OnLine(<<p>>, keysfile.lines)
      BY <1>4, <2>2 DEF KeysOK, Pending
    <3> QED BY <1>1, <1>3, <3>1, GrowsOnLine
  <2> QED BY <1>2, <2>1, <2>2
<1>6. ASSUME NEW seed, Stored(seed, Sure), NEW c \in Sure' PROVE OnLine(seed, c.lines)
  <2>1. c \in Sure \/ (c = kf /\ keysfile \in Sure)
    BY <1>1, <1>2 DEF Sure
  <2> QED BY <1>1, <1>3, <1>6, <2>1, GrowsOnLine DEF Stored
<1>7. \A seed : Stored(seed, Sure) => Stored(seed, Sure')
  BY <1>6 DEF Stored
<1> QED BY <1>3, <1>4, <1>5, <1>7

LEMMA MacSeed ==
  ASSUME NEW f, NEW i, NEW ks, NEW e, NEW v, NEW k, MacUnder(f, i, entry_key(ks, e, k, v))
  PROVE  f[i].hash.key.seed = ks[e + 1]
<1>1. PICK key : key = entry_key(ks, e, k, v)
  OBVIOUS
<1>2. key.seed = ks[e + 1]
  BY <1>1 DEF entry_key, segment_key, BaseKey
<1>3. f[i].hash.key = key
  BY <1>1 DEF MacUnder, event_hash
<1> QED BY <1>2, <1>3

\* The scan's handle is in an epoch that the ledger has entries of, under the
\* seed that the process has read for it, or in the first.
LEMMA OpensSound ==
  ASSUME TypeOK, KeysOK, EntriesOK, NEW p \in Procs, Running(p), NEW x, Opens(p, x)
  PROVE  HandleOK(x) /\ (~x.compromised => x.epoch < Len(keys[p]) /\ Stored(keys[p][x.epoch + 1], Sure))
<1>1. CASE x.compromised /\ HandleOK(x)
  BY <1>1
<1>2. CASE x = Scanned(disk[path]) /\ FirstFault(disk[path], keys[p]) = "none"
  <2>1. PICK f : f = disk[path] /\ IsSequence(f) /\ \A i \in 1..Len(f) : f[i].epoch \in Nat /\ Stored(f[i].hash.key.seed, Sure)
    BY DEF TypeOK, EntriesOK
  <2>2. PICK ks : ks = keys[p] /\ ks \in Seq(KeyLines) /\ Len(ks) >= 1 /\ FirstFault(f, ks) = "none"
    BY <1>2, <2>1 DEF TypeOK, KeysOK
  <2>3. /\ HandleOK(x) /\ x.epoch < Len(ks)
        /\ x.epoch = 0 \/ \E i \in 1..Len(f) : f[i].epoch = x.epoch
    BY <1>2, <2>1, <2>2, ScannedFacts
  <2>4. CASE x.epoch = 0
    <3>1. 1 \in 1..Len(keys[p]) /\ x.epoch + 1 = 1
      BY <2>2, <2>4
    <3>2. Stored(keys[p][1], Sure)
      BY <3>1, RingSound
    <3> QED BY <2>2, <2>3, <3>1, <3>2
  <2>5. CASE x.epoch # 0
    <3>1. PICK i \in 1..Len(f) : f[i].epoch = x.epoch
      BY <2>3, <2>5
    <3>2. MacUnder(f, i, entry_key(ks, f[i].epoch, SealsThrough(f, i), f[i].v))
      BY <2>1, <2>2, NoFirstFault, NoLineFault
    <3>3. f[i].hash.key.seed = ks[f[i].epoch + 1]
      BY <3>2, MacSeed
    <3> QED BY <2>1, <2>2, <2>3, <3>1, <3>3
  <2> QED BY <2>4, <2>5
<1> QED BY <1>1, <1>2 DEF Opens

LEMMA BaseStep == BaseInv /\ [Next]_vars => BaseInv'
<1> SUFFICES ASSUME BaseInv, [Next]_vars PROVE KeysOK' /\ EntriesOK' /\ HandlesOK' /\ NameOK'
  BY TypeStep DEF BaseInv
<1> DEFINE Goal == KeysOK' /\ EntriesOK' /\ HandlesOK' /\ NameOK'
           Kept == \A seed : Stored(seed, Sure) => Stored(seed, Sure')
<1>0. TypeOK /\ InCommand /\ KeysOK /\ EntriesOK /\ HandlesOK /\ NameOK /\ TypeOK' /\ InCommand'
  BY TypeStep DEF BaseInv
<1>1. ASSUME NEW p \in Procs, NEW c, NEW s, Start(p, c, s) PROVE Goal
  <2>0. keysfile' = keysfile /\ kept' = kept /\ outage' = outage /\ disk' = disk /\ path' = path /\ h' = h
    BY <1>1 DEF Start, files, keyfiles
  <2>4. Kept
    BY <2>0 DEF Stored, Sure
  <2>5. /\ keys'[p] = keysfile.lines /\ ~Pending(p)' /\ ~Opened(p)' /\ pc[p] = "new"
        /\ \A q \in Procs : q # p => keys'[q] = keys[q] /\ pc'[q] = pc[q] /\ cmd'[q] = cmd[q]
    BY <1>0, <1>1 DEF Start, Goto, TypeOK, Pending, Opened
  <2>1. KeysOK'
    <3>2. keysfile \in KeyFiles /\ ShapeOK(keysfile)
      BY <1>0 DEF KeysOK, TypeOK
    <3>3. ASSUME NEW q \in Procs PROVE ReadFrom(keys'[q], keysfile)
      <4>1. ReadFrom(keys[q], keysfile) /\ ReadFrom(keysfile.lines, keysfile)
        BY <1>0, <3>2, ReadFacts DEF KeysOK
      <4> QED BY <2>5, <4>1
    <3>4. ASSUME NEW q \in Procs, Running(q)' PROVE Len(keys'[q]) >= 1
      <4>1. CASE q = p
        BY <2>5, <3>2, <4>1 DEF ShapeOK
      <4>2. CASE q # p
        BY <1>0, <2>5, <3>4, <4>2 DEF KeysOK, Running
      <4> QED BY <4>1, <4>2
    <3>5. ASSUME NEW q \in Procs, Pending(q)'
          PROVE  OnLine(<<q>>, keysfile'.lines) /\ (pc'[q] = "write" => kept' = {keysfile'})
      <4>1. Pending(q) /\ pc'[q] = pc[q]
        BY <2>5, <3>5 DEF Pending
      <4> QED BY <1>0, <2>0, <4>1 DEF KeysOK
    <3>6. \A k \in kept' : ShapeOK(k)
      BY <1>0, <2>0 DEF KeysOK
    <3> QED BY <2>0, <3>3, <3>4, <3>5, <3>6 DEF KeysOK
  <2>2. EntriesOK'
    BY <1>0, <2>0, <2>4, EntriesStep
  <2>6. NameOK'
    BY <1>0, <2>0, <2>5 DEF NameOK
  <2>3. HandlesOK'
    <3>1. \A q \in Procs :
            \/ keys'[q] = keys[q] /\ h'[q] = h[q] /\ (Opened(q)' => Opened(q))
            \/ h'[q] \in {h[q], NoHandle} /\ ~Opened(q)'
      BY <2>0, <2>5 DEF Opened
    <3> QED BY <1>0, <2>4, <3>1, HandlesStep
  <2> QED BY <2>1, <2>2, <2>3, <2>6
<1>2. ASSUME NEW p \in Procs, NEW how \in Ended, Ends(p, how) PROVE Goal
  <2>1. \A q \in Procs : q # p => pc'[q] = pc[q] /\ keys'[q] = keys[q] /\ h'[q] = h[q] /\ cmd'[q] = cmd[q]
    BY <1>0, <1>2 DEF Ends, TypeOK
  <2>2. pc'[p] \in Ended /\ pc[p] # "done" /\ keys'[p] \in {keys[p], << >>} /\ h'[p] \in {h[p], NoHandle}
    BY <1>0, <1>2 DEF Ends, TypeOK, Ended
  <2>3. KeysOK' /\ Kept
    <3>1. ~Running(p)' /\ ~Pending(p)' /\ UNCHANGED <<keyfiles, outage>>
      BY <1>2, <2>2 DEF Ends, Running, Pending, Ended
    <3>9. KeepsKeys
      BY <2>1, <2>2, <3>1 DEF KeepsKeys, Running, Pending
    <3> QED BY <1>0, <3>9, KeysStep
  <2>4. EntriesOK'
    <3>1. disk' = disk
      BY <1>2 DEF Ends
    <3> QED BY <1>0, <2>3, <3>1, EntriesStep
  <2>5. HandlesOK'
    <3>1. \A q \in Procs :
            \/ keys'[q] = keys[q] /\ h'[q] = h[q] /\ (Opened(q)' => Opened(q))
            \/ h'[q] \in {h[q], NoHandle} /\ ~Opened(q)'
      BY <2>1, <2>2 DEF Opened, Ended
    <3> QED BY <1>0, <2>3, <3>1, HandlesStep
  <2>6. NameOK'
    BY <1>0, <1>2, <2>1, <2>2 DEF Ends, NameOK
  <2> QED BY <2>3, <2>4, <2>5, <2>6
<1>3. ASSUME NEW p \in Procs, NEW step \in Steps, Moves(p, step) PROVE Goal
  <2>0. /\ pc' = [pc EXCEPT ![p] = step] /\ UNCHANGED <<path, disk, keyfiles, outage, cmd, keys, h>>
        /\ <<pc[p], step>> \in {<<"flock", "open">>, <<"stdin", "write">>, <<"read", "seek">>,
                                <<"seek", "follow">>, <<"follow", "follow">>}
        /\ pc[p] = "stdin" => cmd[p] = "stdin"
    BY <1>0, <1>3 DEF Moves, InCommand, StepsOf, Ended, files
  <2>1. KeysOK' /\ Kept
    <3>1. ASSUME NEW q \in Procs PROVE (Running(q)' => Running(q)) /\ (Pending(q)' => Pending(q) /\ pc'[q] = pc[q])
      BY <1>0, <2>0 DEF Running, Pending, TypeOK, Ended
    <3>9. KeepsKeys
      BY <2>0, <3>1 DEF KeepsKeys
    <3> QED BY <1>0, <3>9, KeysStep
  <2>2. EntriesOK'
    BY <1>0, <2>0, <2>1, EntriesStep
  <2>3. HandlesOK'
    <3>1. \A q \in Procs : Opened(q)' => Opened(q)
      BY <1>0, <2>0 DEF Opened, TypeOK
    <3> QED BY <1>0, <2>0, <2>1, <3>1, HandlesStep
  <2>4. NameOK'
    BY <1>0, <2>0 DEF NameOK, TypeOK
  <2> QED BY <2>1, <2>2, <2>3, <2>4
<1>4. ASSUME NEW p \in Procs, NEW x, Opens(p, x) PROVE Goal
  <2>0. /\ UNCHANGED <<path, disk, keyfiles, outage, cmd, keys>> /\ h' = [h EXCEPT ![p] = x]
        /\ pc[p] = "open" /\ pc' = [pc EXCEPT ![p] = AfterOpen(cmd[p])]
    BY <1>4 DEF Opens, files
  <2>1. /\ cmd[p] \in AllCommands \ {"import", "public"} /\ Running(p)
        /\ AfterOpen(cmd[p]) # "newline" /\ (AfterOpen(cmd[p]) = "write" => cmd[p] # "rotate")
    BY <1>0, <2>0 DEF InCommand, StepsOf, Ended, Running, AfterOpen, AllCommands
  <2>2. KeysOK' /\ Kept
    <3>1. ASSUME NEW q \in Procs PROVE (Running(q)' => Running(q)) /\ (Pending(q)' => Pending(q) /\ pc'[q] = pc[q])
      <4>1. CASE q = p
        BY <1>0, <2>0, <2>1, <4>1 DEF Pending, TypeOK
      <4>2. CASE q # p
        BY <1>0, <2>0, <4>2 DEF Running, Pending, TypeOK
      <4> QED BY <4>1, <4>2
    <3>9. KeepsKeys
      BY <2>0, <3>1 DEF KeepsKeys
    <3> QED BY <1>0, <3>9, KeysStep
  <2>3. EntriesOK'
    BY <1>0, <2>0, <2>2, EntriesStep
  <2>7. NameOK'
    BY <1>0, <2>0 DEF NameOK, TypeOK
  <2>4. HandleOK(x) /\ (~x.compromised => x.epoch < Len(keys[p]) /\ Stored(keys[p][x.epoch + 1], Sure))
    BY <1>0, <1>4, <2>1, OpensSound
  <2>5. HandlesOK'
    <3>1. \A q \in Procs : q # p => h'[q] = h[q] /\ (Opened(q)' => Opened(q))
      BY <1>0, <2>0 DEF Opened, TypeOK
    <3>2. h'[p] = x /\ keys' = keys
      BY <1>0, <2>0 DEF HandlesOK, TypeOK
    <3>3. ASSUME NEW q \in Procs
          PROVE  /\ HandleOK(h'[q])
                 /\ Opened(q)' /\ ~h'[q].compromised =>
                      h'[q].epoch < Len(keys'[q]) /\ Stored(keys'[q][h'[q].epoch + 1], Sure')
      <4>1. CASE q = p
        BY <2>2, <2>4, <3>2, <4>1
      <4>2. CASE q # p
        BY <1>0, <2>2, <3>1, <3>2, <4>2 DEF HandlesOK
      <4> QED BY <4>1, <4>2
    <3> QED BY <3>3 DEF HandlesOK
  <2> QED BY <2>2, <2>3, <2>5, <2>7
<1>5. ASSUME NEW p \in Procs, NEW kf, NEW step, Stores(p, kf, step) PROVE Goal
  <2>0. /\ keysfile' = kf /\ kept' = IF step = "write" THEN {kf} ELSE kept \cup {kf}
        /\ UNCHANGED <<path, disk, outage, cmd>> /\ pc' = [pc EXCEPT ![p] = step]
        /\ step \in {"failed", "newline", "write"}
    BY <1>5 DEF Stores, Settles
  <2>1. \A q \in Procs : \/ keys'[q] = keys[q] /\ h'[q] = h[q]
                         \/ q = p /\ keys'[q] = << >> /\ h'[q] = NoHandle /\ step = "failed"
    <3>1. Settles(p, step) /\ step \in Steps \ {"done", "dead"}
      BY <1>5, <2>0 DEF Stores, Steps, Ended
    <3> QED BY <3>1, SettlesFacts
  <2>2. /\ kf \in KeyFiles /\ Grows(keysfile, kf) /\ ShapeOK(kf)
        /\ OnLine(<<p>>, kf.lines) \/ step = "failed"
        /\ cmd[p] = "rotate" /\ Opened(p) /\ \A q \in Procs : Opened(q) => q = p
        /\ Kept
    BY <1>0, <1>5, StoreFacts
  <2>3. KeysOK'
    <3>1. ASSUME NEW q \in Procs PROVE ReadFrom(keys'[q], kf)
      <4>1. keysfile \in KeyFiles /\ ShapeOK(keysfile) /\ keys[q] \in Seq(KeyLines) /\ ReadFrom(keys[q], keysfile)
        BY <1>0 DEF KeysOK, TypeOK
      <4>2. ReadFrom(keys[q], kf)
        BY <2>2, <4>1, ReadFacts
      <4>3. ReadFrom(<< >>, kf)
        BY <2>2, ReadFacts
      <4> QED BY <2>1, <4>2, <4>3
    <3>2. ASSUME NEW q \in Procs, Running(q)' PROVE Len(keys'[q]) >= 1
      <4>1. Running(q) /\ keys'[q] = keys[q]
        BY <1>0, <2>0, <2>1, <2>2, <3>2 DEF Running, TypeOK, Ended, Opened
      <4> QED BY <1>0, <4>1 DEF KeysOK
    <3>3. ASSUME NEW q \in Procs, Pending(q)'
          PROVE  OnLine(<<q>>, kf.lines) /\ (pc'[q] = "write" => kept' = {kf})
      <4>1. q = p
        BY <1>0, <2>0, <2>2, <3>3 DEF Pending, Opened, TypeOK
      <4>2. pc'[q] = step /\ step # "failed"
        BY <1>0, <2>0, <3>3, <4>1 DEF Pending, TypeOK
      <4> QED BY <2>0, <2>2, <4>1, <4>2
    <3>4. \A c \in kept' : ShapeOK(c)
      BY <1>0, <2>0, <2>2 DEF KeysOK
    <3> QED BY <2>0, <3>1, <3>2, <3>3, <3>4 DEF KeysOK
  <2>4. EntriesOK'
    BY <1>0, <2>0, <2>2, EntriesStep
  <2>5. NameOK'
    BY <1>0, <2>0, <2>2 DEF NameOK, TypeOK, Opened
  <2>6. HandlesOK'
    <3>1. \A q \in Procs :
            \/ keys'[q] = keys[q] /\ h'[q] = h[q] /\ (Opened(q)' => Opened(q))
            \/ h'[q] \in {h[q], NoHandle} /\ ~Opened(q)'
      BY <1>0, <2>0, <2>1, <2>2 DEF Opened, TypeOK
    <3> QED BY <1>0, <2>2, <3>1, HandlesStep
  <2> QED BY <2>3, <2>4, <2>5, <2>6
<1>6. ASSUME NEW p \in Procs, NEW step, Appends(p, step) PROVE Goal
  <2>0. /\ disk' = [disk EXCEPT ![path] = Append(@, NewEntry(p))] /\ pc' = [pc EXCEPT ![p] = step]
        /\ UNCHANGED <<path, keyfiles, outage, cmd>> /\ pc[p] = "write" /\ step \in {"wrote", "failed"}
    BY <1>6 DEF Appends, Settles
  <2>8. \A q \in Procs : \/ keys'[q] = keys[q] /\ h'[q] = h[q]
                         \/ q = p /\ keys'[q] = << >> /\ h'[q] = NoHandle /\ step = "failed"
    <3>1. Settles(p, step) /\ step \in Steps \ {"done", "dead"}
      BY <1>6, <2>0 DEF Appends, Steps, Ended
    <3> QED BY <3>1, SettlesFacts
  <2>1. KeysOK' /\ Kept
    <3>1. ASSUME NEW q \in Procs PROVE (Running(q)' => Running(q)) /\ (Pending(q)' => Pending(q) /\ pc'[q] = pc[q])
      BY <1>0, <2>0, <2>8 DEF Running, Pending, TypeOK, Ended
    <3>2. ASSUME NEW q \in Procs PROVE keys'[q] = keys[q] \/ (keys'[q] = << >> /\ ~Running(q)')
      BY <1>0, <2>0, <2>8 DEF Running, TypeOK, Ended
    <3>9. KeepsKeys
      BY <2>0, <2>8, <3>1, <3>2 DEF KeepsKeys
    <3> QED BY <1>0, <3>9, KeysStep
  <2>2. EntriesOK'
    <3>1. path \in Files
      BY <1>0 DEF TypeOK
    <3>2. NewEntry(p).epoch \in Nat /\ Stored(NewEntry(p).hash.key.seed, Sure)
      BY <1>6, SeedStored
    <3> QED BY <1>0, <2>0, <2>8, <2>1, <3>1, <3>2, EntriesAppend
  <2>3. NameOK'
    BY <1>0, <2>0, <2>8 DEF NameOK, TypeOK
  <2>4. HandlesOK'
    <3>1. \A q \in Procs :
            \/ keys'[q] = keys[q] /\ h'[q] = h[q] /\ (Opened(q)' => Opened(q))
            \/ h'[q] \in {h[q], NoHandle} /\ ~Opened(q)'
      <4> TAKE q \in Procs
      <4>1. CASE q # p
        BY <1>0, <2>0, <2>8, <4>1 DEF Opened, TypeOK
      <4>2. CASE q = p
        <5>1. pc'[q] = step /\ Opened(q)
          BY <1>0, <2>0, <4>2 DEF Opened, TypeOK
        <5> QED BY <2>8, <5>1 DEF Opened
      <4> QED BY <4>1, <4>2
    <3> QED BY <1>0, <2>1, <3>1, HandlesStep
  <2> QED BY <2>1, <2>2, <2>3, <2>4
<1>7. ASSUME NEW p \in Procs, NEW r, Copies(p, r) PROVE Goal
  <2>0. UNCHANGED <<path, keyfiles, outage, pc, cmd, keys, h>> /\ pc[p] = "import"
    BY <1>7 DEF Copies
  <2>1. KeysOK' /\ Kept
    <3>9. KeepsKeys
      BY <2>0 DEF KeepsKeys, Running, Pending
    <3> QED BY <1>0, <3>9, KeysStep
  <2>4. HandlesOK' /\ NameOK'
    <3>1. HandlesOK'
      BY <1>0, <2>0, <2>1, HandlesStep DEF Opened
    <3> QED BY <1>0, <2>0, <3>1 DEF NameOK
  <2>2. Stored(keys[p][1], Sure)
    <3>1. Running(p)
      BY <2>0 DEF Running, Ended
    <3>2. keys[p] \in Seq(KeyLines) /\ Len(keys[p]) >= 1
      BY <1>0, <3>1 DEF KeysOK, TypeOK
    <3>3. 1 \in 1..Len(keys[p])
      BY <3>2
    <3> QED BY <1>0, <3>3, RingSound
  <2>3. EntriesOK'
    <3>0. PICK entry : entry = r.entry
      OBVIOUS
    <3>e. PICK e : e = Copied(p, entry)
      OBVIOUS
    <3>1. e = Copied(p, entry) /\ e.epoch = 0 /\ e.hash.key.seed = keys[p][1]
      BY <3>e, CopiedFacts, Zenon
    <3>2. p \in Files
      BY DEF Files
    <3>3. disk' = [disk EXCEPT ![p] = Append(@, e)]
      BY <1>7, <3>0, <3>1 DEF Copies
    <3>4. e.epoch \in Nat /\ Stored(e.hash.key.seed, Sure)
      BY <2>2, <3>1
    <3> QED BY <1>0, <2>1, <3>2, <3>3, <3>4, EntriesAppend
  <2> QED BY <2>1, <2>3, <2>4
<1>8. ASSUME NEW p \in Procs, Checks(p) PROVE Goal
  <2>0. /\ UNCHANGED <<path, disk, keyfiles, outage, cmd, keys, h>> /\ pc[p] = "import"
        /\ pc' = [pc EXCEPT ![p] = "rename"]
    BY <1>8 DEF Checks, locals
  <2>1. KeysOK' /\ Kept
    <3>1. ASSUME NEW q \in Procs PROVE (Running(q)' => Running(q)) /\ (Pending(q)' => Pending(q) /\ pc'[q] = pc[q])
      BY <1>0, <2>0 DEF Running, Pending, TypeOK, Ended
    <3>9. KeepsKeys
      BY <2>0, <3>1 DEF KeepsKeys
    <3> QED BY <1>0, <3>9, KeysStep
  <2>2. EntriesOK'
    BY <1>0, <2>0, <2>1, EntriesStep
  <2>3. HandlesOK'
    <3>1. \A q \in Procs : Opened(q)' => Opened(q)
      BY <1>0, <2>0 DEF Opened, TypeOK
    <3> QED BY <1>0, <2>0, <2>1, <3>1, HandlesStep
  <2>4. NameOK'
    BY <1>0, <2>0 DEF NameOK, TypeOK
  <2> QED BY <2>1, <2>2, <2>3, <2>4
<1>9. ASSUME NEW p \in Procs, Rename(p) PROVE Goal
  <2>0. /\ UNCHANGED <<disk, keyfiles, outage, cmd>> /\ pc[p] = "rename" /\ path' = p
        /\ pc' = [pc EXCEPT ![p] = "done"]
        /\ keys' = [keys EXCEPT ![p] = << >>] /\ h' = [h EXCEPT ![p] = NoHandle]
    BY <1>9 DEF Rename, Exit, Goto
  <2>1. cmd[p] = "import"
    BY <1>0, <2>0 DEF InCommand, StepsOf, Ended
  <2>2. NameOK'
    BY <1>0, <2>0, <2>1 DEF NameOK, TypeOK
  <2>5. KeysOK' /\ Kept
    <3>1. ASSUME NEW q \in Procs
          PROVE  /\ keys'[q] = keys[q] \/ (keys'[q] = << >> /\ ~Running(q)')
                 /\ (Running(q)' => Running(q)) /\ (Pending(q)' => Pending(q) /\ pc'[q] = pc[q])
      BY <1>0, <2>0 DEF Running, Pending, TypeOK, Ended
    <3>9. KeepsKeys
      BY <2>0, <3>1 DEF KeepsKeys
    <3> QED BY <1>0, <3>9, KeysStep
  <2>3. EntriesOK'
    BY <1>0, <2>0, <2>5, EntriesStep
  <2>4. HandlesOK'
    <3>1. \A q \in Procs :
            \/ keys'[q] = keys[q] /\ h'[q] = h[q] /\ (Opened(q)' => Opened(q))
            \/ h'[q] \in {h[q], NoHandle} /\ ~Opened(q)'
      BY <1>0, <2>0 DEF Opened, TypeOK
    <3> QED BY <1>0, <2>5, <3>1, HandlesStep
  <2> QED BY <2>2, <2>3, <2>4, <2>5
<1>10. CASE PowerLoss
  <2>1. \A q \in Procs : /\ keys'[q] = << >> /\ h'[q] = NoHandle
                         /\ pc'[q] \in {"new"} \cup Ended /\ (pc[q] = "done" => pc'[q] = "done")
    BY <1>0, <1>10 DEF PowerLoss, Running, TypeOK, Ended
  <2>2. keysfile' \in kept /\ kept' = {keysfile'} /\ outage' = TRUE /\ cmd' = cmd /\ path' = path
    BY <1>10 DEF PowerLoss
  <2>3. Kept
    <3>1. Sure' \subseteq Sure
      BY <2>2 DEF Sure
    <3> QED BY <3>1 DEF Stored
  <2>7. KeysOK'
    <3>1. \A q \in Procs : ~Running(q)' /\ ~Pending(q)'
      BY <2>1 DEF Running, Pending, Ended
    <3>2. keysfile' \in KeyFiles /\ ShapeOK(keysfile')
      BY <1>0, <2>2 DEF KeysOK, TypeOK
    <3>3. ReadFrom(<< >>, keysfile')
      BY <3>2, ReadFacts
    <3>4. \A q \in Procs : ReadFrom(keys'[q], keysfile')
      BY <2>1, <3>3
    <3>5. \A c \in kept' : ShapeOK(c)
      BY <2>2, <3>2
    <3> QED BY <3>1, <3>4, <3>5 DEF KeysOK
  <2>4. HandlesOK'
    BY <2>1, NoHandleOK DEF HandlesOK, Opened, Ended
  <2>5. NameOK'
    BY <1>0, <2>1, <2>2 DEF NameOK
  <2>6. EntriesOK'
    <3>1. PICK k \in synced[path]..Len(disk[path]) : disk' = [disk EXCEPT ![path] = SubSeq(@, 1, k)]
      BY <1>10 DEF PowerLoss
    <3>2. /\ path \in Files /\ IsSequence(disk[path]) /\ k \in 0..Len(disk[path])
          /\ disk'[path] = SubSeq(disk[path], 1, k) /\ \A g \in Files : g # path => disk'[g] = disk[g]
      BY <1>0, <3>1, LenNat DEF TypeOK
    <3>3. /\ Len(disk'[path]) = k /\ \A i \in 1..k : disk'[path][i] = disk[path][i]
          /\ \A i \in 1..k : i \in 1..Len(disk[path])
      BY <3>2, SubSeqFacts, LenNat
    <3> QED BY <1>0, <2>3, <3>2, <3>3 DEF EntriesOK
  <2> QED BY <2>4, <2>5, <2>6, <2>7
<1>11. CASE UNCHANGED vars
  <2>1. /\ UNCHANGED <<path, disk, keyfiles, outage, pc, cmd, keys, h>>
    BY <1>11 DEF vars, files, locals
  <2>2. KeepsKeys
    BY <2>1 DEF KeepsKeys, Running, Pending
  <2>3. KeysOK' /\ Kept
    BY <1>0, <2>2, KeysStep
  <2>4. EntriesOK' /\ HandlesOK'
    BY <1>0, <2>1, <2>3, EntriesStep, HandlesStep DEF Opened
  <2> QED BY <1>0, <2>1, <2>3, <2>4 DEF NameOK
<1> HIDE DEF Goal
<1>12. ASSUME NEW p \in Procs, Kind(p) PROVE Goal
  <2>1. CASE \E c, s : Start(p, c, s)
    BY <1>1, <2>1
  <2>2. CASE \E how \in Ended : Ends(p, how)
    BY <1>2, <2>2
  <2>3. CASE \E step \in Steps : Moves(p, step)
    BY <1>3, <2>3
  <2>4. CASE \E x : Opens(p, x)
    BY <1>4, <2>4
  <2>5. CASE \E kf, step : Stores(p, kf, step)
    BY <1>5, <2>5
  <2>6. CASE \E step : Appends(p, step)
    BY <1>6, <2>6
  <2>7. CASE \E r : Copies(p, r)
    BY <1>7, <2>7
  <2>8. CASE Checks(p)
    BY <1>8, <2>8
  <2>9. CASE Rename(p)
    BY <1>9, <2>9
  <2> QED BY <1>12, <2>1, <2>2, <2>3, <2>4, <2>5, <2>6, <2>7, <2>8, <2>9 DEF Kind
<1>13. (\E p \in Procs : Kind(p)) \/ PowerLoss \/ UNCHANGED vars
  BY <1>0, Kinds
<1>14. Goal
  BY <1>10, <1>11, <1>12, <1>13 DEF Goal
<1> QED BY <1>14 DEF Goal

\* rotate-key stores its seed and syncs it before it records the rotation, so
\* that nothing is ever written under a seed whose text is not in the keys
\* file: whoever is killed, fails or rotates at the same time, and after a
\* power loss as well when the file came with its last newline.
THEOREM SeedsAlwaysKept == Spec => []SeedsKept
<1>1. BaseInv => SeedsKept
  <2> SUFFICES ASSUME BaseInv, KeysEol \/ ~outage, NEW i \in 1..Len(disk[path])
               PROVE  OnLine(disk[path][i].hash.key.seed, keysfile.lines)
    BY DEF SeedsKept
  <2>1. path \in Files /\ keysfile \in kept
    BY DEF BaseInv, TypeOK
  <2>2. Stored(disk[path][i].hash.key.seed, Sure) /\ keysfile \in Sure
    BY <2>1 DEF BaseInv, EntriesOK, Sure
  <2> QED BY <2>2 DEF Stored
<1> QED BY <1>1, BaseInit, BaseStep, PTL DEF Spec

(***************************************************************************)
(* One log for all processes.  Who has opened the ledger and may append    *)
(* stands at its end, because the lock keeps the others away and import    *)
(* waits for it (ImportExclusive) or has not come yet.                     *)
(***************************************************************************)

\* x stands at the end of file f, in the highest epoch there.
Current(x, f) ==
  /\ x.seq = Len(f) /\ x.last_hash = LastHash(f, Len(f) + 1)
  /\ \A i \in 1..Len(f) : f[i].epoch <= x.epoch
  /\ x.epoch = 0 \/ \E i \in 1..Len(f) : f[i].epoch = x.epoch

SyncOK ==
  ImportExclusive \/ path = Ledger0 =>
    \A p \in Procs : Opened(p) /\ ~h[p].compromised => Current(h[p], disk[path])

\* What import renames is whole, linked and on stable storage.
CopyOK ==
  \A p \in Procs : pc[p] = "rename" =>
    synced[p] = Len(disk[p]) /\ \A i \in 1..Len(disk[p]) : ChainLinked(disk[p], i)

\* Who has read the ledger has not read more than there is, and follows from
\* there.
TailOK ==
  path = Ledger0 =>
    \A p \in Procs : /\ h[p].seq <= Len(disk[path])
                     /\ pc[p] = "follow" => n[p] >= h[p].seq

SerialInv == BaseInv /\ SyncOK /\ CopyOK /\ TailOK

\* A step that leaves the ledger alone and opens it for nobody.
Quiet ==
  /\ path' = path /\ disk'[path] = disk[path] /\ synced'[path] = synced[path]
  /\ \A q \in Procs :
       /\ Opened(q)' => Opened(q) /\ h'[q] = h[q]
       /\ h'[q] \in {h[q], NoHandle}
       /\ pc'[q] = "follow" => /\ h'[q] = h[q]
                               /\ \/ pc[q] = "follow" /\ n'[q] >= n[q]
                                  \/ n'[q] = Len(disk[path])

\* The copy of an import under way is not the ledger.
LEMMA CopyApart ==
  ASSUME BaseInv, NEW p \in Procs, pc[p] # "done"
  PROVE  path # p
BY CliAssumption DEF BaseInv, NameOK

\* Four kinds of steps do something to the ledger or to who has it open.
LEMMA LedgerKinds ==
  ASSUME BaseInv, [Next]_vars
  PROVE  \/ Quiet
         \/ \E p \in Procs : (\E x : Opens(p, x)) \/ (\E step : Appends(p, step)) \/ Rename(p)
         \/ PowerLoss
<1>0. TypeOK /\ InCommand /\ path \in Files
  BY DEF BaseInv, TypeOK
<1>1. ASSUME NEW p \in Procs, NEW c, NEW s, Start(p, c, s) PROVE Quiet
  BY <1>0, <1>1 DEF Start, Quiet, Opened, Goto, files, TypeOK
<1>2. ASSUME NEW p \in Procs, NEW how \in Ended, Ends(p, how) PROVE Quiet
  <2>1. \A q \in Procs : q # p => pc'[q] = pc[q] /\ h'[q] = h[q]
    BY <1>0, <1>2 DEF Ends, TypeOK
  <2>2. pc'[p] \in Ended /\ h'[p] \in {h[p], NoHandle}
    BY <1>0, <1>2 DEF Ends, TypeOK
  <2>3. path' = path /\ disk' = disk /\ synced' = synced /\ n' = n
    BY <1>2 DEF Ends
  <2>4. \A q \in Procs : n[q] \in Nat
    BY <1>0 DEF TypeOK
  <2> QED BY <2>1, <2>2, <2>3, <2>4 DEF Quiet, Opened, Ended
<1>3. ASSUME NEW p \in Procs, NEW step \in Steps, Moves(p, step) PROVE Quiet
  <2>1. path' = path /\ disk' = disk /\ synced' = synced /\ h' = h
    BY <1>3 DEF Moves, files
  <2>2. \A q \in Procs : q # p => pc'[q] = pc[q] /\ n'[q] = n[q]
    BY <1>0, <1>3 DEF Moves, TypeOK
  <2>3. n \in [Procs -> Nat] /\ pc'[p] = step
    BY <1>0, <1>3 DEF Moves, TypeOK
  <2>4. Opened(p)' => Opened(p)
    BY <1>3, <2>3 DEF Moves, Opened
  <2>5. pc'[p] = "follow" => (pc[p] = "follow" /\ n'[p] >= n[p]) \/ n'[p] = Len(disk[path])
    BY <1>3, <2>3 DEF Moves
  <2> QED BY <2>1, <2>2, <2>3, <2>4, <2>5 DEF Quiet, Opened
<1>4. ASSUME NEW p \in Procs, NEW kf, NEW step, Stores(p, kf, step) PROVE Quiet
  <2>1. /\ step \in {"failed", "newline", "write"} /\ pc'[p] = step /\ Opened(p)
        /\ \A q \in Procs : q # p => pc'[q] = pc[q]
        /\ \A q \in Procs : \/ h'[q] = h[q]
                            \/ q = p /\ h'[q] = NoHandle /\ step = "failed"
        /\ UNCHANGED <<path, disk, synced, n>>
    BY <1>0, <1>4, StoresFacts
  <2>2. \A q \in Procs : n[q] \in Nat
    BY <1>0 DEF TypeOK
  <2> QED BY <2>1, <2>2 DEF Quiet, Opened
<1>5. ASSUME NEW p \in Procs, NEW r, Copies(p, r) PROVE Quiet
  <2>1. path # p
    BY <1>5, CopyApart DEF Copies
  <2>2. disk'[path] = disk[path]
    BY <1>0, <1>5, <2>1 DEF Copies, TypeOK
  <2>3. UNCHANGED <<path, synced, pc, h>> /\ n' = [n EXCEPT ![p] = @ + 1]
    BY <1>5 DEF Copies
  <2>4. \A q \in Procs : n'[q] >= n[q]
    BY <1>0, <2>3 DEF TypeOK
  <2> QED BY <2>2, <2>3, <2>4 DEF Quiet, Opened
<1>6. ASSUME NEW p \in Procs, Checks(p) PROVE Quiet
  <2>1. path # p
    BY <1>6, CopyApart DEF Checks
  <2> QED BY <1>0, <1>6, <2>1 DEF Checks, Quiet, Opened, locals, TypeOK
<1>7. ASSUME UNCHANGED vars PROVE Quiet
  BY <1>0, <1>7 DEF vars, files, locals, Quiet, Opened, TypeOK
<1>8. (\E p \in Procs : Kind(p)) \/ PowerLoss \/ UNCHANGED vars
  BY <1>0, Kinds
<1> QED BY <1>1, <1>2, <1>3, <1>4, <1>5, <1>6, <1>7, <1>8, ZenonT(60) DEF Kind

\* What Opens gives a process that may go on.
LEMMA OpenedCurrent ==
  ASSUME BaseInv, NEW p \in Procs, NEW x, Opens(p, x)
  PROVE  /\ HandleOK(x) /\ x.seq <= Len(disk[path])
         /\ ~x.compromised => Current(x, disk[path])
<1>1. /\ IsSequence(disk[path]) /\ keys[p] \in Seq(KeyLines)
      /\ \A i \in 1..Len(disk[path]) : disk[path][i].epoch \in Nat
  BY DEF BaseInv, TypeOK, EntriesOK
<1>2. Running(p)
  BY DEF Opens, Running, Ended
<1>3. Len(keys[p]) >= 1 /\ Len(disk[path]) \in Nat
  BY <1>1, <1>2, LenNat DEF BaseInv, KeysOK
<1>4. FirstFault(disk[path], keys[p]) = "none" =>
        /\ HandleOK(Scanned(disk[path])) /\ Scanned(disk[path]).seq = Len(disk[path])
        /\ Current(Scanned(disk[path]), disk[path])
  BY <1>1, <1>3, ScannedFacts DEF Current
<1> QED BY <1>3, <1>4 DEF Opens

\* Only the holder of the lock has the ledger open.
LEMMA OneOpened ==
  ASSUME TypeOK, NEW p \in Procs, NEW q \in Procs, Opened(q), pc[p] \in {"open", "write"}
  PROVE  q = p
BY DEF TypeOK, Opened

LEMMA SyncStep == SerialInv /\ [Next]_vars => SyncOK' /\ TailOK'
<1> SUFFICES ASSUME SerialInv, [Next]_vars PROVE SyncOK' /\ TailOK'
  OBVIOUS
<1>0. /\ BaseInv /\ TypeOK /\ HandlesOK /\ SyncOK /\ TailOK /\ path \in Files
      /\ IsSequence(disk[path]) /\ Len(disk[path]) \in Nat
  BY LenNat DEF SerialInv, BaseInv, TypeOK
<1>00. \A q \in Procs : h[q].seq \in Nat /\ n[q] \in Nat
  BY <1>0 DEF HandlesOK, HandleOK, TypeOK
<1>1. CASE Quiet
  <2>1. path' = path /\ disk'[path'] = disk[path]
    BY <1>1 DEF Quiet
  <2>2. SyncOK'
    BY <1>0, <1>1, <2>1 DEF SyncOK, Quiet
  <2>3. ASSUME NEW q \in Procs, path = Ledger0
        PROVE  h'[q].seq <= Len(disk[path]) /\ (pc'[q] = "follow" => n'[q] >= h'[q].seq)
    <3>1. h[q].seq <= Len(disk[path]) /\ (pc[q] = "follow" => n[q] >= h[q].seq)
      BY <1>0, <2>3 DEF TailOK
    <3>2. h'[q] = h[q] \/ h'[q] = NoHandle
      BY <1>1 DEF Quiet
    <3>3. h'[q].seq <= Len(disk[path])
      BY <1>0, <3>1, <3>2, NoHandleOK
    <3>4. ASSUME pc'[q] = "follow" PROVE n'[q] >= h'[q].seq
      <4>1. /\ h'[q] = h[q]
            /\ (pc[q] = "follow" /\ n'[q] >= n[q]) \/ n'[q] = Len(disk[path])
        BY <1>1, <3>4 DEF Quiet
      <4>2. CASE pc[q] = "follow" /\ n'[q] >= n[q]
        <5>1. n'[q] \in Nat
          BY <1>0, TypeStep DEF BaseInv, TypeOK
        <5> QED BY <1>00, <3>1, <4>1, <4>2, <5>1
      <4>3. CASE n'[q] = Len(disk[path])
        BY <3>1, <4>1, <4>3
      <4> QED BY <4>1, <4>2, <4>3
    <3> QED BY <3>3, <3>4
  <2>4. TailOK'
    BY <2>1, <2>3 DEF TailOK
  <2> QED BY <2>2, <2>4
<1>2. ASSUME NEW p \in Procs, NEW x, Opens(p, x) PROVE SyncOK' /\ TailOK'
  <2>1. /\ HandleOK(x) /\ x.seq <= Len(disk[path])
        /\ ~x.compromised => Current(x, disk[path])
    BY <1>0, <1>2, OpenedCurrent
  <2>2. /\ h'[p] = x /\ path' = path /\ disk' = disk /\ n' = n
        /\ \A q \in Procs : q # p => h'[q] = h[q] /\ pc'[q] = pc[q]
    BY <1>0, <1>2 DEF Opens, files, TypeOK
  <2>3. \A q \in Procs : Opened(q)' => q = p
    BY <1>0, <1>2, <2>2, OneOpened DEF Opens, Opened
  <2>4. pc'[p] # "follow"
    <3>1. cmd[p] \in AllCommands \ {"import", "public"}
      BY <1>0, <1>2 DEF Opens, BaseInv, InCommand, StepsOf, Ended
    <3>2. AfterOpen(cmd[p]) # "follow"
      BY <3>1 DEF AfterOpen, AllCommands
    <3> QED BY <1>0, <1>2, <3>2 DEF Opens, TypeOK
  <2>5. SyncOK'
    BY <2>1, <2>2, <2>3 DEF SyncOK
  <2>6. TailOK'
    BY <1>0, <2>1, <2>2, <2>4 DEF TailOK
  <2> QED BY <2>5, <2>6
<1>3. ASSUME NEW p \in Procs, NEW step, Appends(p, step) PROVE SyncOK' /\ TailOK'
  <2>1. /\ path' = path /\ n' = n /\ pc'[p] \in {"wrote", "failed"} /\ pc[p] = "write"
        /\ \A q \in Procs : q # p => pc'[q] = pc[q]
        /\ \A q \in Procs : h'[q] = h[q] \/ (q = p /\ h'[q] = NoHandle)
    BY <1>0, <1>3, AppendsFacts
  <2>2. \A q \in Procs : ~Opened(q)'
    BY <1>0, <2>1, OneOpened DEF Opened
  <2>3. disk'[path] = Append(disk[path], NewEntry(p))
    BY <1>0, <1>3 DEF Appends, TypeOK
  <2>4. Len(disk'[path]) = Len(disk[path]) + 1
    BY <1>0, <2>3, AppendFacts
  <2>5. SyncOK'
    BY <2>2 DEF SyncOK
  <2>6. TailOK'
    <3>1. ASSUME NEW q \in Procs, path = Ledger0
          PROVE  h'[q].seq <= Len(disk'[path]) /\ (pc'[q] = "follow" => n'[q] >= h'[q].seq)
      <4>1. h[q].seq <= Len(disk[path]) /\ (pc[q] = "follow" => n[q] >= h[q].seq)
        BY <1>0, <3>1 DEF TailOK
      <4>2. h'[q].seq \in {h[q].seq, 0} /\ (pc'[q] = "follow" => pc[q] = "follow" /\ h'[q] = h[q])
        BY <2>1, NoHandleOK
      <4> QED BY <1>0, <1>00, <2>1, <2>4, <4>1, <4>2
    <3> QED BY <2>1, <3>1 DEF TailOK
  <2> QED BY <2>5, <2>6
<1>4. ASSUME NEW p \in Procs, Rename(p) PROVE SyncOK' /\ TailOK'
  <2>1. path' = p /\ path' # Ledger0
    BY <1>4, CliAssumption DEF Rename
  <2>2. \A q \in Procs : Opened(q)' => Opened(q)
    BY <1>0, <1>4 DEF Rename, Exit, Goto, Opened, TypeOK
  <2>3. ASSUME ImportExclusive, NEW q \in Procs PROVE ~Opened(q)
    <3>1. lock = NoProc /\ NoProc \notin Procs
      BY <1>4, <2>3, CliAssumption DEF Rename
    <3> QED BY <1>0, <3>1 DEF Opened, TypeOK
  <2> QED BY <2>1, <2>2, <2>3 DEF SyncOK, TailOK
<1>5. CASE PowerLoss
  <2>1. \A q \in Procs : h'[q] = NoHandle /\ pc'[q] \in {"new"} \cup Ended
    BY <1>0, <1>5 DEF PowerLoss, Running, TypeOK, Ended
  <2>2. \A q \in Procs : ~Opened(q)' /\ pc'[q] # "follow" /\ h'[q].seq = 0
    BY <2>1, NoHandleOK DEF Opened, Ended
  <2>3. Len(disk'[path']) \in Nat
    <3>1. IsSequence(disk'[path'])
      BY <1>0, TypeStep DEF BaseInv, TypeOK
    <3> QED BY <3>1, LenNat
  <2> QED BY <2>2, <2>3 DEF SyncOK, TailOK
<1>6. \/ Quiet \/ PowerLoss
      \/ \E p \in Procs : (\E x : Opens(p, x)) \/ (\E step : Appends(p, step)) \/ Rename(p)
  BY <1>0, LedgerKinds
<1> QED BY <1>1, <1>2, <1>3, <1>4, <1>5, <1>6, ZenonT(60)

LEMMA CopyStep == BaseInv /\ CopyOK /\ [Next]_vars => CopyOK'
<1> SUFFICES ASSUME BaseInv, CopyOK, [Next]_vars PROVE CopyOK'
  OBVIOUS
<1> DEFINE Keeps == \A q \in Procs : pc'[q] = "rename" =>
                      pc[q] = "rename" /\ disk'[q] = disk[q] /\ synced'[q] = synced[q]
<1>0. TypeOK /\ InCommand /\ Procs \subseteq Files
  BY DEF BaseInv, Files
<1>1. Keeps => CopyOK'
  BY DEF CopyOK
<1>2. ASSUME NEW p \in Procs, NEW c, NEW s, Start(p, c, s) PROVE Keeps
  BY <1>0, <1>2 DEF Start, Goto, files, TypeOK
<1>3. ASSUME NEW p \in Procs, NEW how \in Ended, Ends(p, how) PROVE Keeps
  BY <1>0, <1>3 DEF Ends, TypeOK, Ended
<1>4. ASSUME NEW p \in Procs, NEW step \in Steps, Moves(p, step) PROVE Keeps
  BY <1>0, <1>4 DEF Moves, files, TypeOK
<1>5. ASSUME NEW p \in Procs, NEW x, Opens(p, x) PROVE Keeps
  <2>1. AfterOpen(cmd[p]) # "rename"
    BY <1>0, <1>5 DEF Opens, InCommand, StepsOf, AfterOpen, Ended, AllCommands
  <2> QED BY <1>0, <1>5, <2>1 DEF Opens, files, TypeOK
<1>6. ASSUME NEW p \in Procs, NEW kf, NEW step, Stores(p, kf, step) PROVE Keeps
  <2>1. /\ pc'[p] # "rename" /\ disk' = disk /\ synced' = synced
        /\ \A q \in Procs : q # p => pc'[q] = pc[q]
    BY <1>0, <1>6, StoresFacts
  <2> QED BY <2>1
<1>7. ASSUME NEW p \in Procs, NEW step, Appends(p, step) PROVE Keeps
  <2>1. \A q \in Procs : pc'[q] = "rename" => pc[q] = "rename"
    BY <1>0, <1>7, AppendsFacts
  <2>2. \A q \in Procs : pc[q] = "rename" => path # q
    BY CopyApart
  <2>3. \A q \in Procs : path # q => disk'[q] = disk[q] /\ synced'[q] = synced[q]
    BY <1>0, <1>7 DEF Appends, TypeOK
  <2> QED BY <2>1, <2>2, <2>3
<1>8. ASSUME NEW p \in Procs, NEW r, Copies(p, r) PROVE Keeps
  BY <1>0, <1>8 DEF Copies, TypeOK
<1>9. ASSUME NEW p \in Procs, Checks(p) PROVE CopyOK'
  <2>1. /\ disk' = disk /\ synced'[p] = Len(disk[p]) /\ FirstFault(disk[p], keys[p]) = "none"
        /\ \A q \in Procs : q # p => synced'[q] = synced[q] /\ pc'[q] = pc[q]
    BY <1>0, <1>9 DEF Checks, TypeOK
  <2>2. IsSequence(disk[p])
    BY <1>0 DEF TypeOK
  <2>3. \A i \in 1..Len(disk[p]) : ChainLinked(disk[p], i)
    BY <2>1, <2>2, NoFirstFault, NoLineFault
  <2> QED BY <2>1, <2>3 DEF CopyOK
<1>10. ASSUME NEW p \in Procs, Rename(p) PROVE Keeps
  BY <1>0, <1>10 DEF Rename, Exit, Goto, TypeOK
<1>11. ASSUME PowerLoss PROVE Keeps
  BY <1>0, <1>11 DEF PowerLoss, Running, TypeOK, Ended
<1>12. ASSUME UNCHANGED vars PROVE Keeps
  BY <1>12 DEF vars, files
<1> HIDE DEF Keeps
<1>13. (\E p \in Procs : Kind(p)) \/ PowerLoss \/ UNCHANGED vars
  BY <1>0, Kinds
<1> QED
  BY <1>1, <1>2, <1>3, <1>4, <1>5, <1>6, <1>7, <1>8, <1>9, <1>10, <1>11, <1>12, <1>13,
     ZenonT(60) DEF Kind

LEMMA SerialInit == Init => SerialInv
<1> SUFFICES ASSUME Init PROVE SerialInv
  OBVIOUS
<1>1. \A p \in Procs : pc[p] = "new" /\ h[p] = NoHandle
  BY DEF Init
<1>2. Len(disk[path]) = 0
  BY DEF Init, Files
<1> QED BY <1>1, <1>2, BaseInit, NoHandleOK DEF SerialInv, SyncOK, CopyOK, TailOK, Opened

LEMMA SerialStep == SerialInv /\ [Next]_vars => SerialInv'
BY BaseStep, SyncStep, CopyStep DEF SerialInv

LEMMA SerialAlways == Spec => []SerialInv
BY SerialInit, SerialStep, PTL DEF Spec

\* `tail' prints what it has read while it had the lock, then follows from the
\* end of the file it finds: since nothing but a power loss takes lines away,
\* it never prints a line twice, whoever appends between the two.
THEOREM FollowersNeverRepeat == Spec => []TailNeverRepeats
<1>1. SerialInv => TailNeverRepeats
  BY DEF SerialInv, TailOK, TailNeverRepeats
<1> QED BY <1>1, SerialAlways, PTL

\* A step of the abstract log, or none.
LogStep == Log!Next \/ UNCHANGED Log!logVars

LEMMA SerialSteps ==
  ASSUME ImportExclusive, SerialInv, [Next]_vars
  PROVE  LogStep
<1>0. /\ BaseInv /\ TypeOK /\ SyncOK /\ CopyOK /\ path \in Files
      /\ IsSequence(disk[path]) /\ Len(disk[path]) \in Nat /\ synced[path] \in Nat
  BY LenNat DEF SerialInv, BaseInv, TypeOK
<1>1. CASE Quiet
  BY <1>1 DEF Quiet, LogStep, Log!logVars
<1>2. ASSUME NEW p \in Procs, NEW x, Opens(p, x) PROVE LogStep
  BY <1>2 DEF Opens, files, LogStep, Log!logVars
<1>3. ASSUME NEW p \in Procs, NEW step, Appends(p, step) PROVE LogStep
  <2>1. PICK e : e = NewEntry(p) /\ e.seq = h[p].seq + 1 /\ e.prev_hash = h[p].last_hash
    <3>1. cmd[p] \in Writers /\ HandleOK(h[p])
      BY <1>0, <1>3 DEF BaseInv, Appends, InCommand, StepsOf, Writers, Ended, HandlesOK
    <3> QED BY <3>1, NewEntryFacts
  <2>2. h[p].seq = Len(disk[path]) /\ h[p].last_hash = LastHash(disk[path], Len(disk[path]) + 1)
    BY <1>0, <1>3 DEF SyncOK, Appends, Opened, Current
  <2>3. path' = path /\ disk'[path'] = Append(disk[path], e)
    BY <1>0, <1>3, <2>1 DEF Appends, TypeOK
  <2>4. Len(disk'[path']) = Len(disk[path]) + 1 /\ disk'[path'][Len(disk[path]) + 1] = e
    BY <1>0, <2>3, AppendFacts
  <2>5. disk'[path'] # << >> /\ disk'[path'][Len(disk'[path'])] = e
    BY <1>0, <2>4
  <2>6. LastHash(disk[path], Len(disk[path]) + 1) = Log!TipHash
    <3>1. disk[path] \in Seq({disk[path][i] : i \in 1..Len(disk[path])})
      BY <1>0 DEF IsSequence
    <3>2. disk[path] = << >> <=> Len(disk[path]) = 0
      BY <3>1, EmptySeq
    <3> QED BY <1>0, <3>2 DEF LastHash, Log!TipHash
  <2>7. synced'[path'] \in {synced[path], Len(disk'[path'])}
    BY <1>0, <1>3, <2>3 DEF Appends, TypeOK
  <2> QED BY <2>1, <2>2, <2>3, <2>5, <2>6, <2>7 DEF LogStep, Log!Next, Log!AppendEntry
<1>4. ASSUME NEW p \in Procs, Rename(p) PROVE LogStep
  <2>1. path' = p /\ disk' = disk /\ synced' = synced
    BY <1>4 DEF Rename
  <2>2. synced[p] = Len(disk[p]) /\ \A i \in 1..Len(disk[p]) : ChainLinked(disk[p], i)
    BY <1>0, <1>4 DEF Rename, CopyOK
  <2> QED BY <2>1, <2>2 DEF LogStep, Log!Next, Log!Replace, ChainLinked, LastHash
<1>5. CASE PowerLoss
  <2>1. PICK k \in synced[path]..Len(disk[path]) : disk' = [disk EXCEPT ![path] = SubSeq(@, 1, k)]
    BY <1>5 DEF PowerLoss
  <2>2. /\ path' = path /\ synced' = synced /\ disk'[path'] = SubSeq(disk[path], 1, k)
        /\ k \in 0..Len(disk[path]) /\ synced[path] <= k
    BY <1>0, <1>5, <2>1 DEF PowerLoss, TypeOK
  <2>3. Len(disk'[path']) = k
    BY <1>0, <2>2, SubSeqFacts
  <2>4. CASE k = Len(disk[path])
    <3>1. disk[path] \in Seq({disk[path][i] : i \in 1..Len(disk[path])})
      BY <1>0 DEF IsSequence
    <3>2. disk'[path'] = disk[path]
      BY <2>2, <2>4, <3>1
    <3> QED BY <2>2, <3>2 DEF LogStep, Log!logVars
  <2>5. CASE k < Len(disk[path])
    <3>1. disk'[path'] = SubSeq(disk[path], 1, Len(disk'[path']))
      BY <2>2, <2>3
    <3> QED BY <2>2, <2>3, <2>5, <3>1 DEF LogStep, Log!Next, Log!Lose
  <2> QED BY <1>0, <2>2, <2>4, <2>5
<1>6. \/ Quiet \/ PowerLoss
      \/ \E p \in Procs : (\E x : Opens(p, x)) \/ (\E step : Appends(p, step)) \/ Rename(p)
  BY <1>0, LedgerKinds
<1> QED BY <1>1, <1>2, <1>3, <1>4, <1>5, <1>6, ZenonT(60)

\* As long as import renames its copy while nobody holds the ledger, any number
\* of processes together are one append-only log: whatever the others do
\* between its steps, an append adds one entry that continues the last one.
THEOREM ProcessesSerialize ==
  ASSUME ImportExclusive
  PROVE  Spec => SerialLog
<1>1. Init => Log!Init
  BY DEF Init, Log!Init, Files
<1>2. SerialInv /\ [Next]_vars => [Log!Next]_(Log!logVars)
  BY SerialSteps DEF LogStep
<1> QED BY <1>1, <1>2, SerialAlways, PTL DEF Spec, SerialLog, Log!Spec

(***************************************************************************)
(* What a report means.                                                    *)
(***************************************************************************)
DataCommands == {"append", "durable", "stdin"}

IsBy(e, p) == e.body = [text |-> p]

\* p is past its append, or failed in the sync behind it.
MayHave(p) == pc[p] \in {"wrote", "done", "dead"} \/ (pc[p] = "failed" /\ cmd[p] = "durable")

\* The ledger has at most one line of process p, none when p has not written,
\* and one when it has, on stable storage when it says so.
OnceOf(p) ==
  /\ \A i, j \in 1..Len(disk[path]) :
       IsBy(disk[path][i], p) /\ IsBy(disk[path][j], p) => i = j
  /\ ~MayHave(p) => \A i \in 1..Len(disk[path]) : ~IsBy(disk[path][i], p)
  /\ pc[p] \in {"wrote", "done"} /\ cmd[p] = "durable" =>
       \E i \in 1..synced[path] : IsBy(disk[path][i], p)
  /\ pc[p] \in {"wrote", "done"} /\ cmd[p] \in {"append", "stdin"} /\ ~outage =>
       \E i \in 1..Len(disk[path]) : IsBy(disk[path][i], p)

OnceOK == path = Ledger0 => \A p \in Procs : OnceOf(p)

LEMMA NewEntryBy ==
  ASSUME BaseInv, NEW q \in Procs, pc[q] = "write", NEW p \in Procs
  PROVE  IsBy(NewEntry(q), p) <=> q = p /\ cmd[q] \in DataCommands
<1>1. cmd[q] \in Writers /\ HandleOK(h[q])
  BY DEF BaseInv, InCommand, StepsOf, Writers, Ended, HandlesOK
<1>2. NewEntry(q).body = CASE cmd[q] = "seal" -> [end_seq |-> h[q].seq]
                           [] cmd[q] = "rotate" -> [epoch |-> h[q].epoch + 1]
                           [] OTHER -> [text |-> q]
  BY <1>1, NewEntryFacts
<1>3. CASE cmd[q] \in DataCommands
  <2>1. NewEntry(q).body = [text |-> q]
    BY <1>2, <1>3 DEF DataCommands
  <2>2. [text |-> q] = [text |-> p] => q = p
    <3>1. [text |-> q].text = q /\ [text |-> p].text = p
      OBVIOUS
    <3> QED BY <3>1
  <2> QED BY <1>3, <2>1, <2>2 DEF IsBy
<1>4. CASE cmd[q] \notin DataCommands
  <2>1. cmd[q] = "seal" \/ cmd[q] = "rotate"
    BY <1>1, <1>4 DEF Writers, DataCommands
  <2>2. DOMAIN NewEntry(q).body = {"end_seq"} \/ DOMAIN NewEntry(q).body = {"epoch"}
    BY <1>2, <2>1
  <2>3. DOMAIN [text |-> p] = {"text"}
    OBVIOUS
  <2> QED BY <1>4, <2>2, <2>3 DEF IsBy
<1> QED BY <1>3, <1>4

\* A step that writes nothing to the ledger, and nobody claims it did.
Silent ==
  /\ path' = path /\ disk'[path] = disk[path] /\ synced'[path] = synced[path] /\ outage' = outage
  /\ \A q \in Procs :
       /\ pc'[q] \in {"wrote", "done"} /\ cmd'[q] \in DataCommands =>
            pc[q] \in {"wrote", "done"} /\ cmd'[q] = cmd[q]
       /\ MayHave(q) => MayHave(q)'

LEMMA SilentKinds ==
  ASSUME BaseInv, [Next]_vars
  PROVE  Silent \/ PowerLoss \/ \E p \in Procs : (\E step : Appends(p, step)) \/ Rename(p)
<1>0. TypeOK /\ InCommand /\ path \in Files
  BY DEF BaseInv, TypeOK
<1>1. ASSUME NEW p \in Procs, NEW c, NEW s, Start(p, c, s) PROVE Silent
  <2>1. UNCHANGED <<path, disk, synced, outage>> /\ pc[p] = "new"
    BY <1>1 DEF Start, files
  <2>2. /\ pc'[p] \notin Ended \cup {"wrote"}
        /\ \A q \in Procs : q # p => pc'[q] = pc[q] /\ cmd'[q] = cmd[q]
    BY <1>0, <1>1 DEF Start, Goto, TypeOK, Ended
  <2> QED BY <2>1, <2>2 DEF Silent, MayHave, Ended
<1>2. ASSUME NEW p \in Procs, NEW how \in Ended, Ends(p, how) PROVE Silent
  <2>1. \A q \in Procs : q # p => pc'[q] = pc[q] /\ cmd'[q] = cmd[q]
    BY <1>0, <1>2 DEF Ends, TypeOK
  <2>2. pc'[p] = how /\ pc[p] \notin Ended /\ path' = path /\ disk' = disk /\ synced' = synced
        /\ outage' = outage
    BY <1>0, <1>2 DEF Ends, TypeOK
  <2>3. ASSUME how = "done", cmd'[p] \in DataCommands PROVE pc[p] = "wrote" /\ cmd'[p] = cmd[p]
    <3>1. cmd'[p] = cmd[p]
      BY <1>2, <2>3 DEF Ends, DataCommands
    <3>2. pc[p] \in {"wrote", "read", "public"} \/ cmd[p] = "seal"
      BY <1>2, <2>3 DEF Ends
    <3>3. pc[p] \in {"read", "public"} => cmd[p] \in {"read", "tail", "public"}
      BY <1>0, <2>2 DEF InCommand, StepsOf
    <3> QED BY <2>3, <3>1, <3>2, <3>3 DEF DataCommands
  <2>4. how = "failed" => pc[p] # "wrote"
    BY <1>2 DEF Ends, GivesUp, MayFail
  <2> QED BY <2>1, <2>2, <2>3, <2>4 DEF Silent, MayHave, Ended
<1>3. ASSUME NEW p \in Procs, NEW step \in Steps, Moves(p, step) PROVE Silent
  <2>1. UNCHANGED <<path, disk, synced, outage, cmd>>
    BY <1>3 DEF Moves, files
  <2>2. /\ pc[p] \notin Ended \cup {"wrote"} /\ pc'[p] \notin Ended \cup {"wrote"}
        /\ \A q \in Procs : q # p => pc'[q] = pc[q]
    BY <1>0, <1>3 DEF Moves, TypeOK, Ended
  <2> QED BY <2>1, <2>2 DEF Silent, MayHave, Ended
<1>4. ASSUME NEW p \in Procs, NEW x, Opens(p, x) PROVE Silent
  <2>1. cmd[p] \in AllCommands \ {"import", "public"}
    BY <1>0, <1>4 DEF Opens, InCommand, StepsOf, Ended
  <2>2. AfterOpen(cmd[p]) \notin Ended \cup {"wrote"}
    BY <2>1 DEF AfterOpen, AllCommands, Ended
  <2>3. UNCHANGED <<path, disk, synced, outage, cmd>>
    BY <1>4 DEF Opens, files
  <2>4. /\ pc[p] = "open" /\ pc'[p] = AfterOpen(cmd[p])
        /\ \A q \in Procs : q # p => pc'[q] = pc[q]
    BY <1>0, <1>4 DEF Opens, TypeOK
  <2> QED BY <2>2, <2>3, <2>4 DEF Silent, MayHave, Ended
<1>5. ASSUME NEW p \in Procs, NEW kf, NEW step, Stores(p, kf, step) PROVE Silent
  <2>1. /\ step \in {"failed", "newline", "write"} /\ pc'[p] = step /\ Opened(p)
        /\ \A q \in Procs : q # p => pc'[q] = pc[q]
        /\ UNCHANGED <<path, disk, synced, outage, cmd>>
    BY <1>0, <1>5, StoresFacts
  <2> QED BY <2>1 DEF Silent, MayHave, Opened
<1>6. ASSUME NEW p \in Procs, NEW r, Copies(p, r) PROVE Silent
  <2>1. path # p
    BY <1>6, CopyApart DEF Copies
  <2>2. disk'[path] = disk[path]
    BY <1>0, <1>6, <2>1 DEF Copies, TypeOK
  <2>3. UNCHANGED <<path, synced, pc, cmd, outage>>
    BY <1>6 DEF Copies
  <2> QED BY <2>2, <2>3 DEF Silent, MayHave
<1>7. ASSUME NEW p \in Procs, Checks(p) PROVE Silent
  <2>1. path # p
    BY <1>7, CopyApart DEF Checks
  <2>2. synced'[path] = synced[path] /\ UNCHANGED <<path, disk, outage, cmd>>
    BY <1>0, <1>7, <2>1 DEF Checks, locals, TypeOK
  <2>3. /\ pc[p] = "import" /\ pc'[p] = "rename"
        /\ \A q \in Procs : q # p => pc'[q] = pc[q]
    BY <1>0, <1>7 DEF Checks, TypeOK
  <2> QED BY <2>2, <2>3 DEF Silent, MayHave
<1>8. ASSUME UNCHANGED vars PROVE Silent
  BY <1>0, <1>8 DEF vars, files, locals, Silent, MayHave, TypeOK
<1>k. (\E p \in Procs : Kind(p)) \/ PowerLoss \/ UNCHANGED vars
  BY <1>0, Kinds
<1> QED BY <1>1, <1>2, <1>3, <1>4, <1>5, <1>6, <1>7, <1>8, <1>k, ZenonT(60) DEF Kind

LEMMA OnceStep == BaseInv /\ OnceOK /\ [Next]_vars => OnceOK'
<1> SUFFICES ASSUME BaseInv, OnceOK, [Next]_vars, path' = Ledger0, NEW p \in Procs
             PROVE  OnceOf(p)'
  BY DEF OnceOK
<1>0. /\ TypeOK /\ InCommand /\ path \in Files /\ IsSequence(disk[path])
      /\ Len(disk[path]) \in Nat /\ synced[path] \in Nat /\ synced[path] <= Len(disk[path])
  BY LenNat DEF BaseInv, TypeOK
<1>1. CASE Silent
  <2>1. OnceOf(p) /\ path' = path
    BY <1>1 DEF OnceOK, Silent
  <2>2. /\ disk'[path] = disk[path] /\ synced'[path] = synced[path] /\ outage' = outage
        /\ pc'[p] \in {"wrote", "done"} /\ cmd'[p] \in DataCommands =>
             pc[p] \in {"wrote", "done"} /\ cmd'[p] = cmd[p]
        /\ ~MayHave(p)' => ~MayHave(p)
    BY <1>1 DEF Silent
  <2> QED BY <2>1, <2>2 DEF OnceOf, DataCommands
<1>2. ASSUME NEW q \in Procs, NEW step, Appends(q, step) PROVE OnceOf(p)'
  <2>1. PICK e : e = NewEntry(q) /\ (IsBy(e, p) <=> q = p /\ cmd[q] \in DataCommands)
    BY <1>2, NewEntryBy DEF Appends
  <2>0. /\ path' = path /\ cmd' = cmd /\ outage' = outage /\ pc[q] = "write" /\ pc'[q] = step
        /\ step \in {"wrote", "failed"} /\ (q # p => pc'[p] = pc[p])
    BY <1>0, <1>2, AppendsFacts
  <2>2. OnceOf(p) /\ disk'[path] = Append(disk[path], e)
    BY <1>0, <1>2, <2>0, <2>1 DEF Appends, OnceOK, TypeOK
  <2>3. /\ Len(disk'[path]) = Len(disk[path]) + 1 /\ disk'[path][Len(disk[path]) + 1] = e
        /\ \A i \in 1..Len(disk[path]) : disk'[path][i] = disk[path][i]
    BY <1>0, <2>2, AppendFacts
  <2>4. /\ synced'[path] \in {synced[path], Len(disk[path]) + 1}
        /\ cmd[q] = "durable" /\ step = "wrote" => synced'[path] = Len(disk[path]) + 1
        /\ step = "failed" => cmd[q] \in {"durable", "seal"}
    BY <1>0, <1>2, <2>3 DEF Appends, Synced, TypeOK
  <2>5. \A i \in 1..(Len(disk[path]) + 1) : i \in 1..Len(disk[path]) \/ i = Len(disk[path]) + 1
    BY <1>0
  <2>6. CASE q # p
    <3>1. ~IsBy(e, p) /\ pc'[p] = pc[p] /\ (MayHave(p)' <=> MayHave(p))
      BY <2>0, <2>1, <2>6 DEF MayHave
    <3>2. \A i \in 1..(Len(disk[path]) + 1) : IsBy(disk'[path][i], p) =>
            i \in 1..Len(disk[path]) /\ IsBy(disk[path][i], p)
      BY <2>3, <2>5, <3>1
    <3>3. \A i \in 1..Len(disk[path]) : IsBy(disk[path][i], p) => IsBy(disk'[path][i], p)
      BY <2>3
    <3>4. \A i \in 1..synced[path] : i \in 1..synced'[path] /\ i \in 1..Len(disk[path])
      BY <1>0, <2>4
    <3>5. \A i \in 1..Len(disk[path]) : i \in 1..(Len(disk[path]) + 1)
      BY <1>0
    <3> QED BY <2>0, <2>2, <2>3, <3>1, <3>2, <3>3, <3>4, <3>5 DEF OnceOf
  <2>7. CASE q = p
    <3>1. \A i \in 1..Len(disk[path]) : ~IsBy(disk[path][i], p)
      BY <2>0, <2>2, <2>7 DEF OnceOf, MayHave
    <3>2. \A i \in 1..(Len(disk[path]) + 1) : IsBy(disk'[path][i], p) => i = Len(disk[path]) + 1
      BY <2>3, <2>5, <3>1
    <3>3. cmd[p] \in DataCommands => IsBy(disk'[path][Len(disk[path]) + 1], p)
      BY <2>1, <2>3, <2>7
    <3>4. Len(disk[path]) + 1 \in 1..(Len(disk[path]) + 1)
      BY <1>0
    <3>5. ~MayHave(p)' => ~IsBy(e, p)
      BY <2>0, <2>1, <2>4, <2>7 DEF MayHave, DataCommands
    <3>6. ~MayHave(p)' => \A i \in 1..(Len(disk[path]) + 1) : ~IsBy(disk'[path][i], p)
      BY <2>3, <3>2, <3>5
    <3> QED BY <2>0, <2>3, <2>4, <2>7, <3>2, <3>3, <3>4, <3>6 DEF OnceOf, DataCommands
  <2> QED BY <2>6, <2>7
<1>3. ASSUME NEW q \in Procs, Rename(q) PROVE FALSE
  BY <1>3, CliAssumption DEF Rename
<1>4. CASE PowerLoss
  <2>1. PICK k \in synced[path]..Len(disk[path]) : disk' = [disk EXCEPT ![path] = SubSeq(@, 1, k)]
    BY <1>4 DEF PowerLoss
  <2>2. /\ path' = path /\ synced' = synced /\ cmd' = cmd /\ outage' /\ OnceOf(p)
        /\ disk'[path] = SubSeq(disk[path], 1, k) /\ k \in 0..Len(disk[path]) /\ synced[path] <= k
        /\ pc'[p] \in {pc[p], "dead"} /\ pc'[p] # "wrote" /\ (MayHave(p) => MayHave(p)')
    BY <1>0, <1>4, <2>1 DEF PowerLoss, OnceOK, Running, Ended, TypeOK, MayHave
  <2>3. Len(disk'[path]) = k /\ \A i \in 1..k : disk'[path][i] = disk[path][i]
    BY <1>0, <2>2, SubSeqFacts
  <2>4. /\ \A i \in 1..k : i \in 1..Len(disk[path])
        /\ \A i \in 1..synced[path] : i \in 1..k
    BY <1>0, <2>2
  <2> QED BY <2>2, <2>3, <2>4 DEF OnceOf
<1> QED BY <1>1, <1>2, <1>3, <1>4, SilentKinds, Zenon

LEMMA OnceAlways == Spec => [](BaseInv /\ OnceOK)
<1>1. Init => OnceOK
  <2> SUFFICES ASSUME Init PROVE OnceOK
    OBVIOUS
  <2>1. \A p \in Procs : pc[p] = "new"
    BY DEF Init
  <2>2. Len(disk[path]) = 0
    BY DEF Init, Files
  <2> QED BY <2>1, <2>2 DEF OnceOK, OnceOf, MayHave
<1>2. BaseInv /\ OnceOK /\ [Next]_vars => BaseInv' /\ OnceOK'
  BY BaseStep, OnceStep
<1> QED BY <1>1, <1>2, BaseInit, PTL DEF Spec

\* Whoever else appends, seals, rotates or is killed: no append is on the
\* ledger twice; one that was reported is there, a --durable one also after a
\* power loss; and one that failed is not, except a --durable one whose sync
\* failed behind its line.
THEOREM ReportsAreTrue == Spec => []ReportedOnce
<1>1. BaseInv /\ OnceOK => ReportedOnce
  <2> SUFFICES ASSUME BaseInv, OnceOK, path = Ledger0, NEW p \in Procs
               PROVE  /\ Cardinality(EntriesOf(p)) <= 1
                      /\ pc[p] = "done" /\ (cmd[p] = "durable"
                                           \/ (cmd[p] \in {"append", "stdin"} /\ ~outage))
                           => EntriesOf(p) # {}
                      /\ pc[p] = "failed" /\ cmd[p] # "durable" => EntriesOf(p) = {}
    BY DEF ReportedOnce
  <2>1. /\ OnceOf(p) /\ Len(disk[path]) \in Nat /\ synced[path] \in Nat
        /\ synced[path] <= Len(disk[path])
    BY LenNat DEF OnceOK, BaseInv, TypeOK
  <2>2. EntriesOf(p) = {i \in 1..Len(disk[path]) : IsBy(disk[path][i], p)}
    BY DEF EntriesOf, IsBy
  <2>3. Cardinality(EntriesOf(p)) <= 1
    <3>1. CASE EntriesOf(p) = {}
      BY <3>1, FS_EmptySet
    <3>2. CASE EntriesOf(p) # {}
      <4>1. PICK i : i \in EntriesOf(p)
        BY <3>2
      <4>2. EntriesOf(p) = {i}
        BY <2>1, <2>2, <4>1 DEF OnceOf
      <4> QED BY <4>2, FS_Singleton
    <3> QED BY <3>1, <3>2
  <2>4. ASSUME pc[p] = "done", cmd[p] = "durable" \/ (cmd[p] \in {"append", "stdin"} /\ ~outage)
        PROVE  EntriesOf(p) # {}
    BY <2>1, <2>2, <2>4 DEF OnceOf
  <2>5. ASSUME pc[p] = "failed", cmd[p] # "durable" PROVE EntriesOf(p) = {}
    BY <2>1, <2>2, <2>5 DEF OnceOf, MayHave
  <2> QED BY <2>3, <2>4, <2>5
<1> QED BY <1>1, OnceAlways, PTL

(***************************************************************************)
(* The keys file and the epochs.  rotate-key is told too short a ring by a *)
(* keys file it read before the lock; it is refused when it opens, because *)
(* the last stored seed is then in use in the ledger.                      *)
(***************************************************************************)

\* The situation RingInStep is about.
InStep == path = Ledger0 /\ ~outage /\ OneSeedPerLine /\ ~Orphaned

\* Unless a rotation is pending, the last seed is in use.
LastSeedUsed ==
  LET k == Len(keysfile.lines) IN
  (\A p \in Procs : ~Pending(p)) =>
    k = 1 \/ \E i \in 1..Len(disk[path]) : disk[path][i].epoch = k - 1

\* The ring of p ends with the epoch of the ledger, and so does the keys file
\* except for the seed that p itself has stored.
RingOf(p) ==
  /\ Len(keys[p]) = h[p].epoch + 1
  /\ ~Pending(p) => Len(keysfile.lines) = Len(keys[p])
  /\ Pending(p) => /\ Len(keysfile.lines) = Len(keys[p]) + 1
                   /\ keysfile.lines[Len(keys[p]) + 1] = <<p>>

RingsOK == \A p \in Procs : Opened(p) /\ ~h[p].compromised => RingOf(p)

RingOK == InStep => RingInOrder /\ LastSeedUsed /\ RingsOK

\* A line of one seed is what it starts with.
LEMMA OneText ==
  ASSUME NEW S, NEW a \in Seq(S), NEW b \in Seq(S), Starts(a, b), Len(a) >= 1, Len(b) = 1
  PROVE  a = b
<1>1. Len(a) = 1 /\ a[1] = b[1]
  BY DEF Starts
<1>2. Len(a) = Len(b) /\ \A i \in 1..Len(a) : a[i] = b[i]
  BY <1>1
<1> QED BY <1>2, SeqEqual

\* A seed that stands on a line of one seed is that line.
LEMMA LoneSeed ==
  ASSUME NEW kf \in KeyFiles, \A i \in 1..Len(kf.lines) : Len(kf.lines[i]) = 1,
         NEW p, OnLine(<<p>>, kf.lines)
  PROVE  \E i \in 1..Len(kf.lines) : kf.lines[i] = <<p>>
<1>1. PICK w : w = <<p>>
  OBVIOUS
<1>2. PICK i \in 1..Len(kf.lines) : Within(w, kf.lines[i])
  BY <1>1 DEF OnLine, Within
<1>3. PICK l : l = kf.lines[i] /\ l \in Seq(Procs \cup {Seed0, Piece}) /\ Len(l) = 1
  BY DEF KeyFiles, KeyLines
<1>4. PICK a \in 1..Len(l), b \in 1..Len(l) : SubSeq(l, a, b) = w
  BY <1>2, <1>3 DEF Within
<1>5. a = 1 /\ b = Len(l)
  BY <1>3, <1>4
<1>6. SubSeq(l, 1, Len(l)) = l
  BY <1>3
<1> QED BY <1>1, <1>3, <1>4, <1>5, <1>6

\* A process that has ended has ended, and but for a power loss the keys file
\* only grows.
LEMMA Fate ==
  ASSUME BaseInv, [Next]_vars
  PROVE  /\ \A q \in Procs : pc[q] \in {"dead", "failed"} => pc'[q] = pc[q]
         /\ PowerLoss \/ Grows(keysfile, keysfile')
<1>0. TypeOK /\ InCommand /\ KeysOK /\ Grows(keysfile, keysfile)
  BY GrowsSelf DEF BaseInv, TypeOK
<1> DEFINE Alone(p) == pc[p] \notin {"dead", "failed"} /\ \A q \in Procs : q # p => pc'[q] = pc[q]
           Goal(p) == Alone(p) /\ Grows(keysfile, keysfile')
<1>1. ASSUME NEW p \in Procs, NEW c, NEW s, Start(p, c, s) PROVE Goal(p)
  BY <1>0, <1>1 DEF Start, Goto, TypeOK, files, keyfiles
<1>2. ASSUME NEW p \in Procs, NEW how \in Ended, Ends(p, how) PROVE Goal(p)
  BY <1>0, <1>2 DEF Ends, Ended, TypeOK, keyfiles
<1>3. ASSUME NEW p \in Procs, NEW step \in Steps, Moves(p, step) PROVE Goal(p)
  BY <1>0, <1>3 DEF Moves, TypeOK, files, keyfiles
<1>4. ASSUME NEW p \in Procs, NEW x, Opens(p, x) PROVE Goal(p)
  BY <1>0, <1>4 DEF Opens, TypeOK, files, keyfiles
<1>5. ASSUME NEW p \in Procs, NEW kf, NEW step, Stores(p, kf, step) PROVE Goal(p)
  <2>1. Grows(keysfile, kf) /\ keysfile' = kf
    BY <1>0, <1>5, StoreFacts DEF Stores
  <2>2. Alone(p)
    BY <1>0, <1>5, StoresFacts DEF Opened
  <2> QED BY <2>1, <2>2
<1>6. ASSUME NEW p \in Procs, NEW step, Appends(p, step) PROVE Goal(p)
  <2>1. Alone(p) /\ UNCHANGED keyfiles
    BY <1>0, <1>6, AppendsFacts
  <2> QED BY <1>0, <2>1 DEF keyfiles
<1>7. ASSUME NEW p \in Procs, NEW r, Copies(p, r) PROVE Goal(p)
  BY <1>0, <1>7 DEF Copies, keyfiles
<1>8. ASSUME NEW p \in Procs, Checks(p) PROVE Goal(p)
  BY <1>0, <1>8 DEF Checks, TypeOK, keyfiles
<1>9. ASSUME NEW p \in Procs, Rename(p) PROVE Goal(p)
  BY <1>0, <1>9 DEF Rename, Exit, Goto, TypeOK, keyfiles
<1>10. ASSUME PowerLoss PROVE \A q \in Procs : pc[q] \in {"dead", "failed"} => pc'[q] = pc[q]
  BY <1>0, <1>10 DEF PowerLoss, Running, Ended
<1>11. ASSUME UNCHANGED vars PROVE Grows(keysfile, keysfile') /\ pc' = pc
  BY <1>0, <1>11 DEF vars, files, keyfiles
<1>k. (\E p \in Procs : Kind(p)) \/ PowerLoss \/ UNCHANGED vars
  BY <1>0, Kinds
<1> HIDE DEF Goal
<1>12. (\E p \in Procs : Goal(p)) \/ PowerLoss \/ UNCHANGED vars
  BY <1>1, <1>2, <1>3, <1>4, <1>5, <1>6, <1>7, <1>8, <1>9, <1>k, ZenonT(60) DEF Kind
<1> QED BY <1>10, <1>11, <1>12 DEF Goal

\* As long as each line has one seed, the lines stay what they are.
LEMMA SameLines ==
  ASSUME BaseInv, BaseInv', Grows(keysfile, keysfile'), OneSeedPerLine'
  PROVE  /\ OneSeedPerLine /\ Len(keysfile.lines) <= Len(keysfile'.lines)
         /\ \A j \in 1..Len(keysfile.lines) :
              j \in 1..Len(keysfile'.lines) /\ keysfile'.lines[j] = keysfile.lines[j]
<1>1. PICK L, M : /\ L = keysfile.lines /\ L \in Seq(KeyLines)
                  /\ M = keysfile'.lines /\ M \in Seq(KeyLines)
  BY DEF BaseInv, TypeOK, KeyFiles
<1>2. Len(L) <= Len(M) /\ Len(L) \in Nat /\ Len(M) \in Nat
  BY <1>1 DEF Grows
<1>3. ASSUME NEW j \in 1..Len(L) PROVE j \in 1..Len(M) /\ M[j] = L[j] /\ Len(L[j]) = 1
  <2>1. j \in 1..Len(M)
    BY <1>2
  <2>2. Len(M[j]) = 1 /\ Starts(L[j], M[j]) /\ Len(L[j]) >= 1
    BY <1>1, <2>1 DEF OneSeedPerLine, Grows, BaseInv, TypeOK, KeysOK, ShapeOK
  <2>3. L[j] \in Seq(Procs \cup {Seed0, Piece}) /\ M[j] \in Seq(Procs \cup {Seed0, Piece})
    BY <1>1, <2>1 DEF KeyLines
  <2>4. L[j] = M[j]
    BY <2>2, <2>3, OneText
  <2> QED BY <2>1, <2>2, <2>4
<1> QED BY <1>1, <1>2, <1>3 DEF OneSeedPerLine

\* What is in step has been so from the start.
LEMMA InStepBack ==
  ASSUME BaseInv, [Next]_vars, InStep'
  PROVE  InStep /\ ~PowerLoss /\ \A p \in Procs : ~Rename(p)
<1>1. ~PowerLoss /\ \A p \in Procs : ~Rename(p)
  BY CliAssumption DEF InStep, PowerLoss, Rename
<1>2. path' = path /\ outage' = outage
  <2>0. TypeOK /\ ((\E p \in Procs : Kind(p)) \/ UNCHANGED vars)
    BY <1>1, Kinds DEF BaseInv
  <2>1. ASSUME NEW p \in Procs, NEW step, Appends(p, step) PROVE path' = path /\ outage' = outage
    BY <2>0, <2>1, AppendsFacts
  <2>2. ASSUME NEW p \in Procs, NEW kf, NEW step, Stores(p, kf, step)
        PROVE  path' = path /\ outage' = outage
    BY <2>0, <2>2, StoresFacts
  <2>3. ASSUME UNCHANGED vars PROVE path' = path /\ outage' = outage
    BY <2>3 DEF vars, files
  <2> QED BY <1>1, <2>0, <2>1, <2>2, <2>3 DEF Kind, Start, Ends, Moves, Opens, Copies, Checks, files
<1>3. BaseInv' /\ Grows(keysfile, keysfile') /\ OneSeedPerLine'
  BY <1>1, BaseStep, Fate DEF InStep
<1>4. /\ OneSeedPerLine
      /\ \A j \in 1..Len(keysfile.lines) :
           j \in 1..Len(keysfile'.lines) /\ keysfile'.lines[j] = keysfile.lines[j]
  BY <1>3, SameLines
<1>5. Orphaned => Orphaned'
  <2> SUFFICES ASSUME NEW i \in 1..Len(keysfile.lines),
                      \/ keysfile.lines[i] = <<Piece>>
                      \/ \E p \in Procs : keysfile.lines[i] = RandomSeed(p) /\ pc[p] \in {"dead", "failed"}
               PROVE  Orphaned'
    BY DEF Orphaned
  <2>1. i \in 1..Len(keysfile'.lines) /\ keysfile'.lines[i] = keysfile.lines[i]
    BY <1>4
  <2>2. \A p \in Procs : pc[p] \in {"dead", "failed"} => pc'[p] \in {"dead", "failed"}
    BY Fate
  <2> QED BY <2>1, <2>2 DEF Orphaned, RandomSeed
<1> QED BY <1>1, <1>2, <1>4, <1>5 DEF InStep

\* Pieces of seeds and seeds that share a line take the ledger out of step,
\* and so does a process that stores its seed and ends.
LEMMA StoresInStep ==
  ASSUME BaseInv, [Next]_vars, InStep', NEW p \in Procs, NEW kf, NEW step, Stores(p, kf, step)
  PROVE  \/ step = "newline" /\ pc[p] = "newkey" /\ keysfile'.lines = Append(keysfile.lines, <<p>>)
         \/ step = "write" /\ pc[p] = "newline" /\ keysfile'.lines = keysfile.lines
<1>0. /\ TypeOK /\ InCommand /\ KeysOK /\ keysfile \in KeyFiles /\ ShapeOK(keysfile)
      /\ keysfile' = kf /\ kf \in KeyFiles /\ pc'[p] = step /\ OneSeedPerLine' /\ ~Orphaned'
  <2>1. TypeOK /\ InCommand /\ KeysOK /\ keysfile \in KeyFiles /\ ShapeOK(keysfile)
    BY DEF BaseInv, TypeOK, KeysOK
  <2>2. kf \in KeyFiles /\ pc'[p] = step
    BY <2>1, StoreFacts, StoresFacts
  <2>3. keysfile' = kf /\ OneSeedPerLine' /\ ~Orphaned'
    BY DEF Stores, InStep
  <2> QED BY <2>1, <2>2, <2>3
<1>1. PICK L, k : /\ L = keysfile.lines /\ L \in Seq(KeyLines) /\ k = Len(L) /\ k \in Nat
                  /\ k >= 1 /\ Len(L[k]) >= 1 /\ L[k] \in KeyLines
  <2>1. PICK L : L = keysfile.lines /\ L \in Seq(KeyLines)
    BY <1>0 DEF KeyFiles
  <2>2. Len(L) \in Nat /\ Len(L) >= 1 /\ Len(L) \in 1..Len(L)
    BY <1>0, <2>1 DEF ShapeOK
  <2>3. Len(L[Len(L)]) >= 1 /\ L[Len(L)] \in KeyLines
    BY <1>0, <2>1, <2>2 DEF ShapeOK
  <2> QED BY <2>1, <2>2, <2>3
<1>2. ASSUME NEW text \in {Piece, p}, kf = Typed(text) PROVE kf.lines = Append(L, <<text>>)
  <2>1. CASE keysfile.eol
    BY <1>1, <1>2, <2>1 DEF Typed
  <2>2. CASE ~keysfile.eol
    <3>1. PICK M : M = [L EXCEPT ![k] = Append(@, text)] /\ M = kf.lines
      BY <1>1, <1>2, <2>2 DEF Typed
    <3>2. M \in Seq(KeyLines) /\ DOMAIN L = 1..k /\ DOMAIN M = 1..k /\ Len(M) = k /\ k \in 1..k
      <4>1. M \in Seq(KeyLines)
        BY <1>0, <3>1 DEF KeyFiles
      <4>2. DOMAIN L = 1..k /\ DOMAIN M = 1..k /\ DOMAIN M = 1..Len(M) /\ Len(M) \in Nat
        BY <1>1, <3>1, <4>1, LenProperties
      <4> QED BY <1>1, <4>1, <4>2
    <3>3. M[k] = Append(L[k], text)
      BY <1>1, <3>1, <3>2
    <3>4. Len(Append(L[k], text)) = Len(L[k]) + 1 /\ Len(L[k]) \in Nat
      BY <1>1 DEF KeyLines
    <3>5. Len(M[k]) # 1
      BY <1>1, <3>3, <3>4
    <3> QED BY <1>0, <3>1, <3>2, <3>5 DEF OneSeedPerLine
  <2> QED BY <2>1, <2>2
<1>3. CASE pc[p] = "newkey" /\ kf = Typed(Piece)
  <2>1. PICK w : w = <<Piece>> /\ w \in KeyLines
    <3>1. <<Piece>> \in KeyLines
      BY DEF KeyLines
    <3> QED BY <3>1
  <2>2. kf.lines = Append(L, w)
    BY <1>2, <1>3, <2>1
  <2>3. k + 1 \in 1..Len(kf.lines) /\ kf.lines[k + 1] = w
    BY <1>1, <2>1, <2>2
  <2> QED BY <1>0, <2>1, <2>3 DEF Orphaned
<1>4. CASE pc[p] = "newkey" /\ kf = Typed(p) /\ step = "newline"
  BY <1>0, <1>1, <1>2, <1>4
<1>5. CASE pc[p] = "newline" /\ kf = Closed /\ step \in {"failed", "write"}
  <2>1. kf.lines = keysfile.lines
    BY <1>0, <1>5 DEF Closed, KeyFiles
  <2>2. CASE step = "failed"
    <3>1. cmd[p] = "rotate"
      BY <1>0, <1>5 DEF InCommand, StepsOf, Ended
    <3>2. OnLine(<<p>>, kf.lines)
      BY <1>0, <1>5, <2>1, <3>1 DEF KeysOK, Pending
    <3>3. \E i \in 1..Len(kf.lines) : kf.lines[i] = <<p>>
      BY <1>0, <3>2, LoneSeed DEF OneSeedPerLine
    <3> QED BY <1>0, <2>2, <3>3 DEF Orphaned, RandomSeed
  <2>3. CASE step = "write"
    BY <1>0, <1>5, <2>1, <2>3
  <2> QED BY <1>5, <2>2, <2>3
<1> QED BY <1>3, <1>4, <1>5 DEF Stores

\* A step that leaves rotations alone.
NoRotation ==
  /\ path' = path /\ disk'[path] = disk[path] /\ keysfile'.lines = keysfile.lines
  /\ \A q \in Procs : /\ Pending(q)' <=> Pending(q)
                      /\ Opened(q)' => Opened(q) /\ h'[q] = h[q] /\ keys'[q] = keys[q]

LEMMA RotationKinds ==
  ASSUME BaseInv, [Next]_vars, InStep'
  PROVE  \/ NoRotation
         \/ \E p \in Procs : \/ \E x : Opens(p, x)
                            \/ \E kf : Stores(p, kf, "newline")
                            \/ \E step : Appends(p, step)
<1>0. TypeOK /\ InCommand /\ path \in Files
  BY DEF BaseInv, TypeOK
<1>1. ASSUME NEW p \in Procs, NEW c, NEW s, Start(p, c, s) PROVE NoRotation
  <2>1. UNCHANGED <<path, disk, keysfile, h>> /\ pc[p] = "new"
    BY <1>1 DEF Start, files, keyfiles
  <2>2. /\ pc'[p] \in {"import", "public", "flock"}
        /\ \A q \in Procs : q # p => pc'[q] = pc[q] /\ cmd'[q] = cmd[q] /\ keys'[q] = keys[q]
    BY <1>0, <1>1 DEF Start, Goto, TypeOK
  <2> QED BY <2>1, <2>2 DEF NoRotation, Pending, Opened
<1>2. ASSUME NEW p \in Procs, NEW how \in Ended, Ends(p, how) PROVE NoRotation
  <2>1. \A q \in Procs : q # p => pc'[q] = pc[q] /\ h'[q] = h[q] /\ keys'[q] = keys[q] /\ cmd'[q] = cmd[q]
    BY <1>0, <1>2 DEF Ends, TypeOK
  <2>2. pc'[p] = how /\ path' = path /\ disk' = disk /\ keysfile' = keysfile
    BY <1>0, <1>2 DEF Ends, keyfiles, TypeOK
  <2>3. ~Pending(p)
    <3> SUFFICES ASSUME Pending(p) PROVE FALSE
      OBVIOUS
    <3>1. how \in {"failed", "dead"}
      BY <1>2 DEF Pending, Ends, Ended
    <3>2. OnLine(<<p>>, keysfile.lines) /\ keysfile \in KeyFiles
      BY DEF BaseInv, KeysOK, TypeOK
    <3>3. \E i \in 1..Len(keysfile.lines) : keysfile.lines[i] = <<p>>
      BY <3>2, LoneSeed, InStepBack DEF InStep, OneSeedPerLine
    <3> QED BY <2>2, <3>1, <3>3 DEF InStep, Orphaned, RandomSeed
  <2> QED BY <2>1, <2>2, <2>3 DEF NoRotation, Pending, Opened, Ended
<1>3. ASSUME NEW p \in Procs, NEW step \in Steps, Moves(p, step) PROVE NoRotation
  <2>1. step = "write" => pc[p] = "stdin" /\ cmd[p] = "stdin"
    BY <1>0, <1>3 DEF Moves, InCommand, StepsOf, Ended
  <2>2. UNCHANGED <<path, disk, keysfile, h, keys, cmd>>
    BY <1>3 DEF Moves, files, keyfiles
  <2>3. /\ pc'[p] = step /\ step \in {"open", "write", "seek", "follow"}
        /\ pc[p] \in {"flock", "stdin", "read", "seek", "follow"}
        /\ \A q \in Procs : q # p => pc'[q] = pc[q]
    BY <1>0, <1>3 DEF Moves, TypeOK
  <2> QED BY <2>1, <2>2, <2>3 DEF NoRotation, Pending, Opened
<1>4. ASSUME NEW p \in Procs, NEW r, Copies(p, r) PROVE NoRotation
  <2>1. path # p
    BY <1>4, CopyApart DEF Copies
  <2>2. disk'[path] = disk[path]
    BY <1>0, <1>4, <2>1 DEF Copies, TypeOK
  <2>3. UNCHANGED <<path, keysfile, pc, cmd, h, keys>>
    BY <1>4 DEF Copies, keyfiles
  <2> QED BY <2>2, <2>3 DEF NoRotation, Pending, Opened
<1>5. ASSUME NEW p \in Procs, Checks(p) PROVE NoRotation
  BY <1>0, <1>5 DEF Checks, NoRotation, Pending, Opened, locals, keyfiles, TypeOK
<1>6. ASSUME UNCHANGED vars PROVE NoRotation
  BY <1>0, <1>6 DEF vars, files, keyfiles, locals, NoRotation, Pending, Opened, TypeOK
<1>7. ASSUME NEW p \in Procs, NEW kf, NEW step, Stores(p, kf, step), step # "newline" PROVE NoRotation
  <2>1. step = "write" /\ pc[p] = "newline" /\ keysfile'.lines = keysfile.lines
    BY <1>7, StoresInStep
  <2>2. /\ pc'[p] = step /\ UNCHANGED <<path, disk, cmd>>
        /\ \A q \in Procs : (q # p => pc'[q] = pc[q]) /\ keys'[q] = keys[q] /\ h'[q] = h[q]
    BY <1>0, <1>7, <2>1, StoresFacts
  <2> QED BY <2>1, <2>2 DEF NoRotation, Pending, Opened
<1>k. (\E p \in Procs : Kind(p)) \/ UNCHANGED vars
  BY <1>0, Kinds, InStepBack
<1>r. \A p \in Procs : ~Rename(p)
  BY InStepBack
<1> QED BY <1>1, <1>2, <1>3, <1>4, <1>5, <1>6, <1>7, <1>k, <1>r, ZenonT(60) DEF Kind

LEMMA RingStep == BaseInv /\ RingOK /\ [Next]_vars => RingOK'
<1> SUFFICES ASSUME BaseInv, RingOK, [Next]_vars, InStep'
             PROVE  RingInOrder' /\ LastSeedUsed' /\ RingsOK'
  BY DEF RingOK
<1>0. /\ TypeOK /\ InCommand /\ KeysOK /\ EntriesOK /\ HandlesOK /\ path \in Files
      /\ RingInOrder /\ LastSeedUsed /\ RingsOK
      /\ IsSequence(disk[path]) /\ Len(disk[path]) \in Nat
      /\ keysfile.lines \in Seq(KeyLines) /\ Len(keysfile.lines) \in Nat /\ OneSeedPerLine
  <2>1. keysfile.lines \in Seq(KeyLines)
    BY DEF BaseInv, TypeOK, KeyFiles
  <2> QED BY <2>1, InStepBack, LenNat DEF BaseInv, RingOK, TypeOK, InStep
<1>00. /\ \A q \in Procs : h[q].epoch \in Nat /\ Len(keys[q]) \in Nat
       /\ \A i \in 1..Len(disk[path]) : disk[path][i].epoch \in Nat
  BY <1>0 DEF HandlesOK, HandleOK, TypeOK, EntriesOK
<1>1. CASE NoRotation
  <2>1. RingInOrder' /\ LastSeedUsed'
    BY <1>0, <1>1 DEF NoRotation, RingInOrder, LastSeedUsed
  <2>2. ASSUME NEW q \in Procs, Opened(q)', ~h'[q].compromised PROVE RingOf(q)'
    <3>1. /\ Opened(q) /\ h'[q] = h[q] /\ keys'[q] = keys[q]
          /\ keysfile'.lines = keysfile.lines /\ (Pending(q)' <=> Pending(q))
      BY <1>1, <2>2 DEF NoRotation
    <3>2. RingOf(q)
      BY <1>0, <2>2, <3>1 DEF RingsOK
    <3> QED BY <3>1, <3>2 DEF RingOf
  <2> QED BY <2>1, <2>2 DEF RingsOK
<1>2. ASSUME NEW p \in Procs, NEW x, Opens(p, x)
      PROVE  RingInOrder' /\ LastSeedUsed' /\ RingsOK'
  <2>1. /\ path' = path /\ disk' = disk /\ keysfile' = keysfile /\ h'[p] = x /\ keys' = keys
        /\ cmd' = cmd /\ pc'[p] = AfterOpen(cmd[p]) /\ \A q \in Procs : q # p => pc'[q] = pc[q]
    BY <1>0, <1>2 DEF Opens, files, keyfiles, TypeOK
  <2>2. \A q \in Procs : Opened(q)' => q = p
    BY <1>0, <1>2, <2>1, OneOpened DEF Opens, Opened
  <2>3. \A q \in Procs : ~Pending(q)
    <3>1. ASSUME NEW q \in Procs, Pending(q) PROVE FALSE
      <4>1. pc[p] = "open" /\ q = p
        BY <1>0, <1>2, <3>1, OneOpened DEF Opens, Opened, Pending
      <4> QED BY <3>1, <4>1 DEF Pending
    <3> QED BY <3>1
  <2>4. ~Pending(p)'
    <3>1. cmd[p] \in AllCommands \ {"import", "public"}
      BY <1>0, <1>2 DEF Opens, InCommand, StepsOf, Ended
    <3>2. AfterOpen(cmd[p]) \in {"newline", "write"} => cmd[p] # "rotate"
      BY <3>1 DEF AfterOpen, AllCommands
    <3> QED BY <2>1, <3>2 DEF Pending
  <2>5. RingInOrder' /\ LastSeedUsed'
    BY <1>0, <2>1, <2>3 DEF RingInOrder, LastSeedUsed
  <2>6. ASSUME ~x.compromised PROVE Len(keys[p]) = x.epoch + 1 /\ Len(keysfile.lines) = Len(keys[p])
    <3>1. HandleOK(x) /\ Current(x, disk[path])
      BY <1>2, <2>6, OpenedCurrent
    <3>2. x = Scanned(disk[path]) /\ FirstFault(disk[path], keys[p]) = "none"
      BY <1>2, <2>6 DEF Opens
    <3>3. Len(keys[p]) >= 1 /\ ReadFrom(keys[p], keysfile)
      BY <1>0, <1>2 DEF Opens, KeysOK, Running, Ended
    <3>4. x.epoch < Len(keys[p])
      BY <1>0, <1>00, <3>2, <3>3, ScannedFacts DEF TypeOK
    <3>5. Len(keys[p]) <= Len(keysfile.lines)
      BY <3>3 DEF ReadFrom
    <3>6. x.epoch \in Nat /\ \A i \in 1..Len(disk[path]) : disk[path][i].epoch <= x.epoch
      BY <3>1 DEF HandleOK, Current
    <3>7. Len(keysfile.lines) = 1 \/ Len(keysfile.lines) - 1 <= x.epoch
      BY <1>0, <2>3, <3>6 DEF LastSeedUsed
    <3>8. Len(keysfile.lines) \in Nat /\ Len(keys[p]) \in Nat /\ Len(keys[p]) >= 1
      BY <1>0, <1>00, <3>3
    <3>9. \A a, b, c \in Nat : c < a /\ a <= b /\ a >= 1 /\ (b = 1 \/ b - 1 <= c) => a = c + 1 /\ b = a
      OBVIOUS
    <3> QED BY <3>4, <3>5, <3>6, <3>7, <3>8, <3>9
  <2>7. RingsOK'
    BY <2>1, <2>2, <2>4, <2>6 DEF RingsOK, RingOf
  <2> QED BY <2>5, <2>7
<1>3. ASSUME NEW p \in Procs, NEW kf, Stores(p, kf, "newline")
      PROVE  RingInOrder' /\ LastSeedUsed' /\ RingsOK'
  <2>w. PICK w : w = <<p>> /\ w \in KeyLines
    <3>1. <<p>> \in KeyLines
      BY DEF KeyLines
    <3> QED BY <3>1
  <2>0. pc[p] = "newkey" /\ keysfile'.lines = Append(keysfile.lines, w)
    BY <1>3, <2>w, StoresInStep
  <2>1. /\ path' = path /\ disk' = disk /\ cmd' = cmd
        /\ pc'[p] = "newline" /\ \A q \in Procs : q # p => pc'[q] = pc[q]
        /\ \A q \in Procs : h'[q] = h[q] /\ keys'[q] = keys[q]
    BY <1>0, <1>3, StoresFacts
  <2>l. /\ Len(keysfile'.lines) = Len(keysfile.lines) + 1
        /\ keysfile'.lines[Len(keysfile.lines) + 1] = w
        /\ \A j \in 1..Len(keysfile.lines) : keysfile'.lines[j] = keysfile.lines[j]
    BY <1>0, <2>w, <2>0
  <2>2. cmd[p] = "rotate" /\ Opened(p) /\ ~Pending(p)
    BY <1>0, <2>0 DEF InCommand, StepsOf, Ended, Opened, Pending
  <2>3. Pending(p)'
    BY <2>1, <2>2 DEF Pending
  <2>4. \A q \in Procs : Opened(q)' => q = p
    BY <1>0, <2>0, <2>1 DEF TypeOK, Opened
  <2>5. RingInOrder'
    <3> SUFFICES ASSUME NEW i \in 1..Len(disk[path])
                 PROVE  LET e == disk[path][i]
                        IN e.epoch < Len(keysfile'.lines) /\ keysfile'.lines[e.epoch + 1] = e.hash.key.seed
      BY <2>1 DEF RingInOrder
    <3>1. /\ disk[path][i].epoch < Len(keysfile.lines) /\ disk[path][i].epoch \in Nat
          /\ keysfile.lines[disk[path][i].epoch + 1] = disk[path][i].hash.key.seed
      BY <1>0, <1>00 DEF RingInOrder
    <3>2. disk[path][i].epoch + 1 \in 1..Len(keysfile.lines)
      BY <1>0, <3>1
    <3>3. disk[path][i].epoch < Len(keysfile'.lines)
      <4>1. \A a, b, c \in Nat : a < b /\ c = b + 1 => a < c
        OBVIOUS
      <4>2. Len(keysfile'.lines) \in Nat
        BY <1>0, <2>l
      <4> QED BY <1>0, <2>l, <3>1, <4>1, <4>2
    <3>4. keysfile'.lines[disk[path][i].epoch + 1] = keysfile.lines[disk[path][i].epoch + 1]
      BY <2>l, <3>2, Zenon
    <3> QED BY <3>1, <3>3, <3>4
  <2>6. LastSeedUsed'
    BY <2>3 DEF LastSeedUsed
  <2>7. RingsOK'
    <3> SUFFICES ASSUME ~h[p].compromised PROVE RingOf(p)'
      BY <2>1, <2>4 DEF RingsOK
    <3>1. RingOf(p)
      BY <1>0, <2>2 DEF RingsOK
    <3> QED BY <2>w, <2>1, <2>l, <2>2, <2>3, <3>1 DEF RingOf
  <2> QED BY <2>5, <2>6, <2>7
<1>4. ASSUME NEW p \in Procs, NEW step, Appends(p, step) PROVE RingInOrder' /\ LastSeedUsed' /\ RingsOK'
  <2>1. cmd[p] \in Writers /\ HandleOK(h[p])
    BY <1>0, <1>4 DEF Appends, InCommand, StepsOf, Writers, Ended, HandlesOK
  <2>e. PICK e : e = NewEntry(p)
    OBVIOUS
  <2>2. /\ e = NewEntry(p) /\ e.hash.key.seed = Ring(p)[e.epoch + 1]
        /\ e.epoch = IF cmd[p] = "rotate" THEN h[p].epoch + 1 ELSE h[p].epoch
    BY <2>e, <2>1, NewEntryFacts, Zenon
  <2>3. /\ path' = path /\ keysfile' = keysfile /\ disk'[path] = Append(disk[path], e)
        /\ pc'[p] \in {"wrote", "failed"} /\ \A q \in Procs : q # p => pc'[q] = pc[q]
    <3>1. UNCHANGED <<path, keyfiles>> /\ pc'[p] \in {"wrote", "failed"}
          /\ \A q \in Procs : q # p => pc'[q] = pc[q]
      BY <1>0, <1>4, AppendsFacts
    <3>2. disk'[path] = Append(disk[path], e)
      BY <1>0, <1>4, <2>2 DEF Appends, TypeOK
    <3> QED BY <3>1, <3>2 DEF keyfiles
  <2>4. /\ Len(disk'[path]) = Len(disk[path]) + 1 /\ disk'[path][Len(disk[path]) + 1] = e
        /\ \A i \in 1..Len(disk[path]) : disk'[path][i] = disk[path][i]
    BY <1>0, <2>3, AppendFacts
  <2>5. \A q \in Procs : ~Opened(q)'
    BY <1>0, <1>4, <2>3, OneOpened DEF Appends, Opened
  <2>6. RingOf(p)
    BY <1>0, <1>4 DEF RingsOK, Opened, Appends
  <2>7. e.epoch < Len(keysfile.lines) /\ keysfile.lines[e.epoch + 1] = e.hash.key.seed
        /\ (cmd[p] = "rotate" => e.epoch = Len(keysfile.lines) - 1)
    <3>1. keys[p] \in Seq(KeyLines) /\ ReadFrom(keys[p], keysfile)
      BY <1>0 DEF TypeOK, KeysOK
    <3>2. CASE cmd[p] = "rotate"
      <4>1. Pending(p)
        BY <1>4, <3>2 DEF Pending, Appends
      <4>w. PICK w : w = <<p>> /\ w \in KeyLines
        <5>1. <<p>> \in KeyLines
          BY DEF KeyLines
        <5> QED BY <5>1
      <4>2. Len(keysfile.lines) = Len(keys[p]) + 1 /\ keysfile.lines[Len(keys[p]) + 1] = w
            /\ e.epoch = Len(keys[p])
        BY <2>2, <2>6, <3>2, <4>w, <4>1 DEF RingOf
      <4>3. e.hash.key.seed = Append(keys[p], w)[Len(keys[p]) + 1]
        BY <2>2, <3>2, <4>w, <4>2 DEF Ring, RandomSeed
      <4>4. e.hash.key.seed = w
        BY <3>1, <4>w, <4>3
      <4> QED BY <1>00, <4>2, <4>4
    <3>3. CASE cmd[p] # "rotate"
      <4>1. ~Pending(p)
        BY <3>3 DEF Pending
      <4>2. Len(keysfile.lines) = e.epoch + 1 /\ Len(keys[p]) = e.epoch + 1 /\ e.epoch \in Nat
        BY <1>00, <2>2, <2>6, <3>3, <4>1 DEF RingOf
      <4>3. e.hash.key.seed = keys[p][e.epoch + 1]
        BY <2>2, <3>3 DEF Ring
      <4>4. keys[p][e.epoch + 1] = keysfile.lines[e.epoch + 1]
        <5>1. PICK j : j = e.epoch + 1 /\ j \in 1..Len(keys[p]) /\ j \in 1..Len(keysfile.lines)
          BY <1>0, <4>2
        <5>2. Len(keys[p][j]) >= 1 /\ Starts(keys[p][j], keysfile.lines[j]) /\ Len(keysfile.lines[j]) = 1
          BY <1>0, <3>1, <5>1 DEF ReadFrom, OneSeedPerLine
        <5>3. keys[p][j] \in KeyLines /\ keysfile.lines[j] \in KeyLines
          BY <1>0, <3>1, <5>1
        <5> QED BY <5>1, <5>2, <5>3, OneText DEF KeyLines
      <4> QED BY <3>3, <4>2, <4>3, <4>4
    <3> QED BY <3>2, <3>3
  <2>8. \A i \in 1..Len(disk'[path]) : i \in 1..Len(disk[path]) \/ i = Len(disk[path]) + 1
    BY <1>0, <2>4
  <2>9. RingInOrder'
    BY <1>0, <2>3, <2>4, <2>7, <2>8 DEF RingInOrder
  <2>10. LastSeedUsed'
    <3>1. CASE cmd[p] = "rotate"
      <4>1. Len(disk[path]) + 1 \in 1..Len(disk'[path])
        BY <1>0, <2>4
      <4>2. disk'[path'][Len(disk[path]) + 1].epoch = Len(keysfile'.lines) - 1
        BY <2>3, <2>4, <2>7, <3>1
      <4> QED BY <2>3, <4>1, <4>2 DEF LastSeedUsed
    <3>2. CASE cmd[p] # "rotate"
      <4>1. \A q \in Procs : ~Pending(q)
        BY <1>0, <1>4, <3>2, OneOpened DEF Appends, Opened, Pending
      <4>2. Len(keysfile.lines) = 1
              \/ \E i \in 1..Len(disk[path]) : disk[path][i].epoch = Len(keysfile.lines) - 1
        BY <1>0, <4>1 DEF LastSeedUsed
      <4>3. \A i \in 1..Len(disk[path]) : i \in 1..Len(disk'[path])
        BY <1>0, <2>4
      <4> QED BY <2>3, <2>4, <4>2, <4>3 DEF LastSeedUsed
    <3> QED BY <3>1, <3>2
  <2>11. RingsOK'
    BY <2>5 DEF RingsOK
  <2> QED BY <2>9, <2>10, <2>11
<1> QED BY <1>1, <1>2, <1>3, <1>4, RotationKinds, ZenonT(60)

\* rotate-key reads the seeds before it has the lock, and so does everyone
\* else; still, as long as every stored seed has a line of its own and is
\* also recorded, the epochs of the ledger number the lines of the keys file,
\* whoever rotates at the same time.
THEOREM RotationsStayInStep == Spec => []RingInStep
<1>1. Init => RingOK
  <2> SUFFICES ASSUME Init PROVE RingOK
    OBVIOUS
  <2>1. Len(disk[path]) = 0 /\ Len(keysfile.lines) = 1
    BY DEF Init, Files, FirstKeys
  <2>2. \A p \in Procs : ~Opened(p)
    BY DEF Init, Opened
  <2> QED BY <2>1, <2>2 DEF RingOK, RingInOrder, LastSeedUsed, RingsOK
<1>2. BaseInv /\ RingOK /\ [Next]_vars => BaseInv' /\ RingOK'
  BY BaseStep, RingStep
<1>3. RingOK => RingInStep
  BY DEF RingOK, RingInStep, InStep
<1> QED BY <1>1, <1>2, <1>3, BaseInit, PTL DEF Spec

(***************************************************************************)
(* Imports: what the verifier of a source accepts.                         *)
(***************************************************************************)

\* The keys import tries are those the programs have used.
LEMMA KeyForms ==
  ASSUME NEW raw
  PROVE  SourceKeys(raw) = {NoHash} \cup slicks_key_candidates(raw)
<1>1. CASE raw = NoKey
  BY <1>1 DEF SourceKeys, slicks_key_candidates
<1>2. CASE raw # NoKey
  <2> DEFINE F == {g \in {"decoded", "line", "trimmed"} :
                     (g = "decoded" => raw.hex) /\ (g = "line" => raw.eol)}
  <2>1. F = {"trimmed"} \cup (IF raw.hex THEN {"decoded"} ELSE {})
                        \cup (IF raw.eol THEN {"line"} ELSE {})
    <3>1. CASE raw.hex /\ raw.eol
      BY <3>1
    <3>2. CASE raw.hex /\ ~raw.eol
      BY <3>2
    <3>3. CASE ~raw.hex /\ raw.eol
      BY <3>3
    <3>4. CASE ~raw.hex /\ ~raw.eol
      BY <3>4
    <3> QED BY <3>1, <3>2, <3>3, <3>4
  <2>2. slicks_key_candidates(raw) = {KeyForm(raw.key, f) : f \in F}
    BY <1>2 DEF slicks_key_candidates
  <2>3. SourceKeys(raw) = {NoHash} \cup ({KeyForm(raw.key, "trimmed")}
                            \cup (IF raw.hex THEN {KeyForm(raw.key, "decoded")} ELSE {})
                            \cup (IF raw.eol THEN {KeyForm(raw.key, "line")} ELSE {}))
    BY <1>2 DEF SourceKeys
  <2> HIDE DEF F
  <2>4. {KeyForm(raw.key, f) : f \in F} =
          {KeyForm(raw.key, "trimmed")}
            \cup (IF raw.hex THEN {KeyForm(raw.key, "decoded")} ELSE {})
            \cup (IF raw.eol THEN {KeyForm(raw.key, "line")} ELSE {})
    BY <2>1
  <2> QED BY <2>2, <2>3, <2>4
<1> QED BY <1>1, <1>2

\* A line of a source, by its fields.
LineOf(schema, prev0, type, data, inner, hash) ==
  [schema |-> schema, prev |-> prev0, type |-> type, data |-> data, inner |-> inner, hash |-> hash]

\* A line without a "hash" in its data is stripped of its own.
LEMMA StripFacts ==
  ASSUME NEW schema, NEW prev0, NEW type, NEW data, NEW hash,
         NEW line, line = LineOf(schema, prev0, type, data, NoHash, hash)
  PROVE  /\ line.schema = schema /\ line.prev = prev0 /\ line.hash = hash
         /\ strip_hash_field(line).hash = hash
         /\ strip_hash_field(line).body = LineOf(schema, prev0, type, data, NoHash, NoHash)
<1>1. line.inner = NoHash /\ line.schema = schema /\ line.prev = prev0 /\ line.hash = hash
  BY DEF LineOf
<1>2. [line EXCEPT !.hash = NoHash] = LineOf(schema, prev0, type, data, NoHash, NoHash)
  BY DEF LineOf
<1> QED BY <1>1, <1>2 DEF strip_hash_field

LEMMA SourceLineFacts ==
  ASSUME NEW schema, NEW q, NEW type, NEW data, NEW inner, NEW key
  PROVE  LET p0 == IF schema = "explicit" THEN q ELSE NoHash IN
         SourceLine(schema, q, type, data, inner, key) =
           LineOf(schema, p0, type, data, inner,
                  digest(key, material(schema, LineOf(schema, p0, type, data, inner, NoHash), q)))
<1>1. PICK p0 : p0 = IF schema = "explicit" THEN q ELSE NoHash
  OBVIOUS
<1>2. PICK bare : bare = LineOf(schema, p0, type, data, inner, NoHash)
  OBVIOUS
<1>3. SourceLine(schema, q, type, data, inner, key) =
        [bare EXCEPT !.hash = digest(key, material(schema, bare, q))]
  BY <1>1, <1>2 DEF SourceLine, LineOf
<1>4. PICK d : d = digest(key, material(schema, bare, q))
  OBVIOUS
<1>5. [bare EXCEPT !.hash = d] = LineOf(schema, p0, type, data, inner, d)
  BY <1>2 DEF LineOf
<1> QED BY <1>1, <1>2, <1>3, <1>4, <1>5

\* Of the lines without a "hash" in their data, the verifier accepts exactly
\* those that a program has written behind q.
LEMMA VerifierExact ==
  ASSUME NEW schema, NEW prev0, NEW type, NEW data, NEW hash, NEW raw, NEW q,
         schema # "explicit" => prev0 = NoHash, hash # Refused,
         NEW line, line = LineOf(schema, prev0, type, data, NoHash, hash)
  PROVE  LET got == verify_badapple_line(line, slicks_key_candidates(raw), q)
             written == /\ schema \in {"explicit", "inline"}
                        /\ \E key \in SourceKeys(raw) :
                             line = SourceLine(schema, q, type, data, NoHash, key)
         IN /\ got # Refused => written /\ got = hash
            /\ written /\ hash # NoHash => got = hash
<1>1. PICK m : m = material(schema, LineOf(schema, prev0, type, data, NoHash, NoHash), q)
  OBVIOUS
<1>2. /\ line.schema = schema /\ line.prev = prev0 /\ line.hash = hash
      /\ strip_hash_field(line).hash = hash
      /\ material(schema, strip_hash_field(line).body, q) = m
  BY <1>1, StripFacts
<1>3. verify_badapple_line(line, slicks_key_candidates(raw), q) =
        IF /\ schema \in {"explicit", "inline"} /\ hash # NoHash
           /\ schema = "explicit" => prev0 = q
           /\ \E k \in SourceKeys(raw) : hash = digest(k, m)
        THEN hash ELSE Refused
  <2>1. SourceKeys(raw) = {NoHash} \cup slicks_key_candidates(raw)
    BY KeyForms
  <2> QED BY <1>2, <2>1 DEF verify_badapple_line
<1>4. ASSUME NEW key
      PROVE  line = SourceLine(schema, q, type, data, NoHash, key) <=>
               (schema = "explicit" => prev0 = q) /\ hash = digest(key, m)
  <2>1. PICK p0 : p0 = IF schema = "explicit" THEN q ELSE NoHash
    OBVIOUS
  <2>2. PICK d : d = digest(key, material(schema, LineOf(schema, p0, type, data, NoHash, NoHash), q))
    OBVIOUS
  <2>3. SourceLine(schema, q, type, data, NoHash, key) = LineOf(schema, p0, type, data, NoHash, d)
    BY <2>1, <2>2, SourceLineFacts
  <2>4. p0 = prev0 => d = digest(key, m)
    BY <1>1, <2>2
  <2>5. p0 = prev0 <=> (schema = "explicit" => prev0 = q)
    BY <2>1
  <2>6. line = LineOf(schema, p0, type, data, NoHash, d) <=> prev0 = p0 /\ hash = d
    <3>1. /\ LineOf(schema, p0, type, data, NoHash, d).prev = p0
          /\ LineOf(schema, p0, type, data, NoHash, d).hash = d
      BY DEF LineOf
    <3> QED BY <1>2, <3>1
  <2> QED BY <2>3, <2>4, <2>5, <2>6
<1> QED BY <1>3, <1>4

\* A line with a "hash" in its data is refused, whoever wrote it.
LEMMA NestedRefused ==
  ASSUME NEW s \in Sources, NEW i \in 1..Len(s.lines), s.lines[i].inner # NoHash
  PROVE  verify_badapple_line(s.lines[i], slicks_key_candidates(s.raw), Prior(s, i)) = Refused
<1>1. PICK line : line = s.lines[i]
  OBVIOUS
<1>2. PICK body : body = [line EXCEPT !.inner = NoHash]
  OBVIOUS
<1>3. \A key \in SourceKeys(s.raw) :
        line.inner # digest(key, material(line.schema, body, Prior(s, i)))
  BY <1>1, <1>2, SourcesAssumption
<1>4. strip_hash_field(line) = [body |-> body, hash |-> line.inner]
  BY <1>1, <1>2 DEF strip_hash_field
<1>5. strip_hash_field(line).hash = line.inner /\ strip_hash_field(line).body = body
  BY <1>4
<1>6. SourceKeys(s.raw) = {NoHash} \cup slicks_key_candidates(s.raw)
  BY KeyForms
<1> QED BY <1>1, <1>3, <1>5, <1>6 DEF verify_badapple_line

CopyType(s, i) == IF s.from = "jsonl" THEN DATA_EVENT ELSE s.lines[i].type

\* A line of a source is imported when its program wrote it there, without a
\* "hash" in its data, and only then; the next line is checked against it.
LEMMA ImportedFacts ==
  ASSUME NEW s \in Sources, NEW i \in 1..Len(s.lines)
  PROVE  LET r == Imported(s, s.lines[i], Prior(s, i)) IN
         /\ Authentic(s, i) /\ ~NestedHash(s) => r # Refused
         /\ r # Refused => /\ Authentic(s, i)
                           /\ r.prev = Prior(s, i + 1) /\ r.entry.etype = CopyType(s, i)
                           /\ r.entry.body = [text |-> s.lines[i].data]
<1>1. PICK line : line = s.lines[i]
  OBVIOUS
<1>2. /\ s.from \in {"badapple", "journald", "jsonl"} /\ IsSequence(s.lines)
      /\ line = LineOf(line.schema, line.prev, line.type, line.data, line.inner, line.hash)
      /\ line.schema # "explicit" => line.prev = NoHash
      /\ s.from = "badapple" /\ Authentic(s, i) => line.hash # NoHash
      /\ line.hash # Refused
      /\ \A q \in {Genesis, line.hash}, t \in {DATA_EVENT, line.type} :
           [prev |-> q, entry |-> [etype |-> t, body |-> [text |-> line.data]]] # Refused
  BY <1>1, SourcesAssumption DEF LineOf
<1>3. Len(s.lines) \in Nat /\ i + 1 # 1 /\ i + 1 - 1 = i
  BY <1>2, LenNat
<1>4. PICK r : r = Imported(s, line, Prior(s, i))
  OBVIOUS
<1>5. CASE s.from = "badapple"
  <2>1. PICK got : got = verify_badapple_line(line, slicks_key_candidates(s.raw), Prior(s, i))
    OBVIOUS
  <2>2. /\ got # Refused => Authentic(s, i) /\ got = line.hash
        /\ Authentic(s, i) /\ ~NestedHash(s) => got = line.hash
    <3>1. CASE line.inner = NoHash
      <4>1. Authentic(s, i) <=>
              /\ line.schema \in {"explicit", "inline"}
              /\ \E key \in SourceKeys(s.raw) :
                   line = SourceLine(line.schema, Prior(s, i), line.type, line.data, NoHash, key)
        BY <1>1, <1>5, <3>1 DEF Authentic
      <4>2. line = LineOf(line.schema, line.prev, line.type, line.data, NoHash, line.hash)
        BY <1>2, <3>1
      <4> QED BY <1>2, <1>5, <2>1, <4>1, <4>2, VerifierExact
    <3>2. CASE line.inner # NoHash
      <4>1. got = Refused
        BY <1>1, <2>1, <3>2, NestedRefused
      <4>2. NestedHash(s)
        BY <1>1, <1>5, <3>2 DEF NestedHash
      <4> QED BY <4>1, <4>2
    <3> QED BY <3>1, <3>2
  <2>3. r = IF got = Refused THEN Refused ELSE [prev |-> got, entry |-> badapple_event_fields(line)]
    BY <1>4, <1>5, <2>1 DEF Imported
  <2>4. got # Refused =>
          r = [prev |-> line.hash, entry |-> [etype |-> line.type, body |-> [text |-> line.data]]]
    BY <2>2, <2>3 DEF badapple_event_fields
  <2>5. /\ r # Refused => Authentic(s, i)
        /\ Authentic(s, i) /\ ~NestedHash(s) => r # Refused
    <3>1. [prev |-> line.hash, entry |-> [etype |-> line.type, body |-> [text |-> line.data]]] # Refused
      BY <1>2
    <3> QED BY <1>2, <2>2, <2>3, <2>4, <3>1
  <2>6. Prior(s, i + 1) = line.hash /\ CopyType(s, i) = line.type
    BY <1>1, <1>3, <1>5 DEF Prior, CopyType
  <2> QED BY <1>1, <1>4, <2>2, <2>3, <2>4, <2>5, <2>6
<1>6. CASE s.from = "journald"
  <2>1. /\ Authentic(s, i) <=> line.schema # "text"
        /\ Prior(s, i) = Genesis /\ Prior(s, i + 1) = Genesis /\ CopyType(s, i) = line.type
    BY <1>1, <1>6 DEF Authentic, Prior, CopyType
  <2>2. r = IF line.schema = "text" THEN Refused
            ELSE [prev |-> Genesis, entry |-> [etype |-> line.type, body |-> [text |-> line.data]]]
    BY <1>4, <1>6, <2>1 DEF Imported
  <2> QED BY <1>1, <1>2, <1>4, <2>1, <2>2
<1>7. CASE s.from = "jsonl"
  <2>1. /\ Authentic(s, i)
        /\ Prior(s, i) = Genesis /\ Prior(s, i + 1) = Genesis /\ CopyType(s, i) = DATA_EVENT
    BY <1>1, <1>7 DEF Authentic, Prior, CopyType
  <2>2. r = [prev |-> Genesis, entry |-> [etype |-> DATA_EVENT, body |-> [text |-> line.data]]]
    BY <1>4, <1>7, <2>1 DEF Imported
  <2> QED BY <1>1, <1>2, <1>4, <2>1, <2>2
<1> QED BY <1>2, <1>5, <1>6, <1>7

(***************************************************************************)
(* Imports: the copy.                                                      *)
(***************************************************************************)

\* What open says of a line depends on the file up to that line only.
Agree(f, g, i) == i \in Nat /\ i >= 1 /\ \A j \in 1..i : f[j] = g[j]

LEMMA PrefixFault ==
  ASSUME NEW f, NEW g, NEW i, Agree(f, g, i)
  PROVE  /\ LastHash(f, i) = LastHash(g, i)
         /\ \A ks : LineFault(f, i, ks) = LineFault(g, i, ks)
<1> USE DEF Agree
<1>1. f[i] = g[i]
  OBVIOUS
<1>2. LastHash(f, i) = LastHash(g, i)
  <2>1. i # 1 => i - 1 \in 1..i
    OBVIOUS
  <2> QED BY <2>1 DEF LastHash
<1>3. SealsThrough(f, i) = SealsThrough(g, i)
  <2>1. {j \in 1..i : IsSeal(f[j])} = {j \in 1..i : IsSeal(g[j])}
    BY DEF IsSeal
  <2> QED BY <2>1 DEF SealsThrough
<1> QED BY <1>1, <1>2, <1>3 DEF LineFault, ChainLinked, MacUnder

\* Entry i of file f is what import makes of line i of source s under `seed'.
IsCopy(f, s, i, seed) ==
  /\ f[i].v = 3 /\ f[i].epoch = 0 /\ f[i].seq = i /\ f[i].etype = CopyType(s, i)
  /\ f[i].body = [text |-> s.lines[i].data] /\ f[i].prev_hash = LastHash(f, i)
  /\ f[i].hash = event_hash(3, f[i].prev_hash, i, f[i].etype, f[i].body,
                            [seed |-> seed, seg |-> 0])

\* A copy without a fault has none either under the first seed alone.
LEMMA FirstSeedEnough ==
  ASSUME NEW f, NEW i, NEW ks, f[i].epoch = 0, LineFault(f, i, ks) = "none"
  PROVE  LineFault(f, i, <<ks[1]>>) = "none"
<1>0. PICK one : one = <<ks[1]>>
  OBVIOUS
<1>1. HasKey(one, f[i].epoch)
  BY <1>0 DEF HasKey
<1>2. \A x, v : entry_key(one, 0, x, v) = entry_key(ks, 0, x, v)
  <2>1. one[0 + 1] = ks[0 + 1]
    BY <1>0
  <2> QED BY <2>1 DEF entry_key
<1> QED BY <1>0, <1>1, <1>2, NoLineFault

\* The copy of an intact source without reserved types has no fault.
LEMMA CopyOpens ==
  ASSUME NEW s \in Sources, s.intact, ~s.reserved, NEW f, NEW ks, Len(ks) >= 1,
         \A j \in 1..Len(s.lines) : IsCopy(f, s, j, ks[1]), NEW i \in 1..Len(s.lines)
  PROVE  LineFault(f, i, ks) = "none"
<1>1. \A j \in 1..Len(s.lines) : ~IsSeal(f[j])
  <2> SUFFICES ASSUME NEW j \in 1..Len(s.lines) PROVE f[j].etype # SEAL_EVENT
    BY DEF IsSeal
  <2>1. s.lines[j].type = SEAL_EVENT => s.reserved \/ s.from = "jsonl" \/ ~s.intact
    BY SourcesAssumption
  <2> QED BY <2>1 DEF IsCopy, CopyType, DATA_EVENT, SEAL_EVENT
<1>2. Len(s.lines) \in Nat
  BY SourcesAssumption, LenNat
<1>3. SealsThrough(f, i) = 0
  <2>1. \A j \in 1..i : j \in 1..Len(s.lines)
    BY <1>2
  <2>2. {j \in 1..i : IsSeal(f[j])} = {}
    BY <1>1, <2>1
  <2> QED BY <2>2, FS_EmptySet DEF SealsThrough
<1>4. entry_key(ks, 0, 0, 3) = [seed |-> ks[1], seg |-> 0]
  BY DEF entry_key, segment_key, BaseKey
<1>5. IsCopy(f, s, i, ks[1])
  OBVIOUS
<1>6. HasKey(ks, f[i].epoch) /\ ChainLinked(f, i)
  BY <1>5 DEF IsCopy, HasKey, ChainLinked
<1>7. MacUnder(f, i, entry_key(ks, f[i].epoch, SealsThrough(f, i), f[i].v))
  BY <1>3, <1>4, <1>5 DEF IsCopy, MacUnder, SupportedVersion
<1> QED BY <1>1, <1>6, <1>7, NoLineFault

\* p has copied the first n[p] lines of its source, and they are authentic.
ReadingOK(p) ==
  /\ n[p] <= Len(src[p].lines) /\ Len(disk[p]) = n[p] /\ prev[p] = Prior(src[p], n[p] + 1)
  /\ \A i \in 1..n[p] : Authentic(src[p], i) /\ IsCopy(disk[p], src[p], i, keys[p][1])

\* The file of p starts with a copy of its source that opens and is safe.
CopiedAll(p) ==
  /\ Len(src[p].lines) <= synced[p]
  /\ \A i \in 1..Len(src[p].lines) :
       /\ Authentic(src[p], i) /\ disk[p][i].body = [text |-> src[p].lines[i].data]
       /\ LineFault(disk[p], i, <<disk[p][1].hash.key.seed>>) = "none"

\* Only a source that is broken, names reserved types or has a "hash" in its
\* data is refused.
RefusedRightly(p) == ~src[p].intact \/ src[p].reserved \/ NestedHash(src[p])

ImportOf(p) ==
  /\ pc[p] = "new" => n[p] = 0 /\ prev[p] = Genesis /\ Len(disk[p]) = 0
  /\ cmd[p] = "import" => src[p] \in Sources
  /\ pc[p] = "import" => ReadingOK(p)
  /\ pc[p] = "rename" \/ path = p => CopiedAll(p)
  /\ cmd[p] = "import" /\ pc[p] = "failed" => RefusedRightly(p)

ImportOK == \A p \in Procs : ImportOf(p)

\* A process that is left alone.
Untouched(q) ==
  /\ pc'[q] = pc[q] /\ cmd'[q] = cmd[q] /\ src'[q] = src[q] /\ n'[q] = n[q] /\ prev'[q] = prev[q]
  /\ keys'[q] = keys[q] /\ disk'[q] = disk[q] /\ synced'[q] = synced[q] /\ (path' = q => path = q)

LEMMA UntouchedKeeps ==
  ASSUME NEW q \in Procs, ImportOf(q), Untouched(q)
  PROVE  ImportOf(q)'
<1>1. /\ ReadingOK(q)' <=> ReadingOK(q)
      /\ CopiedAll(q)' <=> CopiedAll(q)
      /\ RefusedRightly(q)' <=> RefusedRightly(q)
  BY DEF Untouched, ReadingOK, CopiedAll, RefusedRightly
<1> QED BY <1>1 DEF Untouched, ImportOf

\* The file of p grows, or loses lines that are not safe.
LEMMA CopiedKeeps ==
  ASSUME NEW p \in Procs, TypeOK, CopiedAll(p), src'[p] = src[p], src[p] \in Sources,
         synced'[p] \in Nat, synced[p] <= synced'[p],
         \A i \in 1..synced[p] : disk'[p][i] = disk[p][i]
  PROVE  CopiedAll(p)'
<1>1. synced[p] \in Nat /\ Len(src[p].lines) \in Nat /\ Len(src[p].lines) <= synced[p]
  BY SourcesAssumption, LenNat DEF TypeOK, Files, CopiedAll
<1>2. ASSUME NEW i \in 1..Len(src[p].lines)
      PROVE  /\ Authentic(src[p], i) /\ disk'[p][i].body = [text |-> src[p].lines[i].data]
             /\ LineFault(disk'[p], i, <<disk'[p][1].hash.key.seed>>) = "none"
  <2>0. /\ Authentic(src[p], i) /\ disk[p][i].body = [text |-> src[p].lines[i].data]
        /\ LineFault(disk[p], i, <<disk[p][1].hash.key.seed>>) = "none"
    BY DEF CopiedAll
  <2>1. i \in Nat /\ i >= 1 /\ \A j \in 1..i : disk'[p][j] = disk[p][j]
    BY <1>1
  <2>2. PICK f, g, ks : f = disk'[p] /\ g = disk[p] /\ ks = <<g[1].hash.key.seed>>
    OBVIOUS
  <2>3. Agree(f, g, i) /\ f[1] = g[1] /\ f[i] = g[i]
    BY <2>1, <2>2 DEF Agree
  <2>4. LineFault(f, i, ks) = LineFault(g, i, ks)
    BY <2>3, PrefixFault
  <2> QED BY <2>0, <2>2, <2>3, <2>4
<1>3. Len(src'[p].lines) <= synced'[p]
  BY <1>1
<1> QED BY <1>2, <1>3 DEF CopiedAll

\* A running process has read a seed.
LEMMA FirstKey ==
  ASSUME BaseInv, NEW p \in Procs, pc[p] = "import"
  PROVE  keys[p] \in Seq(KeyLines) /\ Len(keys[p]) >= 1
BY DEF BaseInv, TypeOK, KeysOK, Running, Ended

\* import refuses for a reason.
LEMMA GivesUpRightly ==
  ASSUME BaseInv, NEW p \in Procs, src[p] \in Sources, ReadingOK(p), GivesUp(p)
  PROVE  RefusedRightly(p)
<1>1. PICK s \in Sources : s = src[p]
  OBVIOUS
<1>2. /\ IsSequence(s.lines) /\ s.lines # << >> /\ Len(s.lines) \in Nat /\ n[p] \in Nat
      /\ IsSequence(disk[p])
  BY SourcesAssumption, LenNat DEF BaseInv, TypeOK, Files
<1>3. s.intact <=> \A i \in 1..Len(s.lines) : Authentic(s, i)
  <2>1. s.intact = \A i \in 1..Len(s.lines) : Authentic(s, i)
    BY SourcesAssumption
  <2> QED BY <2>1
<1>4. CASE n[p] < Len(s.lines) /\ Imported(s, s.lines[n[p] + 1], prev[p]) = Refused
  <2>1. n[p] + 1 \in 1..Len(s.lines) /\ prev[p] = Prior(s, n[p] + 1)
    BY <1>1, <1>2, <1>4 DEF ReadingOK
  <2>2. ~Authentic(s, n[p] + 1) \/ NestedHash(s)
    BY <1>4, <2>1, ImportedFacts
  <2> QED BY <1>1, <1>3, <2>1, <2>2 DEF RefusedRightly
<1>5. CASE n[p] = Len(s.lines) /\ (FirstFault(disk[p], keys[p]) # "none" \/ disk[p] = << >>)
  <2> SUFFICES ASSUME s.intact, ~s.reserved PROVE FALSE
    BY <1>1 DEF RefusedRightly
  <2>1. Len(disk[p]) = Len(s.lines) /\ \A j \in 1..Len(s.lines) : IsCopy(disk[p], s, j, keys[p][1])
    BY <1>1, <1>5 DEF ReadingOK
  <2>2. disk[p] # << >>
    <3>1. s.lines \in Seq({s.lines[i] : i \in 1..Len(s.lines)})
      BY <1>2 DEF IsSequence
    <3>2. Len(s.lines) # 0
      BY <1>2, <3>1, EmptySeq
    <3> QED BY <2>1, <3>2
  <2>3. Len(keys[p]) >= 1
    BY FirstKey DEF GivesUp
  <2>4. \A i \in 1..Len(disk[p]) : LineFault(disk[p], i, keys[p]) = "none"
    BY <2>1, <2>3, CopyOpens
  <2>5. FirstFault(disk[p], keys[p]) = "none"
    BY <1>2, <2>4, NoFirstFault
  <2> QED BY <1>5, <2>2, <2>5
<1> QED BY <1>1, <1>4, <1>5 DEF GivesUp

LEMMA CopiesOne ==
  ASSUME BaseInv, NEW p \in Procs, ImportOf(p), cmd[p] = "import", NEW r, Copies(p, r)
  PROVE  ImportOf(p)'
<1>1. PICK s \in Sources : s = src[p]
  BY DEF ImportOf
<1>2. PICK m : m = n[p] + 1
  OBVIOUS
<1>3. /\ n[p] \in Nat /\ n[p] < Len(s.lines) /\ Len(s.lines) \in Nat /\ ReadingOK(p)
      /\ IsSequence(disk[p]) /\ Len(disk[p]) = n[p] /\ prev[p] = Prior(s, m) /\ path # p
  BY <1>1, <1>2, SourcesAssumption, LenNat, CopyApart
  DEF BaseInv, TypeOK, Files, Copies, ImportOf, ReadingOK
<1>4. m \in 1..Len(s.lines) /\ m \in Nat /\ n[p] = m - 1
  BY <1>2, <1>3
<1>5. r = Imported(s, s.lines[m], Prior(s, m)) /\ r # Refused
  BY <1>1, <1>2, <1>3 DEF Copies
<1>6. /\ Authentic(s, m) /\ r.prev = Prior(s, m + 1) /\ r.entry.etype = CopyType(s, m)
      /\ r.entry.body = [text |-> s.lines[m].data]
  BY <1>4, <1>5, ImportedFacts
<1>7. PICK entry : entry = r.entry
  OBVIOUS
<1>8. PICK e :
        /\ e = Copied(p, entry) /\ e.epoch = 0 /\ e.v = 3 /\ e.seq = m
        /\ e.etype = CopyType(s, m) /\ e.body = [text |-> s.lines[m].data]
        /\ e.prev_hash = LastHash(disk[p], m)
        /\ e.hash = event_hash(3, e.prev_hash, m, e.etype, e.body, [seed |-> keys[p][1], seg |-> 0])
  <2>1. PICK e : e = Copied(p, entry)
    OBVIOUS
  <2>2. /\ e.epoch = 0 /\ e.v = 3 /\ e.seq = Len(disk[p]) + 1 /\ e.etype = entry.etype
        /\ e.body = entry.body /\ e.prev_hash = LastHash(disk[p], Len(disk[p]) + 1)
        /\ e.hash = event_hash(3, e.prev_hash, e.seq, e.etype, e.body,
                               [seed |-> keys[p][1], seg |-> 0])
    BY <2>1, CopiedFacts
  <2> QED BY <1>2, <1>3, <1>6, <1>7, <2>1, <2>2
<1>9. /\ disk'[p] = Append(disk[p], e) /\ n'[p] = m /\ prev'[p] = Prior(s, m + 1)
      /\ UNCHANGED <<src, pc, cmd, path, keys>> /\ pc[p] = "import"
  BY <1>2, <1>6, <1>7, <1>8 DEF Copies, BaseInv, TypeOK, Files
<1>10. /\ Len(disk'[p]) = m /\ disk'[p][m] = e
       /\ \A i \in 1..(m - 1) : disk'[p][i] = disk[p][i]
  BY <1>3, <1>4, <1>9, AppendFacts
<1>11. LastHash(disk'[p], m) = LastHash(disk[p], m)
  <2>1. m # 1 => m - 1 \in 1..(m - 1)
    BY <1>4
  <2> QED BY <1>10, <2>1 DEF LastHash
<1>12. IsCopy(disk'[p], s, m, keys[p][1])
  BY <1>8, <1>10, <1>11 DEF IsCopy
<1>13. ASSUME NEW i \in 1..(m - 1) PROVE Authentic(s, i) /\ IsCopy(disk'[p], s, i, keys[p][1])
  <2>1. Authentic(s, i) /\ IsCopy(disk[p], s, i, keys[p][1])
    BY <1>1, <1>3, <1>4 DEF ReadingOK
  <2>2. Agree(disk'[p], disk[p], i)
    BY <1>4, <1>10 DEF Agree
  <2>3. disk'[p][i] = disk[p][i] /\ LastHash(disk'[p], i) = LastHash(disk[p], i)
    BY <1>10, <2>2, PrefixFault
  <2> QED BY <2>1, <2>3 DEF IsCopy
<1>14. \A i \in 1..m : i = m \/ i \in 1..(m - 1)
  BY <1>4
<1>15. \A i \in 1..m : Authentic(s, i) /\ IsCopy(disk'[p], s, i, keys[p][1])
  BY <1>6, <1>12, <1>13, <1>14
<1>16. ReadingOK(p)'
  BY <1>1, <1>4, <1>9, <1>10, <1>15 DEF ReadingOK
<1> QED BY <1>1, <1>3, <1>9, <1>16 DEF ImportOf

LEMMA ChecksAll ==
  ASSUME BaseInv, NEW p \in Procs, ImportOf(p), cmd[p] = "import", Checks(p)
  PROVE  ImportOf(p)'
<1>1. PICK s \in Sources : s = src[p]
  BY DEF ImportOf
<1>2. /\ pc[p] = "import" /\ n[p] = Len(s.lines) /\ FirstFault(disk[p], keys[p]) = "none"
      /\ IsSequence(disk[p]) /\ Len(disk[p]) = Len(s.lines) /\ Len(s.lines) \in Nat
      /\ \A i \in 1..Len(s.lines) : Authentic(s, i) /\ IsCopy(disk[p], s, i, keys[p][1])
  BY <1>1, LenNat DEF Checks, BaseInv, TypeOK, Files, ImportOf, ReadingOK
<1>3. /\ disk' = disk /\ synced'[p] = Len(disk[p]) /\ src' = src /\ cmd' = cmd /\ pc'[p] = "rename"
  BY DEF Checks, locals, BaseInv, TypeOK, Files
<1>4. ASSUME NEW i \in 1..Len(s.lines)
      PROVE  /\ Authentic(s, i) /\ disk[p][i].body = [text |-> s.lines[i].data]
             /\ LineFault(disk[p], i, <<disk[p][1].hash.key.seed>>) = "none"
  <2>1. disk[p][i].epoch = 0 /\ disk[p][i].body = [text |-> s.lines[i].data]
    BY <1>2 DEF IsCopy
  <2>2. LineFault(disk[p], i, keys[p]) = "none"
    BY <1>2, NoFirstFault
  <2>3. disk[p][1].hash.key.seed = keys[p][1]
    <3>1. 1 \in 1..Len(s.lines)
      BY <1>2
    <3>2. IsCopy(disk[p], s, 1, keys[p][1])
      BY <1>2, <3>1
    <3> QED BY <3>2 DEF IsCopy, event_hash
  <2>4. LineFault(disk[p], i, <<keys[p][1]>>) = "none"
    BY <2>1, <2>2, FirstSeedEnough
  <2> QED BY <1>2, <2>1, <2>3, <2>4
<1>5. Len(s.lines) <= synced'[p]
  BY <1>2, <1>3
<1>6. CopiedAll(p)'
  BY <1>1, <1>3, <1>4, <1>5 DEF CopiedAll
<1> QED BY <1>1, <1>3, <1>6 DEF ImportOf

\* Whoever else writes: the file of an import under way is its own, and the
\* one at the ledger's name only grows or loses what is not safe.
LEMMA ImportOthers ==
  ASSUME BaseInv, NEW p \in Procs, Kind(p), NEW q \in Procs, q # p, ImportOf(q)
  PROVE  ImportOf(q)'
<1>0. TypeOK /\ InCommand /\ q \in Files /\ path \in Files
  BY DEF BaseInv, TypeOK, Files
<1>1. ASSUME NEW c, NEW s, Start(p, c, s) PROVE Untouched(q)
  BY <1>0, <1>1 DEF Start, Untouched, Goto, files, TypeOK
<1>2. ASSUME NEW how \in Ended, Ends(p, how) PROVE Untouched(q)
  BY <1>0, <1>2 DEF Ends, Untouched, TypeOK
<1>3. ASSUME NEW step \in Steps, Moves(p, step) PROVE Untouched(q)
  <2>1. n'[q] = n[q]
    BY <1>0, <1>3 DEF Moves, TypeOK
  <2> QED BY <1>0, <1>3, <2>1 DEF Moves, Untouched, files, TypeOK
<1>4. ASSUME NEW x, Opens(p, x) PROVE Untouched(q)
  BY <1>0, <1>4 DEF Opens, Untouched, files, TypeOK
<1>5. ASSUME NEW kf, NEW step, Stores(p, kf, step) PROVE Untouched(q)
  <2>1. /\ pc'[q] = pc[q] /\ keys'[q] = keys[q]
        /\ UNCHANGED <<path, disk, synced, cmd, src, n, prev>>
    BY <1>0, <1>5, StoresFacts
  <2> QED BY <2>1 DEF Untouched
<1>6. ASSUME NEW r, Copies(p, r) PROVE Untouched(q)
  <2>1. n'[q] = n[q] /\ prev'[q] = prev[q] /\ disk'[q] = disk[q]
    BY <1>0, <1>6 DEF Copies, TypeOK
  <2> QED BY <1>6, <2>1 DEF Copies, Untouched
<1>7. ASSUME Checks(p) PROVE Untouched(q)
  BY <1>0, <1>7 DEF Checks, Untouched, locals, TypeOK
<1>8. ASSUME Rename(p) PROVE Untouched(q)
  BY <1>0, <1>8 DEF Rename, Untouched, Exit, Goto, TypeOK
<1>9. ASSUME NEW step, Appends(p, step) PROVE ImportOf(q)'
  <2>0. disk' = [disk EXCEPT ![path] = Append(@, NewEntry(p))]
    BY <1>9 DEF Appends
  <2>1. /\ pc'[q] = pc[q] /\ keys'[q] = keys[q] /\ UNCHANGED <<path, cmd, src, n, prev>>
        /\ disk' = [disk EXCEPT ![path] = Append(@, NewEntry(p))]
    BY <1>0, <1>9, <2>0, AppendsFacts
  <2>2. CASE path # q
    <3>1. disk'[q] = disk[q] /\ synced'[q] = synced[q]
      BY <1>0, <1>9, <2>1, <2>2 DEF Appends, TypeOK
    <3> QED BY <2>1, <3>1, UntouchedKeeps DEF Untouched
  <2>3. CASE path = q
    <3>1. pc[q] = "done" /\ cmd[q] = "import" /\ CopiedAll(q) /\ src[q] \in Sources
      BY <2>3, CliAssumption DEF BaseInv, NameOK, ImportOf
    <3>2. /\ disk'[q] = Append(disk[q], NewEntry(p)) /\ IsSequence(disk[q])
          /\ synced[q] \in Nat /\ synced[q] <= Len(disk[q])
      BY <1>0, <2>1, <2>3 DEF TypeOK
    <3>3. /\ Len(disk[q]) \in Nat /\ Len(disk'[q]) = Len(disk[q]) + 1
          /\ \A i \in 1..Len(disk[q]) : disk'[q][i] = disk[q][i]
      BY <3>2, AppendFacts
    <3>4. synced'[q] = synced[q] \/ synced'[q] = Len(disk[q]) + 1
      BY <1>0, <1>9, <2>3, <3>3 DEF Appends, TypeOK
    <3>5. synced'[q] \in Nat /\ synced[q] <= synced'[q]
      BY <3>2, <3>3, <3>4
    <3>6. \A i \in 1..synced[q] : disk'[q][i] = disk[q][i]
      BY <3>2, <3>3
    <3>7. CopiedAll(q)'
      BY <1>0, <2>1, <3>1, <3>5, <3>6, CopiedKeeps
    <3> QED BY <2>1, <3>1, <3>7 DEF ImportOf
  <2> QED BY <2>2, <2>3
<1>10. Untouched(q) => ImportOf(q)'
  BY UntouchedKeeps
<1> QED BY <1>1, <1>2, <1>3, <1>4, <1>5, <1>6, <1>7, <1>8, <1>9, <1>10, ZenonT(60) DEF Kind

LEMMA ImportSelf ==
  ASSUME BaseInv, NEW p \in Procs, Kind(p), ImportOf(p)
  PROVE  ImportOf(p)'
<1>0. TypeOK /\ InCommand /\ p \in Files
  BY DEF BaseInv, Files
<1>00. pc[p] # "done" => path # p
  BY CopyApart
<1>1. ASSUME NEW c \in AllCommands \ {"import"}, Start(p, c, NoHash) PROVE ImportOf(p)'
  <2>1. pc'[p] \in {"public", "flock"} /\ cmd'[p] = c /\ c # "import" /\ path' = path /\ path # p
    BY <1>0, <1>00, <1>1 DEF Start, Goto, files, TypeOK
  <2> QED BY <2>1 DEF ImportOf
<1>2. ASSUME NEW s \in Sources, Start(p, "import", s) PROVE ImportOf(p)'
  <2>1. /\ pc'[p] = "import" /\ src'[p] = s /\ n' = n /\ prev' = prev /\ disk' = disk
        /\ path' = path /\ path # p /\ n[p] = 0 /\ prev[p] = Genesis /\ Len(disk[p]) = 0
    BY <1>0, <1>00, <1>2 DEF Start, Goto, files, TypeOK, ImportOf
  <2>2. Prior(s, 0 + 1) = Genesis /\ Len(s.lines) \in Nat
    BY SourcesAssumption, LenNat DEF Prior
  <2>3. ReadingOK(p)'
    BY <2>1, <2>2 DEF ReadingOK
  <2> QED BY <2>1, <2>3 DEF ImportOf
<1>3. ASSUME NEW how \in Ended, Ends(p, how) PROVE ImportOf(p)'
  <2>1. /\ pc'[p] = how /\ src' = src /\ path' = path /\ path # p
        /\ cmd'[p] = "import" => cmd[p] = "import"
    BY <1>0, <1>00, <1>3 DEF Ends, TypeOK, Ended
  <2>2. ASSUME how = "failed", cmd'[p] = "import" PROVE RefusedRightly(p)
    <3>1. cmd[p] = "import"
      BY <2>1, <2>2
    <3>2. pc[p] \notin {"new", "open", "newkey", "newline", "write", "read", "public"}
      BY <1>0, <3>1 DEF InCommand, StepsOf, Ended
    <3>3. GivesUp(p)
      BY <1>3, <2>2, <3>2 DEF Ends, MayFail
    <3> QED BY <3>1, <3>3, GivesUpRightly DEF ImportOf, GivesUp
  <2>3. RefusedRightly(p)' <=> RefusedRightly(p)
    BY <2>1 DEF RefusedRightly
  <2> QED BY <2>1, <2>2, <2>3 DEF ImportOf, Ended
<1>4. ASSUME pc'[p] \notin {"new", "import", "rename"}, pc[p] # "done", cmd[p] # "import",
             UNCHANGED <<path, cmd, src>>
      PROVE  ImportOf(p)'
  BY <1>00, <1>4 DEF ImportOf
<1>a. ASSUME NEW step \in Steps, Moves(p, step) PROVE ImportOf(p)'
  <2>1. /\ pc'[p] \in {"open", "write", "seek", "follow"} /\ UNCHANGED <<path, cmd, src>>
        /\ pc[p] \in {"flock", "stdin", "read", "seek", "follow"}
    BY <1>0, <1>a DEF Moves, files, TypeOK
  <2>2. cmd[p] # "import"
    BY <1>0, <2>1 DEF InCommand, StepsOf, Ended, AllCommands
  <2> QED BY <1>4, <2>1, <2>2
<1>b. ASSUME NEW x, Opens(p, x) PROVE ImportOf(p)'
  <2>1. pc'[p] = AfterOpen(cmd[p]) /\ UNCHANGED <<path, cmd, src>> /\ pc[p] = "open"
    BY <1>0, <1>b DEF Opens, files, TypeOK
  <2>2. cmd[p] \in AllCommands \ {"import", "public"}
    BY <1>0, <2>1 DEF InCommand, StepsOf, Ended
  <2>3. AfterOpen(cmd[p]) \in {"write", "stdin", "newkey", "read"}
    BY <2>2 DEF AfterOpen, AllCommands
  <2> QED BY <1>4, <2>1, <2>2, <2>3
<1>c. ASSUME NEW kf, NEW step, Stores(p, kf, step) PROVE ImportOf(p)'
  <2>1. /\ pc'[p] \in {"failed", "newline", "write"} /\ UNCHANGED <<path, cmd, src>>
        /\ Opened(p)
    BY <1>0, <1>c, StoresFacts
  <2>2. cmd[p] # "import" /\ pc[p] # "done"
    BY <1>0, <2>1 DEF Opened, InCommand, StepsOf, Ended
  <2> QED BY <1>4, <2>1, <2>2
<1>d. ASSUME NEW step, Appends(p, step) PROVE ImportOf(p)'
  <2>1. /\ pc'[p] \in {"wrote", "failed"} /\ UNCHANGED <<path, cmd, src>> /\ pc[p] = "write"
    BY <1>0, <1>d, AppendsFacts
  <2>2. cmd[p] # "import"
    BY <1>0, <2>1 DEF InCommand, StepsOf, Ended
  <2> QED BY <1>4, <2>1, <2>2
<1>5. ASSUME pc[p] \in {"import", "rename"} PROVE cmd[p] = "import"
  BY <1>0, <1>5 DEF InCommand, StepsOf, Ended
<1>6. ASSUME NEW r, Copies(p, r) PROVE ImportOf(p)'
  BY <1>5, <1>6, CopiesOne DEF Copies
<1>7. ASSUME Checks(p) PROVE ImportOf(p)'
  BY <1>5, <1>7, ChecksAll DEF Checks
<1>8. ASSUME Rename(p) PROVE ImportOf(p)'
  <2>1. pc'[p] = "done" /\ UNCHANGED <<disk, synced, cmd, src, n, prev>> /\ CopiedAll(p)
    BY <1>0, <1>8 DEF Rename, Exit, Goto, TypeOK, ImportOf
  <2>2. CopiedAll(p)'
    BY <2>1 DEF CopiedAll
  <2> QED BY <2>1, <2>2 DEF ImportOf
<1> QED BY <1>1, <1>2, <1>3, <1>a, <1>b, <1>c, <1>d, <1>6, <1>7, <1>8, ZenonT(60) DEF Kind

LEMMA ImportPower ==
  ASSUME BaseInv, PowerLoss, NEW q \in Procs, ImportOf(q)
  PROVE  ImportOf(q)'
<1>0. TypeOK /\ q \in Files /\ path \in Files
  BY DEF BaseInv, TypeOK, Files
<1>1. PICK k \in synced[path]..Len(disk[path]) : disk' = [disk EXCEPT ![path] = SubSeq(@, 1, k)]
  BY DEF PowerLoss
<1>2. /\ pc'[q] = IF Running(q) THEN "dead" ELSE pc[q]
      /\ UNCHANGED <<path, synced, cmd, src, n, prev>>
  BY <1>0 DEF PowerLoss
<1>3. pc'[q] \in {"new", "done", "failed", "dead"} /\ (pc'[q] # "dead" => pc'[q] = pc[q])
  BY <1>2 DEF Running, Ended
<1>4. RefusedRightly(q)' <=> RefusedRightly(q)
  BY <1>2 DEF RefusedRightly
<1>5. CASE path # q
  <2>1. disk'[q] = disk[q]
    BY <1>0, <1>1, <1>5 DEF TypeOK
  <2> QED BY <1>2, <1>3, <1>4, <1>5, <2>1 DEF ImportOf
<1>6. CASE path = q
  <2>1. pc[q] = "done" /\ CopiedAll(q) /\ cmd[q] = "import" /\ src[q] \in Sources
    BY <1>6, CliAssumption DEF BaseInv, NameOK, ImportOf
  <2>2. /\ disk'[q] = SubSeq(disk[q], 1, k) /\ IsSequence(disk[q]) /\ synced[q] \in Nat
        /\ Len(disk[q]) \in Nat /\ k \in synced[q]..Len(disk[q])
    BY <1>0, <1>1, <1>6, LenNat DEF TypeOK
  <2>3. k \in 0..Len(disk[q]) /\ \A i \in 1..synced[q] : i \in 1..k
    BY <2>2
  <2>4. \A i \in 1..synced[q] : disk'[q][i] = disk[q][i]
    BY <2>2, <2>3, SubSeqFacts
  <2>5. synced'[q] \in Nat /\ synced[q] <= synced'[q] /\ src'[q] = src[q]
    BY <1>2, <2>2
  <2>6. CopiedAll(q)'
    BY <1>0, <2>1, <2>4, <2>5, CopiedKeeps
  <2> QED BY <1>2, <1>3, <2>1, <2>6 DEF ImportOf
<1> QED BY <1>5, <1>6

LEMMA ImportInit == Init => ImportOK
<1> SUFFICES ASSUME Init, NEW p \in Procs PROVE ImportOf(p)
  BY DEF ImportOK
<1>1. /\ pc[p] = "new" /\ cmd[p] = "none" /\ n[p] = 0 /\ prev[p] = Genesis /\ path # p
      /\ Len(disk[p]) = 0
  BY CliAssumption DEF Init, Files
<1> QED BY <1>1 DEF ImportOf

LEMMA ImportStep == BaseInv /\ ImportOK /\ [Next]_vars => ImportOK'
<1> SUFFICES ASSUME BaseInv, ImportOK, [Next]_vars, NEW q \in Procs PROVE ImportOf(q)'
  BY DEF ImportOK
<1>0. ImportOf(q) /\ TypeOK /\ InCommand
  BY DEF ImportOK, BaseInv
<1>1. ASSUME NEW p \in Procs, Kind(p) PROVE ImportOf(q)'
  BY <1>0, <1>1, ImportSelf, ImportOthers
<1>2. ASSUME UNCHANGED vars PROVE Untouched(q)
  BY <1>2 DEF vars, files, locals, Untouched
<1>3. Untouched(q) => ImportOf(q)'
  BY <1>0, UntouchedKeeps
<1>4. PowerLoss => ImportOf(q)'
  BY <1>0, ImportPower
<1>k. (\E p \in Procs : Kind(p)) \/ PowerLoss \/ UNCHANGED vars
  BY <1>0, Kinds
<1> QED BY <1>1, <1>2, <1>3, <1>4, <1>k, Zenon

LEMMA ImportAlways == Spec => [](BaseInv /\ ImportOK)
<1>1. BaseInv /\ ImportOK /\ [Next]_vars => BaseInv' /\ ImportOK'
  BY BaseStep, ImportStep
<1> QED BY <1>1, BaseInit, ImportInit, PTL DEF Spec

\* The ledger's name is only ever given to a copy of every line of a source
\* whose own format proves it intact; killed at any point, import leaves the
\* old ledger, and a power loss takes nothing from the copy.
THEOREM ImportsAreComplete == Spec => []ImportComplete
<1>1. BaseInv /\ ImportOK => ImportComplete
  <2> SUFFICES ASSUME BaseInv, ImportOK, path # Ledger0
               PROVE  /\ src[path].intact /\ Len(disk[path]) >= Len(src[path].lines)
                      /\ \A i \in 1..Len(src[path].lines) :
                           disk[path][i].body = [text |-> src[path].lines[i].data]
    BY DEF ImportComplete
  <2>1. path \in Procs /\ cmd[path] = "import"
    BY DEF BaseInv, NameOK
  <2>2. CopiedAll(path) /\ src[path] \in Sources
    BY <2>1 DEF ImportOK, ImportOf
  <2>3. \A i \in 1..Len(src[path].lines) : Authentic(src[path], i)
    BY <2>2 DEF CopiedAll
  <2>4. src[path].intact
    BY <2>2, <2>3, SourcesAssumption
  <2>5. /\ synced[path] \in Nat /\ synced[path] <= Len(disk[path]) /\ Len(disk[path]) \in Nat
        /\ Len(src[path].lines) \in Nat
    BY <2>2, SourcesAssumption, LenNat DEF BaseInv, TypeOK
  <2>6. \A i \in 1..Len(src[path].lines) : disk[path][i].body = [text |-> src[path].lines[i].data]
    BY <2>2 DEF CopiedAll
  <2>7. Len(disk[path]) >= Len(src[path].lines)
    BY <2>2, <2>5 DEF CopiedAll
  <2> QED BY <2>4, <2>6, <2>7
<1> QED BY <1>1, ImportAlways, PTL

\* What import has left opens under the seed it was built with, up to the last
\* line it copied, although the source may name the event types the ledger
\* reserves.
THEOREM ImportsOpen == Spec => []ImportOpens
<1>1. BaseInv /\ ImportOK => ImportOpens
  <2> SUFFICES ASSUME BaseInv, ImportOK, path # Ledger0
               PROVE  FirstFault(SubSeq(disk[path], 1, Len(src[path].lines)),
                                 <<disk[path][1].hash.key.seed>>) = "none"
    BY DEF ImportOpens
  <2>1. path \in Procs /\ cmd[path] = "import"
    BY DEF BaseInv, NameOK
  <2>2. CopiedAll(path) /\ src[path] \in Sources
    BY <2>1 DEF ImportOK, ImportOf
  <2>3. PICK m : m = Len(src[path].lines)
    OBVIOUS
  <2>4. /\ synced[path] \in Nat /\ synced[path] <= Len(disk[path]) /\ Len(disk[path]) \in Nat
        /\ m \in Nat /\ m <= synced[path] /\ IsSequence(disk[path])
    BY <2>2, <2>3, SourcesAssumption, LenNat DEF BaseInv, TypeOK, CopiedAll
  <2>5. PICK f, g, ks : f = SubSeq(disk[path], 1, m) /\ g = disk[path] /\ ks = <<disk[path][1].hash.key.seed>>
    OBVIOUS
  <2>6. IsSequence(f) /\ Len(f) = m /\ \A i \in 1..m : f[i] = g[i]
    <3>1. m \in 0..Len(disk[path])
      BY <2>4
    <3> QED BY <2>4, <2>5, <3>1, SubSeqFacts
  <2>7. ASSUME NEW i \in 1..m PROVE LineFault(f, i, ks) = "none"
    <3>1. Agree(f, g, i)
      BY <2>4, <2>6 DEF Agree
    <3>2. LineFault(g, i, ks) = "none"
      BY <2>2, <2>3, <2>5 DEF CopiedAll
    <3> QED BY <3>1, <3>2, PrefixFault
  <2>8. FirstFault(f, ks) = "none"
    BY <2>6, <2>7, NoFirstFault
  <2> QED BY <2>3, <2>5, <2>8
<1> QED BY <1>1, ImportAlways, PTL

\* import refuses no intact source, in whichever schemas and under whichever
\* keys its program wrote it, unless one of its types is reserved or a line
\* has a "hash" in its data before its own.
THEOREM IntactSourcesAccepted == Spec => []IntactSourceAccepted
<1>1. ImportOK => IntactSourceAccepted
  BY DEF ImportOK, ImportOf, RefusedRightly, IntactSourceAccepted
<1> QED BY <1>1, ImportAlways, PTL
=============================================================================
