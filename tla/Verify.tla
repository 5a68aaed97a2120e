------------------------------- MODULE Verify -------------------------------
(***************************************************************************)
(* The two verifiers of a ledger file, on top of Ledger:                   *)
(*   verify        (src/src/lib.rs)  with the keyring;                     *)
(*   verify_public (src/src/seal.rs) with nothing but the file.            *)
(*                                                                         *)
(* Both stream the lines and stop at the first one they refuse.  Up to     *)
(* there last_hash is the previous line's hash, seals_seen the number of   *)
(* seals passed, and the public verifier's buffer the lines from the last  *)
(* seal on: that is how the checks of line i are written here.             *)
(***************************************************************************)
EXTENDS Callers, Lines, FiniteSetsExt, SequencesExt

CONSTANT Tampered   \* a body nobody appended

(***************************************************************************)
(* SovereignLedger::verify.                                                *)
(***************************************************************************)
Seg0HadLegacy(f, i) == \E j \in 1..i : f[j].v < 3 /\ SealsThrough(f, j - 1) = 0

\* Mutant of HonestReveal: no exception for a segment 0 that predates v3.
HonestReveal_NoLegacy(f, i, ks) ==
  \A ep \in DOMAIN f[i].body.revealed :
    /\ HasKey(ks, ep)
    /\ f[i].body.revealed[ep] = segment_key(BaseKey(ks[ep + 1]), f[i].body.segment)

\* Each key a seal reveals is the one its segment was written under.
HonestReveal(f, i, ks) ==
  LET r == f[i].body IN
  \A ep \in DOMAIN r.revealed :
    /\ HasKey(ks, ep)
    /\ r.revealed[ep] = IF r.segment = 0 /\ Seg0HadLegacy(f, i)
                        THEN BaseKey(ks[ep + 1])
                        ELSE segment_key(BaseKey(ks[ep + 1]), r.segment)

\* Mutant of VerifyLine: a seal is authenticated before it is counted.
VerifyLine_SealNotCounted(f, i, ks) ==
  IF ~HasKey(ks, f[i].epoch) THEN "MissingKey"
  ELSE IF ~ChainLinked(f, i) THEN "BrokenChain"
  ELSE IF ~MacUnder(f, i, entry_key(ks, f[i].epoch, SealsThrough(f, i - 1), f[i].v))
       THEN "BrokenChain"
  ELSE IF IsSeal(f[i]) /\ ~HonestReveal(f, i, ks) THEN "Verification"
  ELSE "Ok"

VerifyLine(f, i, ks) ==
  IF ~HasKey(ks, f[i].epoch) THEN "MissingKey"
  ELSE IF ~ChainLinked(f, i) THEN "BrokenChain"
  ELSE IF ~SupportedVersion(f[i].v) THEN "UnsupportedVersion"
  ELSE IF ~MacUnder(f, i, entry_key(ks, f[i].epoch, SealsThrough(f, i), f[i].v))
       THEN "BrokenChain"
  ELSE IF IsSeal(f[i]) /\ ~HonestReveal(f, i, ks) THEN "Verification"
  ELSE "Ok"

verify(f, t, ks) ==
  LET bad == {i \in 1..Len(f) : VerifyLine(f, i, ks) # "Ok"}
  IN IF bad # {} THEN VerifyLine(f, Min(bad), ks)
     ELSE IF t = "garbage" THEN "InvalidLine" ELSE "Ok"

(***************************************************************************)
(* seal::verify_public.                                                    *)
(***************************************************************************)

\* Mutant of verify_signature: symmetric seals pass as well.
verify_signature_Symmetric(scheme, public_key, signature, payload) ==
  signature = [scheme |-> scheme, by |-> public_key, over |-> payload]

\* Mutant of verify_signature: any key may have made the signature.
verify_signature_AnyKey(scheme, public_key, signature, payload) ==
  /\ scheme \in {"ed25519-file", "secure-enclave"}
  /\ signature # NoHash /\ signature.over = payload

\* hmac-sha256 seals are symmetric: nobody can check them in public.
verify_signature(scheme, public_key, signature, payload) ==
  /\ scheme \in {"ed25519-file", "secure-enclave"}
  /\ signature = [scheme |-> scheme, by |-> public_key, over |-> payload]

SealLines(f) == {i \in 1..Len(f) : IsSeal(f[i])}

\* The checks of finish_segment on the seal at line i.  The buffer starts
\* with the previous seal, or with line 1.
finish_segment(f, i) ==
  LET r     == f[i].body
      prev  == Max({0} \cup {j \in SealLines(f) : j < i})
      lo    == Larger(prev, 1)
      start == IF prev = 0 THEN 1 ELSE f[prev].seq
      first == f[Min(SealLines(f))].body
  IN /\ r.segment = SealsThrough(f, i - 1)
     /\ r.prev_seal = IF prev = 0 THEN NoHash ELSE f[prev].hash
     /\ lo < i /\ r.start_seq = start /\ r.end_seq = start + (i - lo) - 1
     /\ \A j \in lo..(i - 1) :
          f[j].epoch \in DOMAIN r.revealed /\ MacUnder(f, j, r.revealed[f[j].epoch])
     /\ r.merkle_root = mth([k \in 1..(i - lo) |-> f[lo + k - 1].hash])
     /\ r.tip_hash = f[i - 1].hash
     /\ r.scheme = first.scheme /\ r.public_key = first.public_key
     /\ r.payload \in {NoHash, seal_payload(r)}
     /\ verify_signature(r.scheme, r.public_key, r.signature, seal_payload(r))

verify_public(f, t) ==
  /\ \A i \in 1..Len(f) : ChainLinked(f, i) /\ (IsSeal(f[i]) => finish_segment(f, i))
  /\ t # "garbage"

(***************************************************************************)
(* What the checks are for: a file that is not the one that was written.   *)
(***************************************************************************)
Resplit(e) == [e EXCEPT !.etype = NoHash, !.body = Joined(e.etype, e.body)]

FieldEdits(e) ==
  {[e EXCEPT !.v = x] : x \in (0..4) \ {e.v}}
    \cup {[e EXCEPT !.epoch = x] : x \in (0..MAX_EPOCH) \ {e.epoch}}
    \cup {[e EXCEPT !.seq = @ + 1], [e EXCEPT !.prev_hash = NoHash],
          [e EXCEPT !.hash = NoHash], Resplit(e)}
    \cup {[e EXCEPT !.etype = x] : x \in {DATA_EVENT, KEY_ROTATION_EVENT} \ {e.etype}}
    \cup IF IsSeal(e) THEN {} ELSE {[e EXCEPT !.body = Tampered]}

SealSchemes == {"ed25519-file", "secure-enclave", "hmac-sha256"}

BodyEdits(r) ==
  {[r EXCEPT !.segment = @ + 1], [r EXCEPT !.start_seq = @ + 1],
   [r EXCEPT !.end_seq = @ + 1], [r EXCEPT !.tip_hash = NoHash],
   [r EXCEPT !.merkle_root = NoHash], [r EXCEPT !.prev_seal = Tampered],
   [r EXCEPT !.public_key = "other"], [r EXCEPT !.signature = NoHash],
   [r EXCEPT !.payload = NoHash], [r EXCEPT !.payload = Tampered],
   [r EXCEPT !.revealed = [ep \in DOMAIN @ |-> BaseKey(Tampered)]]}
    \cup {[r EXCEPT !.scheme = x] : x \in SealSchemes \ {r.scheme}}

SealEdits(e) == {[e EXCEPT !.body = b] : b \in BodyEdits(e.body)}

EntryEdits(e) == FieldEdits(e) \cup IF IsSeal(e) THEN SealEdits(e) ELSE {}

\* One entry changed.
Edited(f, i) == {ReplaceAt(f, i, e) : e \in EntryEdits(f[i])}

\* A line that others follow deleted, one duplicated, two exchanged.
Rearranged(f) ==
  {RemoveAt(f, i) : i \in 1..(Len(f) - 1)}
    \cup {InsertAt(f, i, f[i]) : i \in 1..Len(f)}
    \cup {ReplaceAt(ReplaceAt(f, i, f[i + 1]), i + 1, f[i]) : i \in 1..(Len(f) - 1)}

Altered(f) == Rearranged(f) \cup UNION {Edited(f, i) : i \in 1..Len(f)}

\* The scan of `open' on a file f, as ScanLine and ScanEnd make it.
OpenAccepts(f, t, ks) ==
  LET s[i \in 0..Len(f)] == IF i = 0 THEN ScanInit ELSE Accept(s[i - 1], f[i])
  IN /\ \A i \in 1..Len(f) : /\ HasKey(ks, f[i].epoch)
                             /\ Linked(s[i - 1], f[i]) /\ SupportedVersion(f[i].v)
                             /\ Authentic(s[i - 1], f[i], ks)
     /\ t # "garbage"

(***************************************************************************)
(* Properties.  They are about the file alone, so they are read while no   *)
(* process has it open and all of it is on stable storage: whatever a      *)
(* process wrote, the next one may sync and close.                         *)
(***************************************************************************)
AtRest == pc = "closed" /\ tail # "garbage" /\ synced = Len(file)

\* Whatever rotations, seals, restarts and formats led to it, an untampered
\* ledger passes verify() with the keyring that wrote it; every seal on it
\* discloses exactly the keys of the segment it closed.
KeyedVerifyAccepts ==
  AtRest => \A ks \in Rings : RingMatches(ks) => verify(file, tail, ks) = "Ok"

\* No keyed reader takes f for the ledger.
KeyedRefused(f, ks) == verify(f, tail, ks) # "Ok" /\ ~OpenAccepts(f, tail, ks)

\* v1 does not say where event_type ends and body begins.
SameText(e, g) == e.v = 1 /\ g = Resplit(e)

\* Changing a field of an entry, deleting a line that others follow,
\* duplicating a line or reordering entries is refused by verify() and by
\* open; only a v1 entry can have its event_type and body split elsewhere.
\* That the last lines are gone shows in a checkpoint alone: see
\* DeletionDetected.
KeyedTamperEvident ==
  AtRest => \A ks \in Rings : RingMatches(ks) =>
    /\ \A f \in Rearranged(file) : KeyedRefused(f, ks)
    /\ \A i \in 1..Len(file) : \A e \in EntryEdits(file[i]) :
         SameText(file[i], e) \/ KeyedRefused(ReplaceAt(file, i, e), ks)

\* "Deleting or duplicating a line, reordering entries, truncating a tail
\* record [...] is detected on open and on verify()", whichever line it is.
DeletionDetected ==
  AtRest => \A ks \in Rings, i \in 1..Len(file) :
              RingMatches(ks) => KeyedRefused(RemoveAt(file, i), ks)

\* The two keyed readers, the scan of open and verify(), decide alike on the
\* ledger, whatever the keyring, and `open' accepts every file that verify()
\* accepts.  (Not the reverse: with a ring that holds the seeds in another
\* order an entry opens whose epoch was relabelled to match, and only verify()
\* compares the keys that seals reveal with the ring.)
OpenAgreesWithVerify ==
  AtRest => \A ks \in Rings :
              /\ OpenAccepts(file, tail, ks) <=> verify(file, tail, ks) = "Ok"
              /\ \A f \in Altered(file) : verify(f, tail, ks) = "Ok" => OpenAccepts(f, tail, ks)

\* Seals made by one anchor whose signatures can be checked in public.
OneAnchor(f) ==
  \A i, j \in SealLines(f) :
    /\ f[i].body.scheme # "hmac-sha256"
    /\ f[i].body.scheme = f[j].body.scheme /\ f[i].body.public_key = f[j].body.public_key

\* verify_public takes no lock: at whatever line of the file a concurrent
\* reader stops, it accepts exactly when the seals it saw are by one public
\* anchor.
PublicVerifyAccepts ==
  AtRest => \A k \in 0..Len(file) :
              LET f == SubSeq(file, 1, k)
              IN verify_public(f, "eol") <=> OneAnchor(f)

\* v is not under the MAC, and to a reader who takes the key from the seal
\* v2 and v3 are the same construction.
SameConstruction(e, g) == {e.v, g.v} = {2, 3} /\ g = [e EXCEPT !.v = g.v]

\* Without any key: nothing can be changed in a sealed segment, nor in what
\* a seal says, nor can lines be duplicated, reordered or taken out from before
\* others.  Only the label v2 may stand for v3, a v1 entry be split elsewhere,
\* and the copy of the signed payload be missing from the last seal, which no
\* later seal vouches for.
PublicTamperEvident ==
  AtRest /\ SealLines(file) # {} =>
    LET last == Max(SealLines(file))
        refused(f) == ~verify_public(f, tail)
    IN /\ \A f \in Rearranged(file) : refused(f)
       /\ \A i \in 1..(last - 1) : \A e \in EntryEdits(file[i]) :
            \/ SameConstruction(file[i], e) \/ SameText(file[i], e)
            \/ refused(ReplaceAt(file, i, e))
       /\ \A e \in SealEdits(file[last]) :
            \/ e.body = [file[last].body EXCEPT !.payload = NoHash]
            \/ refused(ReplaceAt(file, last, e))
=============================================================================
