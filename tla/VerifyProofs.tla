---------------------------- MODULE VerifyProofs ----------------------------
(***************************************************************************)
(* Proofs about the two verifiers, for every value of the constants: they  *)
(* accept what the ledger writes, and what they accept is bound by its     *)
(* last hash, or by its last seal, whoever changed it and however much.    *)
(***************************************************************************)
EXTENDS Verify, LedgerKeys

(***************************************************************************)
(* Counting seals.                                                         *)
(***************************************************************************)
LEMMA SealsThroughStep ==
  ASSUME NEW f, NEW i \in Nat
  PROVE  /\ SealsThrough(f, 0) = 0 /\ SealsThrough(f, i) \in Nat
         /\ SealsThrough(f, i + 1) = IF IsSeal(f[i + 1]) THEN SealsThrough(f, i) + 1
                                                          ELSE SealsThrough(f, i)
<1> DEFINE S == {j \in 1..i : IsSeal(f[j])}
           T == {j \in 1..(i + 1) : IsSeal(f[j])}
<1>1. IsFiniteSet(S)
  <2>1. IsFiniteSet(1..i) /\ S \subseteq 1..i
    BY FS_Interval
  <2> QED
    BY <2>1, FS_Subset
<1>2. Cardinality(S) \in Nat
  BY <1>1, FS_CardinalityType
<1>3. SealsThrough(f, 0) = 0
  <2>1. {j \in 1..0 : IsSeal(f[j])} = {}
    OBVIOUS
  <2> QED
    BY <2>1, FS_EmptySet DEF SealsThrough
<1>4. CASE IsSeal(f[i + 1])
  <2>1. T = S \cup {i + 1} /\ i + 1 \notin S
    BY <1>4
  <2>2. Cardinality(T) = Cardinality(S) + 1
    BY <1>1, <2>1, FS_AddElement
  <2> QED
    BY <1>2, <1>3, <1>4, <2>2 DEF SealsThrough
<1>5. CASE ~IsSeal(f[i + 1])
  <2>1. T = S
    BY <1>5
  <2> QED
    BY <1>2, <1>3, <1>5, <2>1 DEF SealsThrough
<1> QED
  BY <1>4, <1>5

\* s[i] is what a reader knows after i lines of f: it has counted the seals.
Reads(f, s, n) ==
  /\ s[0] = ScanInit
  /\ \A i \in 1..n : s[i] = Accept(s[i - 1], f[i])

LEMMA ReadsCount ==
  ASSUME NEW f, NEW s, NEW n \in Nat, Reads(f, s, n)
  PROVE  \A i \in 0..n : s[i].seals_seen = SealsThrough(f, i)
<1> DEFINE Bad == {i \in 0..n : s[i].seals_seen # SealsThrough(f, i)}
<1> SUFFICES ASSUME Bad # {} PROVE FALSE
  OBVIOUS
<1>1. PICK i \in Bad : \A j \in Bad : i <= j
  <2>1. Bad \subseteq Nat
    OBVIOUS
  <2> HIDE DEF Bad
  <2> QED
    BY <2>1, LeastNat
<1>2. i # 0
  <2>1. s[0].seals_seen = 0
    BY DEF Reads, ScanInit
  <2> QED
    BY <2>1, SealsThroughStep
<1>3. i - 1 \in Nat /\ i \in 1..n /\ i - 1 \in 0..n /\ i - 1 \notin Bad
  BY <1>1, <1>2
<1>4. s[i - 1].seals_seen = SealsThrough(f, i - 1) /\ s[i] = Accept(s[i - 1], f[i])
  BY <1>3 DEF Reads
<1>5. s[i].seals_seen = IF IsSeal(f[i]) THEN s[i - 1].seals_seen + 1 ELSE s[i - 1].seals_seen
  <2>1. AcceptedAs(s[i - 1], f[i], s[i])
    BY <1>4, AcceptFields, Zenon
  <2> QED
    BY <2>1 DEF AcceptedAs
<1>6. SealsThrough(f, (i - 1) + 1) = IF IsSeal(f[(i - 1) + 1]) THEN SealsThrough(f, i - 1) + 1
                                                               ELSE SealsThrough(f, i - 1)
  BY <1>3, SealsThroughStep
<1>7. (i - 1) + 1 = i
  BY <1>3
<1> QED
  BY <1>4, <1>5, <1>6, <1>7

\* It knows the hash and the number of the line it has read.
LEMMA ReadsLast ==
  ASSUME NEW f, NEW s, NEW n \in Nat, Reads(f, s, n), NEW i \in 1..n
  PROVE  /\ s[i - 1].last_hash = LastHash(f, i)
         /\ Counted(s[i - 1], f[i]).seals_seen = SealsThrough(f, i)
         /\ (i = 1 \/ s[i - 1].seq = f[i - 1].seq) /\ (i = 1 => s[i - 1].seq = 0)
<1>1. AcceptedAs(s[i - 1], f[i], s[i])
  BY AcceptFields, Zenon DEF Reads
<1>2. s[i].seals_seen = SealsThrough(f, i)
  BY ReadsCount
<1>3. CASE i = 1
  BY <1>1, <1>2, <1>3 DEF AcceptedAs, Reads, ScanInit, LastHash
<1>4. CASE i # 1
  <2>1. i - 1 \in 1..n
    BY <1>4
  <2>2. AcceptedAs(s[(i - 1) - 1], f[i - 1], s[i - 1])
    BY <2>1, AcceptFields, Zenon DEF Reads
  <2> QED
    BY <1>1, <1>2, <1>4, <2>2 DEF AcceptedAs, LastHash
<1> QED
  BY <1>3, <1>4

(***************************************************************************)
(* The scan of `open' as checks of single lines.                           *)
(***************************************************************************)

\* What both keyed readers ask of line i.
KeyedOK(f, i, ks) ==
  /\ HasKey(ks, f[i].epoch) /\ ChainLinked(f, i)
  /\ MacUnder(f, i, entry_key(ks, f[i].epoch, SealsThrough(f, i), f[i].v))

IsScan(f, s, n) == s = [i \in 0..n |-> IF i = 0 THEN ScanInit ELSE Accept(s[i - 1], f[i])]

\* The scan of any number of lines exists.
LEMMA ScanExists ==
  ASSUME NEW f, NEW n \in Nat
  PROVE  \E s : IsScan(f, s, n)
<1> DEFINE Bad == {m \in Nat : ~\E s : IsScan(f, s, m)}
<1> SUFFICES ASSUME Bad # {} PROVE FALSE
  OBVIOUS
<1>1. PICK m \in Bad : \A k \in Bad : m <= k
  <2>1. Bad \subseteq Nat
    OBVIOUS
  <2> HIDE DEF Bad
  <2> QED
    BY <2>1, LeastNat
<1>2. CASE m = 0
  <2>1. PICK s : s = [i \in 0..0 |-> ScanInit]
    OBVIOUS
  <2>2. [i \in 0..0 |-> IF i = 0 THEN ScanInit ELSE Accept(s[i - 1], f[i])]
          = [i \in 0..0 |-> ScanInit]
    <3>1. \A i \in 0..0 : i = 0
      OBVIOUS
    <3> QED
      BY <3>1
  <2>3. IsScan(f, s, 0)
    BY <2>1, <2>2 DEF IsScan
  <2> QED
    BY <1>2, <2>3
<1>3. CASE m # 0
  <2>1. m - 1 \in Nat /\ m - 1 \notin Bad
    BY <1>1, <1>3
  <2>2. PICK s : IsScan(f, s, m - 1)
    BY <2>1
  <2>3. PICK u : u = [i \in 0..m |-> IF i = m THEN Accept(s[m - 1], f[m]) ELSE s[i]]
    OBVIOUS
  <2>4. ASSUME NEW i \in 0..m
        PROVE  u[i] = IF i = 0 THEN ScanInit ELSE Accept(u[i - 1], f[i])
    <3>1. CASE i = 0
      BY <1>3, <2>1, <2>2, <2>3, <3>1 DEF IsScan
    <3>2. CASE i = m
      <4>1. u[i] = Accept(s[m - 1], f[m]) /\ u[m - 1] = s[m - 1]
        BY <2>1, <2>3, <3>2
      <4> QED
        BY <1>3, <3>2, <4>1
    <3>3. CASE i # 0 /\ i # m
      <4>1. i \in 0..(m - 1) /\ i - 1 \in 0..m /\ i - 1 # m
        BY <2>1, <3>3
      <4>2. u[i] = s[i] /\ u[i - 1] = s[i - 1]
        BY <2>3, <3>3, <4>1
      <4>3. s[i] = Accept(s[i - 1], f[i])
        BY <2>2, <3>3, <4>1 DEF IsScan
      <4> QED
        BY <3>3, <4>2, <4>3
    <3> QED
      BY <3>1, <3>2, <3>3
  <2>5. IsScan(f, u, m)
    <3>1. u = [i \in 0..m |-> u[i]]
      BY <2>3
    <3> QED
      BY <2>4, <3>1, Zenon DEF IsScan
  <2> QED
    BY <2>5
<1> QED
  BY <1>2, <1>3

LEMMA ScanReads ==
  ASSUME NEW f, NEW n \in Nat, NEW s, IsScan(f, s, n)
  PROVE  Reads(f, s, n)
<1>1. s[0] = ScanInit
  BY DEF IsScan
<1>2. ASSUME NEW i \in 1..n PROVE s[i] = Accept(s[i - 1], f[i])
  <2>1. i \in 0..n /\ i # 0
    OBVIOUS
  <2> QED
    BY <2>1 DEF IsScan
<1> QED
  BY <1>1, <1>2 DEF Reads

\* A reader that has accepted the lines so far has numbered them from 1.
LEMMA ReadsNumbers ==
  ASSUME NEW f, NEW s, NEW n \in Nat, Reads(f, s, n),
         \A i \in 1..n : f[i].seq = s[i - 1].seq + 1
  PROVE  \A i \in 1..n : f[i].seq = i
<1> DEFINE Bad == {i \in 1..n : f[i].seq # i}
<1> SUFFICES ASSUME Bad # {} PROVE FALSE
  OBVIOUS
<1>1. PICK i \in Bad : \A j \in Bad : i <= j
  <2>1. Bad \subseteq Nat
    OBVIOUS
  <2> HIDE DEF Bad
  <2> QED
    BY <2>1, LeastNat
<1>2. CASE i = 1
  BY <1>2, ReadsLast
<1>3. CASE i # 1
  <2>1. i \in 1..n /\ i - 1 \in 1..n /\ i - 1 \notin Bad
    BY <1>1, <1>3
  <2>2. f[i - 1].seq = i - 1 /\ s[i - 1].seq = f[i - 1].seq
    BY <1>3, <2>1, ReadsLast
  <2> QED
    BY <2>1, <2>2
<1> QED
  BY <1>2, <1>3

LEMMA OpenMeans ==
  ASSUME NEW f, Len(f) \in Nat, NEW t, NEW ks
  PROVE  OpenAccepts(f, t, ks)
           <=> t # "garbage" /\ \A i \in 1..Len(f) : KeyedOK(f, i, ks)
<1>1. PICK s : /\ IsScan(f, s, Len(f))
               /\ OpenAccepts(f, t, ks)
                    <=> /\ \A i \in 1..Len(f) : /\ HasKey(ks, f[i].epoch)
                                                /\ Linked(s[i - 1], f[i])
                                                /\ SupportedVersion(f[i].v)
                                                /\ Authentic(s[i - 1], f[i], ks)
                        /\ t # "garbage"
  <2>1. \E s : IsScan(f, s, Len(f))
    BY ScanExists
  <2> QED
    BY <2>1 DEF OpenAccepts, IsScan
<1>2. Reads(f, s, Len(f))
  BY <1>1, ScanReads
<1>3. ASSUME NEW i \in 1..Len(f)
      PROVE  /\ SupportedVersion(f[i].v) /\ Authentic(s[i - 1], f[i], ks)
                  <=> MacUnder(f, i, entry_key(ks, f[i].epoch, SealsThrough(f, i), f[i].v))
             /\ Linked(s[i - 1], f[i])
                  <=> f[i].prev_hash = LastHash(f, i) /\ f[i].seq = s[i - 1].seq + 1
  <2>1. /\ s[i - 1].last_hash = LastHash(f, i)
        /\ Counted(s[i - 1], f[i]).seals_seen = SealsThrough(f, i)
    BY <1>2, ReadsLast
  <2> QED
    BY <2>1 DEF Authentic, Linked, MacUnder
<1>4. ASSUME \A i \in 1..Len(f) : f[i].seq = i, NEW i \in 1..Len(f)
      PROVE  f[i].seq = s[i - 1].seq + 1
  <2>1. (i = 1 \/ s[i - 1].seq = f[i - 1].seq) /\ (i = 1 => s[i - 1].seq = 0)
    BY <1>2, ReadsLast
  <2>2. i # 1 => i - 1 \in 1..Len(f)
    OBVIOUS
  <2> QED
    BY <1>4, <2>1, <2>2
<1>5. (\A i \in 1..Len(f) : f[i].seq = s[i - 1].seq + 1) => \A i \in 1..Len(f) : f[i].seq = i
  BY <1>2, ReadsNumbers
<1> QED
  BY <1>1, <1>3, <1>4, <1>5 DEF KeyedOK, ChainLinked

(***************************************************************************)
(* What verify() asks, and what the last hash binds.                       *)
(***************************************************************************)
LEMMA VerifyMeans ==
  ASSUME NEW f, Len(f) \in Nat, NEW t, NEW ks
  PROVE  verify(f, t, ks) = "Ok"
           <=> /\ t # "garbage"
               /\ \A i \in 1..Len(f) : /\ KeyedOK(f, i, ks)
                                       /\ IsSeal(f[i]) => HonestReveal(f, i, ks)
<1>1. PICK bad : bad = {i \in 1..Len(f) : VerifyLine(f, i, ks) # "Ok"}
  OBVIOUS
<1>2. verify(f, t, ks) = IF bad # {} THEN VerifyLine(f, Min(bad), ks)
                         ELSE IF t = "garbage" THEN "InvalidLine" ELSE "Ok"
  BY <1>1 DEF verify
<1>3. ASSUME NEW i
      PROVE  VerifyLine(f, i, ks) = "Ok"
               <=> KeyedOK(f, i, ks) /\ (IsSeal(f[i]) => HonestReveal(f, i, ks))
  BY DEF VerifyLine, KeyedOK, MacUnder
<1>4. CASE bad = {}
  BY <1>1, <1>2, <1>3, <1>4
<1>5. CASE bad # {}
  <2>1. bad \subseteq Nat
    BY <1>1
  <2>2. Min(bad) \in bad
    BY <1>5, <2>1, MinFacts
  <2> QED
    BY <1>1, <1>2, <1>3, <1>5, <2>2
<1> QED
  BY <1>4, <1>5

\* The fields of a line, as they are parsed.
Parsed(e) ==
  /\ e = [v |-> e.v, seq |-> e.seq, etype |-> e.etype, body |-> e.body, epoch |-> e.epoch,
          prev_hash |-> e.prev_hash, hash |-> e.hash]
  /\ e.v \in Nat /\ e.epoch \in Nat

\* What a digest says of event_type and body: in v1 not where the one ends.
OneInput(v, t, b, u, c) ==
  \/ t = u /\ b = c
  \/ v = 1 /\ u = NoHash /\ c = Joined(t, b)
  \/ v = 1 /\ t = NoHash /\ b = Joined(u, c)

SameInput(v, p, m, t, b, k, w, q, n, u, c, l) ==
  p = q /\ m = n /\ k = l /\ (v = 1 <=> w = 1) /\ OneInput(v, t, b, u, c)

LEMMA HashInput ==
  ASSUME NEW v, NEW p, NEW m, NEW t, NEW b, NEW k,
         NEW w, NEW q, NEW n, NEW u, NEW c, NEW l,
         event_hash(v, p, m, t, b, k) = event_hash(w, q, n, u, c, l)
  PROVE  SameInput(v, p, m, t, b, k, w, q, n, u, c, l)
<1>1. p = q /\ m = n /\ k = l /\ (v = 1 <=> w = 1)
  BY DEF event_hash
<1>2. CASE v # 1
  BY <1>1, <1>2 DEF event_hash, SameInput, OneInput
<1>3. CASE v = 1
  <2>1. Joined(t, b) = Joined(u, c)
    BY <1>1, <1>3 DEF event_hash
  <2>2. CASE u = NoHash
    <3>1. Joined(u, c) = c
      BY <2>2, Zenon DEF Joined
    <3> QED
      BY <1>1, <1>3, <2>1, <2>2, <3>1, Zenon DEF SameInput, OneInput
  <2>3. CASE t = NoHash
    <3>1. Joined(t, b) = b
      BY <2>3, Zenon DEF Joined
    <3> QED
      BY <1>1, <1>3, <2>1, <2>3, <3>1, Zenon DEF SameInput, OneInput
  <2>4. CASE t # NoHash /\ u # NoHash
    <3>1. PICK x, y : x = <<t, b>> /\ y = <<u, c>>
      OBVIOUS
    <3>2. Joined(t, b) = [joined |-> x] /\ Joined(u, c) = [joined |-> y]
      BY <2>4, <3>1, Zenon DEF Joined
    <3>3. x = y
      <4>1. [joined |-> x].joined = x /\ [joined |-> y].joined = y
        OBVIOUS
      <4> QED
        BY <2>1, <3>2, <4>1, Zenon
    <3>4. t = u /\ b = c
      BY <3>1, <3>3
    <3> QED
      BY <1>1, <3>4, Zenon DEF SameInput, OneInput
  <2> QED
    BY <2>2, <2>3, <2>4
<1> QED
  BY <1>2, <1>3

\* One line, or one v1 line with its event_type and body split elsewhere.
SameLine(x, y) == x = y \/ SameText(x, y) \/ SameText(y, x)

LEMMA ResplitIs ==
  ASSUME NEW x, NEW y, Parsed(x), Parsed(y), y.v = x.v, y.seq = x.seq, y.epoch = x.epoch,
         y.prev_hash = x.prev_hash, y.hash = x.hash,
         y.etype = NoHash, y.body = Joined(x.etype, x.body)
  PROVE  y = Resplit(x)
<1>1. PICK text : text = Joined(x.etype, x.body)
  OBVIOUS
<1>2. y = [x EXCEPT !.etype = NoHash, !.body = text]
  BY <1>1 DEF Parsed
<1> QED
  BY <1>1, <1>2 DEF Resplit

\* Two lines that readers with the same ring accept and that have one hash
\* are the same line behind the same line: the hash names its key, and the
\* key its epoch and, with the construction, its format.
LEMMA LineBound ==
  ASSUME NEW ks, Distinct(ks), Len(ks) \in Nat, DOMAIN ks = 1..Len(ks),
         NEW i \in Nat, NEW f, NEW g, Parsed(f[i]), Parsed(g[i]),
         KeyedOK(f, i, ks), KeyedOK(g, i, ks), f[i].hash = g[i].hash
  PROVE  SameLine(f[i], g[i]) /\ LastHash(f, i) = LastHash(g, i)
<1>1. PICK a, b : a = f[i] /\ b = g[i]
  OBVIOUS
<1>2. PICK m, n : m = SealsThrough(f, i) /\ n = SealsThrough(g, i)
  OBVIOUS
<1>3. m \in Nat /\ n \in Nat
  BY <1>2, SealsThroughStep
<1>4. PICK x, y : x = entry_key(ks, a.epoch, m, a.v) /\ y = entry_key(ks, b.epoch, n, b.v)
  OBVIOUS
<1>5. /\ a.hash = event_hash(a.v, LastHash(f, i), a.seq, a.etype, a.body, x)
      /\ b.hash = event_hash(b.v, LastHash(g, i), b.seq, b.etype, b.body, y)
      /\ a.epoch < Len(ks) /\ b.epoch < Len(ks) /\ a.hash = b.hash
      /\ a.prev_hash = LastHash(f, i) /\ b.prev_hash = LastHash(g, i)
      /\ a.v \in 1..3 /\ b.v \in 1..3
  BY <1>1, <1>2, <1>4 DEF KeyedOK, MacUnder, ChainLinked, HasKey, SupportedVersion
<1>6. /\ LastHash(f, i) = LastHash(g, i) /\ a.seq = b.seq /\ x = y /\ (a.v = 1 <=> b.v = 1)
      /\ OneInput(a.v, a.etype, a.body, b.etype, b.body)
  <2>1. event_hash(a.v, LastHash(f, i), a.seq, a.etype, a.body, x)
          = event_hash(b.v, LastHash(g, i), b.seq, b.etype, b.body, y)
    BY <1>5
  <2>2. SameInput(a.v, LastHash(f, i), a.seq, a.etype, a.body, x,
                  b.v, LastHash(g, i), b.seq, b.etype, b.body, y)
    BY <2>1, HashInput, ZenonT(60)
  <2> QED
    BY <2>2 DEF SameInput
<1>7. /\ x.seed = ks[a.epoch + 1] /\ y.seed = ks[b.epoch + 1]
      /\ x.seg = (IF a.v < 3 THEN -1 ELSE m) /\ y.seg = (IF b.v < 3 THEN -1 ELSE n)
  BY <1>4 DEF entry_key, segment_key, BaseKey, BASE
<1>8. a.v = b.v
  BY <1>3, <1>5, <1>6, <1>7
<1>9. a.epoch = b.epoch
  <2>1. a.epoch \in Nat /\ b.epoch \in Nat
    BY <1>1 DEF Parsed
  <2>2. a.epoch + 1 \in DOMAIN ks /\ b.epoch + 1 \in DOMAIN ks
    BY <1>5, <2>1
  <2>3. a.epoch + 1 = b.epoch + 1
    BY <1>6, <1>7, <2>2 DEF Distinct
  <2> QED
    BY <2>1, <2>3
<1>10. Parsed(a) /\ Parsed(b) /\ a.prev_hash = b.prev_hash /\ a.hash = b.hash
  BY <1>1, <1>5, <1>6
<1>11. CASE a.etype = b.etype /\ a.body = b.body
  <2>1. a = b
    BY <1>6, <1>8, <1>9, <1>10, <1>11 DEF Parsed
  <2> QED
    BY <1>1, <1>6, <2>1 DEF SameLine
<1>12. CASE a.v = 1 /\ b.etype = NoHash /\ b.body = Joined(a.etype, a.body)
  <2>1. b = Resplit(a)
    BY <1>6, <1>8, <1>9, <1>10, <1>12, ResplitIs, Zenon
  <2> QED
    BY <1>1, <1>6, <1>12, <2>1 DEF SameLine, SameText
<1>13. CASE a.v = 1 /\ a.etype = NoHash /\ a.body = Joined(b.etype, b.body)
  <2>1. a = Resplit(b)
    BY <1>6, <1>8, <1>9, <1>10, <1>13, ResplitIs, Zenon
  <2> QED
    BY <1>1, <1>6, <1>8, <1>13, <2>1 DEF SameLine, SameText
<1> QED
  BY <1>6, <1>11, <1>12, <1>13 DEF OneInput

\* A keyring that `open' gets from its caller.
LEMMA RingShape ==
  ASSUME NEW ks \in Rings
  PROVE  Distinct(ks) /\ Len(ks) \in Nat /\ DOMAIN ks = 1..Len(ks)
BY RingAssumption DEF Distinct

ParsedFile(f) == IsSequence(f) /\ \A i \in 1..Len(f) : Parsed(f[i])

\* Tamper evidence, whatever was changed and in how many places: two files
\* that the scan of `open' accepts, or verify(), under one keyring and that end
\* with the same hash are the same file, line by line, but for v1 lines whose
\* text is split elsewhere between event_type and body; without v1 lines they
\* are the same.  Whoever keeps the last hash of a ledger, as a checkpoint does,
\* will not be shown another one.
THEOREM TipBindsLedger ==
  ASSUME NEW ks \in Rings, NEW f, NEW g, ParsedFile(f), ParsedFile(g),
         Len(f) > 0, Len(g) > 0, f[Len(f)].hash = g[Len(g)].hash,
         NEW t, NEW u, OpenAccepts(f, t, ks), OpenAccepts(g, u, ks)
  PROVE  /\ Len(f) = Len(g) /\ \A i \in 1..Len(f) : SameLine(f[i], g[i])
         /\ (\A i \in 1..Len(f) : f[i].v # 1) => f = g
<1>0. Len(f) \in Nat /\ Len(g) \in Nat
  BY LenNat DEF ParsedFile
<1>1. /\ \A i \in 1..Len(f) : KeyedOK(f, i, ks)
      /\ \A i \in 1..Len(g) : KeyedOK(g, i, ks)
  BY <1>0, OpenMeans
<1>2. PICK n : n = Len(f)
  OBVIOUS
<1>3. n = Len(g) /\ n \in Nat /\ n \in 1..n
  <2>1. n \in 1..Len(f) /\ Len(g) \in 1..Len(g)
    BY <1>0, <1>2
  <2>2. KeyedOK(f, n, ks) /\ KeyedOK(g, Len(g), ks)
    BY <1>1, <2>1
  <2>3. f[n].hash.seq = n /\ g[Len(g)].hash.seq = Len(g)
    BY <2>2 DEF KeyedOK, ChainLinked, MacUnder, event_hash
  <2> QED
    BY <1>0, <1>2, <2>1, <2>3
<1>4. ASSUME NEW i \in 1..n, f[i].hash = g[i].hash
      PROVE  SameLine(f[i], g[i]) /\ LastHash(f, i) = LastHash(g, i)
  <2>1. Parsed(f[i]) /\ Parsed(g[i]) /\ KeyedOK(f, i, ks) /\ KeyedOK(g, i, ks)
    BY <1>1, <1>2, <1>3, <1>4 DEF ParsedFile
  <2>2. i \in Nat
    BY <1>3
  <2> QED
    BY <1>4, <2>1, <2>2, RingShape, LineBound
<1>5. \A i \in 1..n : f[i].hash = g[i].hash
  <2> DEFINE Bad == {k \in 0..(n - 1) : f[n - k].hash # g[n - k].hash}
  <2>1. ASSUME Bad # {} PROVE FALSE
    <3>1. PICK k \in Bad : \A j \in Bad : k <= j
      <4>1. Bad \subseteq Nat
        BY <1>3
      <4> HIDE DEF Bad
      <4> QED
        BY <2>1, <4>1, LeastNat
    <3>2. k # 0
      BY <1>2, <1>3
    <3>3. k - 1 \in 0..(n - 1) /\ k - 1 \notin Bad
      <4>1. k \in 0..(n - 1) /\ k \in Nat /\ ~(k <= k - 1)
        BY <1>3, <3>1
      <4>2. k - 1 \notin Bad
        BY <3>1, <4>1, Zenon
      <4> QED
        BY <1>3, <3>2, <4>1, <4>2
    <3>4. PICK i : i = n - (k - 1)
      OBVIOUS
    <3>5. i \in 1..n /\ i # 1 /\ i - 1 = n - k /\ f[i].hash = g[i].hash
      <4>1. k \in 0..(n - 1) /\ k \in Nat
        BY <1>3, <3>1
      <4>2. f[n - (k - 1)].hash = g[n - (k - 1)].hash
        BY <3>3
      <4> QED
        BY <1>3, <3>2, <3>3, <3>4, <4>1, <4>2
    <3>6. LastHash(f, i) = LastHash(g, i)
      BY <1>4, <3>5
    <3> QED
      BY <3>1, <3>5, <3>6 DEF LastHash
  <2>2. ASSUME NEW i \in 1..n PROVE f[i].hash = g[i].hash
    <3>1. n - i \in 0..(n - 1) /\ n - (n - i) = i
      BY <1>3
    <3>2. n - i \notin Bad
      BY <2>1
    <3> QED
      BY <3>1, <3>2
  <2> QED
    BY <2>2
<1>6. \A i \in 1..n : SameLine(f[i], g[i])
  BY <1>4, <1>5
<1>7. ASSUME \A i \in 1..n : f[i].v # 1 PROVE f = g
  <2>1. ASSUME NEW i \in 1..n PROVE f[i] = g[i]
    <3>1. SameLine(f[i], g[i]) /\ f[i].v # 1 /\ Parsed(g[i])
      BY <1>2, <1>3, <1>6, <1>7 DEF ParsedFile
    <3>2. SameText(g[i], f[i]) => f[i].v = 1
      BY <3>1 DEF SameText, Resplit, Parsed
    <3> QED
      BY <3>1, <3>2 DEF SameLine, SameText
  <2>2. PICK S : S = {f[i] : i \in 1..n}
    OBVIOUS
  <2>3. f \in Seq(S)
    BY <1>2, <2>2 DEF ParsedFile, IsSequence
  <2>4. {g[i] : i \in 1..n} = S
    BY <2>1, <2>2
  <2>5. g \in Seq(S)
    BY <1>3, <2>4 DEF ParsedFile, IsSequence
  <2> QED
    BY <1>2, <1>3, <2>1, <2>3, <2>5, SeqEqual
<1> QED
  BY <1>2, <1>3, <1>6, <1>7

(***************************************************************************)
(* What the seals of a ledger say of its lines.                            *)
(***************************************************************************)

\* The segment that is open when s is known of n lines.
Segment(s, n) == (s.sealed_through + 1)..n

\* r is the body of a seal that closes it.
SealBody(f, s, n, r) ==
  /\ r = [segment |-> r.segment, start_seq |-> r.start_seq, end_seq |-> r.end_seq,
          tip_hash |-> r.tip_hash, merkle_root |-> r.merkle_root, revealed |-> r.revealed,
          prev_seal |-> r.prev_seal, scheme |-> r.scheme, public_key |-> r.public_key,
          signature |-> r.signature, payload |-> r.payload]
  /\ r.segment = s.seals_seen /\ r.start_seq = s.sealed_through + 1 /\ r.end_seq = n
  /\ s.sealed_through < n /\ r.tip_hash = f[n].hash
  /\ r.merkle_root = mth([k \in 1..(n - s.sealed_through) |-> f[s.sealed_through + k].hash])
  /\ \A ep : ep \in DOMAIN r.revealed <=> \E j \in Segment(s, n) : ep = f[j].epoch
  /\ \A j \in Segment(s, n) : r.revealed[f[j].epoch] = f[j].hash.key
  /\ r.prev_seal = IF s.seals_seen = 0 THEN NoHash ELSE f[s.sealed_through + 1].hash
  /\ \E signer \in Signers : r.scheme = signer.scheme /\ r.public_key = signer.public_key
  /\ r.payload = seal_payload(r)
  /\ r.signature = [scheme |-> r.scheme, by |-> r.public_key, over |-> seal_payload(r)]

\* The open segment starts with the last seal, or with line 1, and its lines
\* are all under keys of one kind.
SegmentOK(f, t, n) ==
  LET s == t[n + 1] IN
  /\ s.seals_seen = 0 => \A a \in 1..n : ~IsSeal(f[a])
  /\ s.seals_seen > 0 => /\ s.sealed_through + 1 \in 1..n /\ IsSeal(f[s.sealed_through + 1])
                         /\ \A a \in (s.sealed_through + 2)..n : ~IsSeal(f[a])
  /\ \A a \in Segment(s, n) :
       f[a].hash.key.seg = IF s.seals_seen = 0 /\ s.legacy_segment0 THEN BASE ELSE s.seals_seen

\* An entry has the fields of Event, and a body that a call of the library
\* gives it; its seed serves its epoch only.
ShapeOK(e) ==
  /\ Parsed(e) /\ e.hash.key.seed \in Seeds
  /\ ~IsSeal(e) => e.body \in Payloads \/ \E m \in Nat : e.body = [epoch |-> m]

SealedOK(f, t) ==
  /\ \A n \in 0..Len(f) : SegmentOK(f, t, n)
  /\ \A i \in 1..Len(f) : ShapeOK(f[i]) /\ (IsSeal(f[i]) => SealBody(f, t[i], i - 1, f[i].body))
  /\ \A i, j \in 1..Len(f) : f[i].hash.key.seed = f[j].hash.key.seed => f[i].epoch = f[j].epoch
  /\ Len(f) > 0 /\ f[1].v < 3 => f[1].epoch = 0

\* What a seal says depends on the lines before it only.
LEMMA SealBodySame ==
  ASSUME NEW f, NEW g, NEW s, NEW n \in Nat, NEW r, s.sealed_through \in Nat,
         \A j \in 1..n : g[j] = f[j], SealBody(f, s, n, r)
  PROVE  SealBody(g, s, n, r)
<1>1. PICK st : st = s.sealed_through
  OBVIOUS
<1>2. st \in Nat /\ st < n
  BY <1>1 DEF SealBody
<1>3. g[n] = f[n] /\ g[st + 1] = f[st + 1]
  BY <1>2
<1>4. [k \in 1..(n - st) |-> g[st + k].hash] = [k \in 1..(n - st) |-> f[st + k].hash]
  <2>1. ASSUME NEW k \in 1..(n - st) PROVE g[st + k] = f[st + k]
    <3>1. st + k \in 1..n
      BY <1>2
    <3> QED
      BY <3>1
  <2> QED
    BY <2>1
<1>5. \A j \in Segment(s, n) : g[j] = f[j]
  BY <1>1, <1>2 DEF Segment
<1>6. /\ \A ep : ep \in DOMAIN r.revealed <=> \E j \in Segment(s, n) : ep = g[j].epoch
      /\ \A j \in Segment(s, n) : r.revealed[g[j].epoch] = g[j].hash.key
  <2>1. /\ \A ep : ep \in DOMAIN r.revealed <=> \E j \in Segment(s, n) : ep = f[j].epoch
        /\ \A j \in Segment(s, n) : r.revealed[f[j].epoch] = f[j].hash.key
    BY Zenon DEF SealBody
  <2> QED
    BY <1>5, <2>1
<1> QED
  BY <1>1, <1>3, <1>4, <1>6 DEF SealBody

LEMMA SegmentSame ==
  ASSUME NEW f, NEW t, NEW g, NEW u, NEW n \in Nat, SegmentOK(f, t, n),
         t[n + 1].sealed_through \in Nat,
         u[n + 1] = t[n + 1], \A j \in 1..n : g[j] = f[j]
  PROVE  SegmentOK(g, u, n)
<1>1. PICK s : s = t[n + 1]
  OBVIOUS
<1>2. PICK st : st = s.sealed_through
  OBVIOUS
<1>3. st \in Nat
  BY <1>1, <1>2
<1>4. /\ \A a \in Segment(s, n) : g[a] = f[a]
      /\ \A a \in (st + 2)..n : g[a] = f[a]
  BY <1>2, <1>3 DEF Segment
<1>5. s.seals_seen > 0 => st + 1 \in 1..n /\ IsSeal(f[st + 1])
                          /\ \A a \in (st + 2)..n : ~IsSeal(f[a])
  BY <1>1, <1>2 DEF SegmentOK
<1>6. s.seals_seen > 0 => st + 1 \in 1..n /\ IsSeal(g[st + 1])
                          /\ \A a \in (st + 2)..n : ~IsSeal(g[a])
  BY <1>4, <1>5
<1>7. s.seals_seen = 0 => \A a \in 1..n : ~IsSeal(g[a])
  BY <1>1 DEF SegmentOK
<1>8. \A a \in Segment(s, n) :
        g[a].hash.key.seg = IF s.seals_seen = 0 /\ s.legacy_segment0 THEN BASE ELSE s.seals_seen
  BY <1>1, <1>4 DEF SegmentOK
<1> QED
  BY <1>1, <1>2, <1>6, <1>7, <1>8 DEF SegmentOK

\* The format an entry behind n lines must have: a legacy segment 0 stays
\* one, and no other segment becomes one.
FormatFits(s, n, e) ==
  /\ s.seals_seen > 0 \/ IsSeal(e) => e.v = 3
  /\ s.seals_seen = 0 /\ n > 0 /\ ~IsSeal(e) => (e.v < 3 <=> s.legacy_segment0)

LEMMA NextSegment ==
  ASSUME NEW f, NEW t, NEW n \in Nat, SegmentOK(f, t, n), PointOK(f, t, n),
         ScanOK(t[n + 1]), n = 0 => t[n + 1] = ScanInit,
         NEW e, Fits(t[n + 1], n, e), FormatFits(t[n + 1], n, e),
         NEW g, NEW u, \A j \in 1..n : g[j] = f[j], g[n + 1] = e,
         u[n + 2] = Accept(t[n + 1], e)
  PROVE  SegmentOK(g, u, n + 1)
<1>1. PICK s, r : s = t[n + 1] /\ r = Accept(s, e)
  OBVIOUS
<1>2. AcceptedAs(s, e, r)
  BY <1>1, AcceptFields, Zenon
<1>3. /\ r.seals_seen = (IF IsSeal(e) THEN s.seals_seen + 1 ELSE s.seals_seen)
      /\ r.seals_seen = Counted(s, e).seals_seen
      /\ r.sealed_through = IF IsSeal(e) THEN Larger(s.sealed_through, e.body.end_seq)
                                         ELSE s.sealed_through
      /\ r.legacy_segment0 = (s.legacy_segment0 \/ (s.seals_seen = 0 /\ e.v < 3))
  BY <1>2 DEF AcceptedAs
<1>4. /\ s.seals_seen \in Nat /\ s.sealed_through \in Nat /\ s.legacy_segment0 \in BOOLEAN
      /\ r.seals_seen \in Nat
  BY <1>1, <1>3 DEF ScanOK, ViewOK
<1>5. /\ s.seals_seen = 0 => s.sealed_through = 0 /\ \A a \in 1..n : ~IsSeal(f[a])
      /\ s.seals_seen > 0 => s.sealed_through + 1 \in 1..n /\ IsSeal(f[s.sealed_through + 1])
                             /\ \A a \in (s.sealed_through + 2)..n : ~IsSeal(f[a])
      /\ \A a \in (s.sealed_through + 1)..n :
           f[a].hash.key.seg = IF s.seals_seen = 0 /\ s.legacy_segment0 THEN BASE ELSE s.seals_seen
  BY <1>1 DEF SegmentOK, PointOK, Segment
<1>6. /\ e.hash.key.seg = IF e.v < 3 THEN BASE ELSE r.seals_seen
      /\ IsSeal(e) => e.v = 3 /\ e.body.end_seq = n /\ n > 0
      /\ e.v \in 1..3
  BY <1>1, <1>3 DEF Fits, EntryOK
<1>7. CASE IsSeal(e)
  <2>1. r.sealed_through = n /\ r.seals_seen = s.seals_seen + 1 /\ e.v = 3
    BY <1>3, <1>4, <1>5, <1>6, <1>7 DEF Larger
  <2>2. r.seals_seen > 0 /\ e.hash.key.seg = r.seals_seen /\ r.seals_seen # 0
    BY <1>4, <1>6, <2>1
  <2>3. \A a \in Segment(r, n + 1) : a = n + 1
    BY <2>1 DEF Segment
  <2>4. \A a \in (r.sealed_through + 2)..(n + 1) : FALSE
    BY <2>1
  <2>5. r.sealed_through + 1 \in 1..(n + 1) /\ IsSeal(g[r.sealed_through + 1])
    BY <1>7, <2>1
  <2>6. u[(n + 1) + 1] = r
    BY <1>1
  <2> QED
    BY <2>2, <2>3, <2>4, <2>5, <2>6 DEF SegmentOK
<1>8. CASE ~IsSeal(e)
  <2>1. r.sealed_through = s.sealed_through /\ r.seals_seen = s.seals_seen
    BY <1>3, <1>8
  <2>2. s.seals_seen = 0 => \A a \in 1..(n + 1) : ~IsSeal(g[a])
    <3> SUFFICES ASSUME s.seals_seen = 0, NEW a \in 1..(n + 1) PROVE ~IsSeal(g[a])
      OBVIOUS
    <3>1. a \in 1..n \/ a = n + 1
      OBVIOUS
    <3> QED
      BY <1>5, <1>8, <3>1
  <2>3. s.seals_seen > 0 => /\ s.sealed_through + 1 \in 1..(n + 1)
                            /\ IsSeal(g[s.sealed_through + 1])
                            /\ \A a \in (s.sealed_through + 2)..(n + 1) : ~IsSeal(g[a])
    <3>1. ASSUME s.seals_seen > 0, NEW a \in (s.sealed_through + 2)..(n + 1)
          PROVE  ~IsSeal(g[a])
      <4>1. a = n + 1 \/ (a \in (s.sealed_through + 2)..n /\ a \in 1..n)
        BY <1>4, <3>1
      <4> QED
        BY <1>5, <1>8, <3>1, <4>1
    <3> QED
      BY <1>4, <1>5, <3>1
  <2>4. ASSUME NEW a \in Segment(r, n + 1)
        PROVE  g[a].hash.key.seg
                 = IF r.seals_seen = 0 /\ r.legacy_segment0 THEN BASE ELSE r.seals_seen
    <3>1. a = n + 1 \/ (a \in (s.sealed_through + 1)..n /\ a \in 1..n)
      BY <1>4, <2>1 DEF Segment
    <3>2. CASE a = n + 1
      <4>1. g[a] = e
        BY <3>2
      <4>2. CASE s.seals_seen > 0
        BY <1>1, <1>4, <1>6, <2>1, <4>1, <4>2 DEF FormatFits
      <4>3. CASE s.seals_seen = 0 /\ n > 0
        BY <1>1, <1>3, <1>4, <1>6, <1>8, <2>1, <4>1, <4>3 DEF FormatFits
      <4>4. CASE s.seals_seen = 0 /\ n = 0
        <5>1. s.legacy_segment0 = FALSE
          BY <1>1, <4>4 DEF ScanInit
        <5> QED
          BY <1>3, <1>4, <1>6, <2>1, <4>1, <4>4, <5>1
      <4> QED
        BY <1>4, <4>2, <4>3, <4>4
    <3>3. CASE a \in (s.sealed_through + 1)..n /\ a \in 1..n
      <4>1. n > 0 /\ g[a] = f[a]
        BY <3>3
      <4>2. s.seals_seen = 0 => r.legacy_segment0 = s.legacy_segment0
        BY <1>1, <1>3, <1>4, <1>8, <4>1 DEF FormatFits
      <4> QED
        BY <1>5, <2>1, <3>3, <4>1, <4>2
    <3> QED
      BY <3>1, <3>2, <3>3
  <2>5. u[(n + 1) + 1] = r
    BY <1>1
  <2> QED
    BY <2>1, <2>2, <2>3, <2>4, <2>5 DEF SegmentOK
<1> QED
  BY <1>7, <1>8

\* An entry behind the file.
LEMMA SealedAppend ==
  ASSUME TypeOK, HistoryOK(file, trail), SealedOK(file, trail),
         NEW e, Fits(Tip, Len(file), e), FormatFits(Tip, Len(file), e), ShapeOK(e),
         IsSeal(e) => SealBody(file, Tip, Len(file), e.body),
         \A m \in 1..Len(file) : file[m].hash.key.seed = e.hash.key.seed => file[m].epoch = e.epoch,
         Len(file) = 0 /\ e.v < 3 => e.epoch = 0,
         NEW g, g = Append(file, e), NEW u, u = Append(trail, Accept(Tip, e))
  PROVE  SealedOK(g, u)
<1>1. PICK n : n = Len(file)
  OBVIOUS
<1>2. /\ n \in Nat /\ Len(trail) = n + 1 /\ IsSequence(file) /\ IsSequence(trail)
      /\ Tip = trail[n + 1] /\ ScanOK(Tip) /\ PointOK(file, trail, n) /\ trail[1] = ScanInit
  BY <1>1, TipFacts DEF TypeOK, HistoryOK
<1>3. /\ Len(g) = n + 1 /\ g[n + 1] = e /\ \A i \in 1..n : g[i] = file[i]
  BY <1>1, <1>2, AppendFacts
<1>4. /\ u[n + 2] = Accept(Tip, e) /\ \A i \in 1..(n + 1) : u[i] = trail[i]
  <2>1. u[Len(trail) + 1] = Accept(Tip, e) /\ \A i \in 1..Len(trail) : u[i] = trail[i]
    BY <1>2, AppendFacts
  <2> QED
    BY <1>2, <2>1
<1>5. \A i \in 1..(n + 1) : trail[i].sealed_through \in Nat
  BY <1>2 DEF TypeOK, ScanOK, ViewOK
<1>6. ASSUME NEW k \in 0..(n + 1) PROVE SegmentOK(g, u, k)
  <2>1. CASE k \in 0..n
    <3>1. /\ SegmentOK(file, trail, k) /\ u[k + 1] = trail[k + 1]
          /\ trail[k + 1].sealed_through \in Nat /\ \A j \in 1..k : g[j] = file[j]
      BY <1>1, <1>2, <1>3, <1>4, <1>5, <2>1 DEF SealedOK
    <3>2. k \in Nat
      BY <1>2, <2>1
    <3> QED
      BY <3>1, <3>2, SegmentSame, Zenon
  <2>2. CASE k = n + 1
    <3>1. SegmentOK(file, trail, n)
      BY <1>1, <1>2 DEF SealedOK
    <3>2. n = 0 => trail[n + 1] = ScanInit
      BY <1>2
    <3>3. /\ ScanOK(trail[n + 1]) /\ Fits(trail[n + 1], n, e) /\ FormatFits(trail[n + 1], n, e)
          /\ u[n + 2] = Accept(trail[n + 1], e)
      BY <1>1, <1>2, <1>4
    <3>4. n \in Nat /\ PointOK(file, trail, n) /\ g[n + 1] = e /\ \A j \in 1..n : g[j] = file[j]
      BY <1>2, <1>3
    <3>5. SegmentOK(g, u, n + 1)
      BY <3>1, <3>2, <3>3, <3>4, NextSegment, ZenonT(60)
    <3> QED
      BY <2>2, <3>5
  <2> QED
    BY <1>2, <2>1, <2>2
<1>7. ASSUME NEW i \in 1..(n + 1)
      PROVE  ShapeOK(g[i]) /\ (IsSeal(g[i]) => SealBody(g, u[i], i - 1, g[i].body))
  <2>1. PICK k : k = i - 1
    OBVIOUS
  <2>2. /\ k \in Nat /\ u[i] = trail[i] /\ trail[i].sealed_through \in Nat
        /\ \A j \in 1..k : g[j] = file[j]
    BY <1>2, <1>3, <1>4, <1>5, <2>1
  <2>3. ShapeOK(g[i]) /\ (IsSeal(g[i]) => SealBody(file, trail[i], k, g[i].body))
    <3>1. CASE i \in 1..n
      BY <1>1, <1>3, <2>1, <3>1 DEF SealedOK
    <3>2. CASE i = n + 1
      <4>1. g[i] = e /\ k = n /\ trail[i] = Tip
        BY <1>2, <1>3, <2>1, <3>2
      <4> QED
        BY <1>1, <4>1
    <3>3. i \in 1..n \/ i = n + 1
      BY <1>2
    <3> QED
      BY <3>1, <3>2, <3>3, Zenon
  <2>4. ASSUME IsSeal(g[i]) PROVE SealBody(g, trail[i], k, g[i].body)
    BY <2>2, <2>3, <2>4, SealBodySame
  <2> QED
    BY <2>1, <2>2, <2>3, <2>4
<1>8. ASSUME NEW i \in 1..(n + 1), NEW j \in 1..(n + 1),
             g[i].hash.key.seed = g[j].hash.key.seed
      PROVE  g[i].epoch = g[j].epoch
  <2>1. (i \in 1..n /\ g[i] = file[i]) \/ (i = n + 1 /\ g[i] = e)
    BY <1>2, <1>3
  <2>2. (j \in 1..n /\ g[j] = file[j]) \/ (j = n + 1 /\ g[j] = e)
    BY <1>2, <1>3
  <2> QED
    BY <1>1, <1>8, <2>1, <2>2 DEF SealedOK
<1>9. n + 1 > 0 /\ g[1].v < 3 => g[1].epoch = 0
  <2>1. CASE n = 0
    BY <1>1, <1>3, <2>1
  <2>2. CASE n > 0
    BY <1>1, <1>2, <1>3, <2>2 DEF SealedOK
  <2> QED
    BY <1>2, <2>1, <2>2
<1>10. \A k \in 0..Len(g) : SegmentOK(g, u, k)
  BY <1>3, <1>6
<1>11. \A i \in 1..Len(g) : ShapeOK(g[i]) /\ (IsSeal(g[i]) => SealBody(g, u[i], i - 1, g[i].body))
  BY <1>3, <1>7
<1>12. \A i, j \in 1..Len(g) : g[i].hash.key.seed = g[j].hash.key.seed => g[i].epoch = g[j].epoch
  BY <1>3, <1>8
<1>13. Len(g) > 0 /\ g[1].v < 3 => g[1].epoch = 0
  BY <1>3, <1>9
<1> QED
  BY <1>10, <1>11, <1>12, <1>13, Zenon DEF SealedOK

\* The file cut to its first k lines.
LEMMA SealedCut ==
  ASSUME TypeOK, SealedOK(file, trail), NEW k \in 0..Len(file),
         NEW g, g = SubSeq(file, 1, k), NEW u, u = SubSeq(trail, 1, k + 1)
  PROVE  SealedOK(g, u)
<1>1. /\ Len(file) \in Nat /\ Len(trail) = Len(file) + 1 /\ k \in Nat
      /\ IsSequence(file) /\ IsSequence(trail) /\ k + 1 \in 0..Len(trail)
  BY LenNat DEF TypeOK
<1>2. Len(g) = k /\ \A i \in 1..k : g[i] = file[i]
  BY <1>1, SubSeqFacts
<1>3. \A i \in 1..(k + 1) : u[i] = trail[i]
  BY <1>1, SubSeqFacts
<1>4. \A i \in 1..(k + 1) : trail[i].sealed_through \in Nat
  BY <1>1 DEF TypeOK, ScanOK, ViewOK
<1>5. ASSUME NEW n \in 0..k PROVE SegmentOK(g, u, n)
  <2>1. n \in Nat /\ n \in 0..Len(file) /\ n + 1 \in 1..(k + 1)
    BY <1>1
  <2>2. SegmentOK(file, trail, n)
    BY <2>1 DEF SealedOK
  <2>3. u[n + 1] = trail[n + 1] /\ trail[n + 1].sealed_through \in Nat
    BY <1>3, <1>4, <2>1
  <2>4. \A j \in 1..n : g[j] = file[j]
    BY <1>1, <1>2
  <2> QED
    BY <2>1, <2>2, <2>3, <2>4, SegmentSame, ZenonT(30)
<1>6. ASSUME NEW i \in 1..k
      PROVE  ShapeOK(g[i]) /\ (IsSeal(g[i]) => SealBody(g, u[i], i - 1, g[i].body))
  <2>1. PICK m : m = i - 1
    OBVIOUS
  <2>2. /\ m \in Nat /\ u[i] = trail[i] /\ trail[i].sealed_through \in Nat
        /\ g[i] = file[i] /\ \A j \in 1..m : g[j] = file[j]
    BY <1>1, <1>2, <1>3, <1>4, <2>1
  <2>3. ShapeOK(file[i]) /\ (IsSeal(file[i]) => SealBody(file, trail[i], m, file[i].body))
    BY <1>1, <2>1 DEF SealedOK
  <2>4. ASSUME IsSeal(file[i]) PROVE SealBody(g, trail[i], m, file[i].body)
    BY <2>2, <2>3, <2>4, SealBodySame
  <2> QED
    BY <2>1, <2>2, <2>3, <2>4
<1>7. \A i \in 1..k : i \in 1..Len(file) /\ g[i] = file[i]
  BY <1>1, <1>2
<1>8. ASSUME NEW i \in 1..k, NEW j \in 1..k, g[i].hash.key.seed = g[j].hash.key.seed
      PROVE  g[i].epoch = g[j].epoch
  <2>1. i \in 1..Len(file) /\ j \in 1..Len(file) /\ g[i] = file[i] /\ g[j] = file[j]
    BY <1>7
  <2>2. file[i].hash.key.seed = file[j].hash.key.seed => file[i].epoch = file[j].epoch
    BY <2>1, Zenon DEF SealedOK
  <2> QED
    BY <1>8, <2>1, <2>2
<1>9. k > 0 /\ g[1].v < 3 => g[1].epoch = 0
  <2>1. k > 0 => 1 \in 1..k /\ Len(file) > 0
    BY <1>1
  <2> QED
    BY <1>7, <2>1 DEF SealedOK
<1>10. \A n \in 0..Len(g) : SegmentOK(g, u, n)
  BY <1>2, <1>5
<1>11. \A i \in 1..Len(g) : ShapeOK(g[i]) /\ (IsSeal(g[i]) => SealBody(g, u[i], i - 1, g[i].body))
  BY <1>2, <1>6
<1>12. \A i, j \in 1..Len(g) : g[i].hash.key.seed = g[j].hash.key.seed => g[i].epoch = g[j].epoch
  BY <1>2, <1>8
<1>13. Len(g) > 0 /\ g[1].v < 3 => g[1].epoch = 0
  BY <1>2, <1>9
<1> QED
  BY <1>10, <1>11, <1>12, <1>13, Zenon DEF SealedOK

(***************************************************************************)
(* The loop of seal() collects the lines of the open segment.              *)
(***************************************************************************)
IsCollected(c, n) ==
  c = [i \in 0..n |-> IF i = 0 THEN << >>
                      ELSE IF InSegment(file[i]) THEN Append(c[i - 1], file[i])
                      ELSE c[i - 1]]

LEMMA CollectedExists ==
  ASSUME NEW n \in Nat
  PROVE  \E c : IsCollected(c, n)
<1> DEFINE Bad == {m \in Nat : ~\E c : IsCollected(c, m)}
<1> SUFFICES ASSUME Bad # {} PROVE FALSE
  OBVIOUS
<1>1. PICK m \in Bad : \A k \in Bad : m <= k
  <2>1. Bad \subseteq Nat
    OBVIOUS
  <2> HIDE DEF Bad
  <2> QED
    BY <2>1, LeastNat
<1>2. CASE m = 0
  <2>1. PICK c : c = [i \in 0..0 |-> << >>]
    OBVIOUS
  <2>2. IsCollected(c, 0)
    <3>1. \A i \in 0..0 : i = 0
      OBVIOUS
    <3> QED
      BY <2>1, <3>1 DEF IsCollected
  <2> QED
    BY <1>2, <2>2
<1>3. CASE m # 0
  <2>1. m - 1 \in Nat /\ m - 1 \notin Bad
    BY <1>1, <1>3
  <2>2. PICK c : IsCollected(c, m - 1)
    BY <2>1
  <2>3. PICK x : x = IF InSegment(file[m]) THEN Append(c[m - 1], file[m]) ELSE c[m - 1]
    OBVIOUS
  <2>4. PICK d : d = [i \in 0..m |-> IF i = m THEN x ELSE c[i]]
    OBVIOUS
  <2>5. ASSUME NEW i \in 0..m
        PROVE  d[i] = IF i = 0 THEN << >>
                      ELSE IF InSegment(file[i]) THEN Append(d[i - 1], file[i])
                      ELSE d[i - 1]
    <3>1. CASE i = 0
      BY <1>3, <2>1, <2>2, <2>4, <3>1 DEF IsCollected
    <3>2. CASE i = m
      <4>1. d[i] = x /\ d[m - 1] = c[m - 1]
        BY <2>1, <2>4, <3>2
      <4> QED
        BY <1>3, <2>3, <3>2, <4>1
    <3>3. CASE i # 0 /\ i # m
      <4>1. i \in 0..(m - 1) /\ i - 1 \in 0..m /\ i - 1 # m
        BY <2>1, <3>3
      <4>2. d[i] = c[i] /\ d[i - 1] = c[i - 1]
        BY <2>4, <3>3, <4>1
      <4>3. c[i] = IF InSegment(file[i]) THEN Append(c[i - 1], file[i]) ELSE c[i - 1]
        BY <2>2, <3>3, <4>1 DEF IsCollected
      <4> QED
        BY <3>3, <4>2, <4>3
    <3> QED
      BY <3>1, <3>2, <3>3
  <2>6. IsCollected(d, m)
    <3>1. d = [i \in 0..m |-> d[i]]
      BY <2>4
    <3> QED
      BY <2>5, <3>1, Zenon DEF IsCollected
  <2> QED
    BY <2>6
<1> QED
  BY <1>2, <1>3

LEMMA LeavesAre ==
  ASSUME IsSequence(file), NEW st \in Nat, NEW n \in Nat, n = Len(file), st < n,
         \A i \in 1..n : InSegment(file[i]) <=> i > st
  PROVE  Len(Leaves) = n - st /\ \A k \in 1..(n - st) : Leaves[k] = file[st + k]
<1>1. PICK c : IsCollected(c, n) /\ Leaves = c[n]
  <2>1. \E c : IsCollected(c, n)
    BY CollectedExists
  <2> QED
    BY <2>1 DEF Leaves, IsCollected
<1> DEFINE Good(i) == /\ IsSequence(c[i])
                      /\ i <= st => Len(c[i]) = 0
                      /\ i > st => /\ Len(c[i]) = i - st
                                   /\ \A k \in 1..(i - st) : c[i][k] = file[st + k]
           Bad == {i \in 0..n : ~Good(i)}
<1>2. ASSUME Bad # {} PROVE FALSE
  <2>1. PICK i \in Bad : \A j \in Bad : i <= j
    <3>1. Bad \subseteq Nat
      OBVIOUS
    <3> HIDE DEF Bad
    <3> QED
      BY <1>2, <3>1, LeastNat
  <2>2. i \in 0..n /\ ~Good(i)
    BY <2>1
  <2>3. CASE i = 0
    <3>1. c[0] = << >>
      BY <1>1 DEF IsCollected
    <3>2. IsSequence(c[0]) /\ Len(c[0]) = 0
      <4>1. c[0] \in Seq({}) /\ Len(c[0]) = 0
        BY <3>1
      <4> QED
        BY <4>1, SelfTyped
    <3>3. 0 <= st /\ ~(0 > st)
      OBVIOUS
    <3> QED
      BY <2>2, <2>3, <3>2, <3>3
  <2>4. CASE i # 0
    <3>1. i \in 1..n /\ i - 1 \in 0..n /\ ~(i <= i - 1)
      BY <2>2, <2>4
    <3>2. Good(i - 1)
      <4>1. i - 1 \notin Bad
        BY <2>1, <3>1, Zenon
      <4> QED
        BY <3>1, <4>1
    <3>3. c[i] = IF InSegment(file[i]) THEN Append(c[i - 1], file[i]) ELSE c[i - 1]
      BY <1>1, <2>2, <2>4 DEF IsCollected
    <3>4. CASE i <= st
      <4>1. c[i] = c[i - 1] /\ i - 1 <= st /\ ~(i > st)
        BY <3>1, <3>3, <3>4
      <4>2. IsSequence(c[i]) /\ Len(c[i]) = 0
        BY <3>2, <4>1
      <4> QED
        BY <2>2, <4>1, <4>2
    <3>5. CASE i > st
      <4>1. c[i] = Append(c[i - 1], file[i])
        BY <3>1, <3>3, <3>5
      <4>2. PICK d : d = c[i - 1]
        OBVIOUS
      <4>3. IsSequence(d) /\ Len(d) = (i - st) - 1
        <5>1. CASE i - 1 <= st
          <6>1. IsSequence(d) /\ Len(d) = 0
            BY <3>2, <4>2, <5>1
          <6> QED
            BY <3>1, <3>5, <5>1, <6>1
        <5>2. CASE i - 1 > st
          <6>1. IsSequence(d) /\ Len(d) = (i - 1) - st
            BY <3>2, <4>2, <5>2
          <6> QED
            BY <3>1, <6>1
        <5> QED
          BY <3>1, <5>1, <5>2
      <4>4. /\ IsSequence(c[i]) /\ Len(c[i]) = Len(d) + 1 /\ c[i][Len(d) + 1] = file[i]
            /\ \A k \in 1..Len(d) : c[i][k] = d[k]
        BY <4>1, <4>2, <4>3, AppendFacts
      <4>5. ASSUME NEW k \in 1..(i - st) PROVE c[i][k] = file[st + k]
        <5>1. CASE k = i - st
          <6>1. Len(d) + 1 = k /\ st + k = i
            BY <3>1, <4>3, <5>1
          <6> QED
            BY <4>4, <6>1
        <5>2. CASE k # i - st
          <6>1. k \in 1..Len(d) /\ i - 1 > st /\ k \in 1..((i - 1) - st)
            BY <3>1, <4>3, <5>2
          <6>2. d[k] = file[st + k]
            BY <3>2, <4>2, <6>1
          <6> QED
            BY <4>4, <6>1, <6>2
        <5> QED
          BY <5>1, <5>2
      <4>6. Len(c[i]) = i - st /\ ~(i <= st)
        BY <3>1, <3>5, <4>3, <4>4
      <4> QED
        BY <2>2, <4>4, <4>5, <4>6
    <3> QED
      BY <3>1, <3>4, <3>5
  <2> QED
    BY <2>3, <2>4
<1>3. Good(n)
  <2>1. n \in 0..n /\ n \notin Bad
    BY <1>2
  <2> QED
    BY <2>1
<1>4. n > st
  OBVIOUS
<1> QED
  BY <1>1, <1>3, <1>4

(***************************************************************************)
(* What seal() writes.                                                     *)
(***************************************************************************)
VerifyInv == KeyInv /\ SealedOK(file, trail)

\* The signature is over the fields that the record ends up with.
Signed(r) ==
  /\ r = [segment |-> r.segment, start_seq |-> r.start_seq, end_seq |-> r.end_seq,
          tip_hash |-> r.tip_hash, merkle_root |-> r.merkle_root, revealed |-> r.revealed,
          prev_seal |-> r.prev_seal, scheme |-> r.scheme, public_key |-> r.public_key,
          signature |-> r.signature, payload |-> r.payload]
  /\ r.payload = seal_payload(r)
  /\ r.signature = [scheme |-> r.scheme, by |-> r.public_key, over |-> seal_payload(r)]

Built(r, signer, tip, root, revealed) ==
  /\ r.segment = h.seals_seen /\ r.start_seq = h.sealed_through + 1 /\ r.end_seq = h.seq
  /\ r.tip_hash = tip /\ r.merkle_root = root /\ r.revealed = revealed
  /\ r.prev_seal = PrevSeal
  /\ r.scheme = signer.scheme /\ r.public_key = signer.public_key

LEMMA SignedFields ==
  ASSUME NEW signer, NEW r, r = sign_record(SealRecord(signer), signer),
         NEW tip, tip = Leaves[Len(Leaves)].hash,
         NEW root, root = mth([i \in 1..Len(Leaves) |-> Leaves[i].hash]),
         NEW revealed, revealed = [ep \in SegmentEpochs |->
                                     entry_key(keys, ep, h.seals_seen, WriteVersion(h))]
  PROVE  Signed(r) /\ Built(r, signer, tip, root, revealed)
<1>1. PICK q : q = SealRecord(signer)
  OBVIOUS
<1>2. q = [segment |-> h.seals_seen, start_seq |-> h.sealed_through + 1, end_seq |-> h.seq,
           tip_hash |-> tip, merkle_root |-> root, revealed |-> revealed,
           prev_seal |-> PrevSeal, scheme |-> signer.scheme,
           public_key |-> signer.public_key, signature |-> NoHash, payload |-> NoHash]
  BY <1>1, Zenon DEF SealRecord
<1>3. PICK payload : payload = seal_payload(q)
  OBVIOUS
<1>4. r = [q EXCEPT !.payload = payload,
                    !.signature = [scheme |-> signer.scheme, by |-> signer.public_key,
                                   over |-> payload]]
  BY <1>1, <1>3, Zenon DEF sign_record
<1>5. /\ r.segment = h.seals_seen /\ r.start_seq = h.sealed_through + 1 /\ r.end_seq = h.seq
      /\ r.tip_hash = tip /\ r.merkle_root = root /\ r.revealed = revealed
      /\ r.prev_seal = PrevSeal
      /\ r.scheme = signer.scheme /\ r.public_key = signer.public_key
      /\ r.payload = payload
      /\ r.signature = [scheme |-> signer.scheme, by |-> signer.public_key, over |-> payload]
  BY <1>2, <1>4
<1>6. seal_payload(r) = payload
  BY <1>2, <1>3, <1>5 DEF seal_payload
<1>7. Signed(r)
  BY <1>2, <1>4, <1>5, <1>6 DEF Signed
<1> QED
  BY <1>5, <1>7 DEF Built

LEMMA SealMade ==
  ASSUME VerifyInv, pc = "ready", Sealable, ~read_only, h.seq < MAX_SEQ,
         NEW signer \in Signers, NEW r, r = sign_record(SealRecord(signer), signer)
  PROVE  SealBody(file, Tip, Len(file), r)
<1>1. PICK n, st : n = Len(file) /\ st = h.sealed_through
  OBVIOUS
<1>2. /\ TypeOK /\ HistoryOK(file, trail) /\ ~compromised /\ RingMatches(keys) /\ Agrees(h, Tip)
      /\ n \in Nat /\ st \in Nat /\ Tip.seq = n /\ Tip = trail[n + 1] /\ IsSequence(file)
      /\ h.seq = n /\ Tip.sealed_through = st /\ h.seals_seen \in Nat
  <2>1. TypeOK /\ HistoryOK(file, trail) /\ HandleOK /\ RingOK /\ ~compromised
    BY DEF VerifyInv, KeyInv, Inv, Sealable
  <2>2. Agrees(h, Tip) /\ RingMatches(keys)
    BY <2>1 DEF HandleOK, RingOK
  <2>3. Tip.seq = n /\ Tip = trail[n + 1] /\ n \in Nat
    BY <1>1, <2>1, TipFacts
  <2>4. st \in Nat /\ h.seals_seen \in Nat /\ IsSequence(file)
    BY <1>1, <2>1 DEF TypeOK, ViewOK
  <2> QED
    BY <1>1, <2>1, <2>2, <2>3, <2>4 DEF Agrees
<1>3. st < n
  BY <1>1, <1>2 DEF Sealable
<1>4. SegmentOK(file, trail, n)
  BY <1>1, <1>2 DEF VerifyInv, SealedOK
<1>5. \A i \in 1..n : LineOK(file, trail, i)
  BY <1>1, <1>2 DEF HistoryOK, HistoryThrough
<1>6. \A i \in 1..n : InSegment(file[i]) <=> i > st
  <2>1. \A i \in 1..n : file[i].seq = i
    BY <1>5 DEF LineOK
  <2> QED
    BY <1>1, <1>2, <2>1 DEF InSegment
<1>7. Len(Leaves) = n - st /\ \A k \in 1..(n - st) : Leaves[k] = file[st + k]
  BY <1>1, <1>2, <1>3, <1>6, LeavesAre
<1>8. /\ Leaves[Len(Leaves)] = file[n]
      /\ [k \in 1..Len(Leaves) |-> Leaves[k].hash] = [k \in 1..(n - st) |-> file[st + k].hash]
  <2>1. n - st \in 1..(n - st) /\ st + (n - st) = n
    BY <1>2, <1>3
  <2> QED
    BY <1>7, <2>1
<1>9. \A i : i \in SegmentIndexes <=> i \in Segment(Tip, n)
  BY <1>1, <1>2, <1>6 DEF SegmentIndexes, Segment
<1>10. \A ep : ep \in SegmentEpochs <=> \E j \in Segment(Tip, n) : ep = file[j].epoch
  BY <1>9 DEF SegmentEpochs
<1>11. ASSUME NEW j \in Segment(Tip, n)
       PROVE  entry_key(keys, file[j].epoch, h.seals_seen, WriteVersion(h)) = file[j].hash.key
  <2>1. j \in 1..n
    BY <1>2 DEF Segment
  <2>2. PICK key : key = file[j].hash.key
    OBVIOUS
  <2>3. key = [seed |-> key.seed, seg |-> key.seg]
    <3>1. LineOK(file, trail, j)
      BY <1>5, <2>1
    <3> QED
      BY <2>2, <3>1 DEF LineOK
  <2>4. key.seg = IF h.seals_seen = 0 /\ h.legacy_segment0 THEN BASE ELSE h.seals_seen
    BY <1>2, <1>4, <2>2 DEF SegmentOK, Agrees
  <2>5. key.seed = keys[file[j].epoch + 1]
    BY <1>1, <1>2, <2>1, <2>2 DEF RingMatches
  <2> QED
    BY <2>2, <2>3, <2>4, <2>5 DEF entry_key, segment_key, BaseKey, WriteVersion, FORMAT_VERSION
<1>12. PrevSeal = IF h.seals_seen = 0 THEN NoHash ELSE file[st + 1].hash
  <2> DEFINE seals == {i \in SegmentIndexes : IsSeal(file[i])}
             last == CHOOSE i \in seals : \A j \in seals : j <= i
  <2>1. \A i : i \in seals <=> i \in SegmentIndexes /\ IsSeal(file[i])
    OBVIOUS
  <2>2. PrevSeal = IF seals = {} THEN NoHash ELSE file[last].hash
    BY DEF PrevSeal
  <2> HIDE DEF seals
  <2>3. CASE h.seals_seen = 0
    <3>1. \A a \in 1..n : ~IsSeal(file[a])
      BY <1>2, <1>4, <2>3 DEF SegmentOK, Agrees
    <3>2. seals = {}
      BY <1>2, <1>9, <2>1, <3>1 DEF Segment
    <3> QED
      BY <2>2, <2>3, <3>2
  <2>4. CASE h.seals_seen > 0
    <3>1. /\ st + 1 \in 1..n /\ IsSeal(file[st + 1])
          /\ \A a \in (st + 2)..n : ~IsSeal(file[a])
      BY <1>2, <1>4, <2>4 DEF SegmentOK, Agrees
    <3>2. \A i : i \in seals <=> i = st + 1
      <4>1. \A i : i \in (st + 1)..n <=> i = st + 1 \/ i \in (st + 2)..n
        BY <1>2, <1>3
      <4> QED
        BY <1>2, <1>9, <2>1, <3>1, <4>1 DEF Segment
    <3>3. last = st + 1
      BY <1>2, <3>2
    <3>4. seals # {} /\ h.seals_seen # 0
      BY <2>4, <3>2
    <3> HIDE DEF last
    <3> QED
      BY <2>2, <3>3, <3>4
  <2> QED
    BY <1>2, <2>3, <2>4
<1>13. /\ Signed(r)
       /\ r.segment = h.seals_seen /\ r.start_seq = h.sealed_through + 1 /\ r.end_seq = h.seq
       /\ r.tip_hash = Leaves[Len(Leaves)].hash
       /\ r.merkle_root = mth([k \in 1..Len(Leaves) |-> Leaves[k].hash])
       /\ r.revealed = [ep \in SegmentEpochs |->
                          entry_key(keys, ep, h.seals_seen, WriteVersion(h))]
       /\ r.prev_seal = PrevSeal
       /\ r.scheme = signer.scheme /\ r.public_key = signer.public_key
  <2>1. PICK tip, root, revealed :
          /\ tip = Leaves[Len(Leaves)].hash
          /\ root = mth([k \in 1..Len(Leaves) |-> Leaves[k].hash])
          /\ revealed = [ep \in SegmentEpochs |->
                           entry_key(keys, ep, h.seals_seen, WriteVersion(h))]
    OBVIOUS
  <2>2. Signed(r) /\ Built(r, signer, tip, root, revealed)
    BY <2>1, SignedFields, Zenon
  <2> QED
    BY <2>1, <2>2, Zenon DEF Built
<1>14. /\ \A ep : ep \in DOMAIN r.revealed <=> \E j \in Segment(Tip, n) : ep = file[j].epoch
       /\ \A j \in Segment(Tip, n) : r.revealed[file[j].epoch] = file[j].hash.key
  <2>1. r.revealed = [ep \in SegmentEpochs |-> entry_key(keys, ep, h.seals_seen, WriteVersion(h))]
    BY <1>13, Zenon
  <2>2. \A j \in Segment(Tip, n) : file[j].epoch \in SegmentEpochs
    BY <1>10
  <2> QED
    BY <1>10, <1>11, <2>1, <2>2
<1>15. /\ r.segment = Tip.seals_seen /\ r.start_seq = Tip.sealed_through + 1 /\ r.end_seq = n
       /\ r.tip_hash = file[n].hash
       /\ r.merkle_root = mth([k \in 1..(n - Tip.sealed_through)
                                 |-> file[Tip.sealed_through + k].hash])
       /\ r.prev_seal = IF Tip.seals_seen = 0 THEN NoHash ELSE file[Tip.sealed_through + 1].hash
  <2>1. r.segment = Tip.seals_seen /\ r.start_seq = Tip.sealed_through + 1 /\ r.end_seq = n
    BY <1>1, <1>2, <1>13 DEF Agrees
  <2>2. r.tip_hash = file[n].hash
    BY <1>8, <1>13
  <2>3. r.merkle_root = mth([k \in 1..(n - st) |-> file[st + k].hash])
    BY <1>8, <1>13, Zenon
  <2>4. r.prev_seal = IF Tip.seals_seen = 0 THEN NoHash ELSE file[st + 1].hash
    BY <1>2, <1>12, <1>13 DEF Agrees
  <2> QED
    BY <1>2, <2>1, <2>2, <2>3, <2>4
<1>16. SealBody(file, Tip, n, r)
  <2>1. \E s \in Signers : r.scheme = s.scheme /\ r.public_key = s.public_key
    BY <1>13
  <2>2. /\ r = [segment |-> r.segment, start_seq |-> r.start_seq, end_seq |-> r.end_seq,
                tip_hash |-> r.tip_hash, merkle_root |-> r.merkle_root, revealed |-> r.revealed,
                prev_seal |-> r.prev_seal, scheme |-> r.scheme, public_key |-> r.public_key,
                signature |-> r.signature, payload |-> r.payload]
        /\ r.payload = seal_payload(r)
        /\ r.signature = [scheme |-> r.scheme, by |-> r.public_key, over |-> seal_payload(r)]
    BY <1>13, Zenon DEF Signed
  <2>3. Tip.sealed_through < n
    BY <1>2, <1>3
  <2> QED
    BY <1>14, <1>15, <2>1, <2>2, <2>3, Zenon DEF SealBody
<1> QED
  BY <1>1, <1>16

\* append, called with a body that a call of the library makes.
LEMMA AppendSealed ==
  ASSUME Reliable, VerifyInv, pc = "ready",
         NEW hh, ViewOK(hh), DOMAIN hh = HandleFields, hh.seq = h.seq,
         NEW ks \in Seq(Seeds), Distinct(ks), ~compromised => RingMatches(ks),
         NEW body, NEW published,
         NEW etype \in {DATA_EVENT, KEY_ROTATION_EVENT, SEAL_EVENT},
         etype = SEAL_EVENT => body.end_seq \in Nat,
         etype # SEAL_EVENT => body \in Payloads \/ \E m \in Nat : body = [epoch |-> m],
         ~compromised /\ ~read_only /\ h.seq < MAX_SEQ =>
           Prepared(Tip, hh, ks, etype, body, published),
         etype = SEAL_EVENT /\ ~compromised /\ ~read_only /\ h.seq < MAX_SEQ =>
           SealBody(file, Tip, Len(file), body),
         append(hh, ks, etype, body, published)
  PROVE  SealedOK(file', trail')
<1>1. PICK e : e = NewEvent(hh, ks, etype, body)
  OBVIOUS
<1>2. /\ TypeOK /\ HistoryOK(file, trail) /\ HandleOK /\ Inv /\ SealedOK(file, trail)
      /\ Tip.seq = Len(file) /\ ScanOK(Tip) /\ Len(file) \in Nat /\ Tip = trail[Len(file) + 1]
  BY TipFacts DEF VerifyInv, KeyInv, Inv
<1>3. CASE UNCHANGED disk
  BY <1>2, <1>3 DEF disk
<1>4. CASE Writable(hh, ks) /\ Written(hh, ks, e, published)
  <2>1. /\ ~compromised /\ ~read_only /\ h.seq < MAX_SEQ /\ tail = "eol"
        /\ Prepared(Tip, hh, ks, etype, body, published)
    BY <1>2, <1>4 DEF Writable, HandleOK
  <2>2. file' = Append(file, e) /\ trail' = Append(trail, Accept(Tip, e))
    BY <1>4, <2>1 DEF Written, WriteLine
  <2>3. EntryOK(e)
    BY <1>1, NewEventType DEF BodyFits
  <2>4. Fits(Tip, Len(file), e)
    <3>1. Fits(Tip, Tip.seq, e)
      BY <1>1, <1>2, <2>1, <2>3, PreparedFits
    <3> QED
      BY <1>2, <3>1
  <2>5. /\ e.etype = etype /\ e.body = body /\ e.epoch = hh.epoch /\ e.v = WriteVersion(hh)
        /\ e.hash.key = entry_key(ks, hh.epoch, hh.seals_seen, e.v)
    BY <1>1, NewEventFields
  <2>6. FormatFits(Tip, Len(file), e) /\ (Len(file) = 0 /\ e.v < 3 => e.epoch = 0)
    <3>1. Tip.seals_seen \in Nat /\ Tip.legacy_segment0 \in BOOLEAN
      BY <1>2 DEF ScanOK, ViewOK
    <3>2. e.v = IF hh.seals_seen = 0 /\ hh.legacy_segment0 THEN 2 ELSE 3
      BY <2>5 DEF WriteVersion, FORMAT_VERSION
    <3>3. /\ hh.legacy_segment0 = Tip.legacy_segment0
          /\ IsSeal(e) => hh.seals_seen = Tip.seals_seen + 1
          /\ ~IsSeal(e) => hh.seals_seen = Tip.seals_seen
      BY <2>1, <2>5 DEF Prepared, IsSeal
    <3>4. Len(file) = 0 => ~Tip.legacy_segment0
      BY <1>2 DEF HistoryOK, ScanInit
    <3> QED
      BY <3>1, <3>2, <3>3, <3>4 DEF FormatFits
  <2>7. hh.epoch \in Nat /\ hh.epoch + 1 \in DOMAIN ks /\ e.hash.key.seed = ks[hh.epoch + 1]
    <3>1. hh.epoch \in Nat /\ hh.epoch < Len(ks)
      BY <2>1 DEF Prepared
    <3> QED
      BY <2>5, <3>1 DEF entry_key, segment_key, BaseKey
  <2>8. ShapeOK(e)
    <3>1. e = [v |-> e.v, seq |-> e.seq, etype |-> e.etype, body |-> e.body, epoch |-> e.epoch,
               prev_hash |-> e.prev_hash, hash |-> e.hash]
      BY <1>1 DEF NewEvent, Event
    <3>2. e.v \in Nat /\ e.epoch \in Nat
      BY <2>3 DEF EntryOK
    <3>3. e.hash.key.seed \in Seeds
      BY <2>7
    <3>4. ~IsSeal(e) => e.body \in Payloads \/ \E m \in Nat : e.body = [epoch |-> m]
      BY <2>5, Zenon DEF IsSeal
    <3> QED
      BY <3>1, <3>2, <3>3, <3>4, Zenon DEF ShapeOK, Parsed
  <2>9. IsSeal(e) => SealBody(file, Tip, Len(file), e.body)
    BY <2>1, <2>5 DEF IsSeal
  <2>10. ASSUME NEW m \in 1..Len(file), file[m].hash.key.seed = e.hash.key.seed
         PROVE  file[m].epoch = e.epoch
    <3>1. /\ file[m].hash.key.seed = ks[file[m].epoch + 1] /\ file[m].epoch < Len(ks)
          /\ file[m].epoch \in Nat
      BY <1>2, <2>1 DEF RingMatches, HasKey, TypeOK, EntryOK
    <3>2. file[m].epoch + 1 \in DOMAIN ks
      BY <3>1
    <3>3. file[m].epoch + 1 = hh.epoch + 1
      BY <2>7, <2>10, <3>1, <3>2 DEF Distinct
    <3> QED
      BY <2>5, <2>7, <3>1, <3>3
  <2> HIDE DEF Tip
  <2> QED
    BY <1>2, <2>2, <2>4, <2>6, <2>8, <2>9, <2>10, SealedAppend
<1>5. CASE /\ Writable(hh, ks) /\ \E how \in CrashTails : WriteLine(e, how)
           /\ Released
  <2>1. WriteLine(e, "torn")
    BY <1>5, FaultAssumption DEF Reliable
  <2>2. tail = "eol"
    BY <1>2, <1>5 DEF HandleOK, Writable
  <2>3. UNCHANGED <<file, trail>>
    BY <1>5, <2>1, <2>2 DEF WriteLine
  <2> QED
    BY <1>2, <2>3
<1> QED
  BY <1>1, <1>3, <1>4, <1>5 DEF append, Reliable

\* On reliable storage every step preserves the invariant.
LEMMA VerifyStep ==
  ASSUME Reliable
  PROVE  VerifyInv /\ [Next]_vars => VerifyInv'
<1> SUFFICES ASSUME VerifyInv, [Next]_vars PROVE SealedOK(file', trail')
  BY KeyStep DEF VerifyInv
<1>0. /\ Inv /\ RingOK /\ TypeOK /\ HistoryOK(file, trail) /\ HandleOK
      /\ Distinct(keys) /\ SealedOK(file, trail)
      /\ ViewOK(h) /\ DOMAIN h = HandleFields /\ keys \in Seq(Seeds) /\ Len(file) \in Nat
  BY LenNat DEF VerifyInv, KeyInv, Inv, TypeOK
<1>00. ASSUME UNCHANGED <<file, trail>> PROVE SealedOK(file', trail')
  BY <1>0, <1>00
<1>1. ASSUME NEW etype \in EventTypes, NEW body \in Payloads, AppendData(etype, body)
      PROVE  SealedOK(file', trail')
  <2>1. pc = "ready" /\ Prepared(Tip, h, keys, etype, body, {})
    BY <1>0, <1>1, DataPrepared DEF AppendData
  <2>2. /\ etype # SEAL_EVENT /\ (~compromised => RingMatches(keys))
        /\ etype \in {DATA_EVENT, KEY_ROTATION_EVENT, SEAL_EVENT}
    BY <1>0, <2>1, CallersAssumption, TypesAssumption DEF RingOK
  <2> QED
    BY <1>0, <1>1, <2>1, <2>2, AppendSealed DEF AppendData
<1>2. ASSUME NEW seed \in Seeds, rotate_key(seed) PROVE SealedOK(file', trail')
  <2>1. PICK ks : ks = Append(keys, seed)
    OBVIOUS
  <2>2. pc = "ready" /\ (~compromised => RingMatches(keys)) /\ h.epoch \in Nat
    BY <1>0, <1>2 DEF rotate_key, RingOK, ViewOK
  <2>3. /\ ks \in Seq(Seeds) /\ Len(ks) = Len(keys) + 1 /\ Len(keys) \in Nat
        /\ ks[Len(keys) + 1] = seed /\ \A i \in 1..Len(keys) : ks[i] = keys[i]
        /\ DOMAIN ks = 1..(Len(keys) + 1) /\ DOMAIN keys = 1..Len(keys)
    BY <1>0, <2>1
  <2>4. Distinct(ks)
    <3>1. \A i \in 1..Len(keys) : keys[i] # seed
      BY <1>2, <2>3 DEF rotate_key
    <3> SUFFICES ASSUME NEW i \in 1..(Len(keys) + 1), NEW j \in 1..(Len(keys) + 1), ks[i] = ks[j]
                 PROVE  i = j
      BY <2>3 DEF Distinct
    <3>2. i \in 1..Len(keys) \/ i = Len(keys) + 1
      BY <2>3
    <3>3. j \in 1..Len(keys) \/ j = Len(keys) + 1
      BY <2>3
    <3> QED
      BY <1>0, <2>3, <3>1, <3>2, <3>3 DEF Distinct
  <2>5. ~compromised => RingMatches(ks)
    BY <1>0, <2>1, <2>2, RingExtended
  <2>6. CASE UNCHANGED disk
    BY <1>00, <2>6 DEF disk
  <2>7. ASSUME NEW hh, hh = [h EXCEPT !.epoch = @ + 1], NEW body, body = [epoch |-> h.epoch + 1],
               append(hh, ks, KEY_ROTATION_EVENT, body, {})
        PROVE  SealedOK(file', trail')
    <3>1. /\ hh.last_hash = h.last_hash /\ hh.seq = h.seq /\ hh.epoch = h.epoch + 1
          /\ hh.seals_seen = h.seals_seen /\ hh.sealed_through = h.sealed_through
          /\ hh.legacy_segment0 = h.legacy_segment0
          /\ hh.revealed_epochs = h.revealed_epochs /\ DOMAIN hh = HandleFields
      BY <1>0, <2>7 DEF HandleFields
    <3>2. ViewOK(hh)
      BY <1>0, <3>1 DEF ViewOK
    <3>3. ~compromised /\ ~read_only /\ h.seq < MAX_SEQ =>
            Prepared(Tip, hh, ks, KEY_ROTATION_EVENT, body, {})
      BY <1>0, <2>1, <2>2, <3>1, RotationPrepared
    <3>4. KEY_ROTATION_EVENT # SEAL_EVENT /\ \E m \in Nat : body = [epoch |-> m]
      BY <2>2, <2>7 DEF KEY_ROTATION_EVENT, SEAL_EVENT
    <3> QED
      BY <2>2, <2>3, <2>4, <2>5, <2>7, <3>1, <3>2, <3>3, <3>4, AppendSealed
  <2> QED
    BY <1>2, <2>1, <2>6, <2>7 DEF rotate_key
<1>3. ASSUME NEW signer \in Signers, seal(signer) PROVE SealedOK(file', trail')
  <2>1. PICK hh : hh = [h EXCEPT !.seals_seen = @ + 1, !.sealed_through = h.seq]
    OBVIOUS
  <2>2. PICK body : body = sign_record(SealRecord(signer), signer)
    OBVIOUS
  <2>3. PICK published :
          published = IF h.seals_seen = 0 /\ h.legacy_segment0 THEN SegmentEpochs ELSE {}
    OBVIOUS
  <2>4. pc = "ready" /\ Sealable /\ append(hh, keys, SEAL_EVENT, body, published)
    BY <1>3, <2>1, <2>2, <2>3 DEF seal
  <2>5. /\ hh.last_hash = h.last_hash /\ hh.seq = h.seq /\ hh.epoch = h.epoch
        /\ hh.seals_seen = h.seals_seen + 1 /\ hh.sealed_through = h.seq
        /\ hh.legacy_segment0 = h.legacy_segment0
        /\ hh.revealed_epochs = h.revealed_epochs /\ DOMAIN hh = HandleFields
    BY <1>0, <2>1 DEF HandleFields
  <2>6. ViewOK(hh)
    BY <1>0, <2>5 DEF ViewOK
  <2>7. body.end_seq = h.seq /\ h.seq \in Nat
    <3>1. \E tip, root, revealed : Built(body, signer, tip, root, revealed)
      BY <2>2, SignedFields, Zenon
    <3> QED
      BY <1>0, <3>1 DEF Built, ViewOK
  <2>8. ~compromised /\ ~read_only /\ h.seq < MAX_SEQ =>
          Prepared(Tip, hh, keys, SEAL_EVENT, body, published)
    BY <1>0, <2>3, <2>4, <2>5, <2>7, SealPrepared
  <2>9. ~compromised => RingMatches(keys)
    BY <1>0, <2>4 DEF RingOK
  <2>10. ~compromised /\ ~read_only /\ h.seq < MAX_SEQ => SealBody(file, Tip, Len(file), body)
    BY <2>2, <2>4, SealMade
  <2> QED
    BY <1>0, <2>4, <2>5, <2>6, <2>7, <2>8, <2>9, <2>10, AppendSealed
<1>4. ASSUME PowerLoss PROVE SealedOK(file', trail')
  <2>1. PICK k \in 0..Len(file) :
          file' = SubSeq(file, 1, k) /\ trail' = SubSeq(trail, 1, k + 1)
    BY <1>4 DEF PowerLoss
  <2> QED
    BY <1>0, <2>1, SealedCut
<1>5. ASSUME NEW v \in {1, 2}, NEW seed \in Seeds, NEW body \in Payloads,
             LegacyWrite(v, seed, body)
      PROVE  SealedOK(file', trail')
  <2>1. PICK e : e = Event(v, Tip.last_hash, Tip.seq + 1, DATA_EVENT, body, 0, BaseKey(seed))
    OBVIOUS
  <2>2. Fits(Tip, Len(file), e) /\ \A i \in 1..Len(file) : file[i].v <= v
    BY <1>0, <1>5, <2>1, LegacyFits DEF LegacyWrite
  <2>3. /\ file' = Append(file, e) /\ trail' = Append(trail, Accept(Tip, e))
    BY <1>5, <2>1 DEF LegacyWrite, WriteLine
  <2>4. /\ ~IsSeal(e) /\ e.v = v /\ e.epoch = 0 /\ e.hash.key.seed = seed /\ e.body = body
        /\ Parsed(e)
    BY <2>1 DEF Event, event_hash, BaseKey, IsSeal, DATA_EVENT, SEAL_EVENT, Parsed
  <2>5. /\ Tip = trail[Len(file) + 1] /\ ScanOK(Tip) /\ PointOK(file, trail, Len(file))
        /\ SegmentOK(file, trail, Len(file)) /\ \A i \in 1..Len(file) : LineOK(file, trail, i)
    BY <1>0, TipFacts DEF SealedOK, HistoryOK, HistoryThrough
  <2>6. Tip.seals_seen = 0 /\ Tip.sealed_through = 0 /\ Tip.legacy_segment0 \in BOOLEAN
    <3>1. Tip.seals_seen \in Nat /\ Tip.legacy_segment0 \in BOOLEAN
      BY <2>5 DEF ScanOK, ViewOK
    <3>2. ASSUME Tip.seals_seen > 0 PROVE FALSE
      <4>1. PICK i \in 1..Len(file) : IsSeal(file[i])
        BY <2>5, <3>2 DEF PointOK
      <4>2. file[i].v = 3 /\ file[i].v <= v
        BY <2>2, <2>5, <4>1 DEF LineOK
      <4> QED
        BY <4>2
    <3>3. Tip.seals_seen = 0
      BY <3>1, <3>2
    <3> QED
      BY <2>5, <3>1, <3>3 DEF PointOK
  <2>7. Len(file) > 0 => Tip.legacy_segment0
    <3> SUFFICES ASSUME Len(file) > 0 PROVE Tip.legacy_segment0
      OBVIOUS
    <3>1. 1 \in 1..Len(file) /\ 1 \in Segment(Tip, Len(file))
      BY <1>0, <2>6 DEF Segment
    <3>2. file[1].hash.key.seg = IF Tip.legacy_segment0 THEN BASE ELSE 0
      BY <2>5, <2>6, <3>1 DEF SegmentOK
    <3>3. file[1].hash.key.seg = BASE
      <4>1. LineOK(file, trail, 1) /\ EntryOK(file[1]) /\ file[1].v <= v
        BY <1>0, <2>2, <2>5, <3>1 DEF TypeOK
      <4>2. file[1].v < 3
        BY <4>1 DEF EntryOK
      <4> QED
        BY <4>1, <4>2 DEF LineOK
    <3> QED
      BY <3>2, <3>3 DEF BASE
  <2>8. FormatFits(Tip, Len(file), e)
    BY <1>0, <2>4, <2>6, <2>7 DEF FormatFits
  <2>9. ShapeOK(e)
    BY <2>4 DEF ShapeOK
  <2>10. ASSUME NEW m \in 1..Len(file) PROVE file[m].epoch = e.epoch
    <3>1. 1 \in 1..Len(file) /\ Len(file) > 0
      BY <1>0
    <3>2. file[1].v <= v /\ file[1].hash.key = BaseKey(seed) /\ file[m].hash.key = BaseKey(seed)
      BY <1>5, <3>1 DEF LegacyWrite
    <3>3. file[m].epoch = file[1].epoch
      BY <1>0, <3>1, <3>2 DEF SealedOK
    <3>4. file[1].v < 3
      <4>1. EntryOK(file[1])
        BY <1>0, <3>1 DEF TypeOK
      <4> QED
        BY <3>2, <4>1 DEF EntryOK
    <3>5. file[1].epoch = 0
      BY <1>0, <3>1, <3>4 DEF SealedOK
    <3> QED
      BY <2>4, <3>3, <3>5
  <2> QED
    BY <1>0, <2>2, <2>3, <2>4, <2>8, <2>9, <2>10, SealedAppend
<1>6. ASSUME \/ \E ring \in Rings : Open(ring)
             \/ ScanLine
             \/ ScanEnd
             \/ mark_readonly
             \/ mark_compromised
             \/ \E d \in BOOLEAN : set_durable(d)
             \/ sync
             \/ Close
      PROVE  SealedOK(file', trail')
  <2>1. UNCHANGED <<file, trail>>
    BY <1>6 DEF Open, ScanLine, ScanEnd, Opened, mark_readonly, mark_compromised,
                set_durable, sync, Close, disk, Refused
  <2> QED
    BY <1>00, <2>1
<1>7. ASSUME UNCHANGED vars PROVE SealedOK(file', trail')
  BY <1>00, <1>7 DEF vars, disk
<1> QED
  BY <1>1, <1>2, <1>3, <1>4, <1>5, <1>6, <1>7 DEF Next

(***************************************************************************)
(* Altered files.                                                          *)
(***************************************************************************)

\* The lines of a file with one line deleted, duplicated or exchanged with
\* the next.
LEMMA RearrangedLines ==
  ASSUME NEW f, IsSequence(f), NEW g \in Rearranged(f)
  PROVE  Len(g) \in Nat /\ \E i \in 1..Len(g) : \E j \in 1..Len(f) : g[i] = f[j] /\ i # j
<1>1. PICK n, S : n = Len(f) /\ S = {f[i] : i \in 1..n}
  OBVIOUS
<1>2. n \in Nat /\ f \in Seq(S) /\ DOMAIN f = 1..n
  BY <1>1, LenNat DEF IsSequence
<1>3. ASSUME NEW a \in 1..(n + 1), NEW b \in a..n
      PROVE  SubSeq(f, a, b) \in Seq(S) /\ Len(SubSeq(f, a, b)) = b - a + 1
             /\ \A k \in 1..(b - a + 1) : SubSeq(f, a, b)[k] = f[a + k - 1]
  <2>1. \A k \in a..b : f[k] \in S
    BY <1>1, <1>2
  <2> QED
    BY <1>2, <2>1, SubSeqProperties
<1>4. ASSUME NEW i \in 1..n
      PROVE  /\ SubSeq(f, 1, i - 1) \in Seq(S) /\ Len(SubSeq(f, 1, i - 1)) = i - 1
             /\ \A k \in 1..(i - 1) : SubSeq(f, 1, i - 1)[k] = f[k]
  <2>1. i - 1 \in Nat /\ i - 1 <= n
    BY <1>2
  <2>2. \A k \in 1..(i - 1) : f[k] \in S
    BY <1>1, <1>2
  <2> QED
    BY <1>2, <2>1, <2>2, SubSeqProperties
<1>5. CASE \E i \in 1..(n - 1) : g = RemoveAt(f, i)
  <2>1. PICK i \in 1..(n - 1) : g = RemoveAt(f, i)
    BY <1>5
  <2>2. PICK x, y : x = SubSeq(f, 1, i - 1) /\ y = SubSeq(f, i + 1, n)
    OBVIOUS
  <2>3. x \in Seq(S) /\ Len(x) = i - 1
    BY <1>2, <1>4, <2>2
  <2>4. y \in Seq(S) /\ Len(y) = n - i /\ y[1] = f[i + 1]
    <3>1. i + 1 \in 1..(n + 1) /\ n \in (i + 1)..n /\ 1 \in 1..(n - (i + 1) + 1)
      BY <1>2
    <3> QED
      BY <1>2, <1>3, <2>2, <3>1
  <2>5. g = x \o y
    BY <1>1, <2>1, <2>2 DEF RemoveAt
  <2>6. Len(g) = n - 1 /\ g[i] = f[i + 1]
    <3>1. i \in 1..(Len(x) + Len(y)) /\ ~(i <= Len(x)) /\ i - Len(x) = 1
      BY <1>2, <2>3, <2>4
    <3>2. Len(g) = Len(x) + Len(y) /\ \A k \in 1..(Len(x) + Len(y)) :
            g[k] = IF k <= Len(x) THEN x[k] ELSE y[k - Len(x)]
      BY <2>3, <2>4, <2>5, ConcatProperties
    <3> QED
      BY <1>2, <2>3, <2>4, <3>1, <3>2
  <2>7. i \in 1..Len(g) /\ i + 1 \in 1..n /\ i # i + 1 /\ Len(g) \in Nat
    BY <1>2, <2>6
  <2> QED
    BY <1>1, <2>6, <2>7
<1>6. CASE \E i \in 1..n : g = InsertAt(f, i, f[i])
  <2>1. PICK i \in 1..n : g = InsertAt(f, i, f[i])
    BY <1>6
  <2>2. PICK x, y, z : x = SubSeq(f, 1, i - 1) /\ y = <<f[i]>> /\ z = SubSeq(f, i, n)
    OBVIOUS
  <2>3. x \in Seq(S) /\ Len(x) = i - 1
    BY <1>2, <1>4, <2>2
  <2>4. y \in Seq(S) /\ Len(y) = 1
    BY <1>1, <1>2, <2>2
  <2>5. z \in Seq(S) /\ Len(z) = n - i + 1 /\ z[1] = f[i]
    <3>1. i \in 1..(n + 1) /\ n \in i..n /\ 1 \in 1..(n - i + 1) /\ i + 1 - 1 = i
      BY <1>2
    <3> QED
      BY <1>2, <1>3, <2>2, <3>1
  <2>6. g = (x \o y) \o z
    BY <1>1, <2>1, <2>2 DEF InsertAt
  <2>7. x \o y \in Seq(S) /\ Len(x \o y) = i
    <3>1. x \o y \in Seq(S) /\ Len(x \o y) = Len(x) + Len(y)
      BY <2>3, <2>4, ConcatProperties
    <3> QED
      BY <1>2, <2>3, <2>4, <3>1
  <2>8. Len(g) = n + 1 /\ g[i + 1] = f[i]
    <3>1. i + 1 \in 1..(i + Len(z)) /\ ~(i + 1 <= i) /\ (i + 1) - i = 1
      BY <1>2, <2>5
    <3>2. PICK w : w = x \o y
      OBVIOUS
    <3>3. w \in Seq(S) /\ Len(w) = i /\ g = w \o z
      BY <2>6, <2>7, <3>2
    <3>4. Len(g) = Len(w) + Len(z) /\ \A k \in 1..(Len(w) + Len(z)) :
            g[k] = IF k <= Len(w) THEN w[k] ELSE z[k - Len(w)]
      BY <2>5, <3>3, ConcatProperties
    <3>5. Len(g) = n + 1
      BY <1>2, <2>5, <3>3, <3>4
    <3>6. g[i + 1] = z[1]
      BY <3>1, <3>3, <3>4
    <3> QED
      BY <2>5, <3>5, <3>6
  <2>9. i + 1 \in 1..Len(g) /\ i + 1 # i /\ Len(g) \in Nat
    BY <1>2, <2>8
  <2> QED
    BY <1>1, <2>8, <2>9
<1>7. CASE \E i \in 1..(n - 1) : g = ReplaceAt(ReplaceAt(f, i, f[i + 1]), i + 1, f[i])
  <2>1. PICK i \in 1..(n - 1) : g = ReplaceAt(ReplaceAt(f, i, f[i + 1]), i + 1, f[i])
    BY <1>7
  <2>2. i \in 1..n /\ i + 1 \in 1..n /\ i # i + 1
    BY <1>2
  <2>3. g = [[f EXCEPT ![i] = f[i + 1]] EXCEPT ![i + 1] = f[i]]
    BY <2>1 DEF ReplaceAt
  <2>4. g \in [1..n -> S] /\ g[i] = f[i + 1]
    BY <1>1, <1>2, <2>2, <2>3
  <2>5. Len(g) = n
    BY <1>2, <2>4
  <2> QED
    BY <1>1, <1>2, <2>2, <2>4, <2>5
<1> QED
  BY <1>1, <1>5, <1>6, <1>7 DEF Rearranged

\* The lines of a file with one line replaced.
LEMMA ReplacedLines ==
  ASSUME NEW f, IsSequence(f), NEW i \in 1..Len(f), NEW e, NEW g, g = ReplaceAt(f, i, e)
  PROVE  /\ Len(g) = Len(f) /\ Len(f) \in Nat /\ g[i] = e
         /\ \A j \in 1..Len(f) : j # i => g[j] = f[j]
<1>1. PICK n, S : n = Len(f) /\ S = {f[j] : j \in 1..n} \cup {e}
  OBVIOUS
<1>2. n \in Nat /\ f \in Seq(S) /\ DOMAIN f = 1..n
  <2>1. {f[j] : j \in 1..n} \subseteq S
    BY <1>1
  <2>2. f \in Seq({f[j] : j \in 1..n})
    BY <1>1 DEF IsSequence
  <2> QED
    BY <1>1, <2>1, <2>2, LenNat, SeqMonotonic
<1>3. g = [f EXCEPT ![i] = e]
  BY DEF ReplaceAt
<1>4. g \in [1..n -> S] /\ g[i] = e /\ \A j \in 1..n : j # i => g[j] = f[j]
  BY <1>1, <1>2, <1>3
<1>5. Len(g) = n
  BY <1>2, <1>4
<1> QED
  BY <1>1, <1>2, <1>4, <1>5

LEMMA AlteredLength ==
  ASSUME IsSequence(file)
  PROVE  \A f \in Altered(file) : Len(f) \in Nat
<1> SUFFICES ASSUME NEW f \in Altered(file) PROVE Len(f) \in Nat
  OBVIOUS
<1>1. CASE f \in Rearranged(file)
  BY <1>1, RearrangedLines
<1>2. ASSUME NEW i \in 1..Len(file), f \in Edited(file, i) PROVE Len(f) \in Nat
  <2>1. PICK e : f = ReplaceAt(file, i, e)
    BY <1>2 DEF Edited
  <2> QED
    BY <2>1, ReplacedLines
<1> QED
  BY <1>1, <1>2 DEF Altered

(***************************************************************************)
(* The ledger passes, and only the ledger.                                 *)
(***************************************************************************)

\* A reader of the file, line by line.
LEMMA TrailReads ==
  ASSUME TypeOK, HistoryOK(file, trail)
  PROVE  /\ \A i \in 0..Len(file) : SealsThrough(file, i) = trail[i + 1].seals_seen
         /\ \A i \in 1..Len(file) : ChainLinked(file, i) /\ MacUnder(file, i, file[i].hash.key)
<1>1. PICK n : n = Len(file)
  OBVIOUS
<1>2. n \in Nat /\ trail[1] = ScanInit /\ \A i \in 1..n : LineOK(file, trail, i)
  BY <1>1, LenNat DEF TypeOK, HistoryOK, HistoryThrough
<1>3. PICK s : s = [i \in 0..n |-> trail[i + 1]]
  OBVIOUS
<1>4. Reads(file, s, n)
  <2>1. s[0] = ScanInit
    BY <1>2, <1>3
  <2>2. ASSUME NEW i \in 1..n PROVE s[i] = Accept(s[i - 1], file[i])
    <3>1. s[i] = trail[i + 1] /\ s[i - 1] = trail[i]
      BY <1>2, <1>3
    <3>2. LineOK(file, trail, i)
      BY <1>2
    <3> QED
      BY <3>1, <3>2 DEF LineOK
  <2> QED
    BY <2>1, <2>2 DEF Reads
<1>5. \A i \in 0..n : SealsThrough(file, i) = trail[i + 1].seals_seen
  <2>1. \A i \in 0..n : s[i].seals_seen = SealsThrough(file, i)
    BY <1>2, <1>4, ReadsCount
  <2> QED
    BY <1>3, <2>1
<1>6. ASSUME NEW i \in 1..n PROVE ChainLinked(file, i) /\ MacUnder(file, i, file[i].hash.key)
  <2>1. s[i - 1].last_hash = LastHash(file, i)
    BY <1>2, <1>4, ReadsLast
  <2>2. s[i - 1] = trail[i] /\ LineOK(file, trail, i)
    BY <1>2, <1>3
  <2>3. SupportedVersion(file[i].v)
    BY <1>1 DEF TypeOK, EntryOK, SupportedVersion
  <2> QED
    BY <2>1, <2>2, <2>3 DEF LineOK, Linked, ChainLinked, MacUnder
<1> QED
  BY <1>1, <1>5, <1>6

\* With the keyring that wrote them all lines pass.
LEMMA LinesKeyed ==
  ASSUME TypeOK, HistoryOK(file, trail), NEW ks, RingMatches(ks), NEW i \in 1..Len(file)
  PROVE  KeyedOK(file, i, ks)
<1>1. /\ SealsThrough(file, i) = trail[i + 1].seals_seen
      /\ ChainLinked(file, i) /\ MacUnder(file, i, file[i].hash.key)
  <2>1. i \in 0..Len(file)
    BY LenNat DEF TypeOK
  <2> QED
    BY <2>1, TrailReads
<1>2. LineOK(file, trail, i)
  BY DEF HistoryOK, HistoryThrough
<1>3. HasKey(ks, file[i].epoch) /\ file[i].hash.key.seed = ks[file[i].epoch + 1]
  BY DEF RingMatches
<1>4. file[i].hash.key = entry_key(ks, file[i].epoch, SealsThrough(file, i), file[i].v)
  BY <1>1, <1>2, <1>3 DEF LineOK, entry_key, segment_key, BaseKey
<1> QED
  BY <1>1, <1>3, <1>4 DEF KeyedOK

\* A ring under which all lines pass is the one that wrote them.
LEMMA KeyedMatches ==
  ASSUME NEW ks, \A i \in 1..Len(file) : KeyedOK(file, i, ks)
  PROVE  RingMatches(ks)
<1>1. ASSUME NEW i \in 1..Len(file)
      PROVE  HasKey(ks, file[i].epoch) /\ ks[file[i].epoch + 1] = file[i].hash.key.seed
  <2>1. KeyedOK(file, i, ks)
    OBVIOUS
  <2>2. file[i].hash.key = entry_key(ks, file[i].epoch, SealsThrough(file, i), file[i].v)
    BY <2>1 DEF KeyedOK, MacUnder, event_hash
  <2> QED
    BY <2>1, <2>2 DEF KeyedOK, entry_key, segment_key, BaseKey
<1> QED
  BY <1>1 DEF RingMatches

\* Each key that a seal reveals is the one its segment was written under.
LEMMA SealsHonest ==
  ASSUME TypeOK, HistoryOK(file, trail), SealedOK(file, trail), NEW ks, RingMatches(ks),
         NEW i \in 1..Len(file), IsSeal(file[i])
  PROVE  HonestReveal(file, i, ks)
<1>1. PICK s, r, n : s = trail[i] /\ r = file[i].body /\ n = i - 1
  OBVIOUS
<1>2. /\ Len(file) \in Nat /\ n \in Nat /\ n \in 0..Len(file) /\ s = trail[n + 1]
      /\ SealBody(file, s, n, r) /\ SegmentOK(file, trail, n) /\ PointOK(file, trail, n)
      /\ ScanOK(s)
  <2>1. Len(file) \in Nat /\ Len(trail) = Len(file) + 1
    BY LenNat DEF TypeOK
  <2>2. n \in Nat /\ n \in 0..Len(file) /\ i \in 1..Len(trail) /\ s = trail[n + 1]
    BY <1>1, <2>1
  <2>3. SealBody(file, s, n, r) /\ SegmentOK(file, trail, n)
    BY <1>1, <2>2 DEF SealedOK
  <2>4. PointOK(file, trail, n) /\ ScanOK(s)
    BY <1>1, <2>2 DEF HistoryOK, HistoryThrough, TypeOK
  <2> QED
    BY <2>1, <2>2, <2>3, <2>4
<1>3. s.seals_seen \in Nat /\ s.sealed_through \in Nat /\ s.legacy_segment0 \in BOOLEAN
  BY <1>2 DEF ScanOK, ViewOK
<1>4. s.seals_seen = 0 => s.sealed_through = 0
  BY <1>2 DEF PointOK
<1>5. ASSUME NEW j \in Segment(s, n)
      PROVE  /\ j \in 1..n /\ LineOK(file, trail, j)
             /\ file[j].hash.key.seg = IF s.seals_seen = 0 /\ s.legacy_segment0
                                       THEN BASE ELSE s.seals_seen
  <2>1. j \in 1..n /\ j \in 1..Len(file)
    BY <1>2, <1>3 DEF Segment
  <2>2. LineOK(file, trail, j)
    BY <2>1 DEF HistoryOK, HistoryThrough
  <2> QED
    BY <1>2, <2>1, <2>2 DEF SegmentOK
<1>6. ASSUME s.seals_seen = 0 PROVE Seg0HadLegacy(file, i) <=> s.legacy_segment0
  <2>1. ASSUME NEW j \in 1..n
        PROVE  /\ j \in 1..Len(file) /\ file[j].v \in 1..3
               /\ file[j].v < 3 <=> s.legacy_segment0
    <3>1. j \in Segment(s, n) /\ j \in 1..Len(file) /\ j + 1 \in 1..Len(trail)
      BY <1>2, <1>4, <1>6 DEF Segment, TypeOK
    <3>2. /\ file[j].hash.key.seg = IF file[j].v < 3 THEN BASE ELSE trail[j + 1].seals_seen
          /\ file[j].hash.key.seg = IF s.legacy_segment0 THEN BASE ELSE 0
      <4>1. LineOK(file, trail, j)
        BY <1>5, <3>1
      <4>2. file[j].hash.key.seg = IF s.legacy_segment0 THEN BASE ELSE 0
        BY <1>5, <1>6, <3>1
      <4> QED
        BY <4>1, <4>2 DEF LineOK
    <3>3. trail[j + 1].seals_seen \in Nat /\ file[j].v \in 1..3
      BY <3>1 DEF TypeOK, ScanOK, ViewOK, EntryOK
    <3> QED
      BY <1>3, <3>1, <3>2, <3>3 DEF BASE
  <2>2. file[i].v = 3
    BY DEF HistoryOK, HistoryThrough, LineOK
  <2>3. CASE s.legacy_segment0
    <3>0. s.sealed_through < n
      BY <1>2, Zenon DEF SealBody
    <3>1. 1 \in 1..n /\ 1 \in 1..i /\ 1 - 1 = 0
      BY <1>1, <1>2, <1>3, <3>0
    <3>2. file[1].v < 3 /\ SealsThrough(file, 1 - 1) = 0
      BY <2>1, <2>3, <3>1, SealsThroughStep
    <3> QED
      BY <2>3, <3>1, <3>2 DEF Seg0HadLegacy
  <2>4. CASE ~s.legacy_segment0
    <3>1. ASSUME NEW j \in 1..i PROVE ~(file[j].v < 3)
      <4>1. j \in 1..n \/ j = i
        BY <1>1, <1>2
      <4> QED
        BY <2>1, <2>2, <2>4, <4>1
    <3> QED
      BY <2>4, <3>1 DEF Seg0HadLegacy
  <2> QED
    BY <2>3, <2>4
<1>7. ASSUME NEW ep \in DOMAIN r.revealed
      PROVE  /\ HasKey(ks, ep)
             /\ r.revealed[ep] = IF r.segment = 0 /\ Seg0HadLegacy(file, i)
                                 THEN BaseKey(ks[ep + 1])
                                 ELSE segment_key(BaseKey(ks[ep + 1]), r.segment)
  <2>1. PICK j \in Segment(s, n) : ep = file[j].epoch
    BY <1>2 DEF SealBody
  <2>2. r.revealed[ep] = file[j].hash.key /\ r.segment = s.seals_seen
    BY <1>2, <2>1 DEF SealBody
  <2>3. PICK key : key = file[j].hash.key
    OBVIOUS
  <2>4. key = [seed |-> key.seed, seg |-> key.seg]
    <3>1. LineOK(file, trail, j)
      BY <1>5
    <3> QED
      BY <2>3, <3>1 DEF LineOK
  <2>5. HasKey(ks, ep) /\ key.seed = ks[ep + 1]
    <3>1. j \in 1..Len(file)
      BY <1>2, <1>5
    <3> QED
      BY <2>1, <2>3, <3>1 DEF RingMatches
  <2>6. key.seg = IF s.seals_seen = 0 /\ s.legacy_segment0 THEN BASE ELSE s.seals_seen
    BY <1>5, <2>3
  <2> QED
    BY <1>6, <2>2, <2>3, <2>4, <2>5, <2>6 DEF BaseKey, segment_key
<1> QED
  BY <1>1, <1>7 DEF HonestReveal

LEMMA VerifyInvAlways ==
  ASSUME Reliable
  PROVE  Spec => []VerifyInv
<1>1. Init => VerifyInv
  <2> SUFFICES ASSUME Init PROVE KeyInv /\ SealedOK(file, trail)
    BY DEF VerifyInv
  <2>1. /\ Len(file) = 0 /\ Len(trail) = 1 /\ trail[1] = ScanInit /\ keys = << >>
    BY DEF Init
  <2>2. KeyInv
    <3>1. ScanInit.seals_seen <= ScanInit.seals_seen
      BY DEF ScanInit
    <3> QED
      BY <2>1, <3>1, InvInit, FaultInit DEF KeyInv, FaultInv, Distinct, PublishedOK, OnlyGrows, NoReuse
  <2>3. SealedOK(file, trail)
    BY <2>1 DEF SealedOK, SegmentOK, Segment, ScanInit
  <2> QED
    BY <2>2, <2>3
<1>2. VerifyInv /\ [Next]_vars => VerifyInv'
  BY VerifyStep
<1> QED
  BY <1>1, <1>2, PTL DEF Spec

\* Whatever rotations, seals, restarts and formats led to it, on reliable
\* storage the ledger passes verify() with the keyring that wrote it: all its
\* seals disclose the keys of the segment they close, and nothing else.
THEOREM LedgerVerifies ==
  ASSUME Reliable
  PROVE  Spec => []KeyedVerifyAccepts
<1>1. VerifyInv => KeyedVerifyAccepts
  <2> SUFFICES ASSUME VerifyInv, AtRest, NEW ks \in Rings, RingMatches(ks)
               PROVE  verify(file, tail, ks) = "Ok"
    BY DEF KeyedVerifyAccepts
  <2>1. TypeOK /\ HistoryOK(file, trail) /\ SealedOK(file, trail) /\ Len(file) \in Nat
    BY LenNat DEF VerifyInv, KeyInv, Inv, TypeOK
  <2>2. \A i \in 1..Len(file) : KeyedOK(file, i, ks)
    BY <2>1, LinesKeyed
  <2>3. \A i \in 1..Len(file) : IsSeal(file[i]) => HonestReveal(file, i, ks)
    BY <2>1, SealsHonest
  <2> QED
    BY <2>1, <2>2, <2>3, VerifyMeans DEF AtRest
<1> QED
  BY <1>1, VerifyInvAlways, PTL

\* The scan of `open' and verify(), written apart, take the same decision on
\* the ledger with every keyring, and no altered file passes verify() that
\* would not open.
THEOREM ReadersAgree ==
  ASSUME Reliable
  PROVE  Spec => []OpenAgreesWithVerify
<1>1. VerifyInv => OpenAgreesWithVerify
  <2> SUFFICES ASSUME VerifyInv, AtRest, NEW ks \in Rings
               PROVE  /\ OpenAccepts(file, tail, ks) <=> verify(file, tail, ks) = "Ok"
                      /\ \A f \in Altered(file) :
                           verify(f, tail, ks) = "Ok" => OpenAccepts(f, tail, ks)
    BY DEF OpenAgreesWithVerify
  <2>1. TypeOK /\ HistoryOK(file, trail) /\ SealedOK(file, trail) /\ Len(file) \in Nat
    BY LenNat DEF VerifyInv, KeyInv, Inv, TypeOK
  <2>2. ASSUME OpenAccepts(file, tail, ks) PROVE verify(file, tail, ks) = "Ok"
    <3>1. \A i \in 1..Len(file) : KeyedOK(file, i, ks)
      BY <2>1, <2>2, OpenMeans
    <3>2. \A i \in 1..Len(file) : IsSeal(file[i]) => HonestReveal(file, i, ks)
      BY <2>1, <3>1, KeyedMatches, SealsHonest
    <3> QED
      BY <2>1, <3>1, <3>2, VerifyMeans DEF AtRest
  <2>3. ASSUME NEW f, Len(f) \in Nat, verify(f, tail, ks) = "Ok" PROVE OpenAccepts(f, tail, ks)
    BY <2>3, OpenMeans, VerifyMeans
  <2>4. \A f \in Altered(file) : Len(f) \in Nat
    BY <2>1, AlteredLength DEF TypeOK
  <2> QED
    BY <2>1, <2>2, <2>3, <2>4
<1> QED
  BY <1>1, VerifyInvAlways, PTL

(***************************************************************************)
(* What the alterations of Verify need to be alterations at all: the empty *)
(* string is no digest and no signature, and nobody wrote or signed what   *)
(* stands for a forged body, seed or public key.                           *)
(***************************************************************************)
MarksApart ==
  /\ NoHash # ZeroHash
  /\ \A v, prev, seq, etype, body, key :
       event_hash(v, prev, seq, etype, body, key) \notin {NoHash, Tampered}
  /\ \A x : mth(x) # NoHash
  /\ \A x, y, z : [scheme |-> x, by |-> y, over |-> z] # NoHash
  /\ \A r : seal_payload(r) \notin {NoHash, Tampered}
  /\ NoHash \notin {DATA_EVENT, KEY_ROTATION_EVENT, SEAL_EVENT}
  /\ Tampered # NoHash /\ Tampered \notin Payloads /\ Tampered \notin Seeds
  /\ \A m \in Nat : Tampered # [epoch |-> m]
  /\ \A signer \in Signers : signer.public_key # "other"

\* A hash on file is none of the marks.
LEMMA HashMarks ==
  ASSUME MarksApart, HistoryOK(file, trail), SealedOK(file, trail), NEW j \in 1..Len(file)
  PROVE  /\ file[j].hash # NoHash /\ file[j].hash # Tampered
         /\ file[j].hash.key.seed # Tampered
<1>1. LineOK(file, trail, j) /\ ShapeOK(file[j])
  BY DEF HistoryOK, HistoryThrough, SealedOK
<1>2. \E v, prev, seq, etype, body, key :
        file[j].hash = event_hash(v, prev, seq, etype, body, key)
  BY <1>1, Zenon DEF LineOK
<1>3. file[j].hash \notin {NoHash, Tampered}
  BY <1>2, Zenon DEF MarksApart
<1> QED
  BY <1>1, <1>3 DEF ShapeOK, MarksApart

\* The fields of a line that an alteration must not hit by chance.
LEMMA LineMarks ==
  ASSUME MarksApart, TypeOK, HistoryOK(file, trail), SealedOK(file, trail),
         NEW i \in 1..Len(file), NEW x, x = file[i]
  PROVE  /\ Parsed(x) /\ x.seq = i /\ x.hash # NoHash /\ x.prev_hash # NoHash
         /\ x.etype # NoHash /\ (~IsSeal(x) => x.body # Tampered)
<1>1. LineOK(file, trail, i) /\ ShapeOK(x)
  BY DEF HistoryOK, HistoryThrough, SealedOK
<1>2. \A j \in 1..Len(file) : file[j].hash # NoHash
  BY HashMarks
<1>3. x.prev_hash = LastHash(file, i)
  BY TrailReads DEF ChainLinked
<1>4. LastHash(file, i) # NoHash
  <2>1. i # 1 => i - 1 \in 1..Len(file)
    BY LenNat DEF TypeOK
  <2> QED
    BY <1>2, <2>1 DEF LastHash, MarksApart
<1>5. x.seq = i
  BY <1>1 DEF LineOK
<1>6. ~IsSeal(x) => x.body # Tampered
  BY <1>1 DEF ShapeOK, MarksApart
<1>7. x.etype # NoHash
  BY DEF TypeOK, EntryOK, MarksApart
<1> QED
  BY <1>1, <1>2, <1>3, <1>4, <1>5, <1>6, <1>7 DEF ShapeOK

\* The same for the body of a seal.
LEMMA SealMarks ==
  ASSUME MarksApart, TypeOK, HistoryOK(file, trail), SealedOK(file, trail),
         NEW i \in 1..Len(file), IsSeal(file[i]), NEW r, r = file[i].body
  PROVE  /\ r.segment \in Nat /\ r.start_seq \in Nat /\ r.end_seq \in Nat
         /\ r.tip_hash # NoHash /\ r.merkle_root # NoHash /\ r.prev_seal # Tampered
         /\ r.public_key # "other" /\ r.signature # NoHash /\ r.payload \notin {NoHash, Tampered}
         /\ \E ep \in DOMAIN r.revealed : r.revealed[ep].seed # Tampered
<1>1. PICK s, n : s = trail[i] /\ n = i - 1
  OBVIOUS
<1>2. /\ Len(file) \in Nat /\ n \in Nat /\ ScanOK(s) /\ SealBody(file, s, n, r)
  <2>1. Len(file) \in Nat /\ i \in 1..Len(trail)
    BY LenNat DEF TypeOK
  <2> QED
    BY <1>1, <2>1 DEF TypeOK, SealedOK
<1>3. s.seals_seen \in Nat /\ s.sealed_through \in Nat /\ s.sealed_through < n
  BY <1>2 DEF ScanOK, ViewOK, SealBody
<1>4. n \in 1..Len(file) /\ s.sealed_through + 1 \in 1..Len(file) /\ n \in Segment(s, n)
  BY <1>1, <1>2, <1>3 DEF Segment
<1>5. \A j \in 1..Len(file) : file[j].hash # NoHash /\ file[j].hash # Tampered
                              /\ file[j].hash.key.seed # Tampered
  BY HashMarks
<1>6. /\ r.segment = s.seals_seen /\ r.start_seq = s.sealed_through + 1 /\ r.end_seq = n
      /\ r.tip_hash = file[n].hash
      /\ r.prev_seal = IF s.seals_seen = 0 THEN NoHash ELSE file[s.sealed_through + 1].hash
  BY <1>2 DEF SealBody
<1>7. /\ r.merkle_root # NoHash /\ r.signature # NoHash /\ r.public_key # "other"
      /\ r.payload \notin {NoHash, Tampered}
  <2>1. \E x : r.merkle_root = mth(x)
    BY <1>2, Zenon DEF SealBody
  <2>2. \E x, y, z : r.signature = [scheme |-> x, by |-> y, over |-> z]
    BY <1>2, Zenon DEF SealBody
  <2>3. \E signer \in Signers : r.public_key = signer.public_key
    BY <1>2, Zenon DEF SealBody
  <2>4. \E x : r.payload = seal_payload(x)
    BY <1>2, Zenon DEF SealBody
  <2> QED
    BY <2>1, <2>2, <2>3, <2>4, Zenon DEF MarksApart
<1>8. file[n].epoch \in DOMAIN r.revealed /\ r.revealed[file[n].epoch] = file[n].hash.key
  BY <1>2, <1>4 DEF SealBody
<1>9. r.segment \in Nat /\ r.start_seq \in Nat /\ r.end_seq \in Nat
  BY <1>2, <1>3, <1>6
<1>10. r.tip_hash # NoHash /\ r.prev_seal # Tampered
  BY <1>4, <1>5, <1>6 DEF MarksApart
<1>11. \E ep \in DOMAIN r.revealed : r.revealed[ep].seed # Tampered
  BY <1>4, <1>5, <1>8
<1> QED
  BY <1>7, <1>9, <1>10, <1>11

\* A change of one field other than the hash leaves the hash.
SameHash(x, e) == e # x /\ e.hash = x.hash /\ Parsed(e)

LEMMA FieldEditsDiffer ==
  ASSUME MarksApart, TypeOK, HistoryOK(file, trail), SealedOK(file, trail),
         NEW i \in 1..Len(file), NEW x, x = file[i], NEW e \in FieldEdits(x)
  PROVE  e.hash = NoHash \/ SameHash(x, e)
<1>1. /\ Parsed(x) /\ x.seq \in Nat /\ x.hash # NoHash /\ x.prev_hash # NoHash
      /\ x.etype # NoHash /\ (~IsSeal(x) => x.body # Tampered)
  <2>1. Len(file) \in Nat
    BY LenNat DEF TypeOK
  <2>2. /\ Parsed(x) /\ x.seq = i /\ x.hash # NoHash /\ x.prev_hash # NoHash
        /\ x.etype # NoHash /\ (~IsSeal(x) => x.body # Tampered)
    BY LineMarks
  <2> QED
    BY <2>1, <2>2
<1>2. ASSUME NEW y \in (0..4) \ {x.v}, e = [x EXCEPT !.v = y] PROVE SameHash(x, e)
  BY <1>1, <1>2 DEF SameHash, Parsed
<1>3. ASSUME NEW y \in (0..MAX_EPOCH) \ {x.epoch}, e = [x EXCEPT !.epoch = y] PROVE SameHash(x, e)
  BY <1>1, <1>3, BoundAssumption DEF SameHash, Parsed
<1>4. CASE e = [x EXCEPT !.seq = @ + 1]
  BY <1>1, <1>4 DEF SameHash, Parsed
<1>5. CASE e = [x EXCEPT !.prev_hash = NoHash]
  BY <1>1, <1>5 DEF SameHash, Parsed
<1>6. CASE e = [x EXCEPT !.hash = NoHash]
  BY <1>1, <1>6 DEF Parsed
<1>7. ASSUME NEW y \in {DATA_EVENT, KEY_ROTATION_EVENT} \ {x.etype}, e = [x EXCEPT !.etype = y]
      PROVE  SameHash(x, e)
  BY <1>1, <1>7 DEF SameHash, Parsed
<1>8. CASE ~IsSeal(x) /\ e = [x EXCEPT !.body = Tampered]
  BY <1>1, <1>8 DEF SameHash, Parsed
<1>9. CASE e = Resplit(x)
  BY <1>1, <1>9 DEF SameHash, Parsed, Resplit
<1> QED
  BY <1>2, <1>3, <1>4, <1>5, <1>6, <1>7, <1>8, <1>9 DEF FieldEdits

\* An altered seal says something else.
LEMMA BodyEditsDiffer ==
  ASSUME MarksApart, TypeOK, HistoryOK(file, trail), SealedOK(file, trail),
         NEW i \in 1..Len(file), IsSeal(file[i]), NEW r, r = file[i].body, NEW b \in BodyEdits(r)
  PROVE  b # r
<1>1. r = [segment |-> r.segment, start_seq |-> r.start_seq, end_seq |-> r.end_seq,
           tip_hash |-> r.tip_hash, merkle_root |-> r.merkle_root, revealed |-> r.revealed,
           prev_seal |-> r.prev_seal, scheme |-> r.scheme, public_key |-> r.public_key,
           signature |-> r.signature, payload |-> r.payload]
  BY DEF SealedOK, SealBody
<1>2. /\ r.segment \in Nat /\ r.start_seq \in Nat /\ r.end_seq \in Nat
      /\ r.tip_hash # NoHash /\ r.merkle_root # NoHash /\ r.prev_seal # Tampered
      /\ r.public_key # "other" /\ r.signature # NoHash /\ r.payload \notin {NoHash, Tampered}
  BY SealMarks
<1>3. PICK ep \in DOMAIN r.revealed : r.revealed[ep].seed # Tampered
  BY SealMarks
<1>4. CASE b = [r EXCEPT !.segment = @ + 1]
  BY <1>1, <1>2, <1>4
<1>5. CASE b = [r EXCEPT !.start_seq = @ + 1]
  BY <1>1, <1>2, <1>5
<1>6. CASE b = [r EXCEPT !.end_seq = @ + 1]
  BY <1>1, <1>2, <1>6
<1>7. CASE b \in {[r EXCEPT !.tip_hash = NoHash], [r EXCEPT !.merkle_root = NoHash],
                  [r EXCEPT !.prev_seal = Tampered], [r EXCEPT !.public_key = "other"],
                  [r EXCEPT !.signature = NoHash], [r EXCEPT !.payload = NoHash],
                  [r EXCEPT !.payload = Tampered]}
  BY <1>1, <1>2, <1>7
<1>8. CASE b = [r EXCEPT !.revealed = [x \in DOMAIN @ |-> BaseKey(Tampered)]]
  <2>1. b.revealed[ep].seed = Tampered
    BY <1>1, <1>3, <1>8 DEF BaseKey
  <2> QED
    BY <1>3, <2>1
<1>9. ASSUME NEW y \in SealSchemes \ {r.scheme}, b = [r EXCEPT !.scheme = y] PROVE b # r
  BY <1>1, <1>9
<1> QED
  BY <1>4, <1>5, <1>6, <1>7, <1>8, <1>9 DEF BodyEdits

\* Every change of one line is a change, and leaves the hash or empties it.
LEMMA EditsDiffer ==
  ASSUME MarksApart, TypeOK, HistoryOK(file, trail), SealedOK(file, trail),
         NEW i \in 1..Len(file), NEW x, x = file[i], NEW e \in EntryEdits(x)
  PROVE  e.hash = NoHash \/ SameHash(x, e)
<1>1. CASE e \in FieldEdits(x)
  BY <1>1, FieldEditsDiffer
<1>2. CASE IsSeal(x) /\ e \in SealEdits(x)
  <2>1. PICK b \in BodyEdits(x.body) : e = [x EXCEPT !.body = b]
    BY <1>2 DEF SealEdits
  <2>2. b # x.body
    BY <1>2, BodyEditsDiffer
  <2>3. Parsed(x)
    BY LineMarks
  <2> QED
    BY <2>1, <2>2, <2>3 DEF SameHash, Parsed
<1> QED
  BY <1>1, <1>2 DEF EntryEdits

\* Changing any field of any entry, deleting a line that others follow,
\* duplicating a line or exchanging two is refused by verify() and by `open',
\* for a ledger of any length under any keyring.  Only where event_type ends
\* and body begins can be changed in a v1 entry.
THEOREM TamperingShows ==
  ASSUME Reliable, MarksApart
  PROVE  Spec => []KeyedTamperEvident
<1>1. VerifyInv => KeyedTamperEvident
  <2> SUFFICES ASSUME VerifyInv, NEW ks \in Rings, RingMatches(ks)
               PROVE  /\ \A f \in Rearranged(file) : KeyedRefused(f, ks)
                      /\ \A i \in 1..Len(file) : \A e \in EntryEdits(file[i]) :
                           SameText(file[i], e) \/ KeyedRefused(ReplaceAt(file, i, e), ks)
    BY DEF KeyedTamperEvident
  <2>1. /\ TypeOK /\ HistoryOK(file, trail) /\ SealedOK(file, trail)
        /\ IsSequence(file) /\ Len(file) \in Nat
    <3>1. TypeOK /\ HistoryOK(file, trail) /\ SealedOK(file, trail) /\ IsSequence(file)
      BY DEF VerifyInv, KeyInv, Inv, TypeOK
    <3> QED
      BY <3>1, LenNat
  <2>2. ASSUME NEW f, Len(f) \in Nat, ~KeyedRefused(f, ks)
        PROVE  \A i \in 1..Len(f) : KeyedOK(f, i, ks)
    BY <2>2, OpenMeans, VerifyMeans DEF KeyedRefused
  <2>3. ASSUME NEW f \in Rearranged(file), ~KeyedRefused(f, ks) PROVE FALSE
    <3>1. PICK i \in 1..Len(f) : \E j \in 1..Len(file) : f[i] = file[j] /\ i # j
      BY <2>1, RearrangedLines
    <3>2. PICK j \in 1..Len(file) : f[i] = file[j] /\ i # j
      BY <3>1
    <3>3. KeyedOK(f, i, ks) /\ KeyedOK(file, j, ks)
      <4>1. Len(f) \in Nat
        BY <2>1, RearrangedLines
      <4> QED
        BY <2>1, <2>2, <2>3, <4>1, LinesKeyed
    <3>4. f[i].seq = i /\ file[j].seq = j
      BY <3>3 DEF KeyedOK, ChainLinked
    <3> QED
      BY <3>2, <3>4
  <2>4. ASSUME NEW i \in 1..Len(file), NEW e \in EntryEdits(file[i]),
               ~KeyedRefused(ReplaceAt(file, i, e), ks)
        PROVE  SameText(file[i], e)
    <3>1. PICK f : f = ReplaceAt(file, i, e)
      OBVIOUS
    <3>2. Len(f) = Len(file) /\ f[i] = e
      BY <2>1, <3>1, ReplacedLines
    <3>3. KeyedOK(f, i, ks) /\ KeyedOK(file, i, ks) /\ i \in Nat /\ Parsed(file[i])
      BY <2>1, <2>2, <2>4, <3>1, <3>2, LinesKeyed DEF SealedOK, ShapeOK
    <3>4. e.hash = NoHash \/ SameHash(file[i], e)
      BY <2>1, EditsDiffer
    <3>5. e.hash # NoHash
      BY <3>2, <3>3 DEF KeyedOK, MacUnder, MarksApart
    <3>6. Parsed(f[i]) /\ file[i].hash = f[i].hash /\ f[i] # file[i]
      BY <3>2, <3>4, <3>5 DEF SameHash
    <3>7. SameLine(file[i], f[i])
      BY <3>3, <3>6, RingShape, LineBound
    <3>8. ~SameText(f[i], file[i])
      <4>1. file[i].etype # NoHash
        BY <2>1, LineMarks
      <4> QED
        BY <3>6, <4>1 DEF SameText, Resplit, Parsed
    <3> QED
      BY <3>2, <3>6, <3>7, <3>8 DEF SameLine
  <2> QED
    BY <2>3, <2>4
<1> QED
  BY <1>1, VerifyInvAlways, PTL

(***************************************************************************)
(* Public verification.                                                    *)
(***************************************************************************)

\* finish_segment with its local names as parameters.
FinishChecks(f, i, r, prev, lo, start, first) ==
  /\ r.segment = SealsThrough(f, i - 1)
  /\ r.prev_seal = IF prev = 0 THEN NoHash ELSE f[prev].hash
  /\ lo < i /\ r.start_seq = start /\ r.end_seq = start + (i - lo) - 1
  /\ \A j \in lo..(i - 1) :
       f[j].epoch \in DOMAIN r.revealed /\ MacUnder(f, j, r.revealed[f[j].epoch])
  /\ r.merkle_root = mth([k \in 1..(i - lo) |-> f[lo + k - 1].hash])
  /\ r.tip_hash = f[i - 1].hash
  /\ r.scheme = first.scheme /\ r.public_key = first.public_key
  /\ r.payload \in {NoHash, seal_payload(r)}
  /\ verify_signature(r.scheme, r.public_key, r.signature, seal_payload(r))

LEMMA FinishMeans ==
  ASSUME NEW f, NEW i, NEW r, r = f[i].body,
         NEW prev, prev = Max({0} \cup {j \in SealLines(f) : j < i}),
         NEW lo, lo = Larger(prev, 1),
         NEW start, start = IF prev = 0 THEN 1 ELSE f[prev].seq,
         NEW first, first = f[Min(SealLines(f))].body
  PROVE  finish_segment(f, i) <=> FinishChecks(f, i, r, prev, lo, start, first)
BY Zenon DEF finish_segment, FinishChecks

\* The last seal before line i, if there is one.
LEMMA LastSealBefore ==
  ASSUME NEW f, Len(f) \in Nat, NEW i \in 1..Len(f), NEW z \in 0..(i - 1),
         z > 0 => IsSeal(f[z]), \A a \in (z + 1)..(i - 1) : ~IsSeal(f[a])
  PROVE  Max({0} \cup {j \in SealLines(f) : j < i}) = z
<1>1. PICK S : S = {0} \cup {j \in SealLines(f) : j < i}
  OBVIOUS
<1>2. \A j : j \in S <=> j = 0 \/ (j \in 1..Len(f) /\ IsSeal(f[j]) /\ j < i)
  BY <1>1 DEF SealLines
<1>3. S \subseteq 0..Len(f) /\ S # {} /\ z \in S
  BY <1>2
<1>4. Max(S) \in S /\ \A y \in S : y <= Max(S)
  BY <1>3, MaxFacts
<1>5. \A j \in S : j \in Nat /\ j <= z
  <2> SUFFICES ASSUME NEW j \in S PROVE j \in Nat /\ j <= z
    OBVIOUS
  <2>1. j = 0 \/ (j \in 1..Len(f) /\ IsSeal(f[j]) /\ j < i)
    BY <1>2
  <2>2. j \in Nat /\ (j \notin (z + 1)..(i - 1))
    BY <2>1
  <2> QED
    BY <2>1, <2>2
<1>6. PICK m : m = Max(S)
  OBVIOUS
<1>7. m \in S /\ z <= m
  BY <1>3, <1>4, <1>6, Zenon
<1>8. m \in Nat /\ m <= z
  BY <1>5, <1>7
<1>9. m = z
  BY <1>7, <1>8
<1> QED
  BY <1>1, <1>6, <1>9, Zenon

\* Files that agree through line n.
LEMMA AgreeThrough ==
  ASSUME NEW f, NEW g, NEW n \in Nat, \A j \in 1..n : g[j] = f[j]
  PROVE  /\ SealsThrough(g, n) = SealsThrough(f, n)
         /\ \A j \in 1..(n + 1) : LastHash(g, j) = LastHash(f, j)
         /\ \A j \in 1..n : \A key : MacUnder(g, j, key) <=> MacUnder(f, j, key)
<1>1. {j \in 1..n : IsSeal(g[j])} = {j \in 1..n : IsSeal(f[j])}
  OBVIOUS
<1>2. SealsThrough(g, n) = SealsThrough(f, n)
  BY <1>1, Zenon DEF SealsThrough
<1>3. ASSUME NEW j \in 1..(n + 1) PROVE LastHash(g, j) = LastHash(f, j)
  <2>1. j # 1 => j - 1 \in 1..n
    OBVIOUS
  <2> QED
    BY <2>1 DEF LastHash
<1>4. ASSUME NEW j \in 1..n, NEW key PROVE MacUnder(g, j, key) <=> MacUnder(f, j, key)
  <2>1. LastHash(g, j) = LastHash(f, j)
    BY <1>3
  <2> QED
    BY <2>1 DEF MacUnder
<1> QED
  BY <1>2, <1>3, <1>4

\* The checks on a seal b at line i, whose first seal is `first', when the lines
\* before it are the ledger's and the ledger has the seal r at line i.
StandsFor(b, i, r, first) ==
  /\ b.segment = r.segment /\ b.prev_seal = r.prev_seal
  /\ b.start_seq = r.start_seq /\ b.end_seq = r.end_seq
  /\ \A j \in Segment(trail[i], i - 1) :
       file[j].epoch \in DOMAIN b.revealed /\ MacUnder(file, j, b.revealed[file[j].epoch])
  /\ b.merkle_root = r.merkle_root /\ b.tip_hash = r.tip_hash
  /\ b.scheme = first.scheme /\ b.public_key = first.public_key
  /\ b.payload \in {NoHash, seal_payload(b)}
  /\ verify_signature(b.scheme, b.public_key, b.signature, seal_payload(b))

LEMMA FinishAt ==
  ASSUME TypeOK, HistoryOK(file, trail), SealedOK(file, trail),
         NEW i \in 1..Len(file), IsSeal(file[i]), NEW r, r = file[i].body,
         NEW g, Len(g) \in Nat, i <= Len(g), \A j \in 1..(i - 1) : g[j] = file[j],
         NEW b, b = g[i].body, NEW first, first = g[Min(SealLines(g))].body
  PROVE  finish_segment(g, i) <=> StandsFor(b, i, r, first)
<1>1. PICK s, n, st : s = trail[i] /\ n = i - 1 /\ st = s.sealed_through
  OBVIOUS
<1>2. /\ Len(file) \in Nat /\ n \in Nat /\ n \in 0..Len(file) /\ s = trail[n + 1] /\ ScanOK(s)
      /\ SealBody(file, s, n, r) /\ SegmentOK(file, trail, n) /\ PointOK(file, trail, n)
  <2>1. Len(file) \in Nat /\ i \in 1..Len(trail)
    BY LenNat DEF TypeOK
  <2>2. n \in Nat /\ n \in 0..Len(file) /\ s = trail[n + 1]
    BY <1>1, <2>1
  <2>3. SealBody(file, s, n, r) /\ ScanOK(s)
    BY <1>1, <2>1 DEF SealedOK, TypeOK
  <2>4. SegmentOK(file, trail, n) /\ PointOK(file, trail, n)
    BY <2>2 DEF SealedOK, HistoryOK, HistoryThrough
  <2> QED
    BY <2>1, <2>2, <2>3, <2>4
<1>3. /\ st \in Nat /\ s.seals_seen \in Nat /\ st < n /\ i = n + 1
      /\ \A j \in 1..n : g[j] = file[j] /\ file[j].seq = j
  <2>1. st \in Nat /\ s.seals_seen \in Nat /\ st < n
    BY <1>1, <1>2 DEF ScanOK, ViewOK, SealBody
  <2>2. ASSUME NEW j \in 1..n PROVE file[j].seq = j
    <3>1. j \in 1..Len(file)
      BY <1>2
    <3>2. LineOK(file, trail, j)
      BY <3>1 DEF HistoryOK, HistoryThrough
    <3> QED
      BY <3>2 DEF LineOK
  <2>3. i = n + 1 /\ \A j \in 1..n : g[j] = file[j]
    BY <1>1
  <2> QED
    BY <2>1, <2>2, <2>3
<1>4. PICK z : z = IF s.seals_seen = 0 THEN 0 ELSE st + 1
  OBVIOUS
<1>5. /\ z \in 0..n /\ (z > 0 => IsSeal(g[z])) /\ (\A a \in (z + 1)..n : ~IsSeal(g[a]))
      /\ Larger(z, 1) = st + 1 /\ (z > 0 => z = st + 1)
  <2>1. CASE s.seals_seen = 0
    <3>1. st = 0 /\ \A a \in 1..n : ~IsSeal(file[a])
      BY <1>1, <1>2, <2>1 DEF SegmentOK, PointOK
    <3>2. z = 0
      BY <1>4, <2>1
    <3>3. ASSUME NEW a \in (z + 1)..n PROVE ~IsSeal(g[a])
      <4>1. a \in 1..n
        BY <1>2, <3>2
      <4>2. g[a] = file[a]
        BY <1>3, <4>1
      <4> QED
        BY <3>1, <4>1, <4>2
    <3>4. Larger(z, 1) = st + 1 /\ z \in 0..n /\ ~(z > 0)
      BY <1>2, <3>1, <3>2 DEF Larger
    <3> QED
      BY <3>3, <3>4
  <2>2. CASE s.seals_seen > 0
    <3>1. /\ st + 1 \in 1..n /\ IsSeal(file[st + 1]) /\ \A a \in (st + 2)..n : ~IsSeal(file[a])
      BY <1>1, <1>2, <2>2 DEF SegmentOK
    <3>2. z = st + 1 /\ \A a \in (z + 1)..n : a \in 1..n /\ a \in (st + 2)..n
      BY <1>2, <1>3, <1>4, <2>2
    <3> QED
      BY <1>2, <1>3, <3>1, <3>2 DEF Larger
  <2> QED
    BY <1>3, <2>1, <2>2
<1>6. Max({0} \cup {j \in SealLines(g) : j < i}) = z
  <2>1. i \in 1..Len(g) /\ i - 1 = n
    BY <1>1, <1>2
  <2> QED
    BY <1>5, <2>1, LastSealBefore
<1>7. PICK start : start = IF z = 0 THEN 1 ELSE g[z].seq
  OBVIOUS
<1>8. start = st + 1
  <2>1. CASE z = 0
    BY <1>3, <1>5, <1>7, <2>1 DEF Larger
  <2>2. CASE z > 0
    <3>1. z = st + 1 /\ z \in 1..n
      BY <1>2, <1>5, <2>2
    <3> QED
      BY <1>3, <1>7, <2>2, <3>1
  <2> QED
    BY <1>2, <1>5, <2>1, <2>2
<1>9. /\ r.segment = SealsThrough(g, n)
      /\ r.prev_seal = IF z = 0 THEN NoHash ELSE g[z].hash
      /\ st + 1 < i /\ r.start_seq = start /\ r.end_seq = start + (i - (st + 1)) - 1
      /\ r.merkle_root = mth([k \in 1..(i - (st + 1)) |-> g[(st + 1) + k - 1].hash])
      /\ r.tip_hash = g[n].hash
  <2>1. r.segment = SealsThrough(g, n)
    <3>1. SealsThrough(file, n) = trail[n + 1].seals_seen
      BY <1>2, TrailReads
    <3>2. SealsThrough(g, n) = SealsThrough(file, n)
      BY <1>2, <1>3, AgreeThrough
    <3> QED
      BY <1>2, <3>1, <3>2 DEF SealBody
  <2>2. r.prev_seal = IF z = 0 THEN NoHash ELSE g[z].hash
    <3>1. r.prev_seal = IF s.seals_seen = 0 THEN NoHash ELSE file[st + 1].hash
      BY <1>1, <1>2 DEF SealBody
    <3>2. g[st + 1] = file[st + 1]
      BY <1>2, <1>3
    <3> QED
      BY <1>3, <1>4, <3>1, <3>2
  <2>3. st + 1 < i /\ r.start_seq = start /\ r.end_seq = start + (i - (st + 1)) - 1
    <3>1. r.start_seq = st + 1 /\ r.end_seq = n
      BY <1>1, <1>2 DEF SealBody
    <3> QED
      BY <1>2, <1>3, <1>8, <3>1
  <2>4. r.merkle_root = mth([k \in 1..(i - (st + 1)) |-> g[(st + 1) + k - 1].hash])
    <3>1. r.merkle_root = mth([k \in 1..(n - st) |-> file[st + k].hash])
      BY <1>1, <1>2 DEF SealBody
    <3>2. i - (st + 1) = n - st
      BY <1>2, <1>3
    <3>3. ASSUME NEW k \in 1..(n - st) PROVE g[(st + 1) + k - 1] = file[st + k]
      <4>1. (st + 1) + k - 1 = st + k /\ st + k \in 1..n
        BY <1>2, <1>3
      <4> QED
        BY <1>3, <4>1
    <3>4. [k \in 1..(n - st) |-> g[(st + 1) + k - 1].hash] = [k \in 1..(n - st) |-> file[st + k].hash]
      BY <3>3
    <3> QED
      BY <3>1, <3>2, <3>4
  <2>5. r.tip_hash = g[n].hash
    <3>1. n \in 1..n
      BY <1>2, <1>3
    <3>2. r.tip_hash = file[n].hash
      BY <1>2 DEF SealBody
    <3> QED
      BY <1>3, <3>1, <3>2
  <2> QED
    BY <2>1, <2>2, <2>3, <2>4, <2>5
<1>10. (\A j \in (st + 1)..n :
          g[j].epoch \in DOMAIN b.revealed /\ MacUnder(g, j, b.revealed[g[j].epoch]))
        <=> \A j \in Segment(s, n) :
              file[j].epoch \in DOMAIN b.revealed /\ MacUnder(file, j, b.revealed[file[j].epoch])
  <2>1. Segment(s, n) = (st + 1)..n
    BY <1>1 DEF Segment
  <2>2. ASSUME NEW j \in (st + 1)..n
        PROVE  g[j] = file[j] /\ \A key : MacUnder(g, j, key) <=> MacUnder(file, j, key)
    <3>1. j \in 1..n
      BY <1>2, <1>3
    <3> QED
      BY <1>2, <1>3, <3>1, AgreeThrough
  <2> QED
    BY <2>1, <2>2
<1>11. PICK lo : lo = st + 1
  OBVIOUS
<1>12. finish_segment(g, i) <=> FinishChecks(g, i, b, z, lo, start, first)
  <2>1. z = Max({0} \cup {j \in SealLines(g) : j < i}) /\ lo = Larger(z, 1)
    BY <1>5, <1>6, <1>11
  <2> QED
    BY <1>7, <2>1, FinishMeans, Zenon
<1> QED
  BY <1>1, <1>9, <1>10, <1>11, <1>12 DEF FinishChecks, StandsFor

\* A seal of the ledger, in a file that agrees with the ledger through it,
\* passes when it is by the first seal's anchor and that anchor is public.
ByAnchor(r, first) ==
  /\ r.scheme = first.scheme /\ r.public_key = first.public_key
  /\ r.scheme \in {"ed25519-file", "secure-enclave"}

LEMMA SealPasses ==
  ASSUME TypeOK, HistoryOK(file, trail), SealedOK(file, trail),
         NEW i \in 1..Len(file), IsSeal(file[i]), NEW r, r = file[i].body,
         NEW g, Len(g) \in Nat, i <= Len(g), \A j \in 1..i : g[j] = file[j],
         NEW first, first = g[Min(SealLines(g))].body
  PROVE  finish_segment(g, i) <=> ByAnchor(r, first)
<1>1. Len(file) \in Nat /\ trail[i].sealed_through \in Nat
  <2>1. Len(file) \in Nat /\ i \in 1..Len(trail)
    BY LenNat DEF TypeOK
  <2>2. ScanOK(trail[i])
    BY <2>1 DEF TypeOK
  <2> QED
    BY <2>1, <2>2 DEF ScanOK, ViewOK
<1>2. SealBody(file, trail[i], i - 1, r)
  BY DEF SealedOK
<1>3. r = g[i].body /\ \A j \in 1..(i - 1) : g[j] = file[j]
  BY <1>1
<1>4. ASSUME NEW j \in Segment(trail[i], i - 1)
      PROVE  file[j].epoch \in DOMAIN r.revealed /\ MacUnder(file, j, r.revealed[file[j].epoch])
  <2>1. j \in 1..Len(file)
    BY <1>1 DEF Segment
  <2>2. MacUnder(file, j, file[j].hash.key)
    BY <2>1, TrailReads
  <2>3. file[j].epoch \in DOMAIN r.revealed /\ r.revealed[file[j].epoch] = file[j].hash.key
    BY <1>2 DEF SealBody
  <2> QED
    BY <2>2, <2>3
<1>5. /\ r.payload = seal_payload(r)
      /\ r.signature = [scheme |-> r.scheme, by |-> r.public_key, over |-> seal_payload(r)]
  BY <1>2 DEF SealBody
<1>6. finish_segment(g, i) <=> StandsFor(r, i, r, first)
  BY <1>3, FinishAt, Zenon
<1>7. verify_signature(r.scheme, r.public_key, r.signature, seal_payload(r))
        <=> r.scheme \in {"ed25519-file", "secure-enclave"}
  BY <1>5 DEF verify_signature
<1>8. r.payload \in {NoHash, seal_payload(r)}
  BY <1>5
<1> QED
  BY <1>4, <1>6, <1>7, <1>8, Zenon DEF StandsFor, ByAnchor

\* The schemes a seal signer has: the three implementations of the anchor.
KnownSchemes ==
  \A signer \in Signers : signer.scheme \in {"ed25519-file", "secure-enclave", "hmac-sha256"}

\* seal::verify_public takes no lock and may read the file while a writer
\* extends it: at whatever line it stops, it accepts exactly when the seals
\* before that line are all by one anchor whose signatures can be checked in
\* public.
THEOREM PublicAccepts ==
  ASSUME Reliable, KnownSchemes
  PROVE  Spec => []PublicVerifyAccepts
<1>1. VerifyInv => PublicVerifyAccepts
  <2> SUFFICES ASSUME VerifyInv PROVE PublicVerifyAccepts
    OBVIOUS
  <2>1. TypeOK /\ HistoryOK(file, trail) /\ SealedOK(file, trail) /\ IsSequence(file)
    BY DEF VerifyInv, KeyInv, Inv, TypeOK
  <2>2. SUFFICES ASSUME NEW k \in 0..Len(file), NEW f, f = SubSeq(file, 1, k)
                 PROVE  verify_public(f, "eol") <=> OneAnchor(f)
    BY DEF PublicVerifyAccepts
  <2>3. Len(file) \in Nat /\ Len(f) = k /\ k \in Nat /\ \A i \in 1..k : f[i] = file[i]
    BY <2>1, <2>2, LenNat, SubSeqFacts
  <2>4. ASSUME NEW i \in 1..k PROVE ChainLinked(f, i)
    <3>1. i \in 1..Len(file) /\ i \in 1..(k + 1)
      BY <2>3
    <3>2. ChainLinked(file, i)
      BY <2>1, <3>1, TrailReads
    <3>3. \A j \in 1..(k + 1) : LastHash(f, j) = LastHash(file, j)
      BY <2>3, AgreeThrough, Zenon
    <3> QED
      BY <2>3, <3>1, <3>2, <3>3 DEF ChainLinked
  <2>5. PICK first : first = f[Min(SealLines(f))].body
    OBVIOUS
  <2>6. ASSUME NEW i \in 1..k, IsSeal(f[i])
        PROVE  /\ finish_segment(f, i) <=> ByAnchor(f[i].body, first)
               /\ f[i].body.scheme \in {"ed25519-file", "secure-enclave", "hmac-sha256"}
    <3>1. PICK r : r = file[i].body
      OBVIOUS
    <3>2. /\ i \in 1..Len(file) /\ f[i] = file[i] /\ IsSeal(file[i]) /\ r = f[i].body
          /\ i <= Len(f) /\ Len(f) \in Nat /\ \A j \in 1..i : f[j] = file[j]
      BY <2>3, <2>6, <3>1
    <3>3. finish_segment(f, i) <=> ByAnchor(r, first)
      BY <2>1, <2>5, <3>1, <3>2, SealPasses, Zenon
    <3>4. SealBody(file, trail[i], i - 1, r)
      BY <2>1, <3>1, <3>2 DEF SealedOK
    <3>5. r.scheme \in {"ed25519-file", "secure-enclave", "hmac-sha256"}
      BY <3>4, Zenon DEF SealBody, KnownSchemes
    <3> QED
      BY <3>2, <3>3, <3>5, Zenon
  <2>7. verify_public(f, "eol") <=> \A i \in 1..k : IsSeal(f[i]) => finish_segment(f, i)
    BY <2>3, <2>4 DEF verify_public
  <2>8. \A i : i \in SealLines(f) <=> i \in 1..k /\ IsSeal(f[i])
    BY <2>3 DEF SealLines
  <2>9. ASSUME verify_public(f, "eol") PROVE OneAnchor(f)
    <3>1. ASSUME NEW i \in SealLines(f)
          PROVE  /\ f[i].body.scheme = first.scheme /\ f[i].body.public_key = first.public_key
                 /\ f[i].body.scheme # "hmac-sha256"
      <4>1. i \in 1..k /\ IsSeal(f[i])
        BY <2>8
      <4>2. finish_segment(f, i)
        BY <2>7, <2>9, <4>1
      <4> QED
        BY <2>6, <4>1, <4>2 DEF ByAnchor
    <3> QED
      BY <3>1, Zenon DEF OneAnchor
  <2>10. ASSUME OneAnchor(f), NEW i \in 1..k, IsSeal(f[i]) PROVE finish_segment(f, i)
    <3>1. PICK m : m = Min(SealLines(f))
      OBVIOUS
    <3>2. SealLines(f) \subseteq Nat /\ i \in SealLines(f)
      BY <2>8, <2>10
    <3>3. m \in SealLines(f) /\ first = f[m].body
      BY <2>5, <3>1, <3>2, MinFacts
    <3>4. /\ f[i].body.scheme = first.scheme /\ f[i].body.public_key = first.public_key
          /\ f[i].body.scheme # "hmac-sha256"
      BY <2>10, <3>2, <3>3, Zenon DEF OneAnchor
    <3> QED
      BY <2>6, <2>10, <3>4 DEF ByAnchor
  <2> QED
    BY <2>7, <2>9, <2>10
<1> QED
  BY <1>1, VerifyInvAlways, PTL

\* The next seal after line i of a file reads line i again, whatever stands
\* there, under a key that it reveals.
LEMMA NextSealReads ==
  ASSUME NEW g, Len(g) \in Nat, NEW p \in 1..Len(g), NEW i \in 1..(p - 1),
         \A a \in (i + 1)..(p - 1) : ~IsSeal(g[a]),
         NEW r, r = g[p].body, finish_segment(g, p)
  PROVE  g[i].epoch \in DOMAIN r.revealed /\ MacUnder(g, i, r.revealed[g[i].epoch])
<1>1. PICK S : S = {0} \cup {j \in SealLines(g) : j < p}
  OBVIOUS
<1>2. \A j : j \in S <=> j = 0 \/ (j \in 1..Len(g) /\ IsSeal(g[j]) /\ j < p)
  BY <1>1 DEF SealLines
<1>3. S \subseteq 0..Len(g) /\ S # {}
  BY <1>2
<1>4. PICK prev : prev = Max(S)
  OBVIOUS
<1>5. prev \in S
  BY <1>3, <1>4, MaxFacts
<1>6. prev \in 0..i
  <2>1. prev = 0 \/ (prev \in 1..Len(g) /\ IsSeal(g[prev]) /\ prev < p)
    BY <1>2, <1>5
  <2>2. prev \notin (i + 1)..(p - 1)
    BY <2>1
  <2> QED
    BY <2>1, <2>2
<1>7. PICK lo, start, first :
        /\ lo = Larger(prev, 1) /\ start = (IF prev = 0 THEN 1 ELSE g[prev].seq)
        /\ first = g[Min(SealLines(g))].body
  OBVIOUS
<1>8. FinishChecks(g, p, r, prev, lo, start, first)
  BY <1>1, <1>4, <1>7, FinishMeans, Zenon
<1>9. i \in lo..(p - 1)
  BY <1>6, <1>7 DEF Larger
<1> QED
  BY <1>8, <1>9 DEF FinishChecks

\* A line that a later seal of the ledger still covers, read with the key that
\* seal reveals, is the ledger's line but for the label v2 or v3, or the split
\* of a v1 line.
LEMMA CoveredLine ==
  ASSUME MarksApart, TypeOK, HistoryOK(file, trail), SealedOK(file, trail),
         NEW p \in 1..Len(file), IsSeal(file[p]), NEW r, r = file[p].body,
         NEW i \in 1..(p - 1), NEW x, x = file[i], NEW e \in EntryEdits(x),
         NEW g, \A j \in 1..(i - 1) : g[j] = file[j], g[i] = e,
         ChainLinked(g, i), e.epoch \in DOMAIN r.revealed, MacUnder(g, i, r.revealed[e.epoch])
  PROVE  SameConstruction(x, e) \/ SameText(x, e)
<1>1. Len(file) \in Nat /\ trail[p].sealed_through \in Nat /\ i \in 1..Len(file)
  <2>1. Len(file) \in Nat /\ p \in 1..Len(trail)
    BY LenNat DEF TypeOK
  <2>2. ScanOK(trail[p])
    BY <2>1 DEF TypeOK
  <2> QED
    BY <2>1, <2>2 DEF ScanOK, ViewOK
<1>2. SealBody(file, trail[p], p - 1, r)
  BY DEF SealedOK
<1>3. PICK j \in Segment(trail[p], p - 1) : e.epoch = file[j].epoch
  BY <1>2 DEF SealBody
<1>4. j \in 1..Len(file) /\ r.revealed[e.epoch] = file[j].hash.key
  <2>1. r.revealed[file[j].epoch] = file[j].hash.key
    BY <1>2 DEF SealBody
  <2> QED
    BY <1>1, <1>3, <2>1 DEF Segment
<1>5. PICK key, last : key = file[j].hash.key /\ last = LastHash(file, i)
  OBVIOUS
<1>6. LastHash(g, i) = last
  <2>1. i # 1 => i - 1 \in 1..(i - 1)
    BY <1>1
  <2> QED
    BY <1>5, <2>1 DEF LastHash
<1>7. /\ e.hash = event_hash(e.v, last, e.seq, e.etype, e.body, key) /\ e.prev_hash = last
      /\ SupportedVersion(e.v)
  BY <1>4, <1>5, <1>6, Zenon DEF MacUnder, ChainLinked
<1>8. e.hash # NoHash
  <2>1. event_hash(e.v, last, e.seq, e.etype, e.body, key) \notin {NoHash, Tampered}
    BY Zenon DEF MarksApart
  <2> QED
    BY <1>7, <2>1
<1>9. e # x /\ e.hash = x.hash /\ Parsed(e)
  <2>1. e.hash = NoHash \/ SameHash(x, e)
    BY <1>1, EditsDiffer, Zenon
  <2> QED
    BY <1>8, <2>1 DEF SameHash
<1>10. /\ x.hash = event_hash(x.v, last, x.seq, x.etype, x.body, x.hash.key)
       /\ x.prev_hash = last /\ Parsed(x) /\ SupportedVersion(x.v) /\ x.etype # NoHash
  <2>1. ChainLinked(file, i) /\ MacUnder(file, i, file[i].hash.key)
    BY <1>1, TrailReads
  <2>2. ShapeOK(file[i])
    BY <1>1 DEF SealedOK
  <2>3. x.etype # NoHash
    BY <1>1, LineMarks
  <2> QED
    BY <1>5, <2>1, <2>2, <2>3 DEF ChainLinked, MacUnder, ShapeOK
<1>11. /\ x.seq = e.seq /\ x.hash.key = key /\ (x.v = 1 <=> e.v = 1)
       /\ \/ x.etype = e.etype /\ x.body = e.body
          \/ x.v = 1 /\ e.etype = NoHash /\ e.body = Joined(x.etype, x.body)
  <2>1. PICK k : k = x.hash.key
    OBVIOUS
  <2>2. event_hash(x.v, last, x.seq, x.etype, x.body, k)
          = event_hash(e.v, last, e.seq, e.etype, e.body, key)
    BY <1>7, <1>9, <1>10, <2>1
  <2>3. SameInput(x.v, last, x.seq, x.etype, x.body, k, e.v, last, e.seq, e.etype, e.body, key)
    BY <2>2, HashInput, ZenonT(60)
  <2> QED
    BY <1>10, <2>1, <2>3 DEF SameInput, OneInput
<1>12. x.epoch = e.epoch
  <2>1. file[i].hash.key.seed = file[j].hash.key.seed => file[i].epoch = file[j].epoch
    BY <1>1, <1>4 DEF SealedOK
  <2> QED
    BY <1>3, <1>5, <1>11, <2>1
<1>13. Parsed(x) /\ Parsed(e) /\ x.prev_hash = e.prev_hash /\ x.hash = e.hash /\ e # x
  BY <1>7, <1>9, <1>10
<1>14. CASE x.etype = e.etype /\ x.body = e.body
  <2>1. x.v # e.v /\ e = [x EXCEPT !.v = e.v]
    BY <1>11, <1>12, <1>13, <1>14 DEF Parsed
  <2>2. e.v \in {2, 3} /\ x.v \in {2, 3}
    BY <1>7, <1>10, <1>11, <2>1 DEF SupportedVersion
  <2> QED
    BY <2>1, <2>2 DEF SameConstruction
<1>15. CASE x.v = 1 /\ e.etype = NoHash /\ e.body = Joined(x.etype, x.body)
  <2>1. e.v = x.v
    BY <1>11, <1>15
  <2>2. e = Resplit(x)
    BY <1>11, <1>12, <1>13, <1>15, <2>1, ResplitIs, Zenon
  <2> QED
    BY <1>15, <2>2 DEF SameText
<1> QED
  BY <1>11, <1>14, <1>15

\* What the last seal says cannot be changed; its copy of the signed payload
\* can be taken out.
LEMMA SealStands ==
  ASSUME MarksApart, TypeOK, HistoryOK(file, trail), SealedOK(file, trail),
         NEW i \in 1..Len(file), IsSeal(file[i]), NEW r, r = file[i].body,
         NEW b \in BodyEdits(r), b # [r EXCEPT !.payload = NoHash], NEW first
  PROVE  ~StandsFor(b, i, r, first)
<1> SUFFICES ASSUME StandsFor(b, i, r, first) PROVE FALSE
  OBVIOUS
<1>1. Len(file) \in Nat /\ trail[i].sealed_through \in Nat
  <2>1. Len(file) \in Nat /\ i \in 1..Len(trail)
    BY LenNat DEF TypeOK
  <2>2. ScanOK(trail[i])
    BY <2>1 DEF TypeOK
  <2> QED
    BY <2>1, <2>2 DEF ScanOK, ViewOK
<1>2. SealBody(file, trail[i], i - 1, r)
  BY DEF SealedOK
<1>3. /\ r.segment \in Nat /\ r.start_seq \in Nat /\ r.end_seq \in Nat
      /\ r.tip_hash # NoHash /\ r.merkle_root # NoHash /\ r.prev_seal # Tampered
      /\ r.public_key # "other" /\ r.signature # NoHash /\ r.payload \notin {NoHash, Tampered}
  BY SealMarks
<1>4. r = [segment |-> r.segment, start_seq |-> r.start_seq, end_seq |-> r.end_seq,
           tip_hash |-> r.tip_hash, merkle_root |-> r.merkle_root, revealed |-> r.revealed,
           prev_seal |-> r.prev_seal, scheme |-> r.scheme, public_key |-> r.public_key,
           signature |-> r.signature, payload |-> r.payload]
  BY <1>2 DEF SealBody
<1>5. /\ b.segment = r.segment /\ b.start_seq = r.start_seq /\ b.end_seq = r.end_seq
      /\ b.tip_hash = r.tip_hash /\ b.merkle_root = r.merkle_root /\ b.prev_seal = r.prev_seal
      /\ b.signature = [scheme |-> b.scheme, by |-> b.public_key, over |-> seal_payload(b)]
      /\ b.payload \in {NoHash, seal_payload(b)}
  BY DEF StandsFor, verify_signature
<1>6. b.signature # NoHash
  <2>1. \E x, y, z : b.signature = [scheme |-> x, by |-> y, over |-> z]
    BY <1>5, Zenon
  <2> QED
    BY <2>1, Zenon DEF MarksApart
<1>7. b.payload # Tampered
  BY <1>5, Zenon DEF MarksApart
<1>8. CASE b = [r EXCEPT !.public_key = "other"]
  <2>1. b.signature = r.signature /\ b.public_key = "other"
    BY <1>4, <1>8
  <2>2. r.signature = [scheme |-> r.scheme, by |-> r.public_key, over |-> seal_payload(r)]
    BY <1>2 DEF SealBody
  <2> QED
    BY <1>3, <1>5, <2>1, <2>2
<1>9. CASE b = [r EXCEPT !.revealed = [ep \in DOMAIN @ |-> BaseKey(Tampered)]]
  <2>1. PICK j : j = i - 1
    OBVIOUS
  <2>2. j \in Segment(trail[i], i - 1) /\ j \in 1..Len(file)
    <3>1. trail[i].sealed_through < i - 1
      BY <1>2, Zenon DEF SealBody
    <3> QED
      BY <1>1, <2>1, <3>1 DEF Segment
  <2>3. file[j].epoch \in DOMAIN b.revealed /\ MacUnder(file, j, b.revealed[file[j].epoch])
    BY <2>2 DEF StandsFor
  <2>4. b.revealed = [ep \in DOMAIN r.revealed |-> BaseKey(Tampered)]
    BY <1>4, <1>9
  <2>5. MacUnder(file, j, BaseKey(Tampered))
    BY <2>3, <2>4
  <2>6. file[j].hash.key.seed = Tampered
    BY <2>5 DEF MacUnder, event_hash, BaseKey
  <2> QED
    BY <2>2, <2>6, HashMarks
<1>10. CASE \/ b = [r EXCEPT !.segment = @ + 1] \/ b = [r EXCEPT !.start_seq = @ + 1]
           \/ b = [r EXCEPT !.end_seq = @ + 1] \/ b = [r EXCEPT !.tip_hash = NoHash]
           \/ b = [r EXCEPT !.merkle_root = NoHash] \/ b = [r EXCEPT !.prev_seal = Tampered]
           \/ b = [r EXCEPT !.signature = NoHash]
  BY <1>3, <1>4, <1>5, <1>6, <1>10
<1>11. CASE b = [r EXCEPT !.payload = Tampered]
  BY <1>4, <1>7, <1>11
<1>12. ASSUME NEW y \in SealSchemes \ {r.scheme}, b = [r EXCEPT !.scheme = y] PROVE FALSE
  <2>1. b.signature = r.signature /\ b.scheme # r.scheme
    BY <1>4, <1>12
  <2>2. r.signature = [scheme |-> r.scheme, by |-> r.public_key, over |-> seal_payload(r)]
    BY <1>2 DEF SealBody
  <2> QED
    BY <1>5, <2>1, <2>2
<1> QED
  BY <1>8, <1>9, <1>10, <1>11, <1>12 DEF BodyEdits

\* Without any key, verify_public refuses every file obtained from a sealed
\* ledger by deleting a line that others follow, by duplicating or reordering
\* lines, by changing an entry before the last seal (but for the label v2 or
\* v3, which is not under the MAC, and the split of a v1 entry), or by changing
\* what the last seal says (but for the copy of its payload, which may go).
THEOREM PublicTamperingShows ==
  ASSUME Reliable, MarksApart
  PROVE  Spec => []PublicTamperEvident
<1>1. VerifyInv => PublicTamperEvident
  <2> SUFFICES ASSUME VerifyInv, SealLines(file) # {} PROVE PublicTamperEvident
    BY DEF PublicTamperEvident
  <2>1. /\ TypeOK /\ HistoryOK(file, trail) /\ SealedOK(file, trail)
        /\ IsSequence(file) /\ Len(file) \in Nat
    BY LenNat DEF VerifyInv, KeyInv, Inv, TypeOK
  <2>2. PICK last : last = Max(SealLines(file))
    OBVIOUS
  <2>3. last \in 1..Len(file) /\ IsSeal(file[last])
    <3>1. SealLines(file) \subseteq 0..Len(file)
      BY <2>1 DEF SealLines
    <3>2. last \in SealLines(file)
      BY <2>1, <2>2, <3>1, MaxFacts
    <3> QED
      BY <3>2 DEF SealLines
  <2>4. ASSUME NEW f \in Rearranged(file) PROVE ~verify_public(f, tail)
    <3>1. PICK i \in 1..Len(f), j \in 1..Len(file) : f[i] = file[j] /\ i # j
      BY <2>1, RearrangedLines
    <3>2. ChainLinked(file, j)
      BY <2>1, TrailReads
    <3>3. f[i].seq # i
      BY <3>1, <3>2 DEF ChainLinked
    <3> QED
      BY <3>1, <3>3 DEF verify_public, ChainLinked
  <2>5. ASSUME NEW i \in 1..(last - 1), NEW e \in EntryEdits(file[i])
        PROVE  \/ SameConstruction(file[i], e) \/ SameText(file[i], e)
               \/ ~verify_public(ReplaceAt(file, i, e), tail)
    <3> SUFFICES ASSUME verify_public(ReplaceAt(file, i, e), tail)
                 PROVE  SameConstruction(file[i], e) \/ SameText(file[i], e)
      OBVIOUS
    <3>1. PICK g, x : g = ReplaceAt(file, i, e) /\ x = file[i]
      OBVIOUS
    <3>2. i \in 1..Len(file)
      BY <2>1, <2>3
    <3>3. Len(g) = Len(file) /\ g[i] = e /\ \A j \in 1..Len(file) : j # i => g[j] = file[j]
      BY <2>1, <3>1, <3>2, ReplacedLines
    <3>4. PICK p \in 1..Len(file) :
            /\ i < p /\ IsSeal(file[p]) /\ \A a \in (i + 1)..(p - 1) : ~IsSeal(file[a])
      <4>1. PICK S : S = {j \in 1..Len(file) : i < j /\ IsSeal(file[j])}
        OBVIOUS
      <4>2. S \subseteq Nat /\ last \in S
        BY <2>1, <2>3, <4>1
      <4>3. PICK p \in S : \A y \in S : p <= y
        BY <4>2, LeastNat
      <4>4. ASSUME NEW a \in (i + 1)..(p - 1) PROVE ~IsSeal(file[a])
        <5>1. a \in 1..Len(file) /\ i < a /\ ~(p <= a)
          BY <2>1, <3>2, <4>1, <4>3
        <5> QED
          BY <4>1, <4>3, <5>1
      <4> QED
        BY <4>1, <4>3, <4>4
    <3>5. PICK r : r = file[p].body
      OBVIOUS
    <3>6. i \in 1..(p - 1) /\ p \in 1..Len(g) /\ g[p] = file[p]
      BY <2>1, <3>2, <3>3, <3>4
    <3>7. ASSUME NEW a \in (i + 1)..(p - 1) PROVE ~IsSeal(g[a])
      <4>1. a \in 1..Len(file) /\ a # i
        BY <2>1, <3>2, <3>4
      <4> QED
        BY <3>3, <3>4, <4>1
    <3>8. ChainLinked(g, i) /\ finish_segment(g, p)
      BY <3>1, <3>2, <3>3, <3>4, <3>6 DEF verify_public
    <3>9. g[i].epoch \in DOMAIN r.revealed /\ MacUnder(g, i, r.revealed[g[i].epoch])
      <4>1. Len(g) \in Nat /\ r = g[p].body
        BY <2>1, <3>3, <3>5, <3>6
      <4> QED
        BY <3>6, <3>7, <3>8, <4>1, NextSealReads, Zenon
    <3>10. \A j \in 1..(i - 1) : g[j] = file[j]
      BY <2>1, <3>2, <3>3
    <3>11. e \in EntryEdits(x) /\ e.epoch \in DOMAIN r.revealed /\ MacUnder(g, i, r.revealed[e.epoch])
      BY <3>1, <3>3, <3>9
    <3>12. SameConstruction(x, e) \/ SameText(x, e)
      BY <2>1, <3>1, <3>3, <3>4, <3>5, <3>6, <3>8, <3>10, <3>11, CoveredLine, ZenonT(60)
    <3> QED
      BY <3>1, <3>12
  <2>6. ASSUME NEW e \in SealEdits(file[last]), e.body # [file[last].body EXCEPT !.payload = NoHash]
        PROVE  ~verify_public(ReplaceAt(file, last, e), tail)
    <3>1. PICK g, r, first :
            g = ReplaceAt(file, last, e) /\ r = file[last].body /\ first = g[Min(SealLines(g))].body
      OBVIOUS
    <3>2. Len(g) = Len(file) /\ g[last] = e /\ \A j \in 1..Len(file) : j # last => g[j] = file[j]
      BY <2>1, <2>3, <3>1, ReplacedLines
    <3>3. PICK b \in BodyEdits(r) : e = [file[last] EXCEPT !.body = b]
      BY <3>1, Zenon DEF SealEdits
    <3>4. e.body = b /\ IsSeal(e)
      <4>1. Parsed(file[last])
        BY <2>1, <2>3 DEF SealedOK, ShapeOK
      <4> QED
        BY <2>3, <3>3, <4>1 DEF Parsed, IsSeal
    <3>5. ~StandsFor(b, last, r, first)
      <4>1. b # [r EXCEPT !.payload = NoHash]
        BY <2>6, <3>1, <3>4
      <4> QED
        BY <2>1, <2>3, <3>1, <4>1, SealStands, Zenon
    <3>6. /\ Len(g) \in Nat /\ last <= Len(g) /\ b = g[last].body
          /\ \A j \in 1..(last - 1) : g[j] = file[j]
      BY <2>1, <2>3, <3>2, <3>4
    <3>7. ~finish_segment(g, last)
      BY <2>1, <2>3, <3>1, <3>5, <3>6, FinishAt, Zenon
    <3> QED
      BY <2>3, <3>1, <3>2, <3>4, <3>7 DEF verify_public
  <2> QED
    BY <2>2, <2>4, <2>5, <2>6, Zenon DEF PublicTamperEvident
<1> QED
  BY <1>1, VerifyInvAlways, PTL
=============================================================================
