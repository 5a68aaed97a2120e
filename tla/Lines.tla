------------------------------- MODULE Lines -------------------------------
(***************************************************************************)
(* Line i of a ledger file f, as every reader of the file checks it        *)
(* (src/src/lib.rs).  A reader arrives at line i with last_hash the hash   *)
(* of line i - 1 and seals_seen the number of seals it has passed.         *)
(***************************************************************************)
EXTENDS Chain, FiniteSets

LastHash(f, i) == IF i = 1 THEN ZeroHash ELSE f[i - 1].hash

SealsThrough(f, i) == Cardinality({j \in 1..i : IsSeal(f[j])})

\* Mutant of ChainLinked: the stored prev_hash is not compared.
ChainLinked_SeqOnly(f, i) == f[i].seq = i

ChainLinked(f, i) == f[i].prev_hash = LastHash(f, i) /\ f[i].seq = i

MacUnder(f, i, key) ==
  /\ SupportedVersion(f[i].v)
  /\ f[i].hash = event_hash(f[i].v, LastHash(f, i), f[i].seq, f[i].etype, f[i].body, key)
=============================================================================
