------------------------------- MODULE Merkle -------------------------------
(***************************************************************************)
(* The Merkle tree over the ledger's entry hashes (src/src/merkle.rs), and *)
(* an auditor who uses it: from time to time he asks for the root and for  *)
(* a consistency proof from the tree he saw last, and adopts what verifies.*)
(* What he is shown may be a log that was rolled back or rewritten.        *)
(*                                                                         *)
(* SHA-256 is ideal: a hash is the record of what was hashed.  The sizes   *)
(* and indexes of a proof are machine words, of W bits instead of 64.      *)
(***************************************************************************)
EXTENDS Integers, FiniteSets, FiniteSetsExt, SequencesExt, Bitwise

CONSTANTS
  Leaf,       \* entry hashes
  W,          \* bits of a word
  MaxLeaves,  \* bound: entries of the log
  MaxSize     \* bound: indexes and sizes in the proofs that are checked

ASSUME WordAssumption == /\ W \in Nat \ {0} /\ MaxSize \in 0..(2^W - 1)
                         /\ MaxLeaves \in 0..MaxSize

VARIABLES
  log,        \* the entry hashes on file
  seen        \* the log whose size and root the auditor holds

vars == <<log, seen>>

(***************************************************************************)
(* The tree.                                                               *)
(***************************************************************************)

\* Mutant of leaf_hash: no tag tells a leaf from an inner node.
leaf_hash_Untagged(d) == d

leaf_hash(d) == [leaf |-> d]

node_hash(l, r) == [left |-> l, right |-> r]

\* Largest power of two below n.
largest_pow2_lt(n) == Max({p \in {2^i : i \in 0..(W - 1)} : p < n})

Left(d, k) == SubSeq(d, 1, k)
Right(d, k) == SubSeq(d, k + 1, Len(d))

RECURSIVE mth(_)
mth(d) ==
  CASE Len(d) = 0 -> [empty |-> TRUE]
    [] Len(d) = 1 -> leaf_hash(d[1])
    [] OTHER -> LET k == largest_pow2_lt(Len(d))
                IN node_hash(mth(Left(d, k)), mth(Right(d, k)))

RECURSIVE audit_path_rec(_, _)
audit_path_rec(m, d) ==
  IF Len(d) = 1 THEN << >>
  ELSE LET k == largest_pow2_lt(Len(d))
       IN IF m < k THEN Append(audit_path_rec(m, Left(d, k)), mth(Right(d, k)))
                   ELSE Append(audit_path_rec(m - k, Right(d, k)), mth(Left(d, k)))

audit_path(m, d) == IF m < Len(d) THEN audit_path_rec(m, d) ELSE << >>

RECURSIVE subproof(_, _, _)
subproof(m, d, b) ==
  IF m = Len(d) THEN IF b THEN << >> ELSE <<mth(d)>>
  ELSE LET k == largest_pow2_lt(Len(d))
       IN IF m <= k THEN Append(subproof(m, Left(d, k), b), mth(Right(d, k)))
                    ELSE Append(subproof(m - k, Right(d, k), FALSE), mth(Left(d, k)))

\* Mutant of consistency_proof: a tree that doubled needs no proof.
consistency_proof_Doubled(m, d) ==
  IF m = 0 \/ m >= Len(d) \/ 2 * m = Len(d) THEN << >> ELSE subproof(m, d, TRUE)

consistency_proof(m, d) ==
  IF m = 0 \/ m >= Len(d) THEN << >> ELSE subproof(m, d, TRUE)

(***************************************************************************)
(* The verifiers, as what they accept.  Where a word overflows, a build    *)
(* with overflow checks panics and one without them wraps.                 *)
(***************************************************************************)
Bit(x, i) == (x \div 2^i) % 2

BitLength(x) == IF x = 0 THEN 0 ELSE 1 + Max({i \in 0..(W - 1) : 2^i <= x})

count_ones(x) == Cardinality({i \in 0..(W - 1) : Bit(x, i) = 1})

trailing_zeros(x) == Min({i \in 0..(W - 1) : Bit(x, i) = 1})

inner_proof_size(index, size) == BitLength(index ^^ (size - 1))

\* `index >> inner', the shift taken modulo the width of a word.
border_size(index, size) ==
  count_ones(index \div 2^(inner_proof_size(index, size) % W))

chain_inner(seed, proof, index) ==
  FoldLeftDomain(LAMBDA acc, i : IF Bit(index, i - 1) = 0 THEN node_hash(acc, proof[i])
                                                          ELSE node_hash(proof[i], acc),
                 seed, proof)

chain_inner_right(seed, proof, index) ==
  FoldLeftDomain(LAMBDA acc, i : IF Bit(index, i - 1) = 1 THEN node_hash(proof[i], acc)
                                                          ELSE acc,
                 seed, proof)

chain_border_right(seed, proof) == FoldLeft(LAMBDA acc, x : node_hash(x, acc), seed, proof)

\* InclusionProof::verify gets to the shift, and shifts by a whole word.
InclusionPanics(p) ==
  /\ p.index < p.tree_size /\ p.tree_size > 1
  /\ inner_proof_size(p.index, p.tree_size) >= W

InclusionAccepts(p, leaf, root) ==
  LET inner == inner_proof_size(p.index, p.tree_size) IN
  /\ p.index < p.tree_size
  /\ \/ p.tree_size = 1 /\ p.path = << >> /\ leaf_hash(leaf) = root
     \/ /\ p.tree_size > 1
        /\ Len(p.path) = inner + border_size(p.index, p.tree_size)
        /\ chain_border_right(chain_inner(leaf_hash(leaf), Left(p.path, inner), p.index),
                              Right(p.path, inner)) = root

\* ConsistencyProof::verify gets past its early returns and overflows.
ConsistencyPanics(p) ==
  /\ p.old_size > 0 /\ p.old_size < p.new_size /\ p.nodes # << >>
  /\ LET inner == inner_proof_size(p.old_size - 1, p.new_size)
     IN inner >= W \/ inner < trailing_zeros(p.old_size)

\* The chains of a proof from m to n entries: they start at the old root
\* when the old tree is one full subtree, else at the first node.
ChainsMatch(m, n, nodes, old_root, new_root) ==
  LET shift == trailing_zeros(m)
      inner == inner_proof_size(m - 1, n) - shift
      full  == m = 2^shift
      seed  == IF full THEN old_root ELSE nodes[1]
      proof == IF full THEN nodes ELSE Tail(nodes)
      mask  == (m - 1) \div 2^shift
  IN /\ Len(proof) = inner + border_size(m - 1, n)
     /\ chain_border_right(chain_inner_right(seed, Left(proof, inner), mask),
                           Right(proof, inner)) = old_root
     /\ chain_border_right(chain_inner(seed, Left(proof, inner), mask),
                           Right(proof, inner)) = new_root

\* Mutant of ConsistencyAccepts: a log that did not grow is not compared.
ConsistencyAccepts_SameSize(p, old_root, new_root) ==
  \/ p.old_size = p.new_size /\ p.nodes = << >>
  \/ p.old_size = 0 /\ p.new_size > 0 /\ p.nodes = << >>
  \/ /\ p.old_size > 0 /\ p.old_size < p.new_size /\ p.nodes # << >>
     /\ ChainsMatch(p.old_size, p.new_size, p.nodes, old_root, new_root)

ConsistencyAccepts(p, old_root, new_root) ==
  \/ p.old_size = p.new_size /\ p.nodes = << >> /\ old_root = new_root
  \/ p.old_size = 0 /\ p.new_size > 0 /\ p.nodes = << >>
  \/ /\ p.old_size > 0 /\ p.old_size < p.new_size /\ p.nodes # << >>
     /\ ChainsMatch(p.old_size, p.new_size, p.nodes, old_root, new_root)

(***************************************************************************)
(* SovereignLedger::prove_inclusion and prove_consistency.                 *)
(***************************************************************************)
prove_inclusion(seq) ==
  [index |-> seq - 1, tree_size |-> Len(log), path |-> audit_path(seq - 1, log)]

prove_consistency(old_size) ==
  [old_size |-> old_size, new_size |-> Len(log),
   nodes |-> consistency_proof(old_size, log)]

(***************************************************************************)
(* The log and its auditor.                                                *)
(***************************************************************************)
Init == log = << >> /\ seen = << >>

append(d) == Len(log) < MaxLeaves /\ log' = Append(log, d) /\ UNCHANGED seen

\* The file is replaced by an older copy, or by one with another entry.
Rollback(k) == k < Len(log) /\ log' = SubSeq(log, 1, k) /\ UNCHANGED seen

Rewrite(i, d) == log[i] # d /\ log' = ReplaceAt(log, i, d) /\ UNCHANGED seen

\* The auditor gets the root of the log on file, with the proof this log
\* gives or, from a server that kept the old entries, the one they give.
Audit ==
  /\ Len(seen) <= Len(log)
  /\ \E d \in {log, seen \o Right(log, Len(seen))} :
       ConsistencyAccepts([old_size |-> Len(seen), new_size |-> Len(log),
                           nodes |-> consistency_proof(Len(seen), d)],
                          mth(seen), mth(log))
  /\ seen' = log /\ UNCHANGED log

Next ==
  \/ \E d \in Leaf : append(d)
  \/ \E k \in 0..MaxLeaves : Rollback(k)
  \/ \E i \in 1..Len(log), d \in Leaf : Rewrite(i, d)
  \/ Audit

Spec == Init /\ [][Next]_vars

(***************************************************************************)
(* Properties.  Those about the log alone are read when the auditor has    *)
(* just seen it, which he may for every log.                               *)
(***************************************************************************)
Fresh == seen = log

Indexes == 0..MaxSize

\* Every entry can be proved: the path the recursive prover collects is the
\* one the verifier's bit arithmetic on index and size expects, and a
\* consistency proof verifies from every earlier size.
ProofsComplete ==
  Fresh => /\ \A seq \in 1..Len(log) :
                InclusionAccepts(prove_inclusion(seq), log[seq], mth(log))
           /\ \A m \in 0..Len(log) :
                ConsistencyAccepts(prove_consistency(m), mth(Left(log, m)), mth(log))

\* Everything a prover could pass off as an entry: entries and tree nodes.
Claims == Leaf \cup {mth(SubSeq(log, a, b)) : a \in 1..Len(log), b \in 1..Len(log)}

\* Audit paths of the log's entries, from the bottom or from higher up.
Paths == UNION {LET path == audit_path(j, log)
                IN {Right(path, k) : k \in 0..Len(path)} : j \in 0..(Len(log) - 1)}

\* No proof passes for what is not in the tree: whatever index and size it
\* carries, with whatever part of the tree as its path, the leaf it proves
\* is an entry of the log, and the one at that index when the size is the
\* log's.
InclusionSound ==
  Fresh =>
    \A index, size \in Indexes, path \in Paths, x \in Claims :
      InclusionAccepts([index |-> index, tree_size |-> size, path |-> path], x, mth(log))
        => /\ \E i \in 1..Len(log) : log[i] = x
           /\ size = Len(log) => log[index + 1] = x

\* Append-only between audits: what the auditor adopts extends what he held,
\* whether or not the log was rolled back or rewritten in between, and
\* whichever tree the proof was made from.
AuditedLogGrows == [][seen' # seen => IsPrefix(seen, seen')]_vars

\* The proof verifiers' fuzz target: "arbitrary sizes, indices, and node lists
\* must never panic".  No index and no size makes a verifier overflow a word.
\* (The target itself clamps the sizes it tries to half a word.)
ProofChecksTotal ==
  Fresh =>
    \A a, b \in Indexes :
      /\ ~InclusionPanics([index |-> a, tree_size |-> b])
      /\ \A m \in 0..Len(log) :
           ~ConsistencyPanics([old_size |-> a, new_size |-> b,
                               nodes |-> consistency_proof(m, log)])
=============================================================================
