----------------------------- MODULE AppendLog -----------------------------
(***************************************************************************)
(* What a sovereign ledger promises to whoever reads it, without handles,  *)
(* locks, scans or files: one sequence of entries that only grows, each    *)
(* entry a continuation of the one before, of which a power failure takes  *)
(* at most the part that nobody was told is safe.                          *)
(*                                                                         *)
(* Ledger implements it with one handle and failing storage, Cli with many *)
(* processes that share one file.                                          *)
(***************************************************************************)
EXTENDS Integers, Sequences

CONSTANTS
  ZeroHash,     \* what the first entry continues
  Replaceable   \* may the log be exchanged for another one as a whole?

VARIABLES
  log,          \* the entries
  safe          \* how many of them are on stable storage

logVars == <<log, safe>>

TipHash == IF log = << >> THEN ZeroHash ELSE log[Len(log)].hash

Init == log = << >> /\ safe = 0

\* One more entry, numbered and linked behind the last one.
AppendEntry ==
  /\ log' # << >>
  /\ log' = Append(log, log'[Len(log')])
  /\ log'[Len(log')].prev_hash = TipHash
  /\ log'[Len(log')].seq = Len(log) + 1
  /\ safe' \in {safe, Len(log')}

Sync == log' = log /\ safe' = Len(log)

\* A power failure: the unsafe entries are gone from some point on.
Lose ==
  /\ Len(log') < Len(log) /\ Len(log') >= safe
  /\ log' = SubSeq(log, 1, Len(log'))
  /\ safe' = safe

\* Another log takes the place of this one, whole and safe.
Replace ==
  /\ Replaceable
  /\ \A i \in 1..Len(log') :
       /\ log'[i].seq = i
       /\ log'[i].prev_hash = IF i = 1 THEN ZeroHash ELSE log'[i - 1].hash
  /\ safe' = Len(log')

Next == AppendEntry \/ Sync \/ Lose \/ Replace

Spec == Init /\ [][Next]_logVars
=============================================================================
