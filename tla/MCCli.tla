------------------------------- MODULE MCCli -------------------------------
(***************************************************************************)
(* Small instances of Cli.                                                 *)
(***************************************************************************)
EXTENDS Cli, TLC

CONSTANTS p1, p2, p3, slicks, d1, d2, d3

Raw == [key |-> slicks, hex |-> TRUE, eol |-> TRUE]

\* Two lines of a Bad Apple ledger in the given schemas, under the given keys.
TwoLines(s1, k1, s2, k2) ==
  LET a == SourceLine(s1, Genesis, DATA_EVENT, d1, NoHash, k1)
      b == SourceLine(s2, a.hash, DATA_EVENT, d2, NoHash, k2)
  IN <<a, b>>

PythonThenSwift == TwoLines("explicit", KeyForm(slicks, "line"), "inline", NoHash)
SwiftThenCurrent == TwoLines("inline", NoHash, "explicit", KeyForm(slicks, "decoded"))
PlainThenKeyed == TwoLines("explicit", NoHash, "explicit", KeyForm(slicks, "trimmed"))

\* A line changed, the first one left out, one repeated, two exchanged.
Edits(l) ==
  {[l EXCEPT ![1].data = d3], [l EXCEPT ![2].type = SEAL_EVENT],
   <<l[2]>>, <<l[2], l[1]>>, <<l[1], l[1]>>}

\* A line whose data holds a "hash" of its own.
Nested == <<SourceLine("explicit", Genesis, DATA_EVENT, d3, d1, NoHash)>>

BadApple(lines, intact) ==
  [from |-> "badapple", raw |-> Raw, lines |-> lines, intact |-> intact, reserved |-> FALSE]

Unchained(format, schema, type) ==
  [from |-> format, raw |-> NoKey, intact |-> TRUE,
   reserved |-> type # DATA_EVENT,
   lines |-> <<[schema |-> schema, prev |-> NoHash, type |-> type, data |-> d3,
                inner |-> NoHash, hash |-> NoHash]>>]

MCSources ==
  {BadApple(l, TRUE) : l \in {PythonThenSwift, SwiftThenCurrent, PlainThenKeyed, Nested}}
    \cup {BadApple(l, FALSE) : l \in Edits(SwiftThenCurrent)}
    \cup {Unchained("journald", "other", SEAL_EVENT), Unchained("jsonl", "text", DATA_EVENT)}

OneSource == {BadApple(PythonThenSwift, TRUE)}

\* Any command beside one that writes, beside a third that rotates.
MCCommands ==
  (p1 :> AllCommands) @@ (p2 :> {"durable", "stdin", "seal", "rotate"}) @@ (p3 :> {"rotate"})

RotateAll == [p \in {p1, p2} |-> {"rotate"}]

ImportAndAppend == (p1 :> {"import"}) @@ (p2 :> {"append", "read"})
=============================================================================
