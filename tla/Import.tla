------------------------------- MODULE Import -------------------------------
(***************************************************************************)
(* Lines of foreign logs and how `import' reads them (src/src/import.rs).  *)
(*                                                                         *)
(* A source line is the record of its JSON fields.  `hash' is the top      *)
(* level "hash" field, `inner' one of 64 hex digits inside `data' that     *)
(* comes before it; NoHash where the line has none.  SHA-256 and HMAC are  *)
(* free constructors, as in Chain.  Blank lines, which every format skips, *)
(* are left out.                                                           *)
(***************************************************************************)
EXTENDS Chain

CONSTANTS
  Genesis,    \* hex_sha256(BADAPPLE_GENESIS_LABEL)
  NoKey,      \* there is no slicks.key file
  Refused     \* Err: the line is not what its source claims

EmptyKey == [form |-> "empty", of |-> NoKey]

\* hex_sha256, where the key is NoHash, or hex_hmac_sha256.
digest(key, data) == [key |-> key, over |-> data]

\* The first field of that name wins, wherever it stands.
strip_hash_field(line) ==
  IF line.inner # NoHash
  THEN [body |-> [line EXCEPT !.inner = NoHash], hash |-> line.inner]
  ELSE [body |-> [line EXCEPT !.hash = NoHash], hash |-> line.hash]

\* What the hash of a line covers: with an explicit prev_hash the body alone,
\* in the early Swift schema the previous hash and the body.
material(schema, body, prev) ==
  [prev |-> IF schema = "explicit" THEN NoHash ELSE prev, body |-> body]

\* The stored hash, which the next line continues, or Refused.  It is a plain
\* SHA-256 (key NoHash) or an HMAC under one of the secrets.
verify_badapple_line(line, secrets, prev) ==
  LET stripped == strip_hash_field(line)
  IN IF /\ line.schema \in {"explicit", "inline"} /\ stripped.hash # NoHash
        /\ line.schema = "explicit" => line.prev = prev
        /\ \E k \in {NoHash} \cup secrets :
             stripped.hash = digest(k, material(line.schema, stripped.body, prev))
     THEN stripped.hash ELSE Refused

\* A key in the forms the eras of the source used it: the hex decoded, the
\* text of the file with its newline, the text without it.
KeyForm(key, form) == [form |-> form, of |-> key]

\* Mutant of slicks_key_candidates: the text is only tried trimmed.
slicks_key_candidates_Trimmed(raw) ==
  IF raw = NoKey THEN {EmptyKey}
  ELSE {KeyForm(raw.key, f) : f \in {g \in {"decoded", "trimmed"} : g = "decoded" => raw.hex}}

slicks_key_candidates(raw) ==
  IF raw = NoKey THEN {EmptyKey}
  ELSE {KeyForm(raw.key, f) :
          f \in {g \in {"decoded", "line", "trimmed"} :
                   (g = "decoded" => raw.hex) /\ (g = "line" => raw.eol)}}

badapple_event_fields(line) == [etype |-> line.type, body |-> [text |-> line.data]]

(***************************************************************************)
(* One line of a source: the entry it becomes and the hash the next line   *)
(* continues, or Refused.                                                  *)
(***************************************************************************)
Imported(src, line, prev) ==
  CASE src.from = "badapple" ->
         LET hash == verify_badapple_line(line, slicks_key_candidates(src.raw), prev)
         IN IF hash = Refused THEN Refused
            ELSE [prev |-> hash, entry |-> badapple_event_fields(line)]
    [] src.from = "journald" ->
         IF line.schema = "text" THEN Refused
         ELSE [prev |-> prev, entry |-> [etype |-> line.type, body |-> [text |-> line.data]]]
    [] src.from = "jsonl" ->
         [prev |-> prev, entry |-> [etype |-> DATA_EVENT, body |-> [text |-> line.data]]]

(***************************************************************************)
(* The programs that wrote the sources, as far as `import' knows them.     *)
(***************************************************************************)
SourceLine(schema, prev, type, data, inner, key) ==
  LET bare == [schema |-> schema, type |-> type, data |-> data, inner |-> inner,
               prev |-> IF schema = "explicit" THEN prev ELSE NoHash, hash |-> NoHash]
  IN [bare EXCEPT !.hash = digest(key, material(schema, bare, prev))]

\* The keys they have used: none, and whatever each era made of slicks.key.
SourceKeys(raw) ==
  {NoHash} \cup
    IF raw = NoKey THEN {EmptyKey}
    ELSE {KeyForm(raw.key, "trimmed")}
           \cup (IF raw.hex THEN {KeyForm(raw.key, "decoded")} ELSE {})
           \cup (IF raw.eol THEN {KeyForm(raw.key, "line")} ELSE {})

\* The hash that line i of a source continues.
Prior(src, i) == IF i = 1 \/ src.from # "badapple" THEN Genesis ELSE src.lines[i - 1].hash

\* Line i is one that its program writes behind the lines before it.
Authentic(src, i) ==
  LET line == src.lines[i] IN
  CASE src.from = "badapple" ->
         /\ line.schema \in {"explicit", "inline"}
         /\ \E key \in SourceKeys(src.raw) :
              line = SourceLine(line.schema, Prior(src, i), line.type, line.data,
                                line.inner, key)
    [] src.from = "journald" -> line.schema # "text"
    [] src.from = "jsonl" -> TRUE
=============================================================================
