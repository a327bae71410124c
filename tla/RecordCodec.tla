----------------------------- MODULE RecordCodec -----------------------------
(***************************************************************************)
(* The two forms an event record takes on disk, as pure operators: the     *)
(* message of a process's stream (internal/events/codec.go) and the row of *)
(* the archive (internal/events/parquet).                                  *)
(*                                                                         *)
(* Records are those of module Verdict.  A message is the tags that are on *)
(* the wire with their values; bytes, varints and the fields no check      *)
(* reads (sequence, execution and request ids, sizes) are left out.        *)
(***************************************************************************)
EXTENDS Verdict, Functions

\* What the archive calls a value that has no name is not a null.
ASSUME RecordCodecAssumption == None # "unspecified"

\* What each scalar is when nobody set it.
Zero ==
  [version |-> 0, domain |-> None, emitter |-> None, cohort |-> 0, ordinal |-> 0, envelope |-> None,
   presence |-> {}, status |-> None, batchSize |-> 0, uids |-> {}, count |-> 0, scope |-> None]

\* The header and the record.  Proto3's implicit presence: a zero scalar is not on
\* the wire.  The tag is the presence of the timestamps and of the dispatch evidence.
appendRecord(r) ==
  LET scalars == [version |-> r.version, domain |-> r.domain, emitter |-> r.emitter,
                  cohort |-> CohortOf(r.member), ordinal |-> OrdinalOf(r.member),
                  envelope |-> r.envelope, presence |-> DOMAIN r.stages, status |-> r.status,
                  batchSize |-> r.batchSize, uids |-> r.membership, count |-> r.claimed,
                  scope |-> IF r.dispatch = None THEN None ELSE r.dispatch.scope]
      written  == {f \in DOMAIN scalars : scalars[f] # Zero[f]}
      evidence == IF r.dispatch = None THEN {} ELSE {"dispatched", "skew", "cpu"}
  IN [fields |-> [f \in written \cup evidence |-> IF f \in evidence THEN r.dispatch[f] ELSE scalars[f]],
      ts |-> r.stages]

\* Which stages a record carries is what its mask says, not which tags are there.
\* A membership count that is not on the wire is recovered from the stored uids.
Decode(m) ==
  LET scalar(f) == IF f \in DOMAIN m.fields THEN m.fields[f] ELSE Zero[f]
      optional  == DOMAIN m.fields \cap {"dispatched", "skew", "cpu"}
      number(f) == IF f \in optional THEN m.fields[f] ELSE 0
  IN [version |-> scalar("version"), domain |-> scalar("domain"), emitter |-> scalar("emitter"),
      member |-> UID(scalar("cohort"), scalar("ordinal")), envelope |-> scalar("envelope"),
      stages |-> [s \in scalar("presence") |-> IF s \in DOMAIN m.ts THEN m.ts[s] ELSE 0],
      status |-> scalar("status"), batchSize |-> scalar("batchSize"),
      membership |-> scalar("uids"),
      claimed |-> IF "count" \in DOMAIN m.fields THEN m.fields.count ELSE Cardinality(scalar("uids")),
      dispatch |-> IF optional = {} THEN None
                   ELSE [dispatched |-> number("dispatched"), skew |-> number("skew"),
                         cpu |-> number("cpu"), scope |-> scalar("scope")]]

\* A stream that ends inside a message cannot be read.
Stream(messages, torn) == [messages |-> messages, torn |-> torn]

ReadStream(stream) ==
  IF stream.torn THEN None ELSE [i \in DOMAIN stream.messages |-> Decode(stream.messages[i])]

-----------------------------------------------------------------------------
(* The archive.                                                            *)

\* An absent stage, and absent evidence, are nulls.
ToRow(r) ==
  LET evidence(column) == IF r.dispatch = None THEN None ELSE r.dispatch[column]
      name(value) == IF value = None THEN "unspecified" ELSE value
  IN [version |-> r.version, domain |-> r.domain, emitter |-> r.emitter,
      cohort |-> CohortOf(r.member), ordinal |-> OrdinalOf(r.member), envelope |-> r.envelope,
      presence |-> DOMAIN r.stages, ts |-> [s \in Stages |-> IF Has(r, s) THEN r.stages[s] ELSE None],
      status |-> name(r.status), batchSize |-> r.batchSize, uids |-> r.membership, count |-> r.claimed,
      dispatched |-> evidence("dispatched"), skew |-> evidence("skew"), cpu |-> evidence("cpu"),
      scope |-> IF r.dispatch = None THEN None ELSE name(r.dispatch.scope)]

\* Mutant: the claimed size is taken from the uids that were stored.
ClaimedAsStored(row) == Cardinality(row.uids)

\* The size the execution claimed, put back over SetMembership's own.
Claimed(row) == row.count

\* Back to a record, unless the emitter or the scope has no name this build knows
\* or the evidence of a release is not whole.
FromRow(row) ==
  LET null == {c \in {"dispatched", "skew", "cpu", "scope"} : row[c] = None}
      unnamed(value) == IF value = "unspecified" THEN None ELSE value
  IN IF \/ row.emitter \notin Emitters
        \/ Cardinality(null) \notin {0, 4}
        \/ row.scope \notin {None, "unspecified", "process", "dispatch"}
     THEN None
     ELSE [version |-> row.version, domain |-> row.domain, emitter |-> row.emitter,
           member |-> UID(row.cohort, row.ordinal), envelope |-> row.envelope,
           stages |-> [s \in row.presence |-> IF row.ts[s] = None THEN 0 ELSE row.ts[s]],
           status |-> IF row.status \in {"ok", "error", "timeout"} THEN row.status ELSE None,
           batchSize |-> row.batchSize, membership |-> row.uids, claimed |-> Claimed(row),
           dispatch |-> IF row.scope = None THEN None
                        ELSE [dispatched |-> row.dispatched, skew |-> row.skew, cpu |-> row.cpu,
                              scope |-> unnamed(row.scope)]]

\* A record both forms have a place for.  The wire cannot tell a claim of zero from
\* the number of uids that were stored, nor the archive a null from a value.
Storable(r) ==
  /\ r # None
  /\ r = [version |-> r.version, domain |-> r.domain, emitter |-> r.emitter, member |-> r.member,
          envelope |-> r.envelope, stages |-> r.stages, status |-> r.status, batchSize |-> r.batchSize,
          membership |-> r.membership, claimed |-> r.claimed, dispatch |-> r.dispatch]
  /\ r.emitter \in Emitters /\ r.member \in Int
  /\ DOMAIN r.stages \subseteq Stages
  /\ r.stages = [s \in DOMAIN r.stages |-> r.stages[s]] /\ \A s \in DOMAIN r.stages : r.stages[s] # None
  /\ r.status \in {"ok", "error", "timeout", None}
  /\ r.claimed = 0 => Cardinality(r.membership) = 0
  /\ r.dispatch # None =>
       /\ r.dispatch = [dispatched |-> r.dispatch.dispatched, skew |-> r.dispatch.skew,
                        cpu |-> r.dispatch.cpu, scope |-> r.dispatch.scope]
       /\ None \notin {r.dispatch.dispatched, r.dispatch.skew, r.dispatch.cpu}
       /\ r.dispatch.scope \in {"process", "dispatch", None}

Write(records) == [i \in DOMAIN records |-> ToRow(records[i])]

Read(rows) ==
  LET records == [i \in DOMAIN rows |-> FromRow(rows[i])]
  IN IF \E i \in DOMAIN rows : records[i] = None THEN None ELSE records

=============================================================================
