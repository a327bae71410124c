---------------------------- MODULE ArchiveProofs ----------------------------
(***************************************************************************)
(* What a run's verdict is worth, for every cell, every size of a run and  *)
(* every number of attempts in one directory.                              *)
(*                                                                         *)
(* The two forms of a record lose nothing of a record that both have a     *)
(* place for (Storable).  The inductive invariant says whose every file in *)
(* the directory is at each point of Run: from the moment an attempt       *)
(* writes a file until it is judged no earlier attempt's can stand in its  *)
(* place, and a verdict older than the attempt is known to be older.       *)
(***************************************************************************)
EXTENDS Archive, FiniteSetTheorems, TLAPS

-----------------------------------------------------------------------------
(* The two forms of a record.                                              *)

\* A member's id is packed into its width and comes back.
LEMMA UIDRoundTrip ==
  ASSUME NEW m \in Int
  PROVE  UID(CohortOf(m), OrdinalOf(m)) = m
<1>1. 2^uidOrdinalBits \in Nat \ {0}
  BY SMT DEF uidOrdinalBits
<1>2. PICK d \in Nat \ {0} : d = 2^uidOrdinalBits
  BY <1>1
<1>3. (m \div d) * d + (m % d) = m
  BY <1>2, SMT
<1>4. CohortOf(m) = m \div d /\ OrdinalOf(m) = m % d
  BY <1>2, Zenon DEF CohortOf, OrdinalOf
<1>5. \A c, o : UID(c, o) = (c * d) + o
  BY <1>2, Zenon DEF UID
<1>6. UID(CohortOf(m), OrdinalOf(m)) = ((m \div d) * d) + (m % d)
  BY <1>4, <1>5, Zenon
<1> QED BY <1>3, <1>6

\* A message holds its record: a field that is not on the wire is one whose zero
\* was meant (appendRecord, Decode).
LEMMA DecodeOfAppend ==
  ASSUME NEW r, Storable(r)
  PROVE  Decode(appendRecord(r)) = r
<1> DEFINE
  scalars == [version |-> r.version, domain |-> r.domain, emitter |-> r.emitter,
              cohort |-> CohortOf(r.member), ordinal |-> OrdinalOf(r.member),
              envelope |-> r.envelope, presence |-> DOMAIN r.stages, status |-> r.status,
              batchSize |-> r.batchSize, uids |-> r.membership, count |-> r.claimed,
              scope |-> IF r.dispatch = None THEN None ELSE r.dispatch.scope]
  written  == {f \in DOMAIN scalars : scalars[f] # Zero[f]}
  released == IF r.dispatch = None THEN {} ELSE {"dispatched", "skew", "cpu"}
  fields   == [f \in written \cup released |-> IF f \in released THEN r.dispatch[f] ELSE scalars[f]]
  scalar(f) == IF f \in DOMAIN fields THEN fields[f] ELSE Zero[f]
  optional  == DOMAIN fields \cap {"dispatched", "skew", "cpu"}
  number(f) == IF f \in optional THEN fields[f] ELSE 0
  names == {"version", "domain", "emitter", "cohort", "ordinal", "envelope", "presence", "status",
            "batchSize", "uids", "count", "scope"}
<1>1. DOMAIN scalars = names
  OBVIOUS
<1>2. released \cap names = {}
  OBVIOUS
<1>3. DOMAIN fields = written \cup released
  OBVIOUS
<1>4. \A f \in names : scalar(f) = scalars[f]
  <2> HIDE DEF scalars
  <2> TAKE f \in names
  <2>1. f \notin released
    BY <1>2
  <2>2. CASE scalars[f] = Zero[f]
    <3>1. f \notin written
      BY <2>2
    <3> QED BY <3>1, <2>1, <1>3, <2>2
  <2>3. CASE scalars[f] # Zero[f]
    <3>1. f \in written
      BY <2>3, <1>1
    <3> QED BY <3>1, <2>1
  <2> QED BY <2>2, <2>3
<1>5. optional = released
  <2>1. written \cap {"dispatched", "skew", "cpu"} = {}
    BY <1>1
  <2> HIDE DEF written, fields
  <2> QED BY <2>1, <1>3
<1>6. \A f \in released : fields[f] = r.dispatch[f]
  OBVIOUS
<1>7. Decode(appendRecord(r)) =
        [version |-> scalar("version"), domain |-> scalar("domain"), emitter |-> scalar("emitter"),
         member |-> UID(scalar("cohort"), scalar("ordinal")), envelope |-> scalar("envelope"),
         stages |-> [s \in scalar("presence") |-> IF s \in DOMAIN r.stages THEN r.stages[s] ELSE 0],
         status |-> scalar("status"), batchSize |-> scalar("batchSize"),
         membership |-> scalar("uids"),
         claimed |-> IF "count" \in DOMAIN fields THEN fields.count ELSE Cardinality(scalar("uids")),
         dispatch |-> IF optional = {} THEN None
                      ELSE [dispatched |-> number("dispatched"), skew |-> number("skew"),
                            cpu |-> number("cpu"), scope |-> scalar("scope")]]
  <2> DEFINE m == [fields |-> fields, ts |-> r.stages]
  <2>1. appendRecord(r) = m
    BY DEF appendRecord
  <2>2. m.fields = fields /\ m.ts = r.stages
    OBVIOUS
  <2> HIDE DEF m, fields
  <2> QED BY <2>1, <2>2 DEF Decode
<1>8. [s \in scalar("presence") |-> IF s \in DOMAIN r.stages THEN r.stages[s] ELSE 0] = r.stages
  <2>1. scalar("presence") = DOMAIN r.stages
    <3> HIDE DEF scalar
    <3> QED BY <1>4
  <2>2. r.stages = [s \in DOMAIN r.stages |-> r.stages[s]]
    BY DEF Storable
  <2> HIDE DEF scalar
  <2> QED BY <2>1, <2>2
<1>9. UID(scalar("cohort"), scalar("ordinal")) = r.member
  <2>1. scalar("cohort") = CohortOf(r.member) /\ scalar("ordinal") = OrdinalOf(r.member)
    <3> HIDE DEF scalar
    <3> QED BY <1>4
  <2> HIDE DEF scalar
  <2> QED BY <2>1, UIDRoundTrip DEF Storable
<1>10. (IF "count" \in DOMAIN fields THEN fields.count ELSE Cardinality(scalar("uids"))) = r.claimed
  <2>1. scalar("uids") = r.membership /\ scalar("count") = r.claimed
    <3> HIDE DEF scalar
    <3> QED BY <1>4
  <2>2. CASE "count" \in DOMAIN fields
    BY <2>1, <2>2
  <2>3. CASE "count" \notin DOMAIN fields
    <3>1. scalar("count") = 0
      <4> HIDE DEF fields
      <4> QED BY <2>3 DEF Zero
    <3>2. Cardinality(r.membership) = 0
      BY <3>1, <2>1 DEF Storable
    <3> HIDE DEF scalar, fields
    <3> QED BY <2>3, <2>1, <3>1, <3>2
  <2> QED BY <2>2, <2>3
<1>11. (IF optional = {} THEN None
        ELSE [dispatched |-> number("dispatched"), skew |-> number("skew"),
              cpu |-> number("cpu"), scope |-> scalar("scope")]) = r.dispatch
  <2>1. CASE r.dispatch = None
    <3>1. optional = {}
      BY <2>1, <1>5
    <3> HIDE DEF optional, number, scalar
    <3> QED BY <3>1, <2>1
  <2>2. CASE r.dispatch # None
    <3>1. optional = {"dispatched", "skew", "cpu"} /\ released = {"dispatched", "skew", "cpu"}
      BY <2>2, <1>5
    <3>2. number("dispatched") = r.dispatch["dispatched"]
      <4> HIDE DEF optional, fields, released
      <4> QED BY <3>1, <1>6
    <3>3. number("skew") = r.dispatch["skew"]
      <4> HIDE DEF optional, fields, released
      <4> QED BY <3>1, <1>6
    <3>4. number("cpu") = r.dispatch["cpu"]
      <4> HIDE DEF optional, fields, released
      <4> QED BY <3>1, <1>6
    <3>5. scalar("scope") = r.dispatch.scope
      <4>1. scalars["scope"] = r.dispatch.scope
        BY <2>2
      <4> HIDE DEF scalar, scalars
      <4> QED BY <1>4, <4>1
    <3>6. r.dispatch = [dispatched |-> r.dispatch.dispatched, skew |-> r.dispatch.skew,
                        cpu |-> r.dispatch.cpu, scope |-> r.dispatch.scope]
      BY <2>2 DEF Storable
    <3>7. optional # {}
      BY <3>1
    <3> HIDE DEF optional, number, scalar
    <3> QED BY <3>2, <3>3, <3>4, <3>5, <3>6, <3>7
  <2> QED BY <2>1, <2>2
<1>12. /\ scalar("version") = r.version /\ scalar("domain") = r.domain /\ scalar("emitter") = r.emitter
       /\ scalar("envelope") = r.envelope /\ scalar("status") = r.status
       /\ scalar("batchSize") = r.batchSize /\ scalar("uids") = r.membership
  <2> HIDE DEF scalar
  <2> QED BY <1>4
<1>13. r = [version |-> r.version, domain |-> r.domain, emitter |-> r.emitter, member |-> r.member,
            envelope |-> r.envelope, stages |-> r.stages, status |-> r.status, batchSize |-> r.batchSize,
            membership |-> r.membership, claimed |-> r.claimed, dispatch |-> r.dispatch]
  BY DEF Storable
<1> HIDE DEF scalar, fields, optional, number
<1> QED BY <1>7, <1>8, <1>9, <1>10, <1>11, <1>12, <1>13

\* A row holds its record, the claimed size and the nulls included (ToRow, FromRow).
LEMMA FromRowOfToRow ==
  ASSUME NEW r, Storable(r)
  PROVE  FromRow(ToRow(r)) = r
<1> DEFINE
  released(column) == IF r.dispatch = None THEN None ELSE r.dispatch[column]
  name(value) == IF value = None THEN "unspecified" ELSE value
  ts    == [s \in Stages |-> IF Has(r, s) THEN r.stages[s] ELSE None]
  scope == IF r.dispatch = None THEN None ELSE name(r.dispatch.scope)
  row == [version |-> r.version, domain |-> r.domain, emitter |-> r.emitter,
          cohort |-> CohortOf(r.member), ordinal |-> OrdinalOf(r.member), envelope |-> r.envelope,
          presence |-> DOMAIN r.stages, ts |-> ts,
          status |-> name(r.status), batchSize |-> r.batchSize, uids |-> r.membership, count |-> r.claimed,
          dispatched |-> released("dispatched"), skew |-> released("skew"), cpu |-> released("cpu"),
          scope |-> scope]
  columns == {"dispatched", "skew", "cpu", "scope"}
  null == {c \in columns : row[c] = None}
  unnamed(value) == IF value = "unspecified" THEN None ELSE value
<1>1. ToRow(r) = row
  BY DEF ToRow
<1>2. /\ r.emitter \in Emitters
      /\ r.member \in Int
      /\ DOMAIN r.stages \subseteq Stages
      /\ r.stages = [s \in DOMAIN r.stages |-> r.stages[s]]
      /\ \A s \in DOMAIN r.stages : r.stages[s] # None
      /\ r.status \in {"ok", "error", "timeout", None}
  BY DEF Storable
<1>3. r.dispatch # None =>
        /\ r.dispatch = [dispatched |-> r.dispatch.dispatched, skew |-> r.dispatch.skew,
                         cpu |-> r.dispatch.cpu, scope |-> r.dispatch.scope]
        /\ None \notin {r.dispatch.dispatched, r.dispatch.skew, r.dispatch.cpu}
        /\ r.dispatch.scope \in {"process", "dispatch", None}
  BY DEF Storable
<1>4. None # "unspecified"
  BY RecordCodecAssumption
<1>5. row.scope = None <=> r.dispatch = None
  BY <1>3, <1>4
<1>6. row.scope \in {None, "unspecified", "process", "dispatch"}
  BY <1>3
<1>7. Cardinality(null) \in {0, 4}
  <2>1. CASE r.dispatch = None
    <3>1. \A c \in columns : row[c] = None
      BY <2>1
    <3>2. null = columns
      <4> HIDE DEF row
      <4> QED BY <3>1
    <3>3. Cardinality({"dispatched", "skew", "cpu", "scope"}) = 4
      <4>1. Cardinality({}) = 0 /\ IsFiniteSet({})
        BY FS_EmptySet
      <4>2. Cardinality({"dispatched"}) = 1 /\ IsFiniteSet({"dispatched"})
        BY FS_Singleton
      <4>3. /\ Cardinality({"dispatched"} \cup {"skew"}) = 2
            /\ IsFiniteSet({"dispatched"} \cup {"skew"})
        BY <4>2, FS_AddElement, SMT
      <4>4. /\ Cardinality({"dispatched"} \cup {"skew"} \cup {"cpu"}) = 3
            /\ IsFiniteSet({"dispatched"} \cup {"skew"} \cup {"cpu"})
        BY <4>3, FS_AddElement, SMT
      <4>5. Cardinality({"dispatched"} \cup {"skew"} \cup {"cpu"} \cup {"scope"}) = 4
        BY <4>4, FS_AddElement, SMT
      <4>6. {"dispatched"} \cup {"skew"} \cup {"cpu"} \cup {"scope"} = {"dispatched", "skew", "cpu", "scope"}
        OBVIOUS
      <4> QED BY <4>5, <4>6
    <3> HIDE DEF null
    <3> QED BY <3>2, <3>3
  <2>2. CASE r.dispatch # None
    <3>1. /\ row["dispatched"] # None
          /\ row["skew"] # None
          /\ row["cpu"] # None
          /\ row["scope"] # None
      BY <2>2, <1>3, <1>5
    <3>2. null = {}
      <4> HIDE DEF row
      <4> QED BY <3>1
    <3> HIDE DEF null
    <3> QED BY <3>2, FS_EmptySet
  <2> QED BY <2>1, <2>2
<1>8. [s \in row.presence |-> IF row.ts[s] = None THEN 0 ELSE row.ts[s]] = r.stages
  <2>1. row.presence = DOMAIN r.stages /\ row.ts = ts
    OBVIOUS
  <2>2. \A s \in DOMAIN r.stages : ts[s] = r.stages[s]
    BY <1>2 DEF Has
  <2> HIDE DEF row, ts
  <2> QED BY <2>1, <2>2, <1>2
<1>9. (IF row.status \in {"ok", "error", "timeout"} THEN row.status ELSE None) = r.status
  BY <1>2
<1>10. (IF row.scope = None THEN None
        ELSE [dispatched |-> row.dispatched, skew |-> row.skew, cpu |-> row.cpu,
              scope |-> unnamed(row.scope)]) = r.dispatch
  <2>1. CASE r.dispatch = None
    <3>1. row.scope = None
      BY <2>1, <1>5
    <3> HIDE DEF row
    <3> QED BY <3>1, <2>1
  <2>2. CASE r.dispatch # None
    <3>1. row.scope # None
      BY <2>2, <1>5
    <3>2. /\ row.dispatched = r.dispatch.dispatched
          /\ row.skew = r.dispatch.skew
          /\ row.cpu = r.dispatch.cpu
      BY <2>2
    <3>3. unnamed(row.scope) = r.dispatch.scope
      BY <2>2, <1>3
    <3> HIDE DEF row, unnamed
    <3> QED BY <3>1, <3>2, <3>3, <2>2, <1>3
  <2> QED BY <2>1, <2>2
<1>11. UID(row.cohort, row.ordinal) = r.member
  <2>1. row.cohort = CohortOf(r.member) /\ row.ordinal = OrdinalOf(r.member)
    OBVIOUS
  <2> HIDE DEF row
  <2> QED BY <2>1, <1>2, UIDRoundTrip
<1>12. /\ row.version = r.version /\ row.domain = r.domain /\ row.emitter = r.emitter
       /\ row.envelope = r.envelope /\ row.batchSize = r.batchSize /\ row.uids = r.membership
       /\ Claimed(row) = r.claimed
  BY DEF Claimed
<1>13. FromRow(row) =
         [version |-> row.version, domain |-> row.domain, emitter |-> row.emitter,
          member |-> UID(row.cohort, row.ordinal), envelope |-> row.envelope,
          stages |-> [s \in row.presence |-> IF row.ts[s] = None THEN 0 ELSE row.ts[s]],
          status |-> IF row.status \in {"ok", "error", "timeout"} THEN row.status ELSE None,
          batchSize |-> row.batchSize, membership |-> row.uids, claimed |-> Claimed(row),
          dispatch |-> IF row.scope = None THEN None
                       ELSE [dispatched |-> row.dispatched, skew |-> row.skew, cpu |-> row.cpu,
                             scope |-> unnamed(row.scope)]]
  <2>1. row.emitter \in Emitters
    BY <1>2, <1>12
  <2> HIDE DEF row
  <2> QED BY <2>1, <1>6, <1>7 DEF FromRow
<1>14. r = [version |-> r.version, domain |-> r.domain, emitter |-> r.emitter, member |-> r.member,
            envelope |-> r.envelope, stages |-> r.stages, status |-> r.status, batchSize |-> r.batchSize,
            membership |-> r.membership, claimed |-> r.claimed, dispatch |-> r.dispatch]
  BY DEF Storable
<1> HIDE DEF row, unnamed
<1> QED BY <1>1, <1>8, <1>9, <1>10, <1>11, <1>12, <1>13, <1>14

\* A process's stream that was closed reads back as what was written (ReadStream).
THEOREM StreamKeepsItsRecords ==
  ASSUME NEW records, Archivable(records)
  PROVE  ReadStream(Stream(Encoded(records), FALSE)) = records
<1>1. DOMAIN records = 1 .. Len(records)
  BY DEF Archivable
<1>2. \A i \in DOMAIN records : Decode(appendRecord(records[i])) = records[i]
  BY <1>1, DecodeOfAppend DEF Archivable
<1>3. ReadStream(Stream(Encoded(records), FALSE)) = [i \in DOMAIN records |-> Decode(appendRecord(records[i]))]
  BY DEF ReadStream, Stream, Encoded
<1>4. records = [i \in DOMAIN records |-> records[i]]
  BY <1>1 DEF Archivable
<1> QED BY <1>2, <1>3, <1>4

\* The archive reads back as what was written, and no storable record is refused
\* (parquet.Write, parquet.Read).
THEOREM ArchiveKeepsItsRecords ==
  ASSUME NEW records, Archivable(records)
  PROVE  Read(Write(records)) = records
<1>1. DOMAIN records = 1 .. Len(records)
  BY DEF Archivable
<1>2. \A i \in DOMAIN records : FromRow(ToRow(records[i])) = records[i] /\ records[i] # None
  BY <1>1, FromRowOfToRow DEF Archivable, Storable
<1>3. DOMAIN Write(records) = DOMAIN records /\ \A i \in DOMAIN records : Write(records)[i] = ToRow(records[i])
  BY DEF Write
<1>4. records = [i \in DOMAIN records |-> records[i]]
  BY <1>1 DEF Archivable
<1> QED BY <1>2, <1>3, <1>4 DEF Read

-----------------------------------------------------------------------------
(* Whose files a run judges.                                               *)

\* A bundle with each of its fields.
Bundle(by, state, statistics, strs, arch, first) ==
  [by |-> by, state |-> state, statistics |-> statistics, streams |-> strs, archive |-> arch,
   firstRecorded |-> first]

\* The bundle in memory is the attempt's, and no attempt is over that still runs.
RunHoldsItsBundle ==
  /\ attempt \in Nat
  /\ pc = "idle" /\ returned = None => attempt = 0
  /\ pc # "idle" =>
       /\ returned = None
       /\ bundle = Bundle(attempt, bundle.state, bundle.statistics, bundle.streams, bundle.archive,
                          bundle.firstRecorded)

OwnProcess ==
  pc \notin {"idle", "opening", "failing"} => (UsesProxy(cell) => process = attempt)

\* The archive is made of the streams as they stand, which nobody writes any more.
OwnArchive ==
  pc \in {"completed", "judging", "crosschecking"} =>
    archived = [by |-> attempt, torn |-> FALSE, rows |-> Write(Recorded(bundle))]

OwnDescription ==
  pc \in {"judging", "crosschecking"} =>
    described = [by |-> attempt, state |-> "completed", statistics |-> bundle.statistics,
                 streams |-> bundle.streams, archive |-> bundle.archive,
                 firstRecorded |-> bundle.firstRecorded, torn |-> FALSE]

\* Both verdicts of finalizeVerdict are of the files that are there.
VerdictOfTheFiles ==
  pc = "crosschecking" => verdict = ValidateBundle /\ ValidateBundle # None

\* No file and no verdict comes from an attempt that has not begun, and until its
\* own is reached an attempt finds at most the verdict of an earlier one.
NothingFromTheFuture ==
  /\ described # None => described.by \in 0 .. attempt
  /\ verdict # None =>
       /\ verdict.bundleBy \in 0 .. attempt
       /\ pc \notin {"idle", "crosschecking", "rejecting"} => verdict.bundleBy < attempt

\* What a passed run leaves, also when the operator judges it again.
PassedLeaves ==
  returned = "ok" =>
    /\ described.by = attempt /\ ~described.torn /\ described.state = "completed"
    /\ archived.by = attempt /\ ~archived.torn
    /\ UsesProxy(cell) => process = attempt
    /\ verdict = ValidateBundle /\ ValidateBundle # None
    /\ verdict.bundleBy = attempt /\ verdict.archiveBy = attempt /\ Passed(verdict)

IInv ==
  /\ RunHoldsItsBundle /\ OwnProcess /\ OwnArchive /\ OwnDescription
  /\ VerdictOfTheFiles /\ NothingFromTheFuture /\ PassedLeaves

\* A run that ended in an error left a bundle that says so, or files nobody can
\* judge beside a verdict older than it; one that passed had sound evidence.
ErrorLeaves ==
  /\ returned = "ok" => evidence.defects = {}
  /\ returned = "error" =>
       \/ ValidateBundle = None /\ (verdict # None => verdict.bundleBy < attempt)
       \/ described.torn = FALSE /\ described.state = "failed"

\* What is judged and archived depends on the streams and two fields of the bundle.
LEMMA RecordedOfTheSameStreams ==
  ASSUME streams' = streams, bundle'.streams = bundle.streams,
         bundle'.firstRecorded = bundle.firstRecorded
  PROVE  Recorded(bundle)' = Recorded(bundle)
BY DEF Recorded, ReadStreams

\* ValidateBundle looks at two files and at the manifest's part of the expectation.
LEMMA JudgedFromTheSameFiles ==
  ASSUME described' = described, archived' = archived, evidence' = evidence
  PROVE  ValidateBundle' = ValidateBundle
BY DEF ValidateBundle, Expectation

\* What an assignment to a field of the bundle leaves of it.
LEMMA HeldUpdates ==
  ASSUME bundle = Bundle(attempt, bundle.state, bundle.statistics, bundle.streams, bundle.archive,
                         bundle.firstRecorded),
         NEW x, NEW y
  PROVE  /\ [bundle EXCEPT !.state = x] =
              Bundle(attempt, x, bundle.statistics, bundle.streams, bundle.archive, bundle.firstRecorded)
         /\ [bundle EXCEPT !.statistics = x] =
              Bundle(attempt, bundle.state, x, bundle.streams, bundle.archive, bundle.firstRecorded)
         /\ [bundle EXCEPT !.streams = x] =
              Bundle(attempt, bundle.state, bundle.statistics, x, bundle.archive, bundle.firstRecorded)
         /\ [bundle EXCEPT !.archive = x] =
              Bundle(attempt, bundle.state, bundle.statistics, bundle.streams, x, bundle.firstRecorded)
         /\ [bundle EXCEPT !.streams = x, !.firstRecorded = y] =
              Bundle(attempt, bundle.state, bundle.statistics, x, bundle.archive, y)
<1>1. [bundle EXCEPT !.state = x] =
        Bundle(attempt, x, bundle.statistics, bundle.streams, bundle.archive, bundle.firstRecorded)
  BY DEF Bundle
<1>2. [bundle EXCEPT !.statistics = x] =
        Bundle(attempt, bundle.state, x, bundle.streams, bundle.archive, bundle.firstRecorded)
  BY DEF Bundle
<1>3. [bundle EXCEPT !.streams = x] =
        Bundle(attempt, bundle.state, bundle.statistics, x, bundle.archive, bundle.firstRecorded)
  BY DEF Bundle
<1>4. [bundle EXCEPT !.archive = x] =
        Bundle(attempt, bundle.state, bundle.statistics, bundle.streams, x, bundle.firstRecorded)
  BY DEF Bundle
<1>5. [bundle EXCEPT !.streams = x, !.firstRecorded = y] =
        Bundle(attempt, bundle.state, bundle.statistics, x, bundle.archive, y)
  <2> DEFINE c == [bundle EXCEPT !.streams = x]
  <2>1. c = Bundle(attempt, bundle.state, bundle.statistics, x, bundle.archive, bundle.firstRecorded)
    BY <1>3
  <2>2. [c EXCEPT !.firstRecorded = y] =
          Bundle(attempt, bundle.state, bundle.statistics, x, bundle.archive, y)
    <3> HIDE DEF c
    <3> QED BY <2>1 DEF Bundle
  <2> QED BY <2>2
<1> QED BY <1>1, <1>2, <1>3, <1>4, <1>5

\* The fields of a bundle.
LEMMA BundleFields ==
  ASSUME NEW by, NEW state, NEW statistics, NEW strs, NEW arch, NEW first
  PROVE  LET b == Bundle(by, state, statistics, strs, arch, first) IN
         /\ b.by = by /\ b.state = state /\ b.statistics = statistics
         /\ b.streams = strs /\ b.archive = arch /\ b.firstRecorded = first
BY DEF Bundle

\* Nothing is on disk before the first attempt.
LEMMA InitIInv == Init => IInv
BY ArchiveAssumption DEF Init, IInv, RunHoldsItsBundle, OwnProcess, OwnArchive, OwnDescription, VerdictOfTheFiles,
       NothingFromTheFuture, PassedLeaves

\* An attempt that fills in its bundle goes on holding it.
LEMMA RunHoldsAfterUpdate ==
  ASSUME attempt \in Nat, attempt' = attempt, returned' = None, pc' # "idle",
         NEW state, NEW statistics, NEW strs, NEW arch, NEW first,
         bundle' = Bundle(attempt, state, statistics, strs, arch, first)
  PROVE  RunHoldsItsBundle'
BY BundleFields DEF RunHoldsItsBundle

\* A step of a run before it has anything on disk but its streams.
LEMMA BeforeTheArchive ==
  ASSUME IInv, pc # "idle", pc' \notin {"idle", "completed", "judging", "crosschecking", "rejecting"},
         pc \notin {"crosschecking", "rejecting"},
         RunHoldsItsBundle', attempt' = attempt, returned' = returned,
         described' = described, verdict' = verdict
  PROVE  OwnArchive' /\ OwnDescription' /\ VerdictOfTheFiles' /\ NothingFromTheFuture' /\ PassedLeaves'
<1>1. returned' = None
  BY DEF RunHoldsItsBundle, IInv
<1>2. returned' # "ok"
  BY <1>1, ArchiveAssumption
<1>3. NothingFromTheFuture'
  BY DEF IInv, NothingFromTheFuture
<1> QED BY <1>2, <1>3 DEF OwnArchive, OwnDescription, VerdictOfTheFiles, PassedLeaves

\* Every action keeps the invariant.  An attempt begins with a bundle of its own, and
\* all it finds in the directory is older.
LEMMA RunsIInv == ASSUME IInv, Runs \/ RunsAgain PROVE IInv'
<1>t. RunHoldsItsBundle /\ NothingFromTheFuture
  BY DEF IInv
<1>1. /\ attempt \in Nat /\ attempt' = attempt + 1
      /\ bundle' = [NewBundle EXCEPT !.by = attempt + 1]
      /\ pc' = "opening" /\ returned' = None
      /\ UNCHANGED <<cell, diskVars>>
  <2>1. CASE Runs
    <3>1. attempt = 0
      BY <2>1, <1>t DEF Runs, RunHoldsItsBundle
    <3> QED BY <2>1, <3>1 DEF Runs
  <2>2. CASE RunsAgain
    BY <2>2, <1>t DEF RunsAgain, RunHoldsItsBundle
  <2> QED BY <2>1, <2>2
<1>2. RunHoldsItsBundle'
  <2>1. bundle' = Bundle(attempt + 1, None, NoStatistics, <<>>, None, 0)
    BY <1>1 DEF NewBundle, Bundle
  <2> QED BY <2>1, <1>1, BundleFields DEF RunHoldsItsBundle
<1>3. NothingFromTheFuture'
  BY <1>t, <1>1 DEF NothingFromTheFuture, RunHoldsItsBundle, diskVars
<1>4. returned' # "ok"
  BY <1>1, ArchiveAssumption
<1> QED BY <1>1, <1>2, <1>3, <1>4 DEF IInv, OwnProcess, OwnArchive, OwnDescription, VerdictOfTheFiles, PassedLeaves

\* The streams are opened, written and closed, or a stage fails.
LEMMA MeasuringIInv ==
  ASSUME IInv, OpensStreams \/ Fails \/ ServicesStop \/ \E e \in Services : ServiceDies(e)
  PROVE  IInv'
<1>t. RunHoldsItsBundle /\ OwnProcess
  BY DEF IInv
<1>1. /\ pc \notin {"idle", "crosschecking", "rejecting"}
      /\ pc' \notin {"idle", "completed", "judging", "crosschecking", "rejecting"}
      /\ UNCHANGED <<cell, attempt, returned, bundle, described, verdict>>
  BY DEF OpensStreams, Fails, ServicesStop, ServiceDies, diskVars, runVars
<1>2. OwnProcess'
  BY <1>t DEF OwnProcess, OpensStreams, Fails, ServicesStop, ServiceDies, diskVars, runVars
<1>3. RunHoldsItsBundle'
  BY <1>t, <1>1 DEF RunHoldsItsBundle
<1> QED BY <1>1, <1>2, <1>3, BeforeTheArchive DEF IInv

\* The bundle is filled in.
LEMMA CollectingIInv ==
  ASSUME IInv, TakesStatistics \/ ClosesStreams \/ AccountsForServices
  PROVE  IInv'
<1>t. RunHoldsItsBundle /\ OwnProcess
  BY DEF IInv
<1>1. /\ pc \notin {"idle", "opening", "failing", "crosschecking", "rejecting"}
      /\ pc' \notin {"idle", "completed", "judging", "crosschecking", "rejecting"}
      /\ UNCHANGED <<cell, attempt, returned, process, described, verdict>>
  BY DEF TakesStatistics, ClosesStreams, AccountsForServices, diskVars, runVars
<1>2. OwnProcess'
  BY <1>t, <1>1 DEF OwnProcess
<1>3. /\ bundle = Bundle(attempt, bundle.state, bundle.statistics, bundle.streams, bundle.archive,
                         bundle.firstRecorded)
      /\ attempt \in Nat /\ returned = None
  BY <1>t, <1>1 DEF RunHoldsItsBundle
<1>4. RunHoldsItsBundle'
  <2>1. CASE TakesStatistics
    <3>1. PICK x : bundle' = [bundle EXCEPT !.statistics = x]
      BY <2>1 DEF TakesStatistics
    <3>2. bundle' = Bundle(attempt, bundle.state, x, bundle.streams, bundle.archive, bundle.firstRecorded)
      BY <3>1, <1>3, HeldUpdates
    <3> QED BY <3>2, <1>1, <1>3, RunHoldsAfterUpdate
  <2>2. CASE ClosesStreams
    <3>1. PICK x : bundle' = [bundle EXCEPT !.streams = x]
      BY <2>2 DEF ClosesStreams
    <3>2. bundle' = Bundle(attempt, bundle.state, bundle.statistics, x, bundle.archive, bundle.firstRecorded)
      BY <3>1, <1>3, HeldUpdates
    <3> QED BY <3>2, <1>1, <1>3, RunHoldsAfterUpdate
  <2>3. CASE AccountsForServices
    <3>1. CASE bundle' = bundle
      BY <3>1, <1>t, <1>1 DEF RunHoldsItsBundle
    <3>2. CASE bundle' # bundle
      <4>1. PICK x : bundle' = [bundle EXCEPT !.streams = x, !.firstRecorded = Warmup]
        BY <2>3, <3>2 DEF AccountsForServices
      <4>2. bundle' = Bundle(attempt, bundle.state, bundle.statistics, x, bundle.archive, Warmup)
        BY <4>1, <1>3, HeldUpdates
      <4> QED BY <4>2, <1>1, <1>3, RunHoldsAfterUpdate
    <3> QED BY <3>1, <3>2
  <2> QED BY <2>1, <2>2, <2>3
<1> QED BY <1>1, <1>2, <1>4, BeforeTheArchive DEF IInv

\* The archive is written from the streams nobody writes any more.
LEMMA ArchivesIInv == ASSUME IInv, Archives PROVE IInv'
<1>t. RunHoldsItsBundle /\ OwnProcess /\ NothingFromTheFuture
  BY DEF IInv
<1>1. /\ pc = "archiving" /\ pc' = "completed"
      /\ archived' = [by |-> attempt, torn |-> FALSE, rows |-> Write(Recorded(bundle))]
      /\ UNCHANGED <<cell, attempt, evidence, returned, streams, process, described, verdict>>
  BY DEF Archives, runVars
<1>2. /\ bundle = Bundle(attempt, bundle.state, bundle.statistics, bundle.streams, bundle.archive,
                         bundle.firstRecorded)
      /\ attempt \in Nat /\ returned = None
  BY <1>t, <1>1 DEF RunHoldsItsBundle
<1>3. bundle' = Bundle(attempt, bundle.state, bundle.statistics, bundle.streams, "events.parquet",
                       bundle.firstRecorded)
  BY <1>2, HeldUpdates DEF Archives
<1>4. RunHoldsItsBundle'
  BY <1>1, <1>2, <1>3, RunHoldsAfterUpdate
<1>5. bundle'.streams = bundle.streams /\ bundle'.firstRecorded = bundle.firstRecorded
  BY <1>3, BundleFields
<1>6. OwnArchive'
  <2>1. Recorded(bundle)' = Recorded(bundle)
    BY <1>1, <1>5, RecordedOfTheSameStreams
  <2> QED BY <2>1, <1>1 DEF OwnArchive
<1>7. OwnProcess' /\ NothingFromTheFuture'
  BY <1>t, <1>1 DEF OwnProcess, NothingFromTheFuture
<1>8. returned' # "ok"
  BY <1>1, <1>2, ArchiveAssumption
<1> QED BY <1>1, <1>4, <1>6, <1>7, <1>8 DEF IInv, OwnDescription, VerdictOfTheFiles, PassedLeaves

\* The description that is judged is the one of the bundle in memory.
LEMMA WritesCompletedIInv == ASSUME IInv, WritesCompleted PROVE IInv'
<1>t. RunHoldsItsBundle /\ OwnProcess /\ OwnArchive /\ NothingFromTheFuture
  BY DEF IInv
<1>1. /\ pc = "completed" /\ pc' = "judging"
      /\ UNCHANGED <<cell, attempt, evidence, returned, streams, process, archived, verdict>>
  BY DEF WritesCompleted, runVars
<1>2. /\ bundle = Bundle(attempt, bundle.state, bundle.statistics, bundle.streams, bundle.archive,
                         bundle.firstRecorded)
      /\ attempt \in Nat /\ returned = None
  BY <1>t, <1>1 DEF RunHoldsItsBundle
<1>3. bundle' = Bundle(attempt, "completed", bundle.statistics, bundle.streams, bundle.archive,
                       bundle.firstRecorded)
  BY <1>2, HeldUpdates DEF WritesCompleted
<1>4. RunHoldsItsBundle'
  BY <1>1, <1>2, <1>3, RunHoldsAfterUpdate
<1>5. /\ bundle'.by = attempt /\ bundle'.state = "completed"
      /\ bundle'.streams = bundle.streams /\ bundle'.firstRecorded = bundle.firstRecorded
  BY <1>3, BundleFields
<1>6. OwnArchive'
  <2>1. Recorded(bundle)' = Recorded(bundle)
    BY <1>1, <1>5, RecordedOfTheSameStreams
  <2> QED BY <2>1, <1>t, <1>1 DEF OwnArchive
<1>7. described' = [by |-> attempt, state |-> "completed", statistics |-> bundle'.statistics,
                    streams |-> bundle'.streams, archive |-> bundle'.archive,
                    firstRecorded |-> bundle'.firstRecorded, torn |-> FALSE]
  BY <1>5 DEF WritesCompleted, WriteBundle
<1>8. OwnDescription'
  BY <1>1, <1>7 DEF OwnDescription
<1>9. NothingFromTheFuture'
  <2>1. described'.by = attempt
    BY <1>7
  <2> QED BY <2>1, <1>t, <1>1, <1>2 DEF NothingFromTheFuture
<1>10. OwnProcess'
  BY <1>t, <1>1 DEF OwnProcess
<1>11. returned' # "ok"
  BY <1>1, <1>2, ArchiveAssumption
<1> QED BY <1>1, <1>4, <1>6, <1>8, <1>9, <1>10, <1>11 DEF IInv, VerdictOfTheFiles, PassedLeaves

\* A step that ends an attempt, not in success.
LEMMA EndsWithout ==
  ASSUME IInv, pc' = "idle", returned' \in {"error", "killed"}, attempt' = attempt,
         described' = described \/ described'.by = attempt, verdict' = verdict
  PROVE  IInv'
<1>t. RunHoldsItsBundle /\ NothingFromTheFuture
  BY DEF IInv
<1>1. returned' # None
  BY ArchiveAssumption
<1>2. RunHoldsItsBundle'
  BY <1>t, <1>1 DEF RunHoldsItsBundle
<1>3. NothingFromTheFuture'
  BY <1>t DEF NothingFromTheFuture, RunHoldsItsBundle
<1>4. PassedLeaves' <=> (returned' = "ok" => PassedLeaves')
  BY DEF PassedLeaves
<1>5. returned' # "ok"
  OBVIOUS
<1> QED BY <1>2, <1>3, <1>5 DEF IInv, OwnProcess, OwnArchive, OwnDescription, VerdictOfTheFiles, PassedLeaves

\* A failed or a rejected run describes itself as failed and is over.
LEMMA WritesFailureIInv == ASSUME IInv, WritesFailed \/ WritesRejected PROVE IInv'
<1>t. RunHoldsItsBundle
  BY DEF IInv
<1>1. /\ pc # "idle" /\ pc' = "idle" /\ returned' = "error"
      /\ bundle' = [bundle EXCEPT !.state = "failed"]
      /\ described'.by = bundle'.by
      /\ UNCHANGED <<attempt, verdict>>
  BY DEF WritesFailed, WritesRejected, Rejected, WriteBundle, Returns, runVars
<1>2. bundle' = Bundle(attempt, "failed", bundle.statistics, bundle.streams, bundle.archive,
                       bundle.firstRecorded)
  BY <1>t, <1>1, HeldUpdates DEF RunHoldsItsBundle
<1>3. bundle'.by = attempt
  BY <1>2, BundleFields
<1>4. described'.by = attempt
  BY <1>1, <1>3
<1> QED BY <1>1, <1>4, EndsWithout

\* A killed run leaves at most a torn file of its own.
LEMMA KilledIInv == ASSUME IInv, Killed PROVE IInv'
<1>1. /\ pc' = "idle" /\ returned' = "killed" /\ UNCHANGED <<attempt, verdict>>
      /\ described' = described \/ described'.by = attempt
  BY DEF Killed, Returns, runVars
<1> QED BY <1>1, EndsWithout

\* The verdict is reached from the attempt's own two files, or the run is over.
LEMMA JudgesArchiveIInv == ASSUME IInv, JudgesArchive PROVE IInv'
<1>t. RunHoldsItsBundle /\ OwnProcess /\ OwnArchive /\ OwnDescription /\ NothingFromTheFuture
  BY DEF IInv
<1>1. /\ pc = "judging"
      /\ UNCHANGED <<cell, attempt, evidence, bundle, streams, process, archived, described>>
  BY DEF JudgesArchive, runVars
<1>2. CASE ValidateBundle = None
  <2>1. pc' = "idle" /\ returned' = "error" /\ verdict' = verdict
    BY <1>2 DEF JudgesArchive, Returns
  <2> QED BY <1>1, <2>1, EndsWithout
<1>3. CASE ValidateBundle # None
  <2>1. verdict' = ValidateBundle /\ pc' = "crosschecking" /\ returned' = returned
    BY <1>3 DEF JudgesArchive
  <2>2. returned = None /\ attempt \in Nat
    BY <1>t, <1>1 DEF RunHoldsItsBundle
  <2>3. RunHoldsItsBundle' /\ OwnProcess'
    BY <1>t, <1>1, <2>1 DEF RunHoldsItsBundle, OwnProcess
  <2>4. OwnArchive'
    <3>1. Recorded(bundle)' = Recorded(bundle)
      BY <1>1, RecordedOfTheSameStreams
    <3> QED BY <3>1, <1>t, <1>1 DEF OwnArchive
  <2>5. OwnDescription'
    BY <1>t, <1>1 DEF OwnDescription
  <2>6. ValidateBundle' = ValidateBundle
    BY <1>1, JudgedFromTheSameFiles
  <2>7. VerdictOfTheFiles'
    BY <2>1, <2>6, <1>3 DEF VerdictOfTheFiles
  <2>8. verdict'.bundleBy = attempt
    <3>1. described.by = attempt
      BY <1>t, <1>1 DEF OwnDescription
    <3>2. ValidateBundle.bundleBy = described.by
      BY <1>3 DEF ValidateBundle
    <3> QED BY <3>1, <3>2, <2>1
  <2>9. NothingFromTheFuture'
    BY <1>t, <1>1, <2>1, <2>2, <2>8 DEF NothingFromTheFuture
  <2>10. returned' # "ok"
    BY <2>1, <2>2, ArchiveAssumption
  <2> QED BY <2>3, <2>4, <2>5, <2>7, <2>9, <2>10 DEF IInv, PassedLeaves
<1> QED BY <1>2, <1>3

\* Only a verdict that passed lets Run return without error.
LEMMA JudgesStreamsIInv == ASSUME IInv, JudgesStreams PROVE IInv'
<1>t. /\ RunHoldsItsBundle /\ OwnProcess /\ OwnArchive /\ OwnDescription /\ VerdictOfTheFiles
      /\ NothingFromTheFuture
  BY DEF IInv
<1>1. /\ pc = "crosschecking"
      /\ UNCHANGED <<cell, attempt, evidence, bundle, streams, process, archived, described, verdict>>
  BY DEF JudgesStreams, runVars, diskVars
<1>2. CASE pc' = "idle" /\ returned' = "error"
  BY <1>1, <1>2, EndsWithout
<1>3. CASE pc' = "rejecting" /\ returned' = returned
  <2>1. RunHoldsItsBundle' /\ OwnProcess' /\ NothingFromTheFuture'
    BY <1>t, <1>1, <1>3 DEF RunHoldsItsBundle, OwnProcess, NothingFromTheFuture
  <2>2. returned' # "ok"
    BY <1>t, <1>1, <1>3, ArchiveAssumption DEF RunHoldsItsBundle
  <2> QED BY <2>1, <2>2, <1>3 DEF IInv, OwnArchive, OwnDescription, VerdictOfTheFiles, PassedLeaves
<1>4. CASE pc' = "idle" /\ returned' = "ok" /\ Passed(verdict)
  <2>1. RunHoldsItsBundle'
    <3>1. returned' # None
      BY <1>4, ArchiveAssumption
    <3> QED BY <1>t, <1>1, <1>4, <3>1 DEF RunHoldsItsBundle
  <2>2. NothingFromTheFuture'
    BY <1>t, <1>1, <1>4 DEF NothingFromTheFuture
  <2>3. verdict' = ValidateBundle' /\ ValidateBundle' # None
    <3>1. ValidateBundle' = ValidateBundle
      BY <1>1, JudgedFromTheSameFiles
    <3> QED BY <3>1, <1>t, <1>1 DEF VerdictOfTheFiles
  <2>4. described.by = attempt /\ described.torn = FALSE /\ described.state = "completed"
    BY <1>t, <1>1 DEF OwnDescription
  <2>5. archived.by = attempt /\ archived.torn = FALSE
    BY <1>t, <1>1 DEF OwnArchive
  <2>6. verdict.bundleBy = attempt /\ verdict.archiveBy = attempt
    <3>1. verdict = ValidateBundle /\ ValidateBundle # None
      BY <1>t, <1>1 DEF VerdictOfTheFiles
    <3>2. ValidateBundle.bundleBy = described.by /\ ValidateBundle.archiveBy = archived.by
      BY <3>1 DEF ValidateBundle
    <3> QED BY <3>1, <3>2, <2>4, <2>5
  <2>7. UsesProxy(cell) => process = attempt
    BY <1>t, <1>1 DEF OwnProcess
  <2>8. Passed(verdict)'
    BY <1>1, <1>4 DEF Passed
  <2>9. PassedLeaves'
    BY <1>1, <2>3, <2>4, <2>5, <2>6, <2>7, <2>8 DEF PassedLeaves
  <2> QED BY <2>1, <2>2, <2>9, <1>4 DEF IInv, OwnProcess, OwnArchive, OwnDescription, VerdictOfTheFiles
<1> QED BY <1>2, <1>3, <1>4 DEF JudgesStreams, Returns

\* The operator reaches the verdict of the files that are there, which changes
\* nothing after a run that passed.
LEMMA OperatorJudgesIInv == ASSUME IInv, OperatorJudges PROVE IInv'
<1>t. RunHoldsItsBundle /\ NothingFromTheFuture /\ PassedLeaves
  BY DEF IInv
<1>1. /\ pc = "idle" /\ returned # None
      /\ ValidateBundle # None /\ verdict' = ValidateBundle
      /\ UNCHANGED <<cell, attempt, evidence, pc, returned, process, archived, described>>
  BY DEF OperatorJudges, runVars
<1>2. ValidateBundle' = ValidateBundle
  BY <1>1, JudgedFromTheSameFiles
<1>3. RunHoldsItsBundle'
  BY <1>t, <1>1 DEF RunHoldsItsBundle
<1>4. NothingFromTheFuture'
  <2>1. ValidateBundle.bundleBy = described.by /\ described # None
    BY <1>1 DEF ValidateBundle
  <2> QED BY <2>1, <1>t, <1>1 DEF NothingFromTheFuture
<1>5. PassedLeaves'
  <2>1. CASE returned = "ok"
    <3>1. verdict' = verdict
      BY <1>t, <1>1, <2>1 DEF PassedLeaves
    <3>2. Passed(verdict)' <=> Passed(verdict)
      BY <3>1 DEF Passed
    <3> QED BY <3>1, <3>2, <1>t, <1>1, <1>2, <2>1 DEF PassedLeaves
  <2>2. CASE returned # "ok"
    BY <2>2, <1>1 DEF PassedLeaves
  <2> QED BY <2>1, <2>2
<1> QED BY <1>1, <1>3, <1>4, <1>5 DEF IInv, OwnProcess, OwnArchive, OwnDescription, VerdictOfTheFiles

\* A step that changes nothing.
LEMMA StutterIInv == ASSUME IInv, UNCHANGED vars PROVE IInv'
<1>1. ValidateBundle' = ValidateBundle
  BY JudgedFromTheSameFiles DEF vars, runVars, diskVars
<1>2. Recorded(bundle)' = Recorded(bundle)
  BY RecordedOfTheSameStreams DEF vars, runVars, diskVars
<1>3. Passed(verdict)' <=> Passed(verdict)
  BY DEF Passed, vars, diskVars
<1>4. UNCHANGED <<cell, attempt, pc, returned, bundle, process, archived, described, verdict>>
  BY DEF vars, runVars, diskVars
<1> QED BY <1>1, <1>2, <1>3, <1>4 DEF IInv, RunHoldsItsBundle, OwnProcess, OwnArchive, OwnDescription,
         VerdictOfTheFiles, NothingFromTheFuture, PassedLeaves

\* The invariant holds in every behaviour of the archive.
LEMMA Provenance == Spec => []IInv
<1>1. Init => IInv
  BY InitIInv
<1>2. IInv /\ [Next]_vars => IInv'
  <2> SUFFICES ASSUME IInv, [Next]_vars PROVE IInv'
    OBVIOUS
  <2>1. CASE Runs \/ RunsAgain
    BY <2>1, RunsIInv
  <2>2. CASE OpensStreams \/ Fails \/ ServicesStop \/ \E e \in Services : ServiceDies(e)
    BY <2>2, MeasuringIInv
  <2>3. CASE TakesStatistics \/ ClosesStreams \/ AccountsForServices
    BY <2>3, CollectingIInv
  <2>4. CASE Archives
    BY <2>4, ArchivesIInv
  <2>5. CASE WritesCompleted
    BY <2>5, WritesCompletedIInv
  <2>6. CASE WritesFailed \/ WritesRejected
    BY <2>6, WritesFailureIInv
  <2>7. CASE JudgesArchive
    BY <2>7, JudgesArchiveIInv
  <2>8. CASE JudgesStreams
    BY <2>8, JudgesStreamsIInv
  <2>9. CASE Killed
    BY <2>9, KilledIInv
  <2>10. CASE OperatorJudges
    BY <2>10, OperatorJudgesIInv
  <2>11. CASE UNCHANGED vars
    BY <2>11, StutterIInv
  <2> QED BY <2>1, <2>2, <2>3, <2>4, <2>5, <2>6, <2>7, <2>8, <2>9, <2>10, <2>11 DEF Next
<1> QED BY <1>1, <1>2, PTL DEF Spec

-----------------------------------------------------------------------------
(* What a run's verdict is worth.                                          *)

\* A run that returns without error leaves only files of its own.
OwnFiles ==
  returned = "ok" =>
    /\ described.by = attempt /\ ~described.torn /\ described.state = "completed"
    /\ archived.by = attempt /\ ~archived.torn
    /\ verdict.bundleBy = attempt /\ verdict.archiveBy = attempt /\ Passed(verdict)
    /\ UsesProxy(cell) => process = attempt

\* Run returns without error only when bundle.json, events.parquet, verdict.json and
\* the process record are all of this attempt, whatever an earlier one left, and the
\* operator's judging does not change that.
THEOREM PassedLeavesItsOwnFiles == Spec => []OwnFiles
<1>1. IInv => OwnFiles
  BY DEF IInv, PassedLeaves, OwnFiles
<1> QED BY <1>1, Provenance, PTL

\* The two verdicts finalizeVerdict compares are the same.
VerdictsAgree ==
  pc = "crosschecking" /\ Archivable(Recorded(described)) =>
    verdict.defects = ValidateStreams(described)

\* Archive and streams are judged to the same defects, for the archive holds what the
\* streams hold.
LEMMA IInvVerdictsAgree == IInv => VerdictsAgree
<1> SUFFICES ASSUME IInv, pc = "crosschecking", Archivable(Recorded(described))
             PROVE  verdict.defects = ValidateStreams(described)
  BY DEF VerdictsAgree
<1>1. verdict = ValidateBundle /\ ValidateBundle # None
  BY DEF IInv, VerdictOfTheFiles
<1>2. archived.rows = Write(Recorded(bundle))
  BY DEF IInv, OwnArchive
<1>3. described.streams = bundle.streams /\ described.firstRecorded = bundle.firstRecorded
  BY DEF IInv, OwnDescription
<1>4. Recorded(described) = Recorded(bundle)
  BY <1>3 DEF Recorded, ReadStreams
<1>5. Read(archived.rows) = Recorded(described)
  BY <1>2, <1>4, ArchiveKeepsItsRecords
<1>6. ValidateBundle.defects = Validate(Expectation(described), Join(Read(archived.rows)))
  BY <1>1 DEF ValidateBundle
<1> QED BY <1>1, <1>5, <1>6 DEF ValidateStreams

\* finalizeVerdict never finds archive and streams in disagreement on records both
\* have a place for: the bundle that completes is not left standing beside an error.
THEOREM VerdictsOfARunAgree == Spec => []VerdictsAgree
BY Provenance, IInvVerdictsAgree, PTL

\* No attempt has ended before the first.
LEMMA InitErrorLeaves == Init => ErrorLeaves
BY ArchiveAssumption DEF Init, ErrorLeaves

\* However a run ends in an error, its bundle says failed or nobody can judge it.
LEMMA StepErrorLeaves ==
  ASSUME IInv, ErrorLeaves, VerdictSurvivesTheArchive, [Next]_vars
  PROVE  ErrorLeaves'
<1>t. RunHoldsItsBundle /\ NothingFromTheFuture /\ VerdictOfTheFiles /\ VerdictsAgree
  BY IInvVerdictsAgree DEF IInv
<1>0. None \notin {"ok", "error", "killed"}
  BY ArchiveAssumption
<1>1. CASE returned' \notin {"ok", "error"}
  BY <1>1 DEF ErrorLeaves
<1>2. CASE WritesFailed \/ WritesRejected
  <2>1. /\ pc # "idle" /\ returned' = "error"
        /\ bundle' = [bundle EXCEPT !.state = "failed"]
        /\ described' = [by |-> bundle'.by, state |-> bundle'.state, statistics |-> bundle'.statistics,
                         streams |-> bundle'.streams, archive |-> bundle'.archive,
                         firstRecorded |-> bundle'.firstRecorded, torn |-> FALSE]
    BY <1>2 DEF WritesFailed, WritesRejected, Rejected, WriteBundle, Returns
  <2>2. bundle' = Bundle(attempt, "failed", bundle.statistics, bundle.streams, bundle.archive,
                         bundle.firstRecorded)
    BY <1>t, <2>1, HeldUpdates DEF RunHoldsItsBundle
  <2>3. bundle'.state = "failed"
    BY <2>2, BundleFields
  <2>4. described'.state = "failed" /\ described'.torn = FALSE
    BY <2>1, <2>3
  <2> QED BY <2>1, <2>4 DEF ErrorLeaves
<1>3. CASE JudgesArchive /\ returned' = "error"
  <2>1. ValidateBundle = None /\ verdict' = verdict /\ pc = "judging"
    BY <1>3, <1>t, <1>0 DEF JudgesArchive, RunHoldsItsBundle
  <2>2. UNCHANGED <<attempt, described, archived, evidence>>
    BY <1>3 DEF JudgesArchive, runVars
  <2>3. ValidateBundle' = None
    BY <2>1, <2>2, JudgedFromTheSameFiles
  <2>4. verdict # None => verdict.bundleBy < attempt
    BY <1>t, <2>1 DEF NothingFromTheFuture
  <2> QED BY <1>3, <2>1, <2>2, <2>3, <2>4 DEF ErrorLeaves
<1>4. CASE JudgesStreams
  <2>1. pc = "crosschecking" /\ UNCHANGED <<evidence, verdict>>
    BY <1>4 DEF JudgesStreams, runVars, diskVars
  <2>2. verdict.defects = ValidateStreams(described) /\ verdict.defects = evidence.defects
    BY <1>t, <2>1 DEF VerdictSurvivesTheArchive, VerdictsAgree
  <2>3. ~ (Passed(verdict) # (ValidateStreams(described) = {}))
    BY <2>2 DEF Passed
  <2>4. \/ Passed(verdict) /\ returned' = "ok"
        \/ returned' = returned
    BY <1>4, <2>3 DEF JudgesStreams, Returns
  <2>5. returned = None
    BY <1>t, <2>1 DEF RunHoldsItsBundle
  <2>6. Passed(verdict) => evidence.defects = {}
    BY <2>2 DEF Passed
  <2> QED BY <2>1, <2>4, <2>5, <2>6, <1>0 DEF ErrorLeaves
<1>5. CASE OperatorJudges
  <2>1. /\ ValidateBundle # None /\ verdict' = ValidateBundle
        /\ UNCHANGED <<attempt, returned, evidence, described, archived>>
    BY <1>5 DEF OperatorJudges, runVars
  <2> QED BY <2>1 DEF ErrorLeaves
<1>6. CASE UNCHANGED <<attempt, returned, evidence, described, archived, verdict>>
  <2>1. ValidateBundle' = ValidateBundle
    BY <1>6, JudgedFromTheSameFiles
  <2> QED BY <1>6, <2>1 DEF ErrorLeaves
<1>7. CASE Runs \/ RunsAgain \/ OpensStreams \/ Fails \/ ServicesStop \/ TakesStatistics \/ ClosesStreams
           \/ AccountsForServices \/ Archives \/ WritesCompleted \/ \E e \in Services : ServiceDies(e)
  <2>1. returned' = None
    <3>1. pc # "idle" => returned = None
      BY <1>t DEF RunHoldsItsBundle
    <3>2. CASE Runs \/ RunsAgain
      BY <3>2 DEF Runs, RunsAgain
    <3>3. CASE ~(Runs \/ RunsAgain)
      <4>1. pc # "idle" /\ returned' = returned
        BY <1>7, <3>3 DEF OpensStreams, Fails, ServicesStop, TakesStatistics, ClosesStreams,
           AccountsForServices, Archives, WritesCompleted, ServiceDies, diskVars
      <4> QED BY <3>1, <4>1
    <3> QED BY <3>2, <3>3
  <2> QED BY <2>1, <1>0, <1>1
<1>8. CASE Killed
  BY <1>8, <1>1, <1>0 DEF Killed, Returns
<1>9. CASE JudgesArchive /\ returned' # "error"
  <2>1. returned' = None
    BY <1>9, <1>t, <1>0 DEF JudgesArchive, Returns, RunHoldsItsBundle
  <2> QED BY <2>1, <1>0, <1>1
<1>10. CASE UNCHANGED vars
  BY <1>10, <1>6 DEF vars, runVars, diskVars
<1> QED BY <1>2, <1>3, <1>4, <1>5, <1>7, <1>8, <1>9, <1>10 DEF Next

\* Where the conversions lose nothing - the verdict survives the archive - a run
\* that returns without error left its own files and its evidence is sound, and one
\* that was rejected does not stay completed.
THEOREM ARunIsJudgedByItsOwn == Spec /\ []VerdictSurvivesTheArchive => []CompletedMeansItsOwn
<1>1. Init => ErrorLeaves
  BY InitErrorLeaves
<1>2. IInv /\ VerdictSurvivesTheArchive /\ ErrorLeaves /\ [Next]_vars => ErrorLeaves'
  BY StepErrorLeaves
<1>3. IInv /\ ErrorLeaves => CompletedMeansItsOwn
  <2> SUFFICES ASSUME IInv, ErrorLeaves PROVE CompletedMeansItsOwn
    OBVIOUS
  <2>1. PassedLeaves
    BY DEF IInv
  <2>2. ASSUME returned = "error", verdict # None, verdict.bundleBy = attempt, ~Passed(verdict)
        PROVE  described.state = "failed"
    <3>1. attempt \in Nat
      BY DEF IInv, RunHoldsItsBundle
    <3>2. ~(verdict.bundleBy < attempt)
      BY <2>2, <3>1
    <3> QED BY <2>2, <3>2 DEF ErrorLeaves
  <2> QED BY <2>1, <2>2 DEF ErrorLeaves, PassedLeaves, CompletedMeansItsOwn
<1> QED BY <1>1, <1>2, <1>3, Provenance, PTL DEF Spec

=============================================================================
