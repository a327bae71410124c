--------------------------- MODULE ModelRepository ---------------------------
(***************************************************************************)
(* The artifacts a run may serve and the Triton model repository that is   *)
(* built of one of them (internal/modelrepo), as pure operators.           *)
(*                                                                         *)
(* A file is its content; its digest is the content again, since no two    *)
(* contents share a SHA-256.                                               *)
(***************************************************************************)
EXTENDS Integers, Sequences

CatalogSchemaVersion == 1

\* How a symbolic dimension is written here: no tensor has a dimension of zero.
Symbolic == 0

Tensor(dataType, dims) == [dataType |-> dataType, dims |-> dims]

\* sized is whether the catalog states the size, and states it rightly.
Artifact(id, digest, attesting) ==
  [id |-> id, digest |-> digest, sized |-> "rightly", attesting |-> attesting,
   inputs  |-> [DATA |-> Tensor("FP32", <<Symbolic, 8>>), PADDING |-> Tensor("FP32", <<Symbolic, 4>>),
                UID |-> Tensor("INT64", <<Symbolic, 1>>)],
   outputs |-> [UIDSET |-> Tensor("INT64", <<Symbolic, Symbolic>>)]]

\* LoadCatalog refuses a catalog of another version, an empty one, and one with an
\* artifact that has no id or no SHA-256.
LoadCatalog(catalog, missing) ==
  /\ catalog.schemaVersion = CatalogSchemaVersion
  /\ catalog.artifacts # <<>>
  /\ \A i \in DOMAIN catalog.artifacts :
       catalog.artifacts[i].id # missing /\ catalog.artifacts[i].digest # missing

Listed(catalog, id) == {i \in DOMAIN catalog.artifacts : catalog.artifacts[i].id = id}

\* The first artifact of that id.
ArtifactOf(catalog, id) ==
  catalog.artifacts[CHOOSE i \in Listed(catalog, id) : \A j \in Listed(catalog, id) : i <= j]

SelfAttesting(a) == a.attesting

FileDigest(content) == content

\* Verify reads a file and holds it against the catalog.
Verify(content, a) == FileDigest(content) = a.digest /\ a.sized \in {"rightly", "not"}

-----------------------------------------------------------------------------
(* The configuration of an entry.                                          *)

tritonDataType == [FP32 |-> "TYPE_FP32", FP16 |-> "TYPE_FP16", INT64 |-> "TYPE_INT64", INT32 |-> "TYPE_INT32"]

\* A symbolic dimension stays free.  Above max_batch_size 0 the first dimension
\* is Triton's and is left out.
tritonDims(dims, maxBatch) ==
  LET resolved == [i \in DOMAIN dims |-> IF dims[i] = Symbolic THEN -1 ELSE dims[i]]
  IN IF maxBatch > 0 THEN Tail(resolved) ELSE resolved

\* A section can be written if it has tensors, each of a known type and with
\* dimensions left.
Renders(tensors, maxBatch) ==
  /\ DOMAIN tensors # {}
  /\ \A t \in DOMAIN tensors :
       /\ tensors[t].dataType \in DOMAIN tritonDataType
       /\ Len(tensors[t].dims) > (IF maxBatch > 0 THEN 1 ELSE 0)

renderTensors(tensors, maxBatch) ==
  [t \in DOMAIN tensors |-> Tensor(tritonDataType[tensors[t].dataType], tritonDims(tensors[t].dims, maxBatch))]

Renderable(a, maxBatch) == Renders(a.inputs, maxBatch) /\ Renders(a.outputs, maxBatch)

\* config.pbtxt.  Only the dynamic entry has a batching stanza, and every entry
\* has one instance.
renderConfig(a, kind, maxBatch) ==
  [name |-> <<a.id, kind>>, maxBatch |-> maxBatch, dynamic |-> kind = "dynamic", instances |-> 1,
   inputs |-> renderTensors(a.inputs, maxBatch), outputs |-> renderTensors(a.outputs, maxBatch)]

MaxBatch(kind, requested) == IF kind = "unbatched" THEN 0 ELSE requested

\* One entry on disk: the model file and its configuration.
Materialized(a, kind, requested, content) ==
  [content |-> content, config |-> renderConfig(a, kind, MaxBatch(kind, requested))]

\* What the bundle says of it.
Entry(a, kind, requested) ==
  [name |-> <<a.id, kind>>, kind |-> kind, artifact |-> a.id, digest |-> a.digest,
   config |-> renderConfig(a, kind, MaxBatch(kind, requested))]

=============================================================================
