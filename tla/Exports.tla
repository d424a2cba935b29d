------------------------------- MODULE Exports -------------------------------
(***************************************************************************)
(* Exports (core/export/exporter.ts, core/pagination/cursor.ts): a reader  *)
(* walks a changing list of records page by page, each page an export with *)
(* its authorisation, its idempotency claim and its quota charge, or pulls *)
(* them as a stream of chunks.                                             *)
(*                                                                         *)
(* A record is a number, the key of its row; rows are listed in ascending  *)
(* order and come and go between requests.  Reserved records and reserved  *)
(* fields are for maintainers.  exportRecords runs without an await and is *)
(* one step, with what it calls in the idempotency and quota stores.       *)
(* Envelope metadata, redaction of values and telemetry are left out.      *)
(***************************************************************************)
EXTENDS Integers, Sequences, FiniteSets, SequencesExt

CONSTANTS
  Rows,         \* keys that rows may have
  ReservedRows, \* rows of sources whose scope is maintainer
  PageSize,
  ChunkSize,
  QuotaLimit,   \* exports the quota allows
  MaxChanges    \* bound: changes of the list

ASSUME ExportConstants ==
  /\ Rows \subseteq Nat /\ ReservedRows \subseteq Rows
  /\ PageSize \in Nat \ {0} /\ ChunkSize \in Nat \ {0}
  /\ QuotaLimit \in Nat /\ MaxChanges \in Nat

VARIABLES
  listed,   \* the rows that exist
  reader,   \* who walks, and whether cursors are resolved by the order of the keys
  walk,     \* the rows served, the last cursor, the rows there all along, and whether its place was lost
  claim,    \* the idempotency record of the request at hand
  charged,  \* exports charged to the quota
  stream,   \* the stream being pulled
  changes

exportVars == <<listed, reader, walk, claim, charged, stream, changes>>

-----------------------------------------------------------------------------
(* paginateByCursor. *)

NoCursor == [key |-> -1, offset |-> 0]
Ascending(rows) == SetToSortSeq(rows, <)

(* Where a page starts, counted from 0. *)
BoundedStart(items, start) == IF start > Len(items) THEN Len(items) ELSE start

(* items.slice: at most so many, after the first start. *)
Slice(items, start, many) ==
  [i \in 1..(BoundedStart(items, start + many) - start) |-> items[start + i]]

(* Mutant: the page after a removed anchor starts after its old offset. *)
StartAfterOffset(items, cursor, ordered) ==
  LET anchor == SelectInSeq(items, LAMBDA k : k = cursor.key)
  IN IF cursor = NoCursor THEN 0 ELSE IF anchor > 0 THEN anchor ELSE BoundedStart(items, cursor.offset + 1)

StartOf(items, cursor, ordered) ==
  LET anchor == SelectInSeq(items, LAMBDA k : k = cursor.key)
      resume == SelectInSeq(items, LAMBDA k : k > cursor.key)
  IN CASE cursor = NoCursor -> 0
       [] cursor # NoCursor /\ anchor > 0 -> anchor
       [] cursor # NoCursor /\ anchor = 0 /\ ordered -> IF resume > 0 THEN resume - 1 ELSE Len(items)
       [] OTHER -> BoundedStart(items, cursor.offset)

PaginateByCursor(items, cursor, ordered) ==
  LET start == StartOf(items, cursor, ordered)
      end == BoundedStart(items, start + PageSize)
      visible == Slice(items, start, PageSize)
      hasMore == end < Len(items)
  IN [items |-> visible, hasMore |-> hasMore,
      nextCursor |-> IF hasMore THEN [key |-> Last(visible), offset |-> end - 1] ELSE NoCursor]

-----------------------------------------------------------------------------
(* authorizeExport, and the sources a request may read. *)
Authorized(scope) == scope = "maintainer" => reader.maintainer
Allowed(scope) == IF scope = "maintainer" THEN listed ELSE listed \ ReservedRows

NoWalk == [scope |-> "none", cursor |-> NoCursor, served |-> <<>>, steady |-> {}, done |-> FALSE, lost |-> FALSE]
NoClaim == [status |-> "none", response |-> NoCursor]
NoStream == [state |-> "none", scope |-> "none", source |-> <<>>, chunks |-> <<>>, audited |-> "no"]

Page == PaginateByCursor(Ascending(Allowed(walk.scope)), walk.cursor, reader.ordered)

(* A new walk; its requests carry keys of their own. *)
StartWalk(scope) ==
  /\ walk.scope = "none" \/ walk.done
  /\ walk' = [NoWalk EXCEPT !.scope = scope, !.steady = Allowed(scope)]
  /\ claim' = NoClaim
  /\ UNCHANGED <<listed, reader, charged, stream, changes>>

Requesting == walk.scope # "none" /\ ~walk.done

(* The reader is given an envelope, and goes on to the next request with another key. *)
Receive(envelope) ==
  /\ walk' = [walk EXCEPT !.served = @ \o envelope.items, !.cursor = envelope.nextCursor, !.done = ~envelope.hasMore]
  /\ claim' = NoClaim

(* begin finds the completed request: its envelope again. *)
ReplayExport ==
  /\ Requesting /\ claim.status = "completed"
  /\ Receive(claim.response)
  /\ UNCHANGED <<listed, reader, charged, stream, changes>>

(* begin goes on, having claimed the key, or finding that its first request failed. *)
Begins == Requesting /\ claim.status \in {"none", "failed"}

(* Refused before the quota is charged; a claim just taken is recorded as failed. *)
ExportDenied(keyed, fields) ==
  /\ Begins
  /\ ~Authorized(walk.scope) \/ (fields = "reserved" /\ ~reader.maintainer)
  /\ claim' = IF keyed THEN [NoClaim EXCEPT !.status = "failed"] ELSE claim
  /\ UNCHANGED <<listed, reader, walk, charged, stream, changes>>

MayCharge == charged < QuotaLimit

(***************************************************************************)
(* The export is charged and built, and the answer is received or lost.  A *)
(* key whose first request failed was not claimed again: completing it is  *)
(* refused, and the request with it.  (A refusal by the quota abandons the *)
(* claim, which leaves everything as it was.)                              *)
(***************************************************************************)
ExportRecords(keyed, received) ==
  /\ Begins /\ Authorized(walk.scope)
  /\ MayCharge /\ charged' = charged + 1
  /\ CASE keyed /\ claim.status = "failed" -> UNCHANGED <<walk, claim>>
       [] received /\ ~(keyed /\ claim.status = "failed") -> Receive(Page)
       [] OTHER -> /\ claim' = IF keyed THEN [status |-> "completed", response |-> Page] ELSE claim
                   /\ UNCHANGED walk
  /\ UNCHANGED <<listed, reader, stream, changes>>

(* collect throws out of the export: the charge is spent, and the claim stays in flight. *)
SourceThrows(keyed) ==
  /\ Begins /\ Authorized(walk.scope) /\ MayCharge /\ charged' = charged + 1
  /\ claim' = IF keyed /\ claim = NoClaim THEN [NoClaim EXCEPT !.status = "in_flight"] ELSE claim
  /\ UNCHANGED <<listed, reader, walk, stream, changes>>

(* The claim's time-to-live passes, and the next begin drops it with an error. *)
ClaimExpires ==
  /\ claim # NoClaim /\ claim' = NoClaim
  /\ UNCHANGED <<listed, reader, walk, charged, stream, changes>>

-----------------------------------------------------------------------------
(* streamExportRecords, and the generator that its caller pulls. *)
OpenStream(scope) ==
  /\ stream.state \notin {"open", "running"} /\ Authorized(scope)
  /\ MayCharge /\ charged' = charged + 1
  /\ stream' = [NoStream EXCEPT !.state = "open", !.scope = scope]
  /\ UNCHANGED <<listed, reader, walk, claim, changes>>

(* The sources are read when the first chunk is pulled. *)
Sourced == IF stream.state = "open" THEN Ascending(Allowed(stream.scope)) ELSE stream.source
Delivered == FlattenSeq(stream.chunks)
StreamEnds(how) == [stream EXCEPT !.state = how, !.source = Sourced, !.audited = how]
Buffer == Slice(Sourced, Len(Delivered), ChunkSize)

(* Mutant: a buffer that is not full is dropped at the end of the source. *)
PullWholeChunks(aborted) ==
  /\ stream.state \in {"open", "running"}
  /\ stream' = IF Len(Buffer) < ChunkSize THEN StreamEnds("completed")
               ELSE [stream EXCEPT !.state = "running", !.source = Sourced, !.chunks = Append(@, Buffer)]
  /\ UNCHANGED <<listed, reader, walk, claim, charged, changes>>

(* next(): a chunk, or the summary when the signal is aborted or the source exhausted. *)
PullChunk(aborted) ==
  /\ stream.state \in {"open", "running"}
  /\ stream' = CASE aborted -> StreamEnds("cancelled")
                 [] ~aborted /\ Buffer = <<>> -> StreamEnds("completed")
                 [] OTHER -> [stream EXCEPT !.state = "running", !.source = Sourced, !.chunks = Append(@, Buffer)]
  /\ UNCHANGED <<listed, reader, walk, claim, charged, changes>>

(* A source throws, or the caller returns; a generator never pulled has nothing to finish. *)
StreamStops(throws) ==
  /\ stream.state \in {"open", "running"}
  /\ stream' = IF throws \/ stream.state = "running" THEN StreamEnds("cancelled") ELSE NoStream
  /\ UNCHANGED <<listed, reader, walk, claim, charged, changes>>

-----------------------------------------------------------------------------
(* The anchors of the walk's cursor, and of the one in an answer that may be replayed. *)
Anchors == {walk.cursor.key} \cup (IF claim.status = "completed" THEN {claim.response.nextCursor.key} ELSE {})

(* Rows come and go.  Without an order of the keys, the loss of the anchor loses the place. *)
RowAppears(k) ==
  /\ changes < MaxChanges /\ changes' = changes + 1
  /\ k \in Rows \ listed /\ listed' = listed \cup {k}
  /\ UNCHANGED <<reader, walk, claim, charged, stream>>

RowGoes(k) ==
  /\ changes < MaxChanges /\ changes' = changes + 1
  /\ k \in listed /\ listed' = listed \ {k}
  /\ walk' = [walk EXCEPT !.steady = @ \ {k}, !.lost = @ \/ (k \in Anchors /\ ~reader.ordered)]
  /\ UNCHANGED <<reader, claim, charged, stream>>

ExportInit ==
  /\ listed \in SUBSET Rows
  /\ reader \in [maintainer : BOOLEAN, ordered : BOOLEAN]
  /\ walk = NoWalk /\ claim = NoClaim
  /\ charged = 0 /\ stream = NoStream /\ changes = 0

ExportNext ==
  \/ ReplayExport \/ ClaimExpires
  \/ \E scope \in {"own", "maintainer"} : StartWalk(scope) \/ OpenStream(scope)
  \/ \E keyed \in BOOLEAN :
       \/ SourceThrows(keyed)
       \/ \E received \in BOOLEAN : ExportRecords(keyed, received)
       \/ \E fields \in {"plain", "reserved"} : ExportDenied(keyed, fields)
  \/ \E aborted \in BOOLEAN : PullChunk(aborted)
  \/ \E throws \in BOOLEAN : StreamStops(throws)
  \/ \E k \in Rows : RowAppears(k) \/ RowGoes(k)

-----------------------------------------------------------------------------
(***************************************************************************)
(* Nothing is served twice, and what is there all along is served: by a    *)
(* walk, while rows come and go, answers are lost and requests repeated,   *)
(* as long as the anchor of its cursor stays or the keys have an order     *)
(* (docs/PAGINATION.md: "No row is skipped or repeated, however many rows  *)
(* were removed before it"); and by a stream, whose audit record says      *)
(* completed exactly when everything was handed out.                       *)
(***************************************************************************)
EveryRowOnce ==
  /\ ~walk.lost => /\ \A i, j \in DOMAIN walk.served : i < j => walk.served[i] < walk.served[j]
                   /\ walk.done => walk.steady \subseteq ToSet(walk.served)
  /\ IsPrefix(Delivered, stream.source)
  /\ stream.audited = "completed" => Delivered = stream.source
=============================================================================
