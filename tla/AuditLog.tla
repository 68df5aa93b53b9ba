-------------------------------- MODULE AuditLog --------------------------------
(***************************************************************************)
(* The audit log (apps/api-service/src/audit): events are emitted without  *)
(* waiting, saved one by one, read page by page and deleted by age.        *)
(*                                                                         *)
(* A row is what filters and order tell apart.  A row's time is that at    *)
(* which its event was emitted; its save ends later, in any order, or      *)
(* fails, which is only printed.  The client that asks for page after page *)
(* is external, as is whoever calls for the clean-up.                      *)
(***************************************************************************)
EXTENDS Integers, FiniteSetsExt

CONSTANTS
  KeyEvents,      \* what may happen to keys: KeyCreated, KeyRotated, KeyRevoked
  AuditFilters,   \* filters that may be asked for
  SortOrders,     \* orders that may be asked for, "" for none
  PageLimits,     \* limits that may be asked for, 0 for none
  DefaultLimit,   \* limit without one asked for (50)
  LatestLimit,    \* limit of the queries by one field (100)
  MaxEvents,      \* bound on the events recorded: the saves of further ones fail
  MaxStamp        \* bound on time

ASSUME AuditLogAssumption ==
  /\ SortOrders \subseteq {"", "ASC", "DESC"}
  /\ PageLimits \subseteq Nat
  /\ {DefaultLimit, LatestLimit} \subseteq Nat \ {0} /\ {MaxEvents, MaxStamp} \subseteq Nat

VARIABLES
  auditRows,   \* the rows of audit_logs
  saving,      \* those whose save is under way
  events,      \* events recorded so far
  stamp,       \* the clock
  reader       \* a client that reads page after page

auditVars == <<auditRows, saving, events, stamp, reader>>

-----------------------------------------------------------------------------
(* Events *)

ApiKeyEvents ==
  {[kind |-> k, outcome |-> "success"] : k \in KeyEvents}

GasTransactionEvent == [kind |-> "GasTransaction", outcome |-> "success"]

ApiRequestEvent(status) ==
  [kind |-> "APIRequest", outcome |-> IF status >= 400 THEN "failure" ELSE "success"]

\* AuditLogRepository.create: stamped before anything is waited for.
Row(event) ==
  [id |-> events + 1, at |-> stamp, kind |-> event.kind, outcome |-> event.outcome]

\* The only listener is logEvent.
Emit(event) ==
  IF events < MaxEvents
  THEN events' = events + 1 /\ saving' = saving \cup {Row(event)}
  ELSE UNCHANGED <<events, saving>>

-----------------------------------------------------------------------------
IdleReader ==
  [step |-> "idle", filter |-> [kind |-> "", outcome |-> "", from |-> 0, to |-> 0], order |-> "",
   limit |-> 0, offset |-> 0, start |-> {}, seen |-> {}, cleaned |-> FALSE]

AuditInit ==
  auditRows = {} /\ saving = {} /\ events = 0 /\ stamp = 1 /\ reader = IdleReader

StampPasses ==
  stamp < MaxStamp /\ stamp' = stamp + 1 /\ UNCHANGED <<auditRows, saving, events, reader>>

\* Keys are created, rotated and revoked, transactions recorded.
ServiceEvent ==
  /\ events < MaxEvents
  /\ \E event \in ApiKeyEvents \cup {GasTransactionEvent} : Emit(event)
  /\ UNCHANGED <<auditRows, stamp, reader>>

\* Of any request but health checks and the like, recorded before its handler runs: with
\* the status that the response starts with, whatever becomes of it.
Intercept == Emit(ApiRequestEvent(200))

Request == events < MaxEvents /\ Intercept /\ UNCHANGED <<auditRows, stamp, reader>>

SaveRow ==
  \E row \in saving :
    /\ saving' = saving \ {row}
    /\ auditRows' \in {auditRows \cup {row}, auditRows}
    /\ UNCHANGED <<events, stamp, reader>>

\* deleteOlderThan; the cut-off is of when it was called.
RetentionCleanup ==
  /\ \E cutoff \in 0 .. stamp : auditRows' = {row \in auditRows : row.at >= cutoff}
  /\ auditRows' # auditRows
  /\ reader' = [reader EXCEPT !.cleaned = TRUE]
  /\ UNCHANGED <<saving, events, stamp>>

-----------------------------------------------------------------------------
(* Queries *)

MatchingRows(filter) ==
  {row \in auditRows :
     /\ filter.kind \in {"", row.kind}
     /\ filter.outcome \in {"", row.outcome}
     /\ filter.from # 0 => row.at >= filter.from
     /\ filter.to # 0 => row.at <= filter.to}

\* Mutant: oldest first unless asked otherwise.
MutSortOrder(asked) == IF asked = "" THEN "ASC" ELSE asked

SortOrder(asked) == IF asked = "" THEN "DESC" ELSE asked

LimitOf(asked) == IF asked = 0 THEN DefaultLimit ELSE asked

InOrder(first, second, order) ==
  \A a \in first, b \in second : IF order = "DESC" THEN a.at >= b.at ELSE a.at <= b.at

AtMost(n, rows) == IF Cardinality(rows) < n THEN Cardinality(rows) ELSE n

\* The pages that LIMIT and OFFSET may answer: rows of one time are in any order, another
\* one in each query.
Pages(rows, order, limit, offset) ==
  {page \in SUBSET rows :
     \E skipped \in SUBSET (rows \ page) :
       /\ Cardinality(skipped) = AtMost(offset, rows)
       /\ Cardinality(page) = AtMost(limit, rows \ skipped)
       /\ InOrder(skipped, rows \ skipped, order)
       /\ InOrder(page, rows \ (skipped \cup page), order)}

\* The client begins to read all that matches.
StartReading ==
  /\ reader.step = "idle"
  /\ \E filter \in AuditFilters, order \in SortOrders, limit \in PageLimits :
       reader' = [IdleReader EXCEPT !.step = "reading", !.filter = filter, !.order = order,
                    !.limit = limit, !.start = MatchingRows(filter)]
  /\ UNCHANGED <<auditRows, saving, events, stamp>>

\* GET /audit/logs, itself recorded.  The total it answers is the length of the page: the
\* client goes on until one is not full.
GetLogs ==
  /\ reader.step = "reading"
  /\ \E page \in Pages(MatchingRows(reader.filter), SortOrder(reader.order), LimitOf(reader.limit),
                       reader.offset) :
       reader' = [reader EXCEPT !.seen = @ \cup page, !.offset = @ + LimitOf(reader.limit),
                    !.step = IF Cardinality(page) < LimitOf(reader.limit) THEN "done" ELSE @]
  /\ Intercept
  /\ UNCHANGED <<auditRows, stamp>>

\* By one field: the latest rows, without an offset.
FindLatest ==
  /\ reader.step = "idle"
  /\ \E filter \in AuditFilters :
       \E page \in Pages(MatchingRows(filter), "DESC", LatestLimit, 0) :
         reader' = [IdleReader EXCEPT !.step = "latest", !.filter = filter, !.limit = LatestLimit,
                      !.start = MatchingRows(filter), !.seen = page]
  /\ Intercept
  /\ UNCHANGED <<auditRows, stamp>>

\* POST /audit/logs/export: what it is asked for is dropped, so the latest rows of the
\* default page.
ExportLogs ==
  /\ reader.step = "idle"
  /\ \E page \in Pages(auditRows, SortOrder(""), DefaultLimit, 0) :
       reader' = [IdleReader EXCEPT !.step = "latest", !.limit = DefaultLimit,
                    !.start = auditRows, !.seen = page]
  /\ Intercept
  /\ UNCHANGED <<auditRows, stamp>>

Leave ==
  /\ reader.step \in {"done", "latest"} /\ reader' = IdleReader
  /\ UNCHANGED <<auditRows, saving, events, stamp>>

AuditNext ==
  \/ StampPasses \/ ServiceEvent \/ Request \/ SaveRow \/ RetentionCleanup
  \/ StartReading \/ GetLogs \/ FindLatest \/ ExportLogs \/ Leave

AuditSpec == AuditInit /\ [][AuditNext]_auditVars

-----------------------------------------------------------------------------
SharesItsTime(row) == \E other \in auditRows \ {row} : other.at = row.at

\* A client that reads page after page misses no row that matched when it began and is
\* still there when it ends -- while events emitted before are saved late among the rows
\* read, its own requests add theirs and the clean-up deletes others -- unless the row
\* shares its time with another, or the oldest are asked for first and the clean-up moves
\* the pages on.  An answer of the latest rows leaves out none newer than one it holds
\* (findWithFilters, findBy..., deleteOlderThan).
ReadersMissNothing ==
  /\ reader.step = "done" /\ ~(reader.order = "ASC" /\ reader.cleaned) =>
       \A row \in reader.start \cap auditRows : row \in reader.seen \/ SharesItsTime(row)
  /\ reader.step = "latest" =>
       \A row \in reader.start \ reader.seen :
         /\ Cardinality(reader.seen) = reader.limit
         /\ \A s \in reader.seen : s.at >= row.at
=================================================================================
