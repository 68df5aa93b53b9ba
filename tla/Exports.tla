-------------------------------- MODULE Exports --------------------------------
(***************************************************************************)
(* The export of a wallet's gas usage as CSV (apps/api/src/exports): the   *)
(* blocks to look at are estimated from the dates, their logs are read in  *)
(* chunks, the transactions in batches, and the rows are streamed out.     *)
(*                                                                         *)
(* The chain grows while an export runs and any call to its node may fail. *)
(* A block has at most one transaction.  Amounts, dollars and the text of  *)
(* a row are left out: a row stands for the number of its block.           *)
(***************************************************************************)
EXTENDS Integers, Sequences, FiniteSets

CONSTANTS
  BlockTime,    \* seconds that a block takes on average (AVG_BLOCK_TIME)
  Gaps,         \* seconds that a block may take
  Lookback,     \* seconds looked back without a start (DEFAULT_LOOKBACK_DAYS)
  ChunkSize,    \* blocks whose logs are read at a time (LOG_CHUNK_SIZE)
  BatchSize,    \* transactions read at a time (TX_BATCH_SIZE)
  WriteChunk,   \* rows written at a time (CSV_WRITE_CHUNK)
  HighWater,    \* rows above which the stream asks its writer to wait
  TxKinds,      \* transactions that a block may hold
  Dates,        \* seconds that may be asked for
  MaxBlocks     \* bound on the chain

Unset == -1

ASSUME ExportsAssumption ==
  /\ {BlockTime, ChunkSize, BatchSize, WriteChunk} \subseteq Nat \ {0}
  /\ Gaps \subseteq Nat \ {0}
  /\ TxKinds \subseteq [own : BOOLEAN, logs : Nat] /\ Dates \subseteq Nat
  /\ {Lookback, HighWater, MaxBlocks} \subseteq Nat

VARIABLES
  blocks,   \* the chain: the time of each block and the transaction in it, from block 1
  export    \* the export under way, or the last one

exportVars == <<blocks, export>>

NoExport ==
  [step |-> "idle", from |-> Unset, to |-> Unset, first |-> 1, latest |-> 0, next |-> 1,
   hashes |-> {}, records |-> {}, rows |-> <<>>, buffered |-> 0, whole |-> TRUE]

ExportsInit ==
  /\ \E kind \in TxKinds : blocks = <<[time |-> 0, tx |-> kind]>>
  /\ export = NoExport

Now == blocks[Len(blocks)].time

NewBlock ==
  /\ Len(blocks) < MaxBlocks
  /\ \E gap \in Gaps, kind \in TxKinds : blocks' = Append(blocks, [time |-> Now + gap, tx |-> kind])
  /\ UNCHANGED export

-----------------------------------------------------------------------------
(* generateGasUsageStream *)

\* The latest block is asked for before the clock is read.  A missing wallet, node or
\* chain of the node ends the request before this.
ResolveLatest ==
  /\ export.step = "idle"
  /\ \E from, to \in Dates \cup {Unset} :
       export' = [NoExport EXCEPT !.step = "range", !.from = from, !.to = to, !.latest = Len(blocks)]
  /\ UNCHANGED blocks

CeilDiv(a, b) == -((-a) \div b)
Greater(a, b) == IF a > b THEN a ELSE b

\* Blocks are counted back from the latest one, for as long as the dates are apart: with
\* an end in the past they are not the blocks of those dates.
ResolveBlockRange ==
  /\ export.step = "range"
  /\ LET to == IF export.to = Unset THEN Now ELSE export.to
         from == IF export.from = Unset THEN to - Lookback ELSE export.from
         first == Greater(1, export.latest - CeilDiv(to - from, BlockTime))
     IN export' = [export EXCEPT !.step = "logs", !.from = from, !.to = to, !.first = first,
                                 !.next = first]
  /\ UNCHANGED blocks

\* Mutant: the last block of a chunk taken for the first after it.
MutChunkEnd(start, latest) ==
  IF start + ChunkSize - 2 > latest THEN latest ELSE start + ChunkSize - 2

\* One chunk of logs, ascending; transactions without a log are not seen, and a chunk
\* that cannot be read is skipped.
ChunkEnd(start, latest) ==
  IF start + ChunkSize - 1 > latest THEN latest ELSE start + ChunkSize - 1

CollectWalletTxHashes ==
  LET end == ChunkEnd(export.next, export.latest) IN
  /\ export.step = "logs" /\ export.next <= export.latest
  /\ \/ export' = [export EXCEPT !.next = @ + ChunkSize,
                     !.hashes = @ \cup {n \in export.next .. end : blocks[n].tx.logs > 0}]
     \/ export' = [export EXCEPT !.next = @ + ChunkSize, !.whole = FALSE]
  /\ UNCHANGED blocks

CollectGasRecords ==
  /\ export.step = "logs" /\ export.next > export.latest
  /\ export' = [export EXCEPT !.step = "records"]
  /\ UNCHANGED blocks

Matching(n) == blocks[n].tx.own /\ blocks[n].time >= export.from /\ blocks[n].time <= export.to

\* One batch of transactions, each parsed on its own: what cannot be read is left out.
ParseTxToRecord ==
  /\ export.step = "records" /\ export.hashes # {}
  /\ LET batch == {n \in export.hashes : Cardinality({m \in export.hashes : m < n}) < BatchSize} IN
     \E read \in SUBSET batch :
       export' = [export EXCEPT !.hashes = @ \ batch, !.whole = @ /\ read = batch,
                                !.records = @ \cup {n \in read : Matching(n)}]
  /\ UNCHANGED blocks

\* The rows are sorted by time.  Without any the request is refused.
ByTime(records) ==
  LET sortings == {rows \in [1 .. Cardinality(records) -> records] :
                     \A i, j \in DOMAIN rows : i < j => blocks[rows[i]].time < blocks[rows[j]].time}
  IN CHOOSE rows \in sortings : TRUE

BuildCsvStream ==
  /\ export.step = "records" /\ export.hashes = {}
  /\ export' = IF export.records = {} THEN NoExport
               ELSE [export EXCEPT !.step = "stream", !.next = 1]
  /\ UNCHANGED blocks

\* Rows in chunks; a stream that is full makes the writer wait until it drains.
WriteRows ==
  LET sorted == ByTime(export.records)
      end == IF export.next + WriteChunk > Len(sorted) THEN Len(sorted)
             ELSE export.next + WriteChunk - 1
  IN /\ export.step = "stream" /\ export.next <= Len(sorted) /\ export.buffered <= HighWater
     /\ export' = [export EXCEPT !.next = end + 1, !.rows = @ \o SubSeq(sorted, export.next, end),
                                 !.buffered = @ + (end + 1 - export.next)]
     /\ UNCHANGED blocks

Drain ==
  /\ export.step = "stream" /\ export.buffered > 0
  /\ export' = [export EXCEPT !.buffered = 0]
  /\ UNCHANGED blocks

EndStream ==
  /\ export.step = "stream" /\ export.next > Cardinality(export.records)
  /\ export.buffered <= HighWater
  /\ export' = [export EXCEPT !.step = "ended"]
  /\ UNCHANGED blocks

ExportsNext ==
  \/ NewBlock \/ ResolveLatest \/ ResolveBlockRange
  \/ CollectWalletTxHashes \/ CollectGasRecords \/ ParseTxToRecord
  \/ BuildCsvStream \/ WriteRows \/ Drain \/ EndStream

ExportsSpec == ExportsInit /\ [][ExportsNext]_exportVars

-----------------------------------------------------------------------------
Exported == {export.rows[i] : i \in DOMAIN export.rows}

\* From this block on to the end asked for, a block took AVG_BLOCK_TIME at least.
OnAverage(n) == blocks[n].time + (export.latest - n) * BlockTime <= export.to

\* An export that has ended has as many rows as its header says, one for each of its
\* transactions and in the order of time, all of the wallet and between the dates; and
\* when no call to the node failed, none that has a log is missing of those in the chain
\* when the export began, however the chain grew meanwhile, from the first block that was
\* estimated on, and that is early enough where blocks were not faster than on average.
\* It is less than "Resolves all records matching filters" (exports.service.ts:65): the
\* first blocks are missed where the chain is faster than its constant, as Gnosis and
\* Fantom are than the default of 12 s, or when the end lies in the past.
ExportIsHonest ==
  export.step = "ended" =>
    /\ Len(export.rows) = Cardinality(export.records)
    /\ \A i, j \in DOMAIN export.rows :
         i < j => blocks[export.rows[i]].time < blocks[export.rows[j]].time
    /\ \A n \in Exported : Matching(n) /\ blocks[n].tx.logs > 0
    /\ export.whole =>
         \A n \in 1 .. export.latest :
           Matching(n) /\ blocks[n].tx.logs > 0 /\ (n >= export.first \/ OnAverage(n))
             => n \in Exported

===================================================================================
