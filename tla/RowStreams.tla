------------------------------ MODULE RowStreams ------------------------------
(***************************************************************************)
(* Rows on their way in, in batches and under a cap: the SQL editor        *)
(* (sqlserver.run_query), a query saved as a dataset (iter_rows,           *)
(* rows_to_parquet) and a spreadsheet (excel_to_parquet).  Rows are        *)
(* numbered in the order the source delivers them.                         *)
(***************************************************************************)
EXTENDS Integers, Sequences, FiniteSets

CONSTANTS
    Transfers,         \* what clients ask for
    FetchBatch,        \* FETCH_BATCH
    SheetBatch,        \* EXCEL_BATCH_ROWS
    DefaultRowLimit,   \* settings.sql_default_row_limit
    MaxRowLimit,       \* settings.sql_max_row_limit
    MaxDatasetRows,    \* settings.sql_dataset_max_rows
    MaxSheetRows       \* settings.excel_max_rows

\* limit is 0 if none is asked for.  cells has, per row, whether the one column that
\* matters holds a value; a row of a sheet without any is blank.
Transfer == [kind : {"execute", "save", "sheet"}, allowed : BOOLEAN, limit : Nat,
             cells : Seq(BOOLEAN)]

ASSUME RowStreamsAssumption ==
    /\ {FetchBatch, SheetBatch, DefaultRowLimit, MaxRowLimit, MaxDatasetRows, MaxSheetRows}
          \subseteq Nat \ {0}
    /\ DefaultRowLimit <= MaxRowLimit
    /\ \A t \in Transfers : t \in Transfer

VARIABLES
    phase,             \* where the transfer is
    transfer,          \* {} or what was asked for
    read,              \* rows taken from the source so far
    batch,             \* rows in memory, not yet written
    written,           \* rows in the Parquet file
    schema,            \* the type of the column there, {} before the first batch
    clipped,           \* QueryResult.truncated
    session,           \* the SQL Server connection
    verdict            \* how it ended

rowVars == <<phase, transfer, read, batch, written, schema, clipped, session, verdict>>

Transferred == CHOOSE t \in transfer : TRUE
Kind == Transferred.kind
Available == Len(Transferred.cells)
Lesser(a, b) == IF a < b THEN a ELSE b

\* execute and save_query_as_dataset: what is asked for, up to what is allowed.
RowCap ==
    CASE Kind = "execute" ->
            Lesser(IF Transferred.limit = 0 THEN DefaultRowLimit ELSE Transferred.limit,
                   MaxRowLimit)
      [] Kind = "save" ->
            Lesser(IF Transferred.limit = 0 THEN MaxDatasetRows ELSE Transferred.limit,
                   MaxDatasetRows)
      [] Kind = "sheet" -> MaxSheetRows

\* How many more rows to fetch: run_query looks for one beyond the cap.
\* Mutant: only for what fits.
RoomUpToCap(have) == RowCap - have
Room(have) == IF Kind = "execute" THEN RowCap + 1 - have ELSE RowCap - have
Fetched(have) ==
    [i \in 1..Lesser(Lesser(FetchBatch, Room(have)), Available - have) |-> have + i]

RowsInit ==
    /\ phase = "idle" /\ transfer = {} /\ read = 0 /\ batch = <<>> /\ written = <<>>
    /\ schema = {} /\ clipped = FALSE /\ session = "none" /\ verdict = "none"

EndTransfer(how) == phase' = "over" /\ verdict' = how

\* The guard comes before any connection is opened.
AskRows(t) ==
    /\ phase = "idle"
    /\ transfer' = {t}
    /\ IF t.kind # "sheet" /\ ~t.allowed THEN EndTransfer("refused")
       ELSE phase' = (IF t.kind = "sheet" THEN "sheet" ELSE "connect") /\ UNCHANGED verdict
    /\ UNCHANGED <<read, batch, written, schema, clipped, session>>

Connect ==
    /\ phase = "connect"
    /\ \/ session' = "open" /\ phase' = "fetch" /\ UNCHANGED verdict
       \/ /\ EndTransfer(IF Kind = "save" THEN "failed" ELSE "upstream error")
          /\ UNCHANGED session
    /\ UNCHANGED <<transfer, read, batch, written, schema, clipped>>

\* run_query: rows pile up in memory until there are none left or one too many.
FetchAll ==
    /\ phase = "fetch" /\ Kind = "execute"
    /\ LET new == Fetched(read)
       IN  /\ read' = read + Len(new)
           /\ clipped' = (read' > RowCap)
           /\ batch' = IF clipped' THEN SubSeq(batch \o new, 1, RowCap) ELSE batch \o new
           /\ IF new = <<>> \/ clipped'
              THEN EndTransfer("rows") /\ session' = "closed" ELSE UNCHANGED <<phase, verdict, session>>
    /\ UNCHANGED <<transfer, written, schema>>

\* iter_rows: a batch is fetched when the writer asks for it.
FetchNext ==
    /\ phase = "fetch" /\ Kind = "save"
    /\ LET new == IF read < RowCap THEN Fetched(read) ELSE <<>>
       IN  /\ batch' = new
           /\ read' = read + Len(new)
           /\ phase' = IF new = <<>> THEN "keep" ELSE "write"
           /\ session' = IF new = <<>> THEN "closed" ELSE session
    /\ UNCHANGED <<transfer, written, schema, clipped, verdict>>

\* A batch whose column is all NULL has the null type, and a file has one schema.
TypeOf(rows) ==
    IF \A i \in DOMAIN rows : ~Transferred.cells[rows[i]] THEN "null" ELSE "string"

\* rows_to_parquet.  Once the cap is reached the generator is left where it stands: its
\* connection is closed when save_query_as_dataset lets go of it.
WriteBatch ==
    /\ phase = "write"
    /\ IF schema \subseteq {TypeOf(batch)}
       THEN /\ schema' = {TypeOf(batch)}
            /\ written' = written \o batch
            /\ phase' = IF Len(written') >= RowCap THEN "keep" ELSE "fetch"
            /\ UNCHANGED <<verdict, session>>
       ELSE EndTransfer("failed") /\ session' = "closed" /\ UNCHANGED <<written, schema>>
    /\ batch' = <<>>
    /\ UNCHANGED <<transfer, read, clipped>>

\* The file goes into storage and the row is committed, or fails.
KeepFile ==
    /\ phase = "keep"
    /\ session' = "closed"
    /\ \E kept \in BOOLEAN : EndTransfer(IF kept THEN "stored" ELSE "failed")
    /\ UNCHANGED <<transfer, read, batch, written, schema, clipped>>

\* The driver raises: the server is gone, or a lock timed out.  If the rollback that
\* follows raises as well, its error is the one that is left.
FetchFails ==
    /\ phase = "fetch"
    /\ session' = "closed"
    /\ \E rolledBack \in BOOLEAN :
          EndTransfer(IF Kind = "save" THEN "failed"
                      ELSE IF rolledBack THEN "upstream error" ELSE "internal error")
    /\ UNCHANGED <<transfer, read, batch, written, schema, clipped>>

\* excel_to_parquet: blank rows do not count, one row too many refuses the sheet.
Buffered(full) ==
    IF Len(full) >= SheetBatch THEN written' = written \o full /\ batch' = <<>>
    ELSE batch' = full /\ UNCHANGED written
ReadSheetRow ==
    /\ phase = "sheet" /\ read < Available
    /\ read' = read + 1
    /\ IF ~Transferred.cells[read + 1] THEN UNCHANGED <<phase, batch, written, verdict>>
       ELSE IF Len(written) + Len(batch) + 1 > RowCap
       THEN EndTransfer("too large") /\ batch' = Append(batch, read + 1) /\ UNCHANGED written
       ELSE Buffered(Append(batch, read + 1)) /\ UNCHANGED <<phase, verdict>>
    /\ UNCHANGED <<transfer, schema, clipped, session>>
EndSheet ==
    /\ phase = "sheet" /\ read = Available
    /\ written' = written \o batch /\ batch' = <<>>
    /\ EndTransfer("stored")
    /\ UNCHANGED <<transfer, read, schema, clipped, session>>

RowsNext ==
    \/ \E t \in Transfers : AskRows(t)
    \/ Connect \/ FetchAll \/ FetchNext \/ WriteBatch \/ KeepFile \/ FetchFails
    \/ ReadSheetRow \/ EndSheet
RowsSpec == RowsInit /\ [][RowsNext]_rowVars

-----------------------------------------------------------------------------
\* Wherever a batch ends, a result holds the first rows, each once and in order, as many
\* as the cap allows, and says that it was cut exactly if there are more; a sheet is
\* never cut but refused, and no call leaves its transaction open.
CapsAreExact ==
    LET prefix == [i \in 1..Lesser(RowCap, Available) |-> i]
        filled == {i \in 1..Available : Transferred.cells[i]}
    IN  phase = "over" =>
        /\ verdict = "rows" => batch = prefix /\ (clipped <=> Available > RowCap)
        /\ verdict = "stored" =>
             IF Kind = "sheet"
             THEN /\ {written[i] : i \in 1..Len(written)} = filled
                  /\ \A i, j \in 1..Len(written) : i < j => written[i] < written[j]
             ELSE written = prefix
        /\ Kind = "sheet" => (verdict = "too large" <=> Cardinality(filled) > RowCap)
        /\ session # "open"
=============================================================================
