------------------------------ MODULE CSVFeed -------------------------------
(***************************************************************************)
(* The replay of a trade dump (ingestion/internal/feed/csv.go).            *)
(*                                                                         *)
(* A configuration names its file: whether the first line is a header, the *)
(* columns by their meaning, and for each row whether its fields parse.    *)
(* What matters of a parsed row is which column each field was taken from. *)
(* The pacing between rows is a wait that may be of any length.            *)
(***************************************************************************)
EXTENDS Feed, FiniteSets, Functions

CONSTANT MaxPasses \* bound: passes over the file

(* The columns of the dumps of the exchange: trades without and with the   *)
(* quote quantity, and aggregates.                                         *)
OldTrades == <<"id", "price", "qty", "time", "maker", "best">>
QuotedTrades == <<"id", "price", "qty", "quote", "time", "maker", "best">>
Aggregates == <<"id", "price", "qty", "first", "last", "time", "maker", "best">>

ASSUME CSVAssumption ==
  \A c \in Configs : c.mode = "csv" =>
    /\ c.header \in BOOLEAN /\ c.loop \in BOOLEAN
    /\ c.rows \in Seq({"ok", "bad"})
    /\ c.startRow \in Nat /\ c.maxRows \in Nat

VARIABLES
  line,     \* next line of the file the reader returns
  lineNo,   \* the line number of runPass
  emitted,  \* rows sent in this pass
  total,    \* emittedTotal: rows sent in the passes before
  passes,   \* passes begun
  broken,   \* reading the file fails from now on
  replayed  \* history: the lines that were sent, in order

csvVars == <<line, lineNo, emitted, total, passes, broken, replayed>>

CSVInit ==
  /\ line = 1 /\ lineNo = 0 /\ emitted = 0 /\ total = 0 /\ passes = 0
  /\ broken = FALSE /\ replayed = <<>>

Lines == (IF cfg.header THEN <<"header">> ELSE <<>>) \o cfg.rows

(* detectLayout: whether the first line is consumed as a header. By itself *)
(* it takes a first field that is no number for one, also an empty line.   *)
HasHeader == CASE cfg.hasHeader = "true"  -> TRUE
               [] cfg.hasHeader = "false" -> FALSE
               [] OTHER -> cfg.header \/ Lines = <<>>

DataStartLine == IF HasHeader THEN 1 ELSE 0

(* parseTradesPositional: the columns the fields of a row are taken from;  *)
(* seven columns or more are taken for a dump with quoteQty.               *)
Positional ==
  LET quoted == IF Len(cfg.columns) >= 7 THEN 1 ELSE 0
  IN  [time |-> cfg.columns[4 + quoted], maker |-> cfg.columns[5 + quoted]]

(* parseTrades, parseAggTrades: by the names in the header.                *)
ByName == [time |-> "time", maker |-> "maker"]

(* A line yields no trade when its id or time is not a number: a row that  *)
(* does not parse, a header read as a row, or a row whose columns are      *)
(* looked up in a first row that is no header.                             *)
Parses(i) ==
  /\ Lines[i] = "ok"
  /\ IF HasHeader THEN cfg.header ELSE Len(cfg.columns) >= 6

Trade(i) ==
  LET from == IF HasHeader THEN ByName ELSE Positional
  IN  [key |-> <<"row", i>>, line |-> i, time |-> from.time, maker |-> from.maker]

Exceeded == cfg.maxRows > 0 /\ total >= cfg.maxRows

PassEnds ==
  /\ At("csv", "pass") /\ Exceeded
  /\ Return("nil")
  /\ UNCHANGED <<hold, csvVars>>

(* The file cannot be opened or peeked at, or has no header to consume.    *)
OpenError ==
  /\ At("csv", "pass") /\ ~Exceeded
  /\ Return(IF cancelled THEN "cancelled" ELSE "error")
  /\ UNCHANGED <<hold, csvVars>>

OpenPass ==
  /\ At("csv", "pass") /\ ~Exceeded
  /\ HasHeader => Lines # <<>>
  /\ passes' = passes + 1
  /\ line' = 1 + DataStartLine /\ lineNo' = DataStartLine
  /\ emitted' = 0
  /\ Goto("row")
  /\ UNCHANGED <<hold, total, broken, replayed>>

(* Mutant: MaxRows is counted in each pass on its own.                     *)
BugEnough == cfg.maxRows > 0 /\ emitted >= cfg.maxRows

(* remaining rows of this pass are used up.                                *)
Enough == cfg.maxRows > 0 /\ emitted >= cfg.maxRows - total

(* The next row of the loop of runPass: skipped when it is before StartRow *)
(* or does not parse.  The context is not looked at.                       *)
ReadRow ==
  /\ At("csv", "row") /\ ~broken
  /\ ~Enough /\ line <= Len(Lines)
  /\ line' = line + 1 /\ lineNo' = lineNo + 1
  /\ IF lineNo < cfg.startRow \/ ~Parses(line)
     THEN Goto("row") /\ UNCHANGED hold
     ELSE Goto("emit") /\ hold' = Trade(line)
  /\ UNCHANGED <<emitted, total, passes, broken, replayed>>

(* External: reading the file begins to fail.                              *)
DiskFails ==
  /\ At("csv", "row") /\ ~broken
  /\ broken' = TRUE
  /\ UNCHANGED <<hold, line, lineNo, emitted, total, passes, replayed,
                 cfg, cancelled, at, ret, out, last>>

(* An error that is not EOF is taken for a malformed line, and the loop    *)
(* goes on with the next one: with an error that stays, for ever (here as  *)
(* far as the file is long).                                               *)
ReadFails ==
  /\ At("csv", "row") /\ broken
  /\ ~Enough /\ lineNo <= Len(Lines)
  /\ lineNo' = lineNo + 1
  /\ UNCHANGED <<hold, line, emitted, total, passes, broken, replayed,
                 cfg, cancelled, at, ret, out, last>>

(* pace and send, which both end with the context.                         *)
SendTrade ==
  /\ At("csv", "emit")
  /\ Send("row", Nothing)
  /\ emitted' = emitted + 1
  /\ replayed' = Append(replayed, hold.line)
  /\ UNCHANGED <<line, lineNo, total, passes, broken>>

EmitCancelled == At("csv", "emit") /\ GiveUp /\ UNCHANGED csvVars

(* The pass is complete: Run is done, or pauses before the next one.       *)
FinishPass ==
  /\ At("csv", "row")
  /\ \/ Enough
     \/ ~broken /\ line > Len(Lines)
  /\ total' = total + emitted
  /\ IF cfg.loop THEN Goto("pause") ELSE Return("nil")
  /\ UNCHANGED <<hold, line, lineNo, emitted, passes, broken, replayed>>

PauseOver ==
  /\ At("csv", "pause") /\ passes < MaxPasses
  /\ Goto("pass")
  /\ UNCHANGED <<hold, csvVars>>

PauseCancelled == At("csv", "pause") /\ GiveUp /\ UNCHANGED csvVars

CSVStep ==
  \/ PassEnds \/ OpenError \/ OpenPass \/ ReadRow \/ ReadFails \/ SendTrade
  \/ EmitCancelled \/ FinishPass \/ PauseOver \/ PauseCancelled

-----------------------------------------------------------------------------
(* The rows to replay, by the file: those that parse, from line StartRow   *)
(* on, a header being line 0.                                              *)
Wanted == {i \in 1..Len(Lines) : Lines[i] = "ok" /\ i > cfg.startRow}

(* After row i the replay goes on with row j: with the next wanted row, or *)
(* with the first after the last.                                          *)
Follows(i, j) ==
  \/ i < j /\ \A k \in Wanted : k <= i \/ j <= k
  \/ \A k \in Wanted : j <= k /\ k <= i

(* HAS_HEADER is right about the file, and a file without a header has the *)
(* columns of a trades dump.                                               *)
Described ==
  /\ HasHeader => cfg.header
  /\ ~HasHeader => cfg.columns \in {OldTrades, QuotedTrades}

(* The replay is the wanted rows in file order, pass after pass, each with *)
(* its own time and aggressor, never more than MaxRows of them over all    *)
(* the passes; a Run that ends without an error has sent all of them.      *)
ReplayIsTheFile ==
  cfg.mode = "csv" /\ Lines # <<>> /\ Described =>
    /\ \A n \in 1..Len(replayed) :
         /\ replayed[n] \in Wanted
         /\ IF n = 1 THEN \A k \in Wanted : replayed[n] <= k
            ELSE Follows(replayed[n - 1], replayed[n])
    /\ cfg.maxRows > 0 => Len(replayed) <= cfg.maxRows
    /\ hold # Nothing => hold.time = "time" /\ hold.maker = "maker"
    /\ ret = "nil" => Len(replayed) =
         IF cfg.maxRows > 0 /\ (cfg.loop \/ cfg.maxRows < Cardinality(Wanted))
         THEN cfg.maxRows ELSE Cardinality(Wanted)
=============================================================================
