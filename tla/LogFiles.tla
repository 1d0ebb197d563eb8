------------------------------ MODULE LogFiles ------------------------------
(***************************************************************************)
(* The access log (internal/gateway/server.go: publicAccessLog), its       *)
(* rotation by the log maintenance worker (internal/logmaintenance:        *)
(* RotateFile, called under the write fence) and Admin's incremental       *)
(* reader of it (internal/accountstatus/observer.go: accessLogReader).     *)
(*                                                                         *)
(* Both gateways append to one file; a line appears at once.  A file is a  *)
(* sequence of cells: line n has one cell, or two if n is odd, its last    *)
(* cell ends it, and each cell is unlike all others.  A line that is read  *)
(* from its middle is no row: its time is that of 1970 or missing.         *)
(* Rotation copies and truncates, so the file keeps its inode.  Rows are   *)
(* those of one account and only ever counted, so they are kept as how      *)
(* often each line was read; a line carries the time its request began.     *)
(*                                                                         *)
(* Bounds: MaxLines, LastTick, MaxBreaks.                                  *)
(***************************************************************************)
EXTENDS Naturals, Sequences, FiniteSets, SequencesExt

CONSTANTS
    Backups,        \* backups that are kept
    MaxCells,       \* the size beyond which the file is rotated
    PrefixCells,    \* cells by which the reader knows the file again
    Hour,           \* the reader's window
    MaxLines, LastTick,
    MaxBreaks       \* failing steps and deaths of the worker

ASSUME LogFilesAssumption ==
    /\ {Backups, MaxCells, PrefixCells, MaxLines, LastTick} \subseteq Nat \ {0}
    /\ {Hour, MaxBreaks} \subseteq Nat

VARIABLES
    tick,           \* the clock
    began,          \* when the request of each line began
    log,            \* the cells of the file
    backup,         \* the cells of each backup, <<>> for none
    rotation,       \* the rotation under way and its copy
    excused,        \* lines appended during a rotation, and of removed backups
    reader,         \* accessLogReader
    torn,           \* the file was truncated inside the reader's last read
    breaks

logVars == <<tick, began, log, backup, rotation, excused, reader, torn, breaks>>

Lines == 1..Len(began)
Cells(n) == IF n % 2 = 1 THEN <<<<n, 1>>, <<n, 2>>>> ELSE <<<<n, 2>>>>
Ends(cell) == cell[2] = 2
LinesOf(cells) == {cells[i][1] : i \in DOMAIN cells}

NoRotation == [step |-> "none", copy |-> <<>>, at |-> 0]
Fresh == [known |-> FALSE, offset |-> 0, prefix |-> <<>>, pending |-> <<>>,
          rows |-> [n \in 1..MaxLines |-> 0], lastNow |-> 0, now |-> 0, step |-> "idle", file |-> {}]

LogInit ==
    /\ tick = 1 /\ began = <<>> /\ log = <<>>
    /\ backup = [i \in 1..Backups |-> <<>>]
    /\ rotation = NoRotation /\ excused = {}
    /\ reader = Fresh /\ torn = FALSE
    /\ breaks = 0

(* Another tick, or a clock that is set back. *)
TickPasses ==
    /\ tick < LastTick /\ tick' = tick + 1
    /\ UNCHANGED <<began, log, backup, rotation, excused, reader, torn, breaks>>
ClockBack ==
    /\ tick > 1 /\ breaks < MaxBreaks /\ breaks' = breaks + 1 /\ tick' = tick - 1
    /\ UNCHANGED <<began, log, backup, rotation, excused, reader, torn>>

---------------------------------------------------------------------------
(* publicAccessLog, when a request ends.                                   *)
AppendLine ==
    /\ Len(began) < MaxLines
    /\ \E t \in {tick, tick - 1} : began' = Append(began, t)
    /\ log' = log \o Cells(Len(began) + 1)
    /\ excused' = IF rotation.step = "none" THEN excused ELSE excused \cup {Len(began) + 1}
    /\ UNCHANGED <<tick, backup, rotation, reader, torn, breaks>>

---------------------------------------------------------------------------
(* RotateFile.                                                             *)

rotationFrame == UNCHANGED <<tick, began, reader>>

CopyLog ==
    /\ rotation.step = "none" /\ Len(log) > MaxCells
    /\ rotation' = [step |-> "shift", copy |-> log, at |-> Backups]
    /\ UNCHANGED <<torn, log, backup, excused, breaks>> /\ rotationFrame

(* The oldest backup is removed; the others move up, from the oldest on.   *)
ShiftBackups ==
    /\ rotation.step = "shift"
    /\ IF rotation.at = Backups
       THEN /\ backup' = [backup EXCEPT ![Backups] = <<>>]
            /\ excused' = excused \cup LinesOf(backup[Backups])
       ELSE /\ backup' = [backup EXCEPT ![rotation.at + 1] = backup[rotation.at],
                                        ![rotation.at] = <<>>]
            /\ UNCHANGED excused
    /\ rotation' = IF rotation.at = 1 THEN [rotation EXCEPT !.step = "publish"]
                                      ELSE [rotation EXCEPT !.at = @ - 1]
    /\ UNCHANGED <<torn, log, breaks>> /\ rotationFrame

PublishBackup ==
    /\ rotation.step = "publish"
    /\ backup' = [backup EXCEPT ![1] = rotation.copy]
    /\ rotation' = [rotation EXCEPT !.step = "truncate"]
    /\ UNCHANGED <<torn, log, excused, breaks>> /\ rotationFrame

TruncateEarly ==           \* Deviation: the file is emptied before the copy is published
    /\ rotation.step = "shift"
    /\ log' = <<>>
    /\ rotation' = [rotation EXCEPT !.step = "publish"]
    /\ UNCHANGED <<torn, backup, excused, breaks>> /\ rotationFrame

TruncateLog ==
    /\ rotation.step = "truncate"
    /\ log' = <<>>
    /\ rotation' = NoRotation
    /\ torn' = (torn \/ reader.step = "prefix")
    /\ UNCHANGED <<backup, excused, breaks>> /\ rotationFrame

(* A failing step, a lost lease or a death removes the pending copy.       *)
RotationFails ==
    /\ rotation.step # "none"
    /\ breaks < MaxBreaks /\ breaks' = breaks + 1
    /\ rotation' = NoRotation
    /\ UNCHANGED <<torn, log, backup, excused>> /\ rotationFrame

---------------------------------------------------------------------------
(* The reader: recent holds its lock from the first to the last step.      *)

readerFrame == UNCHANGED <<tick, began, log, backup, rotation, excused, breaks>>
Prefix(cells, n) == SubSeq(cells, 1, n)
Smaller(a, b) == IF a < b THEN a ELSE b

KeepRows(r) == [r EXCEPT !.known = FALSE, !.offset = 0, !.prefix = <<>>, !.pending = <<>>]
                           \* Deviation: the rows stay
Reset(r) == [Fresh EXCEPT !.step = r.step, !.lastNow = r.lastNow]

ChangedBySize(r) == ~r.known \/ Len(log) < r.offset    \* Deviation: the prefix is not compared
Changed(r) ==
    \/ ~r.known \/ Len(log) < r.offset
    \/ LET n == Smaller(Len(r.prefix), r.offset)
       IN  n > 0 /\ Prefix(log, n) # Prefix(r.prefix, n)

(* How often each line is read from the cells: at its last cell, after its  *)
(* other one.                                                              *)
Consume(pending, cells) ==
    LET all == pending \o cells
        whole(i) == LET c == Cells(all[i][1])
                    IN  i >= Len(c) /\ SubSeq(all, i - Len(c) + 1, i) = c
        ended == {i \in DOMAIN all : Ends(all[i])}
        rest == IF ended = {} THEN 0 ELSE CHOOSE i \in ended : \A j \in ended : j <= i
    IN  [rows |-> [n \in 1..MaxLines |->
                     Cardinality({i \in ended : whole(i) /\ all[i][1] = n})],
         pending |-> SubSeq(all, rest + 1, Len(all))]

(* A clock that went back forgets all; then the file is read to its end.   *)
ReadAppends ==
    /\ reader.step = "idle"
    /\ LET r == IF tick < reader.lastNow THEN Reset(reader) ELSE reader
           q == IF Changed(r) THEN [Reset(r) EXCEPT !.known = TRUE] ELSE r
           got == Consume(q.pending, SubSeq(log, q.offset + 1, Len(log)))
       IN  /\ reader' = [q EXCEPT !.offset = Len(log), !.step = "prefix", !.now = tick,
                           !.rows = [n \in DOMAIN @ |-> @[n] + got.rows[n]],
                           !.pending = got.pending, !.file = LinesOf(log)]
           /\ torn' = (torn /\ q.offset # 0)
    /\ readerFrame

(* A file that became shorter in between leaves zeros.                     *)
ReadPrefix ==
    /\ reader.step = "prefix"
    /\ reader' = [reader EXCEPT !.step = "answer",
                    !.prefix = [i \in 1..Smaller(reader.offset, PrefixCells) |->
                                   IF i <= Len(log) THEN log[i] ELSE <<0, 0>>]]
    /\ UNCHANGED torn /\ readerFrame

InWindow(n, now) == began[n] + Hour >= now

(* Rows that left the window are forgotten; those ahead of the clock are   *)
(* kept, and not counted.                                                  *)
Recent ==
    /\ reader.step = "answer"
    /\ reader' = [reader EXCEPT !.rows = [n \in DOMAIN @ |->
                                    IF n \in Lines /\ InWindow(n, reader.now) THEN @[n] ELSE 0],
                                !.lastNow = reader.now, !.step = "idle"]
    /\ UNCHANGED torn /\ readerFrame

(* Admin restarts. *)
NewObserver ==
    /\ reader # Fresh /\ breaks < MaxBreaks /\ breaks' = breaks + 1
    /\ reader' = Fresh /\ torn' = FALSE
    /\ UNCHANGED <<tick, began, log, backup, rotation, excused>>

LogNext ==
    \/ TickPasses \/ ClockBack \/ AppendLine
    \/ CopyLog \/ ShiftBackups \/ PublishBackup \/ TruncateLog \/ RotationFails
    \/ ReadAppends \/ ReadPrefix \/ Recent \/ NewObserver

LogSpec == LogInit /\ [][LogNext]_logVars

---------------------------------------------------------------------------
(* A line is lost only when it is appended during a rotation or with the   *)
(* oldest backup, whatever fails (RotateFile).                             *)
LinesKept ==
    \A n \in Lines : n \in LinesOf(log) \cup excused
                             \cup UNION {LinesOf(backup[i]) : i \in 1..Backups}

(* Older backups end earlier. *)
BackupsOrdered ==
    \A i, j \in 1..Backups :
        i < j /\ backup[i] # <<>> /\ backup[j] # <<>> => Last(backup[j])[1] <= Last(backup[i])[1]

(* The reader counts no line twice and, unless the file was truncated      *)
(* inside a read since the reader last began anew, exactly the lines of    *)
(* the window that are in the file (accessLogReader, which reads only what *)
(* was appended).                                                          *)
ActivityExact ==
    /\ \A n \in DOMAIN reader.rows : reader.rows[n] <= 1
    /\ reader.step # "idle" /\ ~torn =>
          {n \in Lines : reader.rows[n] > 0 /\ InWindow(n, reader.now)}
          = {n \in reader.file : InWindow(n, reader.now)}

LogsFaithful == LinesKept /\ BackupsOrdered /\ ActivityExact
=============================================================================
