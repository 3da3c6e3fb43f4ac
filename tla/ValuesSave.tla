----------------------------- MODULE ValuesSave -----------------------------
(***************************************************************************)
(* Saving override columns: onSaveColumnValues, the overwrite dialog,      *)
(* onSaveCurrentChart and pollExportRunner of ui/page/values_controller*.go *)
(* over the one ExportRunner they share, while the user edits, loads,      *)
(* clears, adds and removes columns or opens another chart (ResetState),   *)
(* and while other programs write the files.                               *)
(*                                                                         *)
(* What a column shows, what was read of a file and what a file holds are  *)
(* contents.  A file starts with a content of its own, every edit makes a  *)
(* new one, and other programs write Foreign.  Modification times are      *)
(* counted per file.  An operation that a newer one supersedes keeps       *)
(* running: it is in writers until its write is over.                      *)
(*                                                                         *)
(* A careful user lets a save be answered before another one, does not     *)
(* touch the saved column meanwhile, waits for a column to load before     *)
(* saving it, answers the overwrite dialog before leaving the chart, and   *)
(* never saves a column to the file of another.  careful is a property of  *)
(* the user, fixed at the start.                                           *)
(***************************************************************************)
EXTENDS Naturals, FiniteSets

CONSTANTS
  Files,        \* override files
  Archive,      \* the .tgz a chart is saved to
  NoFile,       \* no file loaded, or to be chosen in the save dialog
  NoJob,        \* no operation, no dialog
  Nothing,      \* no content: nothing loaded or to be delivered
  Blank,        \* what a column with empty cells shows
  Foreign,      \* what another program has written
  MaxColumns,   \* MaxCustomColumns
  MaxActs,      \* bound on what the user does
  MaxForeign    \* bound on the writes of other programs

ASSUME SaveAssumption ==
  /\ MaxColumns \in Nat \ {0} /\ MaxActs \in Nat /\ MaxForeign \in Nat
  /\ Archive \notin Files /\ NoFile \notin Files \union {Archive}
  /\ "working" \notin Files \union {Archive} /\ "failed" \notin Files \union {Archive}
  /\ Nothing \notin Files \union {Archive, Blank, Foreign} \union Nat

VARIABLES
  careful,      \* what kind of user this is
  count,        \* State.ColumnCount
  columns,      \* State.Columns with their runners
  disk,         \* for each file: what it holds, and when it was written
  pendingSave,  \* vc.pendingSave
  saveColumn,   \* vc.saveColumnIdx
  dialog,       \* vc.overwritePendingWrite and its column, or NoJob
  export,       \* the operation whose answer ExportRunner may still deliver
  answer,       \* what that operation has come to
  writers,      \* the operations that have not finished
  chart,        \* which chart is open: ResetState has run once for each before
  acts,         \* how many things the user has done
  foreign       \* how many times another program has written

vars == <<careful, count, columns, disk, pendingSave, saveColumn, dialog, export,
          answer, writers, chart, acts, foreign>>

Ids      == 1..MaxColumns
Paths    == Files \union {Archive}
Contents == Paths \union {Blank, Foreign} \union 1..MaxActs
Times    == 0..(MaxActs + MaxForeign)

Column == [file : Paths \union {NoFile},
           shown : Contents,                  \* what its editors show
           raw : Contents \union {Nothing},   \* CustomValues.RawBytes
           load : Contents \union {Nothing},  \* what its CustomValuesRunner has read
           modified : BOOLEAN,                \* ValuesModified
           drain : BOOLEAN,                   \* DrainPendingChanges
           seen : Times]                      \* FileModTime

Job == [number : 1..MaxActs, kind : {"saveValues", "saveTgz"},
        file : Paths \union {NoFile}, content : Contents, chart : 1..(MaxActs + 1)]

\* A save is written to the file of a column, or to one the user was asked for.
TypeOK ==
  /\ careful \in BOOLEAN
  /\ count \in Ids
  /\ columns \in [Ids -> Column]
  /\ disk \in [Paths -> [content : Contents, time : Times]]
  /\ pendingSave \in {"saveNone", "saveValues", "saveTgz"}
  /\ saveColumn \in Ids
  /\ dialog = NoJob \/ dialog \in [column : Ids, file : Paths, content : Contents]
  /\ export \in Job \union {NoJob}
  /\ answer \in Paths \union {"working", "failed"}
  /\ writers \subseteq Job
  /\ chart \in 1..(acts + 1)
  /\ acts \in 0..MaxActs
  /\ foreign \in 0..MaxForeign

Active == 1..count

\* The user does one more thing.
Act == acts < MaxActs /\ acts' = acts + 1

Idle == export = NoJob /\ dialog = NoJob /\ writers = {}

\* What a careful user does to a column, and to the columns from one on.
May(i)     == careful => Idle \/ i # saveColumn
MayFrom(i) == careful => Idle \/ i > saveColumn

\* A column as Reset leaves it, its runner at work or not.
Empty(load) ==
  [file |-> NoFile, shown |-> Blank, raw |-> Nothing, load |-> load, modified |-> FALSE,
   drain |-> TRUE, seen |-> 0]

\* The page has just opened on its first chart, whose values the files have not met.
Init ==
  /\ careful \in BOOLEAN
  /\ count = 1
  /\ columns = [i \in Ids |-> Empty(Nothing)]
  /\ disk = [f \in Paths |-> [content |-> f, time |-> 0]]
  /\ pendingSave = "saveNone"
  /\ saveColumn = 1
  /\ dialog = NoJob
  /\ export = NoJob
  /\ answer = "working"
  /\ writers = {}
  /\ chart = 1
  /\ acts = 0
  /\ foreign = 0

-----------------------------------------------------------------------------
(* The columns.                                                            *)

\* The steps of the columns leave saving alone.
ColumnStep == UNCHANGED <<careful, disk, pendingSave, saveColumn, dialog, export, answer,
                          writers, chart, foreign>>

\* A rebuild of the rows that moves them drains these columns.
Rebuilt(cols, skip) ==
  columns' \in {cols, [j \in Ids |-> [cols[j] EXCEPT !.drain = @ \/ j # skip]]}

\* The cells of a column come to say something new, or nothing any more.
Typed(col) ==
  {[col EXCEPT !.shown = acts + 1], [col EXCEPT !.shown = Blank]}

Edit(i) ==
  /\ May(i) /\ Act
  /\ \E col \in Typed(columns[i]) :
       columns' = [columns EXCEPT ![i] =
         [col EXCEPT !.modified = TRUE, !.raw = IF col.shown = Blank THEN Nothing ELSE @]]
  /\ UNCHANGED count /\ ColumnStep

\* Edits are parsed, and the answer of a parse may move the rows of every
\* column.  Once the user has done something a parse may be at work.
PollParse ==
  /\ acts > 0
  /\ Rebuilt(columns, 0)
  /\ UNCHANGED <<count, acts>> /\ ColumnStep

\* OnColumnFilesSelected: the column is of the file from now on, although it
\* shows and would save the values it had.  The file is read now or later.
SelectFile(i, f) ==
  /\ May(i) /\ Act
  /\ \A j \in Active \ {i} : columns[j].file # f
  /\ columns' = [columns EXCEPT ![i].file = f, ![i].seen = disk[f].time,
                                ![i].load = disk[f].content]
  /\ UNCHANGED count /\ ColumnStep

PollLoad(i) ==
  /\ columns[i].load # Nothing
  /\ \E read \in {columns[i].load}
                   \union {disk[f].content : f \in {columns[i].file} \ {NoFile}} :
       Rebuilt([columns EXCEPT ![i] =
                  [@ EXCEPT !.shown = read, !.raw = read, !.load = Nothing,
                            !.modified = FALSE, !.drain = TRUE]], i)
  /\ UNCHANGED <<count, acts>> /\ ColumnStep

\* The read failed, timed out or was stopped.
NoLoad(i) ==
  /\ columns[i].load # Nothing
  /\ columns' = [columns EXCEPT ![i].load = Nothing]
  /\ UNCHANGED <<count, acts>> /\ ColumnStep

\* Stop does not take back a result on its way.
onClearColumn(i) ==
  /\ May(i) /\ Act
  /\ Rebuilt([columns EXCEPT ![i] = Empty(columns[i].load)], 0)
  /\ UNCHANGED count /\ ColumnStep

onAddColumn ==
  /\ count < MaxColumns /\ Act
  /\ count' = count + 1
  /\ UNCHANGED columns /\ ColumnStep

\* Neither saveColumnIdx nor overwritePendingCol follows the columns.
onRemoveColumn(i) ==
  /\ MayFrom(i) /\ i > 1 /\ Act
  /\ count' = count - 1
  /\ Rebuilt([j \in Ids |-> IF j = MaxColumns THEN Empty(Nothing)
                            ELSE IF j < i THEN columns[j] ELSE columns[j + 1]], 0)
  /\ ColumnStep

\* The marks of drained columns go.
Drained(cols) ==
  [j \in Ids |-> IF cols[j].drain /\ j \in Active
                THEN [cols[j] EXCEPT !.modified = FALSE, !.drain = FALSE]
                ELSE cols[j]]

\* Layout first drains, and with the marks goes the event of what the user has
\* just typed in a drained column.
Layout ==
  /\ \/ columns' = Drained(columns) /\ UNCHANGED acts
     \/ \E i \in Active :
          /\ columns[i].drain /\ May(i) /\ Act
          /\ \E col \in Typed(columns[i]) : columns' = Drained([columns EXCEPT ![i] = col])
  /\ UNCHANGED count /\ ColumnStep

\* The next chart: the runners are stopped, the columns reset and the pending
\* save forgotten, but not an answer on its way or an overwrite dialog.
ResetState ==
  /\ careful => dialog = NoJob
  /\ Act
  /\ chart' = chart + 1
  /\ count' = 1
  /\ columns' = [i \in Ids |-> Empty(columns[i].load)]
  /\ pendingSave' = "saveNone"
  /\ UNCHANGED <<careful, disk, saveColumn, dialog, export, answer, writers, foreign>>

-----------------------------------------------------------------------------
(* Dispatching.                                                            *)

\* ExportRunner.dispatch: the operation before it can no longer answer.
Dispatch(kind, file, content) ==
  LET job == [number |-> acts + 1, kind |-> kind, file |-> file, content |-> content,
              chart |-> chart]
  IN  /\ export' = job
      /\ answer' = "working"
      /\ writers' = writers \union {job}

ExternallyModified(col) == disk[col.file].time > col.seen

\* The Save button of a modified column is laid out in one frame and its click
\* is seen in the next, when that column may have been drained, loaded or
\* cleared: any column can be the one.  A careful user sees that it is modified.
MaySave(i) == careful => Idle /\ columns[i].modified /\ columns[i].load = Nothing

\* The bytes that were loaded for a column that is not modified, else the
\* text of its editors.
Verbatim(col) == ~col.modified /\ col.raw # Nothing /\ col.file # NoFile
Written(col)  == IF Verbatim(col) THEN col.raw ELSE col.shown

onSaveColumnValues(i) ==
  /\ MaySave(i) /\ Act
  /\ pendingSave' = "saveValues"
  /\ saveColumn' = i
  /\ LET col == columns[i]
     IN  \/ /\ col.file # NoFile => ~ExternallyModified(col)
            /\ Dispatch("saveValues", col.file, Written(col))
            /\ UNCHANGED dialog
         \/ /\ col.file # NoFile /\ ExternallyModified(col)
            /\ dialog' = [column |-> i, file |-> col.file, content |-> Written(col)]
            /\ UNCHANGED <<export, answer, writers>>
  /\ UNCHANGED <<careful, count, columns, disk, chart, foreign>>

\* The text could not be made: only a notification.
SaveFailsEarly(i) ==
  /\ MaySave(i) /\ ~Verbatim(columns[i]) /\ Act
  /\ pendingSave' = "saveValues"
  /\ saveColumn' = i
  /\ UNCHANGED <<careful, count, columns, disk, dialog, export, answer, writers, chart, foreign>>

ConfirmOverwrite ==
  /\ dialog # NoJob /\ Act
  /\ pendingSave' = "saveValues"
  /\ saveColumn' = dialog.column
  /\ Dispatch("saveValues", dialog.file, dialog.content)
  /\ dialog' = NoJob
  /\ UNCHANGED <<careful, count, columns, disk, chart, foreign>>

\* Mutant: the pending save is forgotten with the dialog.
DismissForgets ==
  /\ dialog # NoJob
  /\ dialog' = NoJob
  /\ pendingSave' = "saveNone"
  /\ UNCHANGED <<careful, count, columns, disk, saveColumn, export, answer, writers,
                 chart, acts, foreign>>

DismissOverwriteDialog ==
  /\ dialog # NoJob
  /\ dialog' = NoJob
  /\ UNCHANGED <<careful, count, columns, disk, pendingSave, saveColumn, export, answer,
                 writers, chart, acts, foreign>>

onSaveCurrentChart ==
  /\ careful => Idle
  /\ Act
  /\ pendingSave' = "saveTgz"
  /\ Dispatch("saveTgz", Archive, Archive)
  /\ UNCHANGED <<careful, count, columns, disk, saveColumn, dialog, chart, foreign>>

-----------------------------------------------------------------------------
(* The operations, and other programs.                                     *)

Put(f, content) == disk' = [disk EXCEPT ![f] = [content |-> content, time |-> @.time + 1]]

\* The file of the operation, or the one the user picks in its save dialog.
Target(job) ==
  IF job.file # NoFile THEN {job.file}
  ELSE {f \in Files : careful => \A i \in Ids : columns[i].file # f}

WriteFile(job) ==
  /\ \E f \in Target(job) :
       /\ Put(f, job.content)
       /\ answer' = IF job = export THEN f ELSE answer
  /\ writers' = writers \ {job}
  /\ UNCHANGED <<careful, count, columns, pendingSave, saveColumn, dialog, export,
                 chart, acts, foreign>>

\* The write failed, the user declined the dialog, or the operation was
\* superseded or stopped before it began.
WriteFails(job) ==
  /\ answer' = IF job = export THEN "failed" ELSE answer
  /\ writers' = writers \ {job}
  /\ UNCHANGED <<careful, count, columns, disk, pendingSave, saveColumn, dialog, export,
                 chart, acts, foreign>>

ForeignWrite(f) ==
  /\ foreign < MaxForeign
  /\ foreign' = foreign + 1
  /\ Put(f, Foreign)
  /\ UNCHANGED <<careful, count, columns, pendingSave, saveColumn, dialog, export, answer, writers,
                 chart, acts>>

-----------------------------------------------------------------------------
(* pollExportRunner.                                                       *)

\* Mutant: every answer counts as saved.
SavedWhateverTheAnswer ==
  IF pendingSave = "saveValues" /\ saveColumn \in Active
  THEN [columns EXCEPT ![saveColumn].modified = FALSE]
  ELSE columns

\* A success marks the column saved, under the path and modification time
\* the file has by then.
Saved ==
  IF answer # "failed" /\ pendingSave = "saveValues" /\ saveColumn \in Active
  THEN [columns EXCEPT ![saveColumn].modified = FALSE, ![saveColumn].file = answer,
                       ![saveColumn].seen = disk[answer].time]
  ELSE columns

pollExportRunner ==
  /\ export # NoJob /\ answer # "working"
  /\ columns' = Saved
  /\ pendingSave' = "saveNone"
  /\ export' = NoJob
  /\ answer' = "working"
  /\ UNCHANGED <<careful, count, disk, saveColumn, dialog, writers,
                 chart, acts, foreign>>

\* The operation timed out or was stopped: nothing is delivered, and it may
\* still write.
NoAnswer ==
  /\ export # NoJob
  /\ export' = NoJob
  /\ answer' = "working"
  /\ UNCHANGED <<careful, count, columns, disk, pendingSave, saveColumn, dialog, writers,
                 chart, acts, foreign>>

Next ==
  \/ \E i \in Active :
       \/ Edit(i) \/ onClearColumn(i) \/ onRemoveColumn(i)
       \/ onSaveColumnValues(i) \/ SaveFailsEarly(i)
       \/ \E f \in Files : SelectFile(i, f)
  \/ \E i \in Ids : PollLoad(i) \/ NoLoad(i)
  \/ PollParse \/ onAddColumn \/ Layout \/ ResetState
  \/ ConfirmOverwrite \/ DismissOverwriteDialog \/ onSaveCurrentChart
  \/ \E job \in writers : WriteFile(job) \/ WriteFails(job)
  \/ \E f \in Files : ForeignWrite(f)
  \/ pollExportRunner \/ NoAnswer

Spec == Init /\ [][Next]_vars

-----------------------------------------------------------------------------

\* While the chart it was asked for is open, the answer of a save of values is
\* never taken for another one's: the column asked for last is marked saved.
ValuesAnswerIsKnown ==
  export # NoJob /\ export.kind = "saveValues" /\ export.chart = chart
    => pendingSave = "saveValues"

\* For a careful user, the answer of a save takes the mark off a column only
\* when the file it names holds what the column shows, unless another program
\* has written it since.
SavedIsOnDisk ==
  [][careful /\ pollExportRunner =>
       \A i \in Ids :
         columns[i].modified /\ ~columns'[i].modified =>
           /\ columns'[i].file # NoFile
           /\ disk[columns'[i].file].content \in {columns'[i].shown, Foreign}]_vars

\* "pendingSave always corresponds to the latest (and only deliverable)
\* export result", of the saves on the chart that is open.
PendingSaveIsOfExport ==
  export # NoJob /\ export.chart = chart => pendingSave = export.kind
=============================================================================
