------------------------- MODULE ValuesColumns_proofs --------------------------
(***************************************************************************)
(* The override columns, for any number of columns, files and keys: what   *)
(* belongs to a column moves with it, the helm command and the rows        *)
(* follow, and what changes in one column leaves the texts of the others.  *)
(***************************************************************************)
EXTENDS ValuesColumns, FiniteSetTheorems, WellFoundedInduction, TLAPS

SavingType == [values : BOOLEAN, column : Columns, answers : SUBSET Exports,
               dialog : [column : Columns, file : Exports] \union {NoJob}]

\* What the columns are made of, and that a column that is not shown has no
\* file: +Values shows it without looking.
Shape ==
  /\ count \in 1..MaxCustomColumns
  /\ paths \in [Columns -> Shows]
  /\ saving \in SavingType
  /\ renamed \in [Columns -> BOOLEAN]
  /\ custom = [c \in Columns |-> custom[c]]
  /\ loads \in [Columns -> [files : Selections, stopped : BOOLEAN] \union {NoJob}]
  /\ \A c \in Columns : c >= count => paths[c] = <<>>

IInv == /\ Shape /\ OneColumnPerFile /\ EveryKeyHasARow /\ CommandMatchesFiles
        /\ LoadIsOfShownFiles

\* Columns and counts are numbers.
LEMMA ColumnFacts ==
  /\ 0 \in Columns /\ Columns \subseteq Nat
  /\ \A c \in Columns : c < MaxCustomColumns
  /\ \A c \in Columns : c < MaxCustomColumns - 1 => c + 1 \in Columns
  /\ MaxCustomColumns - 1 \in Columns /\ MaxCustomColumns \in Nat
BY ColumnsAssumption DEF Columns

\* The columns shown are columns.
LEMMA ColumnNumbers ==
  ASSUME NEW n \in 1..MaxCustomColumns
  PROVE  /\ n \in Nat /\ n >= 1 /\ n <= MaxCustomColumns
         /\ \A c : c \in 0..(n - 1) <=> c \in Columns /\ c < n
BY ColumnsAssumption DEF Columns

\* The same of the columns of a state.
LEMMA ActiveFacts ==
  ASSUME Shape
  PROVE  /\ count \in Nat /\ count >= 1 /\ count <= MaxCustomColumns
         /\ \A c : c \in Active <=> c \in Columns /\ c < count
BY ColumnNumbers DEF Shape, Active

\* The page opens with one column and no file.
LEMMA InitInv == Init => IInv
<1> SUFFICES ASSUME Init PROVE IInv
  OBVIOUS
<1>1. Shape
  BY ColumnFacts, ColumnsAssumption DEF Init, Shape, Shows, SavingType
<1>2. Active \subseteq Columns
  BY <1>1, ActiveFacts
<1>3. OneColumnPerFile
  BY <1>2 DEF Init, OneColumnPerFile, Disjoint
<1>4. EveryKeyHasARow
  BY ColumnFacts DEF Init, EveryKeyHasARow, KeysOf
<1>5. CommandMatchesFiles
  BY DEF Init, CommandMatchesFiles, FilesShown
<1>6. LoadIsOfShownFiles
  BY DEF Init, LoadIsOfShownFiles
<1> QED
  BY <1>1, <1>3, <1>4, <1>5, <1>6 DEF IInv

-----------------------------------------------------------------------------
(* Rows.                                                                   *)

\* Rows are of keys.
LEMMA RowsAreKeys ==
  ASSUME NEW docs, NEW n
  PROVE  UnifiedEntries(docs, n) \subseteq Keys
<1>1. DefaultKeys \subseteq Keys
  BY ColumnsAssumption
<1>2. \A doc : KeysOf(doc) \subseteq Keys
  BY DEF KeysOf
<1> QED
  BY <1>1, <1>2 DEF UnifiedEntries

\* After a rebuild every value of the first column has its row.
LEMMA RebuiltRows ==
  ASSUME NEW docs, NEW n \in Nat, n >= 1
  PROVE  KeysOf(docs[0]) \subseteq UnifiedEntries(docs, n)
<1>1. 0 \in 0..(n - 1)
  OBVIOUS
<1> QED
  BY <1>1 DEF UnifiedEntries

\* A key press or an event empties a column or leaves its values to the parse
\* that follows.
LEMMA ReportedRows ==
  ASSUME Shape, EveryKeyHasARow, NEW c \in Columns, NEW cells, Report(c, cells),
         UNCHANGED entries
  PROVE  custom' = [d \in Columns |-> custom'[d]] /\ EveryKeyHasARow'
<1>1. custom' = custom \/ custom' = [custom EXCEPT ![c] = NoDoc]
  BY DEF Report
<1>2. custom' = [d \in Columns |-> custom'[d]]
  BY <1>1 DEF Shape
<1>3. KeysOf(NoDoc) = {}
  BY DEF KeysOf
<1>4. custom'[0] = custom[0] \/ custom'[0] = NoDoc
  BY <1>1, ColumnFacts DEF Shape
<1>5. KeysOf(custom'[0]) \subseteq entries'
  BY <1>3, <1>4 DEF EveryKeyHasARow
<1> QED
  BY <1>2, <1>5 DEF EveryKeyHasARow, KeysOf

-----------------------------------------------------------------------------
(* The steps.                                                              *)

\* A step that changes the values of columns and nothing else that matters.
LEMMA ValuesStep ==
  ASSUME IInv, custom' = [c \in Columns |-> custom'[c]], EveryKeyHasARow',
         UNCHANGED <<count, paths, command, saving, renamed>>,
         \/ UNCHANGED loads
         \/ \E c \in Columns : loads' = [loads EXCEPT ![c] = NoJob]
  PROVE  IInv'
<1>1. /\ loads' \in [Columns -> [files : Selections, stopped : BOOLEAN] \union {NoJob}]
      /\ \A c \in Columns : loads'[c] \in {loads[c], NoJob}
  BY DEF IInv, Shape
<1>2. Shape'
  BY <1>1 DEF IInv, Shape
<1>3. OneColumnPerFile' /\ CommandMatchesFiles'
  BY DEF IInv, OneColumnPerFile, Active, CommandMatchesFiles, FilesShown
<1>4. LoadIsOfShownFiles'
  BY <1>1 DEF IInv, LoadIsOfShownFiles
<1> QED
  BY <1>2, <1>3, <1>4 DEF IInv

\* An answer becomes the values of its column and the rows are rebuilt.
LEMMA PollStep ==
  ASSUME IInv, NEW c \in Columns, PollLoad(c) \/ PollParse(c)
  PROVE  IInv'
<1>1. /\ entries' = UnifiedEntries(custom', count)
      /\ \E doc : custom' = [custom EXCEPT ![c] = doc]
      /\ UNCHANGED <<count, paths, command, saving, renamed>>
      /\ UNCHANGED loads \/ loads' = [loads EXCEPT ![c] = NoJob]
  BY DEF PollLoad, PollParse, rebuildEntries
<1>2. custom' = [d \in Columns |-> custom'[d]]
  BY <1>1 DEF IInv, Shape
<1>3. EveryKeyHasARow'
  BY <1>1, RebuiltRows, ActiveFacts DEF IInv, EveryKeyHasARow, KeysOf
<1> QED
  BY <1>1, <1>2, <1>3, ValuesStep

\* A file that no other column shows is selected for a column.
LEMMA SelectStep ==
  ASSUME IInv, NEW c \in Columns, NEW files \in Selections, OnColumnFilesSelected(c, files)
  PROVE  IInv'
<1>1. /\ c < count /\ \A d \in Active \ {c} : Disjoint(files, paths[d])
      /\ paths' = [paths EXCEPT ![c] = files]
      /\ loads' = [loads EXCEPT ![c] = [files |-> files, stopped |-> FALSE]]
      /\ command' = FilesShown(paths', count)
      /\ renamed' = [renamed EXCEPT ![c] = FALSE]
      /\ UNCHANGED <<count, custom, entries, saving>>
  BY DEF OnColumnFilesSelected
<1>2. /\ \A d \in Columns : paths'[d] = IF d = c THEN files ELSE paths[d]
      /\ \A d \in Columns : d # c => renamed'[d] = renamed[d]
      /\ \A d \in Columns : d # c => loads'[d] = loads[d]
      /\ loads'[c].files = files
  BY <1>1 DEF IInv, Shape
<1>3. Shape'
  <2>1. \A d \in Columns : d >= count => d # c
    BY <1>1, ActiveFacts, ColumnFacts DEF IInv
  <2>2. [files |-> files, stopped |-> FALSE] \in [files : Selections, stopped : BOOLEAN]
    OBVIOUS
  <2>3. paths' \in [Columns -> Shows]
    BY <1>1 DEF IInv, Shape, Shows
  <2>4. loads' \in [Columns -> [files : Selections, stopped : BOOLEAN] \union {NoJob}]
    BY <1>1, <2>2 DEF IInv, Shape
  <2> QED
    BY <1>1, <1>2, <2>1, <2>3, <2>4 DEF IInv, Shape
<1>4. OneColumnPerFile'
  <2> SUFFICES ASSUME NEW d \in Active, NEW e \in Active, d # e, ~renamed'[d], ~renamed'[e]
               PROVE  Disjoint(paths'[d], paths'[e])
    BY <1>1 DEF OneColumnPerFile, Active
  <2>1. d \in Columns /\ e \in Columns
    BY ActiveFacts DEF IInv
  <2>3. CASE d # c /\ e # c
    BY <1>2, <2>1, <2>3 DEF IInv, OneColumnPerFile
  <2>4. CASE d = c
    BY <1>1, <1>2, <2>1, <2>4
  <2>5. CASE e = c
    <3>1. Disjoint(files, paths[d])
      BY <1>1, <2>5
    <3>2. paths'[d] = paths[d] /\ paths'[e] = files
      BY <1>2, <2>1, <2>5
    <3> QED
      BY <3>1, <3>2 DEF Disjoint
  <2> QED
    BY <2>3, <2>4, <2>5
<1>5. EveryKeyHasARow'
  BY <1>1 DEF IInv, EveryKeyHasARow, KeysOf
<1>6. CommandMatchesFiles'
  BY <1>1 DEF CommandMatchesFiles, FilesShown
<1>7. LoadIsOfShownFiles'
  BY <1>2 DEF IInv, LoadIsOfShownFiles
<1> QED
  BY <1>3, <1>4, <1>5, <1>6, <1>7 DEF IInv

\* A column is added as its last reset left it.
LEMMA AddStep ==
  ASSUME IInv, onAddColumn
  PROVE  IInv'
<1>1. /\ count < MaxCustomColumns /\ count' = count + 1
      /\ UNCHANGED <<paths, custom, entries, loads, command, saving, renamed>>
  BY DEF onAddColumn
<1>2. paths[count] = <<>> /\ count \in Columns
  BY <1>1, ActiveFacts, ColumnsAssumption DEF IInv, Shape, Columns
<1>3. Shape'
  BY <1>1, ActiveFacts, ColumnFacts DEF IInv, Shape
<1>4. OneColumnPerFile'
  <2> SUFFICES ASSUME NEW d \in Active', NEW e \in Active', d # e, ~renamed[d], ~renamed[e]
               PROVE  Disjoint(paths[d], paths[e])
    BY <1>1 DEF OneColumnPerFile
  <2>1. \A x \in Active' : x \in Active \/ x = count
    BY <1>1, ActiveFacts DEF IInv, Active
  <2>2. CASE d \in Active /\ e \in Active
    BY <2>2 DEF IInv, OneColumnPerFile
  <2>3. CASE d = count \/ e = count
    BY <1>2, <2>3 DEF Disjoint
  <2> QED
    BY <2>1, <2>2, <2>3
<1>5. EveryKeyHasARow' /\ LoadIsOfShownFiles'
  BY <1>1 DEF IInv, EveryKeyHasARow, KeysOf, LoadIsOfShownFiles
<1>6. CommandMatchesFiles'
  <2>1. \A d \in Columns : d < count + 1 => d < count \/ d = count
    BY ActiveFacts, ColumnFacts DEF IInv
  <2>2. \A d \in Columns : d < count => d < count + 1
    BY ActiveFacts, ColumnFacts DEF IInv
  <2> QED
    BY <1>1, <1>2, <2>1, <2>2 DEF IInv, CommandMatchesFiles, FilesShown
<1> QED
  BY <1>3, <1>4, <1>5, <1>6 DEF IInv

\* A column is emptied, and its load called off.
LEMMA ClearStep ==
  ASSUME IInv, NEW c \in Columns, onClearColumn(c)
  PROVE  IInv'
<1>1. /\ loads' = [loads EXCEPT ![c] = Stopped(loads[c])]
      /\ paths' = [paths EXCEPT ![c] = <<>>]
      /\ custom' = [custom EXCEPT ![c] = NoDoc]
      /\ entries' = UnifiedEntries(custom', count)
      /\ command' = FilesShown(paths', count) /\ count' = count
      /\ renamed' = [renamed EXCEPT ![c] = FALSE] /\ saving' = saving
  BY DEF onClearColumn, rebuildEntries, IInv, Shape
<1>2. /\ \A d \in Columns : paths'[d] = IF d = c THEN <<>> ELSE paths[d]
      /\ \A d \in Columns : d # c => renamed'[d] = renamed[d]
  BY <1>1 DEF IInv, Shape
<1>3. /\ Stopped(loads[c]) \in [files : Selections, stopped : BOOLEAN] \union {NoJob}
      /\ Stopped(loads[c]) = NoJob \/ Stopped(loads[c]).stopped
  BY DEF IInv, Shape, Stopped
<1>4. Shape'
  BY <1>1, <1>2, <1>3 DEF IInv, Shape, Shows
<1>5. OneColumnPerFile'
  <2> SUFFICES ASSUME NEW d \in Active, NEW e \in Active, d # e, ~renamed'[d], ~renamed'[e]
               PROVE  Disjoint(paths'[d], paths'[e])
    BY <1>1 DEF OneColumnPerFile, Active
  <2>1. d \in Columns /\ e \in Columns
    BY ActiveFacts DEF IInv
  <2>2. d # c /\ e # c => Disjoint(paths[d], paths[e])
    BY <1>2, <2>1 DEF IInv, OneColumnPerFile
  <2> QED
    BY <1>2, <2>1, <2>2 DEF Disjoint
<1>6. EveryKeyHasARow'
  BY <1>1, RebuiltRows, ActiveFacts DEF IInv, EveryKeyHasARow, KeysOf
<1>7. CommandMatchesFiles'
  BY <1>1 DEF CommandMatchesFiles, FilesShown
<1>8. LoadIsOfShownFiles'
  <2>1. \A d \in Columns : loads'[d] = IF d = c THEN Stopped(loads[c]) ELSE loads[d]
    BY <1>1 DEF IInv, Shape
  <2> QED
    BY <1>2, <1>3, <2>1 DEF IInv, LoadIsOfShownFiles
<1> QED
  BY <1>4, <1>5, <1>6, <1>7, <1>8 DEF IInv

\* The columns to the right of a removed one move left with their loads.
LEMMA RemoveStep ==
  ASSUME IInv, NEW c \in Columns, onRemoveColumn(c)
  PROVE  IInv'
<1> DEFINE last == MaxCustomColumns - 1
           Left(f, final) == [d \in Columns |-> IF d = last THEN final
                                                ELSE IF d < c THEN f[d] ELSE f[d + 1]]
<1>1. /\ c \in 1..(count - 1) /\ count' = count - 1
      /\ paths' = Left(paths, <<>>) /\ custom' = Left(custom, NoDoc) /\ loads' = Left(loads, NoJob)
      /\ renamed' = Left(renamed, FALSE) /\ saving' = saving
      /\ entries' = UnifiedEntries(custom', count')
      /\ command' = FilesShown(paths', count')
  BY DEF onRemoveColumn, rebuildEntries
<1>2. /\ count \in Nat /\ count' \in Nat /\ count' >= 1 /\ count' < count /\ count <= MaxCustomColumns
      /\ c \in Nat /\ MaxCustomColumns \in Nat
  BY <1>1, ActiveFacts, ColumnFacts DEF IInv
<1> DEFINE from(d) == IF d < c THEN d ELSE d + 1
<1>3. ASSUME NEW d \in Columns, d # last
      PROVE  /\ from(d) \in Columns /\ paths'[d] = paths[from(d)] /\ loads'[d] = loads[from(d)]
             /\ renamed'[d] = renamed[from(d)]
             /\ from(d) = d \/ from(d) = d + 1
  BY <1>1, <1>2, <1>3, ColumnFacts DEF Columns
<1>4. paths'[last] = <<>> /\ loads'[last] = NoJob /\ renamed'[last] = FALSE /\ last \in Columns
  BY <1>1, ColumnFacts
<1>5. ASSUME NEW d \in Columns, d < count'
      PROVE  d # last /\ from(d) \in Active
  BY <1>1, <1>2, <1>5, ColumnFacts DEF Active, Columns
<1>6. ASSUME NEW d \in Columns, d # last, d >= count'
      PROVE  from(d) >= count
  BY <1>1, <1>2, <1>6, ColumnFacts
<1>7. \A d, e \in Columns : d # e => from(d) # from(e)
  BY <1>2, ColumnFacts
<1>8. custom' = [d \in Columns |-> custom'[d]]
  BY <1>1
<1>9. /\ paths' = [d \in Columns |-> paths'[d]] /\ loads' = [d \in Columns |-> loads'[d]]
      /\ renamed' = [d \in Columns |-> renamed'[d]]
  BY <1>1
<1> HIDE DEF Left, from, last
<1>10. \A d \in Columns : d >= count' => paths'[d] = <<>>
  BY <1>3, <1>4, <1>6 DEF IInv, Shape
<1>11. /\ paths' \in [Columns -> Shows] /\ renamed' \in [Columns -> BOOLEAN]
       /\ loads' \in [Columns -> [files : Selections, stopped : BOOLEAN] \union {NoJob}]
  <2>1. \A d \in Columns : paths'[d] \in Shows
    BY <1>3, <1>4 DEF IInv, Shape, Shows
  <2>2. \A d \in Columns : renamed'[d] \in BOOLEAN
    BY <1>3, <1>4 DEF IInv, Shape
  <2>3. \A d \in Columns : loads'[d] \in [files : Selections, stopped : BOOLEAN] \union {NoJob}
    BY <1>3, <1>4 DEF IInv, Shape
  <2> QED
    BY <1>9, <2>1, <2>2, <2>3
<1>12. Shape'
  <2>1. saving' \in SavingType
    BY <1>1 DEF IInv, Shape
  <2> QED
    BY <1>2, <1>8, <1>10, <1>11, <2>1 DEF Shape
<1>13. OneColumnPerFile'
  <2> SUFFICES ASSUME NEW d \in Active', NEW e \in Active', d # e, ~renamed'[d], ~renamed'[e]
               PROVE  Disjoint(paths'[d], paths'[e])
    BY DEF OneColumnPerFile
  <2>1. d \in Columns /\ e \in Columns /\ d < count' /\ e < count'
    BY <1>12, ColumnNumbers DEF Active, Shape
  <2>2. from(d) \in Active /\ from(e) \in Active /\ from(d) # from(e)
    BY <1>5, <1>7, <2>1
  <2>3. /\ paths'[d] = paths[from(d)] /\ paths'[e] = paths[from(e)]
        /\ ~renamed[from(d)] /\ ~renamed[from(e)]
    BY <1>3, <1>5, <2>1
  <2> QED
    BY <2>2, <2>3 DEF IInv, OneColumnPerFile
<1>14. EveryKeyHasARow'
  BY <1>1, <1>2, RebuiltRows DEF EveryKeyHasARow, KeysOf
<1>15. CommandMatchesFiles'
  BY <1>1 DEF CommandMatchesFiles, FilesShown
<1>16. LoadIsOfShownFiles'
  BY <1>3, <1>4 DEF IInv, LoadIsOfShownFiles
<1> QED
  BY <1>12, <1>13, <1>14, <1>15, <1>16 DEF IInv

\* The steps of a save.
Saves == \/ ConfirmOverwrite \/ DismissOverwriteDialog \/ onSaveCurrentChart
         \/ pollExportRunner \/ ExportFails
         \/ \E c \in Columns : onSaveColumnValues(c)

\* A save gives at most one shown column another file, and says so.
LEMMA SaveFacts ==
  ASSUME Shape, Saves
  PROVE  /\ UNCHANGED Untouched
         /\ saving' \in SavingType
         /\ \/ UNCHANGED <<paths, command, renamed>>
            \/ \E c \in Columns, file \in Exports :
                 /\ c < count
                 /\ paths' = [paths EXCEPT ![c] = <<file>>]
                 /\ command' = FilesShown(paths', count)
                 /\ renamed' = [renamed EXCEPT ![c] = renamed[c] \/ paths[c] # <<file>>]
<1>1. ASSUME NEW c \in Columns, onSaveColumnValues(c)
      PROVE  saving' \in SavingType
  <2>1. paths[c] # <<>> => Head(paths[c]) \in Exports
    <3>1. CASE paths[c] \in Selections
      <4>1. paths[c] \in Seq(Files) /\ paths[c] # <<>>
        BY <3>1, ColumnsAssumption
      <4>2. Head(paths[c]) \in Files
        BY <4>1
      <4> QED
        BY <4>2 DEF Exports
    <3>2. CASE \E f \in Exports : paths[c] = <<f>>
      BY <3>2
    <3> QED
      BY <3>1, <3>2 DEF Shape, Shows
  <2>2. saving.answers \in SUBSET Exports /\ Files \in SUBSET Exports
        /\ saving.dialog \in [column : Columns, file : Exports] \union {NoJob}
    BY DEF Shape, SavingType, Exports
  <2>3. \E answers \in SUBSET Exports, dialog \in [column : Columns, file : Exports] \union {NoJob} :
          Dispatched(c, answers, dialog)
    <3>1. CASE Dispatched(c, saving.answers, saving.dialog) \/ Dispatched(c, Files, saving.dialog)
      BY <2>2, <3>1
    <3>2. CASE paths[c] # <<>> /\ Dispatched(c, {Head(paths[c])}, saving.dialog)
      <4>1. {Head(paths[c])} \in SUBSET Exports
        BY <2>1, <3>2
      <4> QED
        BY <2>2, <3>2, <4>1
    <3>3. CASE paths[c] # <<>> /\ Dispatched(c, saving.answers, [column |-> c, file |-> Head(paths[c])])
      <4>1. [column |-> c, file |-> Head(paths[c])] \in [column : Columns, file : Exports]
        BY <2>1, <3>3
      <4> QED
        BY <2>2, <3>3, <4>1
    <3> QED
      BY <1>1, <3>1, <3>2, <3>3 DEF onSaveColumnValues
  <2> QED
    BY <2>3 DEF Dispatched, SavingType
<1>2. CASE ConfirmOverwrite
  BY <1>2 DEF ConfirmOverwrite, Dispatched, Shape, SavingType
<1>3. CASE DismissOverwriteDialog \/ onSaveCurrentChart \/ pollExportRunner \/ ExportFails
  BY <1>3 DEF DismissOverwriteDialog, onSaveCurrentChart, pollExportRunner, ExportFails, Shape,
       SavingType, Exports
<1>4. saving' \in SavingType
  BY <1>1, <1>2, <1>3 DEF Saves
<1>5. UNCHANGED Untouched
  BY DEF Saves, ConfirmOverwrite, DismissOverwriteDialog, onSaveCurrentChart, pollExportRunner,
       ExportFails, onSaveColumnValues
<1>6. CASE pollExportRunner
  <2>1. PICK file \in saving.answers :
          IF saving.values /\ saving.column < count
          THEN /\ paths' = [paths EXCEPT ![saving.column] = <<file>>]
               /\ command' = FilesShown(paths', count)
               /\ renamed' = [renamed EXCEPT ![saving.column] =
                                renamed[saving.column] \/ paths[saving.column] # <<file>>]
          ELSE UNCHANGED <<paths, command, renamed>>
    BY <1>6 DEF pollExportRunner
  <2>2. file \in Exports /\ saving.column \in Columns
    BY DEF Shape, SavingType
  <2> QED
    BY <1>4, <1>5, <2>1, <2>2
<1>7. CASE ~pollExportRunner
  BY <1>4, <1>5, <1>7 DEF Saves, ConfirmOverwrite, DismissOverwriteDialog, onSaveCurrentChart,
       ExportFails, onSaveColumnValues
<1> QED
  BY <1>6, <1>7

\* The column a save gave another file is out of the promises about files.
LEMMA SaveStep ==
  ASSUME IInv, Saves
  PROVE  IInv'
<1>1. UNCHANGED <<count, custom, entries, loads>> /\ saving' \in SavingType
  BY SaveFacts DEF IInv, Untouched
<1>2. CASE UNCHANGED <<paths, command, renamed>>
  BY <1>1, <1>2 DEF IInv, Shape, OneColumnPerFile, Active, EveryKeyHasARow, KeysOf,
       CommandMatchesFiles, FilesShown, LoadIsOfShownFiles
<1>3. ASSUME NEW c \in Columns, NEW file \in Exports, c < count,
             paths' = [paths EXCEPT ![c] = <<file>>],
             command' = FilesShown(paths', count),
             renamed' = [renamed EXCEPT ![c] = renamed[c] \/ paths[c] # <<file>>]
      PROVE  IInv'
  <2>1. /\ \A d \in Columns : paths'[d] = IF d = c THEN <<file>> ELSE paths[d]
        /\ \A d \in Columns : ~renamed'[d] => paths'[d] = paths[d] /\ ~renamed[d]
        /\ paths' \in [Columns -> Shows] /\ renamed' \in [Columns -> BOOLEAN]
    BY <1>3 DEF IInv, Shape, Shows
  <2>2. Shape'
    <3>1. \A d \in Columns : d >= count => d # c
      BY <1>3, ActiveFacts, ColumnFacts DEF IInv
    <3> QED
      BY <1>1, <2>1, <3>1 DEF IInv, Shape
  <2>3. OneColumnPerFile'
    <3>1. Active' = Active /\ Active \subseteq Columns
      BY <1>1, ActiveFacts DEF IInv, Active
    <3> QED
      BY <2>1, <3>1 DEF IInv, OneColumnPerFile
  <2>4. EveryKeyHasARow' /\ CommandMatchesFiles'
    BY <1>1, <1>3 DEF IInv, EveryKeyHasARow, KeysOf, CommandMatchesFiles, FilesShown
  <2>5. LoadIsOfShownFiles'
    BY <1>1, <2>1 DEF IInv, LoadIsOfShownFiles
  <2> QED
    BY <2>2, <2>3, <2>4, <2>5 DEF IInv
<1> QED
  BY <1>2, <1>3, SaveFacts DEF IInv

\* Every step keeps what belongs together together.
LEMMA StepInv == IInv /\ [Next]_vars => IInv'
<1> SUFFICES ASSUME IInv, [Next]_vars PROVE IInv'
  OBVIOUS
<1>1. CASE Advance \/ Layout \/ UNCHANGED vars
  <2>1. UNCHANGED <<count, paths, custom, entries, loads, command, saving, renamed>>
    BY <1>1 DEF Advance, Layout, vars
  <2> QED
    BY <2>1, ValuesStep DEF IInv, Shape, EveryKeyHasARow, KeysOf
<1>2. ASSUME NEW c \in Columns, NoAnswer(c)
      PROVE  IInv'
  <2>1. /\ UNCHANGED <<count, paths, custom, entries, command, saving, renamed>>
        /\ UNCHANGED loads \/ loads' = [loads EXCEPT ![c] = NoJob]
    BY <1>2 DEF NoAnswer
  <2> QED
    BY <2>1, ValuesStep DEF IInv, Shape, EveryKeyHasARow, KeysOf
<1>3. ASSUME NEW c \in Columns, NEW r \in Rows, DeliverChange(c, r)
      PROVE  IInv'
  <2>1. Report(c, text) /\ UNCHANGED <<count, paths, entries, loads, command, saving, renamed>>
    BY <1>3 DEF DeliverChange
  <2> QED
    BY <2>1, ReportedRows, ValuesStep DEF IInv
<1>4. ASSUME NEW c \in Columns, NEW r \in Rows, NEW w \in Words \union {Blank}, Edit(c, r, w)
      PROVE  IInv'
  <2>1. Report(c, text') /\ UNCHANGED <<count, paths, entries, loads, command, saving, renamed>>
    BY <1>4 DEF Edit
  <2> QED
    BY <2>1, ReportedRows, ValuesStep DEF IInv
<1> QED
  BY <1>1, <1>2, <1>3, <1>4, PollStep, SelectStep, AddStep, ClearStep, RemoveStep, SaveStep
     DEF Next, Saves

\* The invariant on which the rest of this module depends: what belongs to a
\* column moves with it, and a column that is not shown has no file.
THEOREM ColumnsInvariant == Spec => []IInv
BY InitInv, StepInv, PTL DEF Spec

\* OnColumnFilesSelected refuses a file another column shows, and no moving,
\* clearing or adding of columns, and no save of a column to the file it has,
\* gives one file to two of them.  A save that gives a column another file can.
THEOREM FilesDiffer == Spec => []OneColumnPerFile
BY ColumnsInvariant, PTL DEF IInv

\* rebuildEntries has run whenever the first column has a new key.
THEOREM RowsComplete == Spec => []EveryKeyHasARow
BY ColumnsInvariant, PTL DEF IInv

\* The cached helm command is rebuilt in every handler that changes what it says.
THEOREM CommandFresh == Spec => []CommandMatchesFiles
BY ColumnsInvariant, PTL DEF IInv

\* A result that arrives after columns have moved is of the files its column
\* shows, because runners move with their columns, unless a save has given the
\* column another file under it.
THEOREM LoadsFollow == Spec => []LoadIsOfShownFiles
BY ColumnsInvariant, PTL DEF IInv
-----------------------------------------------------------------------------
(* The texts of the other columns.                                         *)

\* A set that holds 0 and the successor of each of its numbers holds them all.
LEMMA Successors ==
  ASSUME NEW S, 0 \in S, \A n \in Nat : n \in S => n + 1 \in S
  PROVE  Nat \subseteq S
<1> SUFFICES ASSUME Nat \ S # {} PROVE FALSE
  OBVIOUS
<1>1. PICK x \in Nat \ S : \A y \in Nat \ S : ~(<<y, x>> \in OpToRel(<, Nat))
  BY NatLessThanWellFounded, WFMin
<1>2. x # 0 /\ x - 1 \in Nat /\ (x - 1) + 1 = x
  OBVIOUS
<1>3. <<x - 1, x>> \in OpToRel(<, Nat)
  BY <1>2 DEF OpToRel
<1>4. x - 1 \in S
  BY <1>1, <1>2, <1>3
<1> QED
  BY <1>2, <1>4

\* The keys of a list have rows of their own, the first ones.
LEMMA RowsOfKeys ==
  ASSUME NEW list, list \subseteq Keys
  PROVE  /\ IsFiniteSet(list) /\ Cardinality(list) \in Nat /\ Cardinality(Keys) \in Nat
         /\ Cardinality(list) <= Cardinality(Keys)
         /\ \A k \in list : RowOf(list, k) \in 1..Cardinality(list)
         /\ \A k, l \in list : RowOf(list, k) = RowOf(list, l) => k = l
<1>1. IsFiniteSet(list) /\ Cardinality(list) <= Cardinality(Keys)
  BY ColumnsAssumption, FS_Subset
<1>2. Cardinality(list) \in Nat /\ Cardinality(Keys) \in Nat
  BY <1>1, ColumnsAssumption, FS_CardinalityType
<1>3. list \subseteq Nat
  BY ColumnsAssumption
<1>4. ASSUME NEW k \in list
      PROVE  RowOf(list, k) \in 1..Cardinality(list)
  <2> DEFINE upTo == {j \in list : j <= k}
  <2>1. upTo \in SUBSET list /\ k \in upTo
    BY <1>3
  <2> HIDE DEF upTo
  <2>2. IsFiniteSet(upTo) /\ Cardinality(upTo) <= Cardinality(list)
    BY <1>1, <2>1, FS_Subset
  <2>3. Cardinality(upTo) \in Nat /\ Cardinality(upTo) # 0
    BY <2>1, <2>2, FS_CardinalityType, FS_EmptySet
  <2>4. Cardinality(upTo) \in 1..Cardinality(list)
    BY <1>2, <2>2, <2>3
  <2> QED
    BY <2>4 DEF RowOf, upTo
<1>5. ASSUME NEW k \in list, NEW l \in list, k < l
      PROVE  RowOf(list, k) # RowOf(list, l)
  <2> DEFINE K == {j \in list : j <= k}
             L == {j \in list : j <= l}
  <2>1. \A j \in list : j <= k => j <= l
    BY <1>3, <1>5
  <2>2. l <= l /\ ~(l <= k)
    BY <1>3, <1>5
  <2>3. K \in SUBSET L /\ l \in L /\ l \notin K /\ L \in SUBSET list
    BY <2>1, <2>2
  <2> HIDE DEF K, L
  <2>4. IsFiniteSet(L)
    BY <1>1, <2>3, FS_Subset
  <2>5. Cardinality(K) # Cardinality(L)
    BY <2>3, <2>4, FS_Subset
  <2> QED
    BY <2>5 DEF RowOf, K, L
<1>6. ASSUME NEW k \in list, NEW l \in list, RowOf(list, k) = RowOf(list, l)
      PROVE  k = l
  BY <1>3, <1>5, <1>6
<1> QED
  BY <1>1, <1>2, <1>4, <1>6

\* The slice that says a document says of each key what the document says.
LEMMA LaidSays ==
  ASSUME NEW list, list \subseteq Keys, NEW k \in list, NEW doc
  PROVE  RowOf(list, k) \in Rows /\ Laid(doc, list)[RowOf(list, k)] = doc[k]
<1>1. RowOf(list, k) \in Rows
  BY RowsOfKeys DEF Rows
<1>2. (CHOOSE l \in list : RowOf(list, l) = RowOf(list, k)) = k
  BY RowsOfKeys
<1> QED
  BY <1>1, <1>2 DEF Laid

\* No other column shows a cell of column d.
Own(slots, d) ==
  /\ \A c \in Columns, r \in Rows : slots[c][r] \in Columns
  /\ \A c \in Columns \ {d}, r \in Rows : slots[c][r] # slots[d][r]

\* What is written in a column is what it shows, and another column that has its
\* cells for itself shows what it did.
LEMMA WrittenShown ==
  ASSUME NEW slots, NEW d \in Columns, Own(slots, d), NEW c \in Columns, NEW cells, NEW texts
  PROVE  Read(Write(cells, slots[c], texts), slots[d]) =
           IF c = d THEN [r \in Rows |-> texts[r]] ELSE Read(cells, slots[d])
<1> DEFINE written == Write(cells, slots[c], texts)
<1>1. \A b \in Columns, r \in Rows :
        written[b][r] = IF slots[c][r] = b THEN texts[r] ELSE cells[b][r]
  BY DEF Write
<1> HIDE DEF written
<1>2. \A r \in Rows : written[slots[d][r]][r] = IF c = d THEN texts[r] ELSE cells[slots[d][r]][r]
  BY <1>1 DEF Own
<1>3. Read(written, slots[d]) = IF c = d THEN [r \in Rows |-> texts[r]] ELSE Read(cells, slots[d])
  BY <1>2 DEF Read
<1> QED
  BY <1>3 DEF written

\* The loop over the columns ends; this is what each round makes of the cells.
LEMMA RealignedSteps ==
  ASSUME NEW slots, NEW cells, NEW list, NEW skip
  PROVE  \E upTo :
           /\ Realigned(cells, slots, list, skip) = upTo[MaxCustomColumns]
           /\ \A c \in 0..MaxCustomColumns :
                upTo[c] = IF c = 0 THEN cells
                          ELSE IF c - 1 \in skip THEN upTo[c - 1]
                          ELSE Write(upTo[c - 1], slots[c - 1],
                                     Laid(Shown(Read(upTo[c - 1], slots[c - 1]), entries), list))
<1> DEFINE Moved(c, x) == IF c \in skip THEN x
                          ELSE Write(x, slots[c], Laid(Shown(Read(x, slots[c]), entries), list))
           IsLoop(f, n) == f = [c \in 0..n |-> IF c = 0 THEN cells ELSE Moved(c - 1, f[c - 1])]
           Loops == {n \in Nat : \E f : IsLoop(f, n)}
           upTo == CHOOSE f : IsLoop(f, MaxCustomColumns)
<1>1. Realigned(cells, slots, list, skip) = upTo[MaxCustomColumns]
  BY DEF Realigned
<1> HIDE DEF Moved
<1>2. Nat \subseteq Loops
  <2>1. 0 \in Loops
    <3> DEFINE f == [c \in 0..0 |-> cells]
    <3>1. IsLoop(f, 0)
      OBVIOUS
    <3> QED
      BY <3>1
  <2>2. ASSUME NEW n \in Nat, n \in Loops
        PROVE  n + 1 \in Loops
    <3>1. PICK f : IsLoop(f, n)
      BY <2>2
    <3> DEFINE g == [c \in 0..(n + 1) |-> IF c = n + 1 THEN Moved(n, f[n]) ELSE f[c]]
    <3>2. \A c \in 0..n : g[c] = f[c]
      OBVIOUS
    <3>3. \A c \in 0..(n + 1) : g[c] = IF c = 0 THEN cells ELSE Moved(c - 1, g[c - 1])
      <4> TAKE c \in 0..(n + 1)
      <4>1. CASE c = n + 1
        <5>1. g[n] = f[n] /\ g[c] = Moved(n, f[n]) /\ c - 1 = n /\ c # 0
          BY <3>2, <4>1
        <5> QED
          BY <5>1
      <4>2. CASE c # n + 1
        <5>1. c \in 0..n /\ g[c] = f[c] /\ (c # 0 => c - 1 \in 0..n)
          BY <3>2, <4>2
        <5>2. c # 0 => g[c - 1] = f[c - 1]
          BY <3>2, <5>1
        <5>3. f[c] = IF c = 0 THEN cells ELSE Moved(c - 1, f[c - 1])
          BY <3>1, <5>1
        <5> QED
          BY <5>1, <5>2, <5>3
      <4> QED
        BY <4>1, <4>2
    <3>4. g = [c \in 0..(n + 1) |-> g[c]]
      OBVIOUS
    <3> HIDE DEF g
    <3>5. IsLoop(g, n + 1)
      BY <3>3, <3>4
    <3> QED
      BY <3>5
  <2> HIDE DEF Loops
  <2> QED
    BY <2>1, <2>2, Successors
<1>3. IsLoop(upTo, MaxCustomColumns)
  BY <1>2, ColumnsAssumption
<1>4. \A c \in 0..MaxCustomColumns : upTo[c] = IF c = 0 THEN cells ELSE Moved(c - 1, upTo[c - 1])
  BY <1>3
<1> HIDE DEF upTo
<1> QED
  BY <1>1, <1>4 DEF Moved

\* It has moved the texts of a column that has its cells for itself to the rows of
\* the new list.
LEMMA RealignedShows ==
  ASSUME NEW slots, NEW d \in Columns, Own(slots, d), NEW cells, NEW list, NEW skip, d \notin skip
  PROVE  Read(Realigned(cells, slots, list, skip), slots[d]) =
           Laid(Shown(Read(cells, slots[d]), entries), list)
<1> DEFINE Moved(c, x) == IF c \in skip THEN x
                          ELSE Write(x, slots[c], Laid(Shown(Read(x, slots[c]), entries), list))
           before == Read(cells, slots[d])
           after == Laid(Shown(before, entries), list)
<1>1. PICK upTo :
        /\ Realigned(cells, slots, list, skip) = upTo[MaxCustomColumns]
        /\ \A c \in 0..MaxCustomColumns :
             upTo[c] = IF c = 0 THEN cells ELSE Moved(c - 1, upTo[c - 1])
  BY RealignedSteps
<1>2. after = [r \in Rows |-> after[r]]
  BY DEF Laid
<1>3. ASSUME NEW c \in Columns, NEW x, Read(x, slots[d]) = before \/ c # d
      PROVE  Read(Moved(c, x), slots[d]) = IF c = d THEN after ELSE Read(x, slots[d])
  <2> DEFINE texts == Laid(Shown(Read(x, slots[c]), entries), list)
  <2>1. Read(Write(x, slots[c], texts), slots[d]) =
          IF c = d THEN [r \in Rows |-> texts[r]] ELSE Read(x, slots[d])
    BY WrittenShown
  <2>2. c = d => texts = after /\ c \notin skip
    BY <1>3
  <2>3. Moved(c, x) = IF c \in skip THEN x ELSE Write(x, slots[c], texts)
    OBVIOUS
  <2> HIDE DEF texts, after, Moved
  <2> QED
    BY <1>2, <2>1, <2>2, <2>3
<1> HIDE DEF Moved, after, before
<1> DEFINE Right == {n \in Nat : n <= MaxCustomColumns =>
                       Read(upTo[n], slots[d]) = IF n <= d THEN before ELSE after}
<1>4. Nat \subseteq Right
  <2>1. 0 \in Right
    BY <1>1, ColumnsAssumption DEF before, Columns
  <2>2. ASSUME NEW n \in Nat, n \in Right
        PROVE  n + 1 \in Right
    <3> SUFFICES ASSUME n + 1 <= MaxCustomColumns
                 PROVE  Read(upTo[n + 1], slots[d]) = IF n + 1 <= d THEN before ELSE after
      OBVIOUS
    <3>1. n \in Columns /\ n + 1 \in 0..MaxCustomColumns /\ (n + 1) - 1 = n /\ n + 1 # 0
          /\ n <= MaxCustomColumns /\ d \in Nat
      BY ColumnsAssumption DEF Columns
    <3>2. Read(upTo[n], slots[d]) = IF n <= d THEN before ELSE after
      BY <2>2, <3>1
    <3>3. upTo[n + 1] = Moved(n, upTo[n])
      BY <1>1, <3>1
    <3>4. Read(upTo[n + 1], slots[d]) = IF n = d THEN after ELSE Read(upTo[n], slots[d])
      BY <1>3, <3>1, <3>2, <3>3
    <3> QED
      BY <3>1, <3>2, <3>4
  <2> HIDE DEF Right
  <2> QED
    BY <2>1, <2>2, Successors
<1>5. Read(upTo[MaxCustomColumns], slots[d]) = after
  BY <1>4, ColumnsAssumption DEF Columns
<1> QED
  BY <1>1, <1>5 DEF after, before

\* Every key has its row, and every row of a column points to a cell.
Grid ==
  /\ entries \subseteq Keys
  /\ rows \in 0..Cardinality(Keys) /\ Cardinality(entries) <= rows
  /\ \A c \in Columns, r \in Rows : slot[c][r] \in Columns

\* The new list of rows is of keys, and columns get cells for the rows they lack.
LEMMA RebuiltGrid ==
  ASSUME Grid, NEW docs, NEW n, NEW slots, \A c \in Columns, r \in Rows : slots[c][r] \in Columns,
         NEW length, length = IF Cardinality(UnifiedEntries(docs, n)) > rows
                              THEN Cardinality(UnifiedEntries(docs, n)) ELSE rows
  PROVE  /\ UnifiedEntries(docs, n) \subseteq Keys
         /\ length \in rows..Cardinality(Keys) /\ Cardinality(UnifiedEntries(docs, n)) <= length
         /\ \A c \in Columns, r \in Rows :
              /\ Grown(slots, length)[c][r] \in Columns
              /\ r <= rows => Grown(slots, length)[c][r] = slots[c][r]
<1> DEFINE list == UnifiedEntries(docs, n)
<1>1. list \subseteq Keys
  BY RowsAreKeys
<1>2. Cardinality(list) \in Nat /\ Cardinality(list) <= Cardinality(Keys) /\ Cardinality(Keys) \in Nat
  BY <1>1, RowsOfKeys
<1> HIDE DEF list
<1>3. length \in rows..Cardinality(Keys) /\ Cardinality(list) <= length
  BY <1>2 DEF Grid, list
<1>4. \A c \in Columns, r \in Rows :
        Grown(slots, length)[c][r] = IF r \in (rows + 1)..length THEN c ELSE slots[c][r]
  BY DEF Grown
<1>5. \A r \in Rows : r <= rows => r \notin (rows + 1)..length
  BY <1>2, <1>3 DEF Rows, Grid
<1> QED
  BY <1>1, <1>3, <1>4, <1>5 DEF list

\* A column that has its cells for itself keeps them when columns grow.
LEMMA GrownOwn ==
  ASSUME NEW slots, NEW d \in Columns, Own(slots, d), NEW length
  PROVE  Own(Grown(slots, length), d)
<1>1. \A c \in Columns, r \in Rows :
        Grown(slots, length)[c][r] = IF r \in (rows + 1)..length THEN c ELSE slots[c][r]
  BY DEF Grown
<1> QED
  BY <1>1 DEF Own

\* rebuildEntries keeps the grid.
LEMMA RebuildGrid ==
  ASSUME Grid, NEW skip, NEW n, NEW docs, NEW drains, NEW slots, NEW cells,
         \A c \in Columns, r \in Rows : slots[c][r] \in Columns,
         rebuildEntries(skip, n, docs, drains, slots, cells)
  PROVE  Grid'
<1> DEFINE list == UnifiedEntries(docs, n)
           length == IF Cardinality(list) > rows THEN Cardinality(list) ELSE rows
<1>1. /\ list \subseteq Keys /\ length \in rows..Cardinality(Keys) /\ Cardinality(list) <= length
      /\ \A c \in Columns, r \in Rows : Grown(slots, length)[c][r] \in Columns
  BY RebuiltGrid
<1>2. /\ entries' = list
      /\ \/ list = entries /\ rows' = rows /\ slot' = slots
         \/ rows' = length /\ slot' = Grown(slots, length)
  BY DEF rebuildEntries
<1> HIDE DEF list, length
<1>3. Cardinality(entries') <= rows' /\ rows' \in 0..Cardinality(Keys)
  BY <1>1, <1>2 DEF Grid
<1>4. \A c \in Columns, r \in Rows : slot'[c][r] \in Columns
  BY <1>1, <1>2
<1> QED
  BY <1>1, <1>2, <1>3, <1>4 DEF Grid, Rows

\* Every step keeps the grid.
LEMMA StepGrid == Grid /\ [Next]_vars => Grid'
<1> SUFFICES ASSUME Grid, [Next]_vars PROVE Grid'
  OBVIOUS
<1>1. ASSUME UNCHANGED <<entries, rows, slot>>
      PROVE  Grid'
  BY <1>1 DEF Grid, Rows
<1>2. ASSUME NEW c \in Columns, PollLoad(c)
      PROVE  Grid'
  <2> DEFINE list == UnifiedEntries(custom', count)
             length == IF Cardinality(list) > rows THEN Cardinality(list) ELSE rows
  <2>1. entries' = list /\ rows' = length /\ slot' = Grown(slot, length)
    BY <1>2 DEF PollLoad
  <2>2. /\ list \subseteq Keys /\ length \in rows..Cardinality(Keys) /\ Cardinality(list) <= length
        /\ \A d \in Columns, r \in Rows : Grown(slot, length)[d][r] \in Columns
    BY RebuiltGrid DEF Grid
  <2> HIDE DEF list, length
  <2>3. Cardinality(entries') <= rows' /\ rows' \in 0..Cardinality(Keys)
    BY <2>1, <2>2 DEF Grid
  <2> QED
    BY <2>1, <2>2, <2>3 DEF Grid, Rows
<1>3. ASSUME NEW c \in Columns, PollParse(c) \/ onClearColumn(c)
      PROVE  Grid'
  <2>1. \E drains, cells : rebuildEntries({}, count, custom', drains, slot, cells)
    BY <1>3 DEF PollParse, onClearColumn
  <2> QED
    BY <2>1, RebuildGrid DEF Grid
<1>4. ASSUME NEW c \in Columns, onRemoveColumn(c)
      PROVE  Grid'
  <2> DEFINE last == MaxCustomColumns - 1
             kept == [d \in Columns |-> IF d = last THEN slot[last]
                                        ELSE IF d < c THEN slot[d] ELSE slot[d + 1]]
             slots == [d \in Columns |-> [r \in Rows |-> IF r <= rows THEN kept[d][r] ELSE d]]
  <2>1. \E drains, cells : rebuildEntries({}, count - 1, custom', drains, slots, cells)
    BY <1>4 DEF onRemoveColumn
  <2>2. \A d \in Columns : d # last => d + 1 \in Columns
    BY ColumnsAssumption DEF Columns
  <2>3. \A d \in Columns : kept[d] \in {slot[e] : e \in Columns}
    BY <2>2, ColumnFacts
  <2>4. \A d \in Columns, r \in Rows : kept[d][r] \in Columns
    BY <2>3 DEF Grid
  <2>5. \A d \in Columns, r \in Rows : slots[d][r] \in Columns
    BY <2>4
  <2> HIDE DEF slots
  <2> QED
    BY <2>1, <2>5, RebuildGrid
<1>5. CASE Advance \/ Layout \/ onAddColumn \/ UNCHANGED vars
  BY <1>1, <1>5 DEF Advance, Layout, onAddColumn, vars
<1>7. CASE Saves
  <2>1. UNCHANGED <<entries, rows, slot>>
    BY <1>7 DEF Saves, ConfirmOverwrite, DismissOverwriteDialog, onSaveCurrentChart,
         pollExportRunner, ExportFails, onSaveColumnValues, Untouched
  <2> QED
    BY <1>1, <2>1
<1>6. ASSUME NEW c \in Columns,
             \/ NoAnswer(c)
             \/ \E files \in Selections : OnColumnFilesSelected(c, files)
             \/ \E r \in Rows : DeliverChange(c, r)
             \/ \E r \in Rows, w \in Words \union {Blank} : Edit(c, r, w)
      PROVE  Grid'
  BY <1>1, <1>6 DEF NoAnswer, OnColumnFilesSelected, DeliverChange, Edit
<1> QED
  BY <1>2, <1>3, <1>4, <1>5, <1>6, <1>7 DEF Next, Saves

\* The page opens with the rows of the default values.
LEMMA InitGrid == Init => Grid
<1> SUFFICES ASSUME Init PROVE Grid
  OBVIOUS
<1>1. /\ Cardinality(DefaultKeys) \in Nat /\ Cardinality(Keys) \in Nat
      /\ Cardinality(DefaultKeys) <= Cardinality(Keys)
  BY ColumnsAssumption, RowsOfKeys
<1> QED
  BY <1>1, ColumnsAssumption DEF Init, Grid

\* The texts of a column on the rows of the new list say of a key what they said on
\* the rows of the old.
LEMMA MovedSays ==
  ASSUME Grid, NEW old, NEW new, \A r \in Rows : r <= rows => new[r] = old[r],
         NEW list, list \subseteq Keys, NEW k \in entries \intersect list
  PROVE  Shown(Laid(Shown(new, entries), list), list)[k] = Shown(old, entries)[k]
<1> DEFINE row == RowOf(entries, k)
           doc == Shown(new, entries)
<1>1. k \in Keys /\ entries \subseteq Keys
  BY DEF Grid
<1>2. row \in Rows /\ row <= rows
  BY <1>1, RowsOfKeys DEF Grid, Rows
<1>3. doc[k] = Shown(old, entries)[k]
  BY <1>1, <1>2 DEF Shown
<1> HIDE DEF doc, row
<1>4. Laid(doc, list)[RowOf(list, k)] = doc[k]
  BY LaidSays
<1> QED
  BY <1>1, <1>3, <1>4 DEF Shown, doc

\* rebuildEntries keeps what a column says that has its cells for itself.
LEMMA RebuildKeepsText ==
  ASSUME Grid, NEW n, NEW docs, NEW drains, NEW slots, NEW cells, NEW d \in Columns, Own(slots, d),
         rebuildEntries({}, n, docs, drains, slots, cells),
         NEW k \in entries \intersect entries'
  PROVE  TextOf(d)'[k] = Shown(Read(cells, slots[d]), entries)[k]
<1> DEFINE list == UnifiedEntries(docs, n)
           length == IF Cardinality(list) > rows THEN Cardinality(list) ELSE rows
<1>1. entries' = list
  BY DEF rebuildEntries
<1>2. CASE list = entries
  <2>1. slot' = slots /\ text' = cells
    BY <1>2 DEF rebuildEntries
  <2> QED
    BY <1>1, <1>2, <2>1 DEF TextOf, Shown, Read, Rows, RowOf
<1>3. CASE list # entries
  <2>1. slot' = Grown(slots, length) /\ text' = Realigned(cells, slot', list, {})
    BY <1>3 DEF rebuildEntries
  <2>2. list \subseteq Keys /\ \A c \in Columns, r \in Rows : r <= rows => slot'[c][r] = slots[c][r]
    BY <2>1, RebuiltGrid DEF Own
  <2>3. Own(slot', d)
    BY <2>1, GrownOwn
  <2> DEFINE new == Read(cells, slot'[d])
             old == Read(cells, slots[d])
  <2>4. \A r \in Rows : r <= rows => new[r] = old[r]
    BY <2>2 DEF Read
  <2> HIDE DEF list
  <2>5. Read(text', slot'[d]) = Laid(Shown(new, entries), list)
    BY <2>1, <2>3, RealignedShows
  <2> HIDE DEF new, old
  <2>6. k \in entries \intersect list
    BY <1>1
  <2>7. Shown(Laid(Shown(new, entries), list), list)[k] = Shown(old, entries)[k]
    BY <2>2, <2>4, <2>6, MovedSays
  <2>8. TextOf(d)' = Shown(Read(text', slot'[d]), list)
    BY <1>1 DEF TextOf, Shown, Read, Rows, RowOf
  <2> QED
    BY <2>5, <2>7, <2>8 DEF old
<1> QED
  BY <1>2, <1>3

\* What is written in one column is not seen in another that has its cells for itself.
LEMMA WrittenElsewhere ==
  ASSUME NEW slots, NEW d \in Columns, Own(slots, d), NEW c \in Columns, c # d, NEW cells, NEW texts
  PROVE  Read(Write(cells, slots[c], texts), slots[d]) = Read(cells, slots[d])
<1> DEFINE written == Write(cells, slots[c], texts)
<1>1. \A b \in Columns, r \in Rows :
        written[b][r] = IF slots[c][r] = b THEN texts[r] ELSE cells[b][r]
  BY DEF Write
<1> HIDE DEF written
<1>2. \A r \in Rows : written[slots[d][r]][r] = cells[slots[d][r]][r]
  BY <1>1 DEF Own
<1>3. Read(written, slots[d]) = Read(cells, slots[d])
  BY <1>2 DEF Read
<1> QED
  BY <1>3 DEF written

\* The answer of a load keeps what another column says that has its cells for itself.
LEMMA LoadKeepsText ==
  ASSUME Grid, NEW c \in Columns, NEW d \in Columns, c # d, Own(slot, d), PollLoad(c),
         NEW k \in entries \intersect entries'
  PROVE  TextOf(d)'[k] = TextOf(d)[k]
<1> DEFINE list == UnifiedEntries(custom', count)
           length == IF Cardinality(list) > rows THEN Cardinality(list) ELSE rows
           grown == Grown(slot, length)
           moved == IF list = entries THEN text ELSE Realigned(text, grown, list, {c})
<1>1. PICK texts : entries' = list /\ slot' = grown /\ text' = Write(moved, grown[c], texts)
  <2>1. PICK doc : text' = Write(moved, grown[c], Populated(Read(moved, grown[c]), doc, list))
                   /\ entries' = list /\ slot' = grown
    BY DEF PollLoad
  <2> QED
    BY <2>1
<1>2. list \subseteq Keys /\ \A e \in Columns, r \in Rows : r <= rows => grown[e][r] = slot[e][r]
  BY RebuiltGrid DEF Grid
<1>3. Own(grown, d)
  BY GrownOwn
<1> HIDE DEF list, grown, moved
<1>4. Read(text', slot'[d]) = Read(moved, grown[d])
  <2>1. Read(Write(moved, grown[c], texts), grown[d]) = Read(moved, grown[d])
    BY <1>3, WrittenElsewhere
  <2> QED
    BY <1>1, <2>1
<1>5. TextOf(d)' = Shown(Read(moved, grown[d]), list)
  <2>1. TextOf(d)' = Shown(Read(text', slot'[d]), entries')
    BY DEF TextOf, Shown, Read, Rows, RowOf
  <2> QED
    BY <1>1, <1>4, <2>1
<1>6. CASE list = entries
  <2>1. k \in Keys /\ RowOf(entries, k) \in Rows /\ RowOf(entries, k) <= rows
    BY RowsOfKeys DEF Grid, Rows
  <2>2. Read(moved, grown[d])[RowOf(entries, k)] = Read(text, slot[d])[RowOf(entries, k)]
    BY <1>2, <1>6, <2>1 DEF Read, moved
  <2> QED
    BY <1>5, <1>6, <2>1, <2>2 DEF TextOf, Shown
<1>7. CASE list # entries
  <2> DEFINE new == Read(text, grown[d])
             old == Read(text, slot[d])
  <2>1. \A r \in Rows : r <= rows => new[r] = old[r]
    BY <1>2 DEF Read
  <2>2. Read(moved, grown[d]) = Laid(Shown(new, entries), list)
    BY <1>3, <1>7, RealignedShows DEF moved
  <2> HIDE DEF new, old
  <2>3. k \in entries \intersect list
    BY <1>1
  <2>4. Shown(Laid(Shown(new, entries), list), list)[k] = Shown(old, entries)[k]
    BY <1>2, <2>1, <2>3, MovedSays
  <2> QED
    BY <1>5, <2>2, <2>4 DEF TextOf, old
<1> QED
  BY <1>6, <1>7

\* An answer that rewrites one column, or the clearing of one, leaves in every column
\* that has its cells for itself what the user reads there, wherever its rows go.
THEOREM OthersUntouched == Spec => OthersKeepTheirText
<1>1. ASSUME Grid, NEW c \in Columns, NEW d \in Columns, c # d, OwnCells(d),
             PollLoad(c) \/ PollParse(c) \/ onClearColumn(c), NEW k \in entries \intersect entries'
      PROVE  TextOf(d)'[k] = TextOf(d)[k]
  <2>1. Own(slot, d)
    BY <1>1 DEF Grid, Own, OwnCells
  <2>2. CASE PollLoad(c)
    BY <1>1, <2>1, <2>2, LoadKeepsText
  <2>3. CASE PollParse(c)
    <3>1. rebuildEntries({}, count, custom', drain, slot, text)
      BY <2>3 DEF PollParse
    <3> QED
      BY <1>1, <2>1, <3>1, RebuildKeepsText DEF TextOf
  <2>4. CASE onClearColumn(c)
    <3> DEFINE texts == [r \in Rows |-> Blank]
               blanked == Write(text, slot[c], texts)
    <3>1. rebuildEntries({}, count, custom', [drain EXCEPT ![c] = rows > 0], slot, blanked)
      BY <2>4 DEF onClearColumn
    <3>2. Read(blanked, slot[d]) = Read(text, slot[d])
      BY <1>1, <2>1, WrittenShown
    <3> HIDE DEF blanked
    <3>3. TextOf(d)'[k] = Shown(Read(blanked, slot[d]), entries)[k]
      BY <1>1, <2>1, <3>1, RebuildKeepsText
    <3> QED
      BY <3>2, <3>3 DEF TextOf
  <2> QED
    BY <1>1, <2>2, <2>3, <2>4
<1>2. Grid /\ [Next]_vars =>
        [\A c, d \in Columns :
           /\ c # d /\ OwnCells(d)
           /\ PollLoad(c) \/ PollParse(c) \/ onClearColumn(c)
           => \A k \in entries \intersect entries' : TextOf(d)'[k] = TextOf(d)[k]]_vars
  BY <1>1
<1> QED
  BY <1>2, InitGrid, StepGrid, PTL DEF Spec, OthersKeepTheirText
-----------------------------------------------------------------------------
(* Types.                                                                  *)

Slots == [Columns -> [Rows -> Columns]]
Texts == [Columns -> [Rows -> Values]]

\* A set of numbers up to a bound that is not empty has a greatest.
LEMMA Greatest ==
  ASSUME NEW n \in Nat, NEW S \in SUBSET (1..n), S # {}
  PROVE  \E i \in S : \A j \in S : j <= i
<1> DEFINE below == {n - i : i \in S}
<1>1. below \subseteq Nat /\ below # {}
  <2>1. \A i \in S : n - i \in Nat
    OBVIOUS
  <2>2. below \subseteq Nat
    BY <2>1
  <2> QED
    BY <2>2
<1>2. PICK x \in below : \A y \in below : ~(<<y, x>> \in OpToRel(<, Nat))
  BY <1>1, NatLessThanWellFounded, WFMin
<1>3. \A y \in below : ~(y < x)
  BY <1>1, <1>2 DEF OpToRel
<1>4. PICK i \in S : x = n - i
  BY <1>2
<1>5. ASSUME NEW j \in S
      PROVE  j <= i
  <2>1. n - j \in below
    OBVIOUS
  <2>3. i \in Nat /\ j \in Nat
    OBVIOUS
  <2> HIDE DEF below
  <2>2. ~(n - j < n - i)
    BY <1>3, <1>4, <2>1
  <2> QED
    BY <2>2, <2>3
<1> QED
  BY <1>5

\* What the files of a selection say is a document.
LEMMA MergedType ==
  ASSUME NEW files \in Selections, NEW found
  PROVE  Merged(files, found) \in Docs
<1>1. /\ Len(files) \in Nat /\ DOMAIN files = 1..Len(files)
      /\ \A i \in 1..Len(files) : files[i] \in Files
  <2>1. files \in Seq(Files)
    BY ColumnsAssumption
  <2> QED
    BY <2>1
<1>2. ASSUME NEW k \in Keys
      PROVE  Merged(files, found)[k] \in Values
  <2> DEFINE giving == {i \in DOMAIN files : k \in found[files[i]]}
             last == CHOOSE i \in giving : \A j \in giving : j <= i
  <2>1. Merged(files, found)[k] = IF giving = {} THEN Blank ELSE files[last]
    BY DEF Merged
  <2>2. giving \in SUBSET (1..Len(files))
    BY <1>1
  <2> HIDE DEF giving
  <2>3. giving # {} => last \in giving
    BY <1>1, <2>2, Greatest
  <2> HIDE DEF last
  <2>4. giving # {} => files[last] \in Files
    BY <1>1, <2>2, <2>3
  <2> QED
    BY <2>1, <2>4 DEF Values
<1> QED
  BY <1>2 DEF Merged, Docs

\* What a slice of texts says is a document.
LEMMA ShownType ==
  ASSUME NEW texts \in [Rows -> Values], NEW list, list \subseteq Keys
  PROVE  Shown(texts, list) \in Docs
<1>1. \A k \in list : RowOf(list, k) \in Rows
  BY RowsOfKeys DEF Rows
<1> QED
  BY <1>1 DEF Shown, Docs, Values

\* The slice that says a document is one of texts.
LEMMA LaidType ==
  ASSUME NEW doc \in Docs, NEW list, list \subseteq Keys
  PROVE  Laid(doc, list) \in [Rows -> Values]
<1>1. ASSUME NEW r \in Rows, \E k \in list : RowOf(list, k) = r
      PROVE  doc[CHOOSE k \in list : RowOf(list, k) = r] \in Values
  <2>1. (CHOOSE k \in list : RowOf(list, k) = r) \in list
    BY <1>1
  <2> QED
    BY <2>1 DEF Docs
<1> QED
  BY <1>1 DEF Laid, Values

\* Reading and writing cells.
LEMMA CellsType ==
  ASSUME NEW cells \in Texts, NEW slots \in [Rows -> Columns]
  PROVE  /\ Read(cells, slots) \in [Rows -> Values]
         /\ \A texts \in [Rows -> Values] : Write(cells, slots, texts) \in Texts
BY DEF Read, Write, Texts

\* Columns that grow get cells for their rows.
LEMMA GrownType ==
  ASSUME NEW slots \in Slots, NEW length
  PROVE  Grown(slots, length) \in Slots
BY DEF Grown, Slots

\* Texts that were moved are texts.
LEMMA RealignedType ==
  ASSUME Grid, NEW cells \in Texts, NEW slots \in Slots, NEW list, list \subseteq Keys, NEW skip
  PROVE  Realigned(cells, slots, list, skip) \in Texts
<1> DEFINE Moved(c, x) == IF c \in skip THEN x
                          ELSE Write(x, slots[c], Laid(Shown(Read(x, slots[c]), entries), list))
<1>1. PICK upTo :
        /\ Realigned(cells, slots, list, skip) = upTo[MaxCustomColumns]
        /\ \A c \in 0..MaxCustomColumns :
             upTo[c] = IF c = 0 THEN cells ELSE Moved(c - 1, upTo[c - 1])
  BY RealignedSteps
<1>2. ASSUME NEW c \in Columns, NEW x \in Texts
      PROVE  Moved(c, x) \in Texts
  <2> DEFINE own == slots[c]
             doc == Shown(Read(x, own), entries)
  <2>1. own \in [Rows -> Columns]
    BY DEF Slots
  <2> HIDE DEF own
  <2>2. doc \in Docs
    BY <2>1, CellsType, ShownType DEF Grid
  <2> HIDE DEF doc
  <2>3. Write(x, own, Laid(doc, list)) \in Texts
    BY <2>1, <2>2, CellsType, LaidType
  <2> QED
    BY <2>3 DEF own, doc
<1> HIDE DEF Moved
<1> DEFINE Typed == {n \in Nat : n <= MaxCustomColumns => upTo[n] \in Texts}
<1>3. Nat \subseteq Typed
  <2>1. 0 \in Typed
    BY <1>1, ColumnsAssumption
  <2>2. ASSUME NEW n \in Nat, n \in Typed
        PROVE  n + 1 \in Typed
    <3> SUFFICES ASSUME n + 1 <= MaxCustomColumns PROVE upTo[n + 1] \in Texts
      OBVIOUS
    <3>1. n \in Columns /\ n + 1 \in 0..MaxCustomColumns /\ (n + 1) - 1 = n /\ n + 1 # 0
          /\ n <= MaxCustomColumns
      BY ColumnsAssumption DEF Columns
    <3>2. upTo[n + 1] = Moved(n, upTo[n]) /\ upTo[n] \in Texts
      BY <1>1, <2>2, <3>1
    <3> QED
      BY <1>2, <3>1, <3>2
  <2> HIDE DEF Typed
  <2> QED
    BY <2>1, <2>2, Successors
<1> QED
  BY <1>1, <1>3, ColumnsAssumption

\* The part of the type invariant that no other proof has needed.
Typed ==
  /\ phase \in Phases
  /\ custom \in [Columns -> Docs \union {NoDoc}]
  /\ modified \in [Columns -> BOOLEAN] /\ drain \in [Columns -> BOOLEAN]
  /\ slot \in Slots /\ text \in Texts
  /\ pending \subseteq Columns \X Rows
  /\ wired \in [count : 1..MaxCustomColumns, slot : Slots]
  /\ parses \in [Columns -> Docs \union {NoJob}]
  /\ command \in [Columns -> Shows]
  /\ actions \in 0..MaxActions

\* rebuildEntries keeps the types of what it is given.
LEMMA RebuildTyped ==
  ASSUME Grid, NEW skip, NEW n, NEW docs, NEW drains \in [Columns -> BOOLEAN], NEW slots \in Slots,
         NEW cells \in Texts, rebuildEntries(skip, n, docs, drains, slots, cells)
  PROVE  slot' \in Slots /\ text' \in Texts /\ drain' \in [Columns -> BOOLEAN]
<1> DEFINE list == UnifiedEntries(docs, n)
           length == IF Cardinality(list) > rows THEN Cardinality(list) ELSE rows
<1>1. CASE list = entries
  BY <1>1 DEF rebuildEntries
<1>2. CASE list # entries
  <2>1. /\ slot' = Grown(slots, length) /\ text' = Realigned(cells, slot', list, skip)
        /\ drain' = [c \in Columns |-> drains[c] \/ (c \notin skip /\ length > 0)]
    BY <1>2 DEF rebuildEntries
  <2>2. list \subseteq Keys
    BY RowsAreKeys
  <2> HIDE DEF list, length
  <2>3. slot' \in Slots
    BY <2>1, GrownType
  <2>4. text' \in Texts
    BY <2>1, <2>2, <2>3, RealignedType
  <2> QED
    BY <2>1, <2>3, <2>4
<1> QED
  BY <1>1, <1>2

\* The page opens with one column.
LEMMA InitTyped == Init => Typed
<1> SUFFICES ASSUME Init PROVE Typed
  OBVIOUS
<1>1. Unwired \in [count : 1..MaxCustomColumns, slot : Slots]
  BY ColumnsAssumption DEF Unwired, Slots
<1>2. slot \in Slots /\ text \in Texts
  BY DEF Init, Slots, Texts, Values
<1> QED
  BY <1>1, <1>2, ColumnsAssumption DEF Init, Typed, Phases, Shows

\* The answer of a load is of the types.
LEMMA LoadTyped ==
  ASSUME Shape, Grid, Typed, NEW c \in Columns, PollLoad(c)
  PROVE  Typed'
<1>0. PICK doc \in {Merged(loads[c].files, found) : found \in Found} :
        LET list == UnifiedEntries(custom', count)
            length == IF Cardinality(list) > rows THEN Cardinality(list) ELSE rows
            grown == Grown(slot, length)
            moved == IF list = entries THEN text ELSE Realigned(text, grown, list, {c})
        IN  /\ custom' = [custom EXCEPT ![c] = doc]
            /\ slot' = grown
            /\ text' = Write(moved, grown[c], Populated(Read(moved, grown[c]), doc, list))
            /\ drain' = [d \in Columns |-> drain[d] \/ d = c \/ (list # entries /\ length > 0)]
  BY DEF PollLoad
<1> DEFINE list == UnifiedEntries(custom', count)
           length == IF Cardinality(list) > rows THEN Cardinality(list) ELSE rows
           grown == Grown(slot, length)
           moved == IF list = entries THEN text ELSE Realigned(text, grown, list, {c})
           own == grown[c]
           texts == Populated(Read(moved, own), doc, list)
<1>1. /\ custom' = [custom EXCEPT ![c] = doc]
      /\ slot' = grown /\ text' = Write(moved, own, texts)
      /\ drain' = [d \in Columns |-> drain[d] \/ d = c \/ (list # entries /\ length > 0)]
      /\ pending' = pending \union Changed(text, text')
      /\ modified' = [modified EXCEPT ![c] = FALSE]
      /\ UNCHANGED <<phase, wired, parses, command, actions>>
  BY <1>0 DEF PollLoad
<1>2. doc \in Docs
  <2>1. loads[c].files \in Selections
    BY DEF PollLoad, Shape
  <2> QED
    BY <2>1, MergedType
<1>3. list \subseteq Keys
  BY RowsAreKeys
<1> HIDE DEF list, length
<1>4. grown \in Slots
  BY GrownType DEF Typed
<1> HIDE DEF grown
<1>5. moved \in Texts /\ own \in [Rows -> Columns]
  BY <1>3, <1>4, RealignedType DEF Typed, Slots
<1> HIDE DEF moved, own
<1>6. texts \in [Rows -> Values]
  <2>1. Read(moved, own) \in [Rows -> Values] /\ Laid(doc, list) \in [Rows -> Values]
    BY <1>2, <1>3, <1>5, CellsType, LaidType
  <2> QED
    BY <2>1 DEF Populated
<1> HIDE DEF texts
<1>7. text' \in Texts
  BY <1>1, <1>5, <1>6, CellsType
<1>8. pending' \subseteq Columns \X Rows
  BY <1>1 DEF Typed, Changed
<1>9. custom' \in [Columns -> Docs \union {NoDoc}]
  BY <1>1, <1>2 DEF Typed
<1> QED
  BY <1>1, <1>4, <1>7, <1>8, <1>9 DEF Typed

\* What a step of the table reports is of the types.
LEMMA ReportTyped ==
  ASSUME Grid, Typed, NEW c \in Columns, NEW cells \in Texts, Report(c, cells)
  PROVE  /\ modified' \in [Columns -> BOOLEAN]
         /\ custom' \in [Columns -> Docs \union {NoDoc}]
         /\ parses' \in [Columns -> Docs \union {NoJob}]
<1> DEFINE own == wired.slot[c]
           doc == Shown(Read(cells, own), entries)
<1>1. own \in [Rows -> Columns]
  BY DEF Typed, Slots
<1>2. /\ modified' = [modified EXCEPT ![c] = TRUE]
      /\ custom' \in {custom, [custom EXCEPT ![c] = NoDoc]}
      /\ parses' \in {parses, [parses EXCEPT ![c] = doc]}
  BY DEF Report
<1> HIDE DEF own
<1>3. doc \in Docs
  BY <1>1, CellsType, ShownType DEF Grid
<1> HIDE DEF doc
<1> QED
  BY <1>2, <1>3 DEF Typed

\* Removing a column is of the types.
LEMMA RemoveTyped ==
  ASSUME Shape, Shape', Grid, Typed, NEW c \in Columns, onRemoveColumn(c)
  PROVE  Typed'
<1> DEFINE last == MaxCustomColumns - 1
           Left(f, final) == [d \in Columns |-> IF d = last THEN final
                                                ELSE IF d < c THEN f[d] ELSE f[d + 1]]
           kept == Left(slot, slot[last])
           slots == [d \in Columns |-> [r \in Rows |-> IF r <= rows THEN kept[d][r] ELSE d]]
           blank == [r \in Rows |-> Blank]
           blanked == Write(text, slots[last], blank)
           drains == Left(drain, rows > 0)
<1>1. /\ custom' = Left(custom, NoDoc) /\ modified' = Left(modified, FALSE)
      /\ parses' = Left(parses, NoJob)
      /\ rebuildEntries({}, count - 1, custom', drains, slots, blanked)
      /\ pending' = pending \union Changed(text, text')
      /\ command' = FilesShown(paths', count - 1)
      /\ actions' = actions + 1 /\ actions < MaxActions
      /\ UNCHANGED <<phase, wired>>
  BY DEF onRemoveColumn, Act
<1>2. \A d \in Columns : d # last => d + 1 \in Columns
  BY ColumnsAssumption DEF Columns
<1>3. last \in Columns
  BY ColumnFacts
<1> HIDE DEF last
<1>4. /\ custom' = [d \in Columns |-> IF d = last THEN NoDoc
                                      ELSE IF d < c THEN custom[d] ELSE custom[d + 1]]
      /\ modified' = [d \in Columns |-> IF d = last THEN FALSE
                                        ELSE IF d < c THEN modified[d] ELSE modified[d + 1]]
      /\ parses' = [d \in Columns |-> IF d = last THEN NoJob
                                      ELSE IF d < c THEN parses[d] ELSE parses[d + 1]]
  BY <1>1
<1>5. kept \in Slots
  <2>1. \A d \in Columns : slot[d] \in [Rows -> Columns]
    BY DEF Typed, Slots
  <2> QED
    BY <1>2, <1>3, <2>1 DEF Slots
<1>6. custom' \in [Columns -> Docs \union {NoDoc}]
  <2>1. \A d \in Columns : custom[d] \in Docs \union {NoDoc}
    BY DEF Typed
  <2> QED
    BY <1>2, <1>4, <2>1
<1>7. modified' \in [Columns -> BOOLEAN] /\ drains \in [Columns -> BOOLEAN]
  <2>1. \A d \in Columns : modified[d] \in BOOLEAN /\ drain[d] \in BOOLEAN
    BY DEF Typed
  <2>2. (rows > 0) \in BOOLEAN
    OBVIOUS
  <2> QED
    BY <1>2, <1>4, <2>1, <2>2
<1>8. parses' \in [Columns -> Docs \union {NoJob}]
  <2>1. \A d \in Columns : parses[d] \in Docs \union {NoJob}
    BY DEF Typed
  <2> QED
    BY <1>2, <1>4, <2>1
<1> HIDE DEF kept, drains
<1>9. slots \in Slots
  BY <1>5 DEF Slots
<1> HIDE DEF slots
<1>10. blanked \in Texts
  <2>1. blank \in [Rows -> Values]
    BY DEF Values
  <2>2. slots[last] \in [Rows -> Columns]
    BY <1>3, <1>9 DEF Slots
  <2> HIDE DEF blank
  <2> QED
    BY <2>1, <2>2, CellsType DEF Typed
<1> HIDE DEF blanked
<1>11. slot' \in Slots /\ text' \in Texts /\ drain' \in [Columns -> BOOLEAN]
  BY <1>1, <1>7, <1>9, <1>10, RebuildTyped
<1>12. command' \in [Columns -> Shows]
  BY <1>1 DEF Shape, FilesShown, Shows
<1>13. pending' \subseteq Columns \X Rows
  BY <1>1 DEF Typed, Changed
<1>14. actions' \in 0..MaxActions
  BY <1>1, ColumnsAssumption DEF Typed
<1> QED
  BY <1>1, <1>6, <1>7, <1>8, <1>11, <1>12, <1>13, <1>14 DEF Typed

\* Every step keeps the types.
LEMMA StepTyped == IInv /\ Grid /\ Typed /\ [Next]_vars => Typed'
<1> SUFFICES ASSUME IInv, Grid, Typed, [Next]_vars PROVE Typed'
  OBVIOUS
<1>1. Shape /\ Shape'
  BY StepInv DEF IInv
<1>2. \A n : FilesShown(paths', n) \in [Columns -> Shows]
  BY <1>1 DEF Shape, FilesShown, Shows
<1>3. Act => actions' \in 0..MaxActions
  BY ColumnsAssumption DEF Act, Typed
<1>4. pending \union Changed(text, text') \subseteq Columns \X Rows
  BY DEF Typed, Changed
<1>5. CASE Advance
  <2>1. Unwired \in [count : 1..MaxCustomColumns, slot : Slots]
    BY ColumnsAssumption DEF Unwired, Slots
  <2>2. phase' \in Phases /\ wired' \in {wired, Unwired}
    BY <1>5 DEF Advance, Typed, Phases
  <2> QED
    BY <1>5, <2>1, <2>2 DEF Advance, Typed
<1>6. CASE Layout
  <2>1. /\ phase' = "headers" /\ wired' = [count |-> count, slot |-> slot]
        /\ pending' = pending \ DrainedCells
        /\ drain' = [c \in Columns |-> drain[c] /\ c \notin Active]
        /\ modified' = [c \in Columns |-> modified[c] /\ c \notin Drained]
        /\ UNCHANGED <<custom, slot, parses, command>>
    BY <1>6 DEF Layout
  <2>2. text' \in Texts
    <3>1. ASSUME NEW c \in Drained, NEW r \in 1..Cardinality(entries), NEW w \in Words \union {Blank},
                 text' = [text EXCEPT ![slot[c][r]][r] = w]
          PROVE  text' \in Texts
      <4>1. c \in Columns /\ r \in Rows
        BY <1>1, ActiveFacts, RowsOfKeys DEF Drained, Grid, Rows
      <4>2. slot[c][r] \in Columns /\ w \in Values
        BY <4>1 DEF Typed, Slots, Values
      <4> QED
        BY <3>1, <4>1, <4>2 DEF Typed, Texts
    <3>2. text' = text \/ \E c \in Drained, r \in 1..Cardinality(entries), w \in Words \union {Blank} :
                             text' = [text EXCEPT ![slot[c][r]][r] = w]
      BY <1>6 DEF Layout
    <3> QED
      BY <3>1, <3>2 DEF Typed
  <2>3. actions' \in 0..MaxActions
    BY <1>3, <1>6 DEF Layout, Typed
  <2>4. wired' \in [count : 1..MaxCustomColumns, slot : Slots]
    BY <1>1, <2>1 DEF Shape, Typed
  <2> QED
    BY <2>1, <2>2, <2>3, <2>4 DEF Typed, Phases
<1>7. CASE onAddColumn
  BY <1>3, <1>7 DEF onAddColumn, Typed
<1>8. CASE UNCHANGED vars
  BY <1>8 DEF vars, Typed
<1>9. ASSUME NEW c \in Columns, PollLoad(c)
      PROVE  Typed'
  BY <1>1, <1>9, LoadTyped
<1>10. ASSUME NEW c \in Columns, PollParse(c)
       PROVE  Typed'
  <2>1. /\ custom' = [custom EXCEPT ![c] = parses[c]] /\ parses[c] # NoJob
        /\ rebuildEntries({}, count, custom', drain, slot, text)
        /\ pending' = pending \union Changed(text, text')
        /\ parses' = [parses EXCEPT ![c] = NoJob]
        /\ UNCHANGED <<phase, modified, wired, command, actions>>
    BY <1>10 DEF PollParse
  <2>2. slot' \in Slots /\ text' \in Texts /\ drain' \in [Columns -> BOOLEAN]
    BY <2>1, RebuildTyped DEF Typed
  <2> QED
    BY <1>4, <2>1, <2>2 DEF Typed
<1>11. ASSUME NEW c \in Columns, NoAnswer(c)
       PROVE  Typed'
  BY <1>11 DEF NoAnswer, Typed
<1>12. ASSUME NEW c \in Columns, NEW files \in Selections, OnColumnFilesSelected(c, files)
       PROVE  Typed'
  BY <1>2, <1>3, <1>12 DEF OnColumnFilesSelected, Typed
<1>13. ASSUME NEW c \in Columns, onClearColumn(c)
       PROVE  Typed'
  <2> DEFINE blank == [r \in Rows |-> Blank]
             blanked == Write(text, slot[c], blank)
             drains == [drain EXCEPT ![c] = rows > 0]
  <2>1. /\ custom' = [custom EXCEPT ![c] = NoDoc]
        /\ modified' = [modified EXCEPT ![c] = FALSE]
        /\ rebuildEntries({}, count, custom', drains, slot, blanked)
        /\ pending' = pending \union Changed(text, text')
        /\ command' = FilesShown(paths', count)
        /\ Act
        /\ UNCHANGED <<phase, wired, parses>>
    BY <1>13 DEF onClearColumn
  <2>2. blank \in [Rows -> Values] /\ slot[c] \in [Rows -> Columns]
    BY DEF Values, Typed, Slots
  <2> HIDE DEF blank
  <2>3. drains \in [Columns -> BOOLEAN]
    BY DEF Typed
  <2>4. blanked \in Texts
    BY <2>2, CellsType DEF Typed
  <2> HIDE DEF blanked, drains
  <2>5. slot' \in Slots /\ text' \in Texts /\ drain' \in [Columns -> BOOLEAN]
    BY <2>1, <2>3, <2>4, RebuildTyped DEF Typed
  <2> QED
    BY <1>2, <1>3, <1>4, <2>1, <2>5 DEF Typed
<1>14. ASSUME NEW c \in Columns, onRemoveColumn(c)
       PROVE  Typed'
  BY <1>1, <1>14, RemoveTyped
<1>15. ASSUME NEW c \in Columns, NEW r \in Rows, DeliverChange(c, r)
       PROVE  Typed'
  <2>1. /\ Report(c, text) /\ pending' \subseteq pending
        /\ UNCHANGED <<phase, drain, slot, text, wired, command, actions>>
    BY <1>15 DEF DeliverChange
  <2> QED
    BY <2>1, ReportTyped DEF Typed
<1>16. ASSUME NEW c \in Columns, NEW r \in Rows, NEW w \in Words \union {Blank}, Edit(c, r, w)
       PROVE  Typed'
  <2>1. /\ text' = [text EXCEPT ![wired.slot[c][r]][r] = w] /\ Report(c, text')
        /\ pending' \subseteq pending /\ Act
        /\ UNCHANGED <<phase, drain, slot, wired, command>>
    BY <1>16 DEF Edit
  <2>2. wired.slot[c][r] \in Columns /\ w \in Values
    BY DEF Typed, Slots, Values
  <2>3. text' \in Texts
    BY <2>1, <2>2 DEF Typed, Texts
  <2> QED
    BY <1>3, <2>1, <2>3, ReportTyped DEF Typed
<1>17. CASE Saves
  <2>1. UNCHANGED Untouched /\ command' \in [Columns -> Shows]
    BY <1>1, <1>2, <1>17, SaveFacts DEF Typed
  <2>2. actions' \in 0..MaxActions
    BY <1>3, <1>17 DEF Saves, ConfirmOverwrite, DismissOverwriteDialog, onSaveCurrentChart,
         pollExportRunner, ExportFails, onSaveColumnValues, Typed
  <2>3. modified' \in [Columns -> BOOLEAN]
    <3>1. modified' = modified \/ \E c \in {saving.column} : modified' = [modified EXCEPT ![c] = FALSE]
      BY <1>17 DEF Saves, ConfirmOverwrite, DismissOverwriteDialog, onSaveCurrentChart,
           pollExportRunner, ExportFails, onSaveColumnValues
    <3> QED
      BY <3>1 DEF Typed
  <2> QED
    BY <2>1, <2>2, <2>3 DEF Untouched, Typed
<1> QED
  BY <1>5, <1>6, <1>7, <1>8, <1>9, <1>10, <1>11, <1>12, <1>13, <1>14, <1>15, <1>16, <1>17
     DEF Next, Saves

\* Type correctness: every row of every column points to a cell, and there are editors
\* for all the rows that are shown, however columns come, go and move.
THEOREM TypeCorrect == Spec => []TypeOK
<1>1. IInv /\ Grid /\ Typed => TypeOK
  BY DEF IInv, Shape, Grid, Typed, Slots, Texts, SavingType, TypeOK
<1> QED
  BY <1>1, InitTyped, StepTyped, InitGrid, StepGrid, ColumnsInvariant, PTL DEF Spec
=============================================================================
