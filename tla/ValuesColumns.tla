--------------------------- MODULE ValuesColumns ---------------------------
(***************************************************************************)
(* The override columns of the values page: ui/page/values_controller.go   *)
(* and values_controller_actions.go over ui/state/values_state.go, with    *)
(* the part of ui/page/values_page.go and ui/widget that delivers editor   *)
(* events.  A chart is open and its default values are loaded.             *)
(*                                                                         *)
(* A frame of the UI thread runs in a fixed order: the results of loads,   *)
(* then of parses and of the file picker are polled; Layout wires the      *)
(* table and drains the editors that were set by program; the column       *)
(* headers handle their buttons; the table handles the editor events.      *)
(*                                                                         *)
(* Flat keys are the numbers of their place in the sorted list of rows.    *)
(* An override file is abstracted to the set of keys it gives a value to,  *)
(* and the value to the file it came from; Words are what a user types.    *)
(*                                                                         *)
(* The editors of a column are pointers to cell buffers: copying a column  *)
(* copies the pointers.  Cell <<b, r>> is the one column b got for row r   *)
(* when its slice grew; slot[c][r] is the b whose cell column c shows.     *)
(*                                                                         *)
(* Files change on disk, by the saves of this page and by other programs:  *)
(* FileKeys says which keys a file may be found with.  Of saving the part  *)
(* that changes the columns is here: ExportRunner's answer, pendingSave,   *)
(* saveColumnIdx and the overwrite dialog.  What is written is in          *)
(* ValuesSave.                                                             *)
(***************************************************************************)
EXTENDS Naturals, Sequences, FiniteSets

CONSTANTS
  Files,             \* override files on disk
  FileKeys,          \* the sets of keys each file may be found to give a value to
  Archive,           \* the .tgz a chart is saved to
  Selections,        \* what one drop or pick may select: sequences of files
  Keys,              \* flat keys, numbered in the order of their rows
  DefaultKeys,       \* those of the chart's values.yaml
  Words,             \* what the user types in a cell
  Blank,             \* the empty text
  NoDoc, NoJob,      \* CustomValues == nil; a runner with nothing to deliver
  MaxCustomColumns,
  MaxInFlight,       \* bound on the runners at work at once
  MaxActions         \* bound on what the user does

ASSUME ColumnsAssumption ==
  /\ Keys \subseteq Nat /\ IsFiniteSet(Keys)
  /\ DefaultKeys \subseteq Keys
  /\ FileKeys \in [Files -> SUBSET SUBSET Keys]
  /\ Selections \subseteq Seq(Files) \ {<<>>}
  /\ MaxCustomColumns \in Nat \ {0}
  /\ MaxInFlight \in Nat /\ MaxActions \in Nat
  /\ Blank \notin Files \union Words
  /\ Archive \notin Files

VARIABLES
  phase,     \* where the frame is
  count,     \* State.ColumnCount
  paths,     \* CustomFilePaths of each column
  custom,    \* CustomValues of each column: its value for each key, or nil
  modified,  \* ValuesModified of each column
  drain,     \* DrainPendingChanges of each column
  slot,      \* OverrideEditors of each column: which cell each row points to
  text,      \* the text of each cell
  pending,   \* the cells with a ChangeEvent nobody has consumed
  rows,      \* the length of the OverrideEditors slices
  entries,   \* State.Entries: the keys with a row
  wired,     \* the slices Layout gave to the table this frame
  loads,     \* CustomValuesRunners: what each will deliver next
  parses,    \* EditorParseRunners: what each will deliver next
  command,   \* State.HelmInstallCmd: the -f files, column by column
  saving,    \* pendingSave, saveColumnIdx, what ExportRunner may answer, the dialog
  renamed,   \* whether a save has changed the files of a column since they were selected
  actions    \* how many things the user has done

vars == <<phase, count, paths, custom, modified, drain, slot, text, pending,
          rows, entries, wired, loads, parses, command, saving, renamed, actions>>

Columns == 0..(MaxCustomColumns - 1)
Active  == 0..(count - 1)
Rows    == 1..Cardinality(Keys)
Values  == Files \union Words \union {Blank}
Docs    == [Keys -> Values]
Phases  == {"loads", "parses", "headers", "table"}

\* The files a column may show: what was selected, or what it was saved to.
Exports == Files \union {Archive}
Shows   == Selections \union {<<f>> : f \in Exports} \union {<<>>}

InFlight == Cardinality({c \in Columns : loads[c] # NoJob})
              + Cardinality({c \in Columns : parses[c] # NoJob})

\* The columns stay within MaxCustomColumns, and every row has an editor.
TypeOK ==
  /\ phase \in Phases
  /\ count \in 1..MaxCustomColumns
  /\ paths \in [Columns -> Shows]
  /\ custom \in [Columns -> Docs \union {NoDoc}]
  /\ modified \in [Columns -> BOOLEAN]
  /\ drain \in [Columns -> BOOLEAN]
  /\ slot \in [Columns -> [Rows -> Columns]]
  /\ text \in [Columns -> [Rows -> Values]]
  /\ pending \subseteq Columns \X Rows
  /\ rows \in 0..Cardinality(Keys)
  /\ entries \subseteq Keys /\ Cardinality(entries) <= rows
  /\ wired \in [count : 1..MaxCustomColumns, slot : [Columns -> [Rows -> Columns]]]
  /\ loads \in [Columns -> [files : Selections, stopped : BOOLEAN] \union {NoJob}]
  /\ parses \in [Columns -> Docs \union {NoJob}]
  /\ command \in [Columns -> Shows]
  /\ saving \in [values : BOOLEAN, column : Columns, answers : SUBSET Exports,
                 dialog : [column : Columns, file : Exports] \union {NoJob}]
  /\ renamed \in [Columns -> BOOLEAN]
  /\ actions \in 0..MaxActions

\* The user does one more thing.
Act == actions < MaxActions /\ actions' = actions + 1

-----------------------------------------------------------------------------
(* Documents, rows and cells.                                              *)

BlankDoc == [k \in Keys |-> Blank]

\* The values of a selection of files, a later file over an earlier one, when
\* they are found with these keys.
Merged(files, found) ==
  [k \in Keys |->
     LET giving == {i \in DOMAIN files : k \in found[files[i]]}
     IN  IF giving = {} THEN Blank
         ELSE files[CHOOSE i \in giving : \A j \in giving : j <= i]]

Found == {found \in [Files -> SUBSET Keys] : \A f \in Files : found[f] \in FileKeys[f]}

KeysOf(doc) == IF doc = NoDoc THEN {} ELSE {k \in Keys : doc[k] # Blank}

RowOf(list, k) == Cardinality({j \in list : j <= k})

\* What a slice of texts says of each key, and the slice that says a document.
Shown(texts, list) == [k \in Keys |-> IF k \in list THEN texts[RowOf(list, k)] ELSE Blank]
Laid(doc, list)    == [r \in Rows |-> IF \E k \in list : RowOf(list, k) = r
                                      THEN doc[CHOOSE k \in list : RowOf(list, k) = r]
                                      ELSE Blank]

\* The texts a column shows, and the cells after writing them.
Read(cells, slots) == [r \in Rows |-> cells[slots[r]][r]]
Write(cells, slots, texts) ==
  [b \in Columns |-> [r \in Rows |-> IF slots[r] = b THEN texts[r] ELSE cells[b][r]]]

Changed(old, new) == {cell \in Columns \X Rows : old[cell[1]][cell[2]] # new[cell[1]][cell[2]]}

TextOf(c)   == Shown(Read(text, slot[c]), entries)
OwnCells(c) == \A d \in Columns \ {c}, r \in Rows : slot[d][r] # slot[c][r]

FilesShown(files, n) == [c \in Columns |-> IF c < n THEN files[c] ELSE <<>>]

-----------------------------------------------------------------------------
(* rebuildEntries, for the state its callers have prepared.                *)

UnifiedEntries(docs, n) == DefaultKeys \union UNION {KeysOf(docs[c]) : c \in 0..(n - 1)}

\* Rows past the old length get cells of their own.
Grown(slots, length) ==
  [c \in Columns |-> [r \in Rows |-> IF r \in (rows + 1)..length THEN c ELSE slots[c][r]]]

\* Mutant: the texts stay at their row numbers.
RealignedNowhere(cells, slots, list, skip) == cells

\* Columns move their texts to the rows of the new list one after the other.
Realigned(cells, slots, list, skip) ==
  LET upTo[c \in 0..MaxCustomColumns] ==
        IF c = 0 THEN cells
        ELSE IF c - 1 \in skip THEN upTo[c - 1]
        ELSE LET old == Shown(Read(upTo[c - 1], slots[c - 1]), entries)
             IN  Write(upTo[c - 1], slots[c - 1], Laid(old, list))
  IN  upTo[MaxCustomColumns]

rebuildEntries(skip, n, docs, drains, slots, cells) ==
  LET list   == UnifiedEntries(docs, n)
      length == IF Cardinality(list) > rows THEN Cardinality(list) ELSE rows
  IN  /\ entries' = list
      /\ IF list = entries
         THEN /\ rows' = rows /\ slot' = slots /\ text' = cells /\ drain' = drains
         ELSE /\ rows' = length
              /\ slot' = Grown(slots, length)
              /\ text' = Realigned(cells, slot', list, skip)
              /\ drain' = [c \in Columns |-> drains[c] \/ (c \notin skip /\ length > 0)]

-----------------------------------------------------------------------------
(* Results of the runners.                                                 *)

\* populateColumnOverrides: the rows of the list say what the file says.
Populated(texts, doc, list) ==
  [r \in Rows |-> IF r <= Cardinality(list) THEN Laid(doc, list)[r] ELSE texts[r]]

\* The answer rewrites the editors of its column from the file.
PollLoad(c) ==
  /\ phase = "loads" /\ loads[c] # NoJob
  /\ \E doc \in {Merged(loads[c].files, found) : found \in Found} :
         /\ custom' = [custom EXCEPT ![c] = doc]
         /\ LET list   == UnifiedEntries(custom', count)
                length == IF Cardinality(list) > rows THEN Cardinality(list) ELSE rows
                grown  == Grown(slot, length)
                moved  == IF list = entries THEN text ELSE Realigned(text, grown, list, {c})
            IN  /\ entries' = list
                /\ rows' = length
                /\ slot' = grown
                /\ text' = Write(moved, grown[c], Populated(Read(moved, grown[c]), doc, list))
                /\ drain' = [d \in Columns |-> drain[d] \/ d = c \/ (list # entries /\ length > 0)]
  /\ pending' = pending \union Changed(text, text')
  /\ modified' = [modified EXCEPT ![c] = FALSE]
  /\ loads' = [loads EXCEPT ![c] = NoJob]
  /\ UNCHANGED <<phase, count, paths, wired, parses, command, saving, renamed, actions>>

\* Mutant: the answer replaces the values and the rows stay as they are.
PollParseNoRebuild(c) ==
  /\ phase = "parses" /\ parses[c] # NoJob
  /\ custom' = [custom EXCEPT ![c] = parses[c]]
  /\ parses' = [parses EXCEPT ![c] = NoJob]
  /\ UNCHANGED <<phase, count, paths, modified, drain, slot, text, pending, rows,
                 entries, wired, loads, command, saving, renamed, actions>>

\* The answer of a parse becomes the values of the column, and may add or drop rows.
PollParse(c) ==
  /\ phase = "parses" /\ parses[c] # NoJob
  /\ custom' = [custom EXCEPT ![c] = parses[c]]
  /\ rebuildEntries({}, count, custom', drain, slot, text)
  /\ pending' = pending \union Changed(text, text')
  /\ parses' = [parses EXCEPT ![c] = NoJob]
  /\ UNCHANGED <<phase, count, paths, modified, wired, loads, command, saving, renamed, actions>>

\* An error is only shown to the user, and a runner that was stopped or whose
\* operation timed out may say nothing at all.
NoAnswer(c) ==
  /\ \/ /\ loads[c] # NoJob /\ loads' = [loads EXCEPT ![c] = NoJob]
        /\ UNCHANGED parses
     \/ /\ parses[c] # NoJob /\ parses' = [parses EXCEPT ![c] = NoJob]
        /\ UNCHANGED loads
  /\ UNCHANGED <<phase, count, paths, custom, modified, drain, slot, text,
                 pending, rows, entries, wired, command, saving, renamed, actions>>

-----------------------------------------------------------------------------
(* Files, columns and their buttons.                                       *)

Disjoint(some, others) ==
  \A i \in DOMAIN some, j \in DOMAIN others : some[i] # others[j]

\* Mutant: no look at the other columns.
SelectedTwice(c, files) ==
  /\ phase \in {"parses", "headers"}
  /\ c < count
  /\ Act
  /\ InFlight < MaxInFlight \/ loads[c] # NoJob
  /\ paths' = [paths EXCEPT ![c] = files]
  /\ loads' = [loads EXCEPT ![c] = [files |-> files, stopped |-> FALSE]]
  /\ command' = FilesShown(paths', count)
  /\ renamed' = [renamed EXCEPT ![c] = FALSE]
  /\ UNCHANGED <<phase, count, custom, modified, drain, slot, text, pending,
                 rows, entries, wired, parses, saving>>

\* From the file picker, from a drop before Layout drains, or from the list
\* of recent files after it.  A file open in another column is refused.
OnColumnFilesSelected(c, files) ==
  /\ phase \in {"parses", "headers"}
  /\ c < count
  /\ \A d \in Active \ {c} : Disjoint(files, paths[d])
  /\ Act
  /\ InFlight < MaxInFlight \/ loads[c] # NoJob
  /\ paths' = [paths EXCEPT ![c] = files]
  /\ loads' = [loads EXCEPT ![c] = [files |-> files, stopped |-> FALSE]]
  /\ command' = FilesShown(paths', count)
  /\ renamed' = [renamed EXCEPT ![c] = FALSE]
  /\ UNCHANGED <<phase, count, custom, modified, drain, slot, text, pending,
                 rows, entries, wired, parses, saving>>

\* +Values: the next column, as its last Reset left it.
onAddColumn ==
  /\ phase = "headers" /\ count < MaxCustomColumns /\ Act
  /\ count' = count + 1
  /\ UNCHANGED <<phase, paths, custom, modified, drain, slot, text, pending,
                 rows, entries, wired, loads, parses, command, saving, renamed>>

Stopped(job) == IF job = NoJob THEN NoJob ELSE [job EXCEPT !.stopped = TRUE]

\* Mutant: the helm command is not rebuilt.
ClearColumnStaleCommand(c) ==
  /\ phase = "headers" /\ c < count /\ Act
  /\ loads' = [loads EXCEPT ![c] = Stopped(@)]
  /\ paths' = [paths EXCEPT ![c] = <<>>]
  /\ custom' = [custom EXCEPT ![c] = NoDoc]
  /\ modified' = [modified EXCEPT ![c] = FALSE]
  /\ LET blanked == Write(text, slot[c], [r \in Rows |-> Blank])
     IN  rebuildEntries({}, count, custom', [drain EXCEPT ![c] = rows > 0], slot, blanked)
  /\ pending' = pending \union Changed(text, text')
  /\ renamed' = [renamed EXCEPT ![c] = FALSE]
  /\ UNCHANGED <<phase, count, wired, parses, command, saving>>

\* The x of a column: its runners are stopped, which does not take back a
\* result on its way, and its state is reset.
onClearColumn(c) ==
  /\ phase = "headers" /\ c < count /\ Act
  /\ loads' = [loads EXCEPT ![c] = Stopped(@)]
  /\ paths' = [paths EXCEPT ![c] = <<>>]
  /\ custom' = [custom EXCEPT ![c] = NoDoc]
  /\ modified' = [modified EXCEPT ![c] = FALSE]
  /\ LET blanked == Write(text, slot[c], [r \in Rows |-> Blank])
     IN  rebuildEntries({}, count, custom', [drain EXCEPT ![c] = rows > 0], slot, blanked)
  /\ pending' = pending \union Changed(text, text')
  /\ command' = FilesShown(paths', count)
  /\ renamed' = [renamed EXCEPT ![c] = FALSE]
  /\ UNCHANGED <<phase, count, wired, parses, saving>>

\* Mutant: the load runners stay where they are.
RemoveColumnKeepsRunners(c) ==
  LET last == MaxCustomColumns - 1
      Left(f, final) == [d \in Columns |-> IF d = last THEN final
                                           ELSE IF d < c THEN f[d] ELSE f[d + 1]]
      kept == Left(slot, slot[last])
      slots == [d \in Columns |-> [r \in Rows |-> IF r <= rows THEN kept[d][r] ELSE d]]
      blanked == Write(text, slots[last], [r \in Rows |-> Blank])
  IN  /\ phase = "headers" /\ c \in 1..(count - 1) /\ Act
      /\ count' = count - 1
      /\ paths' = Left(paths, <<>>)
      /\ custom' = Left(custom, NoDoc)
      /\ modified' = Left(modified, FALSE)
      /\ loads' = [loads EXCEPT ![last] = NoJob]
      /\ parses' = Left(parses, NoJob)
      /\ rebuildEntries({}, count - 1, custom', Left(drain, rows > 0), slots, blanked)
      /\ pending' = pending \union Changed(text, text')
      /\ command' = FilesShown(paths', count - 1)
      /\ renamed' = Left(renamed, FALSE)
      /\ UNCHANGED <<phase, wired, saving>>

\* The columns and runners to the right move left; the last column is then
\* reset, through the same cells its left neighbour has just been given.  The
\* column numbers a save has noted do not follow.
onRemoveColumn(c) ==
  LET last == MaxCustomColumns - 1
      Left(f, final) == [d \in Columns |-> IF d = last THEN final
                                           ELSE IF d < c THEN f[d] ELSE f[d + 1]]
      kept == Left(slot, slot[last])
      slots == [d \in Columns |-> [r \in Rows |-> IF r <= rows THEN kept[d][r] ELSE d]]
      blanked == Write(text, slots[last], [r \in Rows |-> Blank])
  IN  /\ phase = "headers" /\ c \in 1..(count - 1) /\ Act
      /\ count' = count - 1
      /\ paths' = Left(paths, <<>>)
      /\ custom' = Left(custom, NoDoc)
      /\ modified' = Left(modified, FALSE)
      /\ loads' = Left(loads, NoJob)
      /\ parses' = Left(parses, NoJob)
      /\ rebuildEntries({}, count - 1, custom', Left(drain, rows > 0), slots, blanked)
      /\ pending' = pending \union Changed(text, text')
      /\ command' = FilesShown(paths', count - 1)
      /\ renamed' = Left(renamed, FALSE)
      /\ UNCHANGED <<phase, wired, saving>>

-----------------------------------------------------------------------------
(* Saving.                                                                 *)

\* What the steps of a save leave alone.
Untouched == <<phase, count, custom, drain, slot, text, pending, rows, entries,
               wired, loads, parses>>

\* A save dispatched for column c, whose answer may be one of these.
Dispatched(c, answers, dialog) ==
  saving' = [values |-> TRUE, column |-> c, answers |-> answers, dialog |-> dialog]

\* The Save button of a column, or the shortcut.  The button is laid out for a
\* modified column and its click is seen a frame later, when that column may
\* have been drained, loaded or cleared: any column can be the one.  It goes
\* to its file, to the overwrite dialog when another program has changed that
\* file, or where the user says; and its text may turn out not to be YAML.
onSaveColumnValues(c) ==
  /\ phase \in {"parses", "headers"} /\ c < count /\ Act
  /\ \/ Dispatched(c, saving.answers, saving.dialog)
     \/ paths[c] = <<>> /\ Dispatched(c, Files, saving.dialog)
     \/ /\ paths[c] # <<>>
        /\ \/ Dispatched(c, {Head(paths[c])}, saving.dialog)
           \/ Dispatched(c, saving.answers, [column |-> c, file |-> Head(paths[c])])
  /\ UNCHANGED <<paths, modified, command, renamed, Untouched>>

ConfirmOverwrite ==
  /\ phase \in {"parses", "headers"} /\ saving.dialog # NoJob /\ Act
  /\ Dispatched(saving.dialog.column, {saving.dialog.file}, NoJob)
  /\ UNCHANGED <<paths, modified, command, renamed, Untouched>>

DismissOverwriteDialog ==
  /\ phase \in {"parses", "headers"} /\ saving.dialog # NoJob /\ Act
  /\ saving' = [saving EXCEPT !.dialog = NoJob]
  /\ UNCHANGED <<paths, modified, command, renamed, Untouched>>

onSaveCurrentChart ==
  /\ phase \in {"parses", "headers"} /\ Act
  /\ saving' = [saving EXCEPT !.values = FALSE, !.answers = {Archive}]
  /\ UNCHANGED <<paths, modified, command, renamed, Untouched>>

\* The answer of a save: the column of that number is of the file that was
\* written, with no look at the other columns or at a load on its way.
pollExportRunner ==
  /\ phase = "parses"
  /\ \E file \in saving.answers, c \in {saving.column} :
       IF saving.values /\ c < count
       THEN /\ paths' = [paths EXCEPT ![c] = <<file>>]
            /\ modified' = [modified EXCEPT ![c] = FALSE]
            /\ command' = FilesShown(paths', count)
            /\ renamed' = [renamed EXCEPT ![c] = @ \/ paths[c] # <<file>>]
       ELSE UNCHANGED <<paths, modified, command, renamed>>
  /\ saving' = [saving EXCEPT !.values = FALSE, !.answers = {}]
  /\ UNCHANGED <<actions, Untouched>>

\* An error clears pendingSave; an operation that timed out may say nothing.
ExportFails ==
  /\ saving.answers # {}
  /\ \/ phase = "parses" /\ saving' = [saving EXCEPT !.values = FALSE, !.answers = {}]
     \/ saving' = [saving EXCEPT !.answers = {}]
  /\ UNCHANGED <<paths, modified, command, renamed, actions, Untouched>>

-----------------------------------------------------------------------------
(* Layout and the table.                                                   *)

\* Layout drains the editors set by program: their events are consumed, the
\* one of a key the user has just pressed with them.
Drained == {c \in Active : drain[c]}

DrainedCells == {<<slot[c][r], r>> : c \in Drained, r \in 1..rows}

Layout ==
  /\ phase = "parses"
  /\ phase' = "headers"
  /\ wired' = [count |-> count, slot |-> slot]
  /\ \/ UNCHANGED <<text, actions>>
     \/ /\ Act
        /\ \E c \in Drained, r \in 1..Cardinality(entries), w \in Words \union {Blank} :
             text' = [text EXCEPT ![slot[c][r]][r] = w]
  /\ pending' = pending \ DrainedCells
  /\ drain' = [c \in Columns |-> drain[c] /\ c \notin Active]
  /\ modified' = [c \in Columns |-> modified[c] /\ c \notin Drained]
  /\ UNCHANGED <<count, paths, custom, slot, rows, entries, loads, parses, command,
                 saving, renamed>>

\* onColumnOverrideChanged, with the document the wired editors say; when no
\* YAML can be made of it, only the error is shown.
Report(c, cells) ==
  LET doc == Shown(Read(cells, wired.slot[c]), entries)
  IN  /\ modified' = [modified EXCEPT ![c] = TRUE]
      /\ \/ doc = BlankDoc /\ custom' = [custom EXCEPT ![c] = NoDoc] /\ UNCHANGED parses
         \/ /\ doc # BlankDoc /\ (InFlight < MaxInFlight \/ parses[c] # NoJob)
            /\ parses' = [parses EXCEPT ![c] = doc] /\ UNCHANGED custom
         \/ doc # BlankDoc /\ UNCHANGED <<custom, parses>>

\* Of the columns that show one cell, the leftmost consumes its events.
Delivers(c, r) ==
  /\ c < wired.count
  /\ \A d \in 0..(c - 1) : wired.slot[d][r] # wired.slot[c][r]

\* An event left behind by a SetText since Layout reaches the table.
DeliverChange(c, r) ==
  /\ phase = "table" /\ Delivers(c, r)
  /\ r \in 1..Cardinality(entries)
  /\ <<wired.slot[c][r], r>> \in pending
  /\ pending' = pending \ {<<wired.slot[c][r], r>>}
  /\ Report(c, text)
  /\ UNCHANGED <<phase, count, paths, drain, slot, text, rows, entries, wired, loads, command,
                 saving, renamed, actions>>

Edit(c, r, w) ==
  /\ phase = "table" /\ Delivers(c, r)
  /\ r \in 1..Cardinality(entries) /\ Act
  /\ text[wired.slot[c][r]][r] # w
  /\ text' = [text EXCEPT ![wired.slot[c][r]][r] = w]
  /\ pending' = pending \ {<<wired.slot[c][r], r>>}
  /\ Report(c, text')
  /\ UNCHANGED <<phase, count, paths, drain, slot, rows, entries, wired, loads, command,
                 saving, renamed>>

\* The slices of a frame that is over: Layout wires the next before any use.
Unwired == [count |-> 1, slot |-> [c \in Columns |-> [r \in Rows |-> c]]]

\* The rest of a frame: from the loads to the parses, from the headers to
\* the table, and to the next frame.
Advance ==
  /\ phase # "parses"
  /\ phase' = CASE phase = "loads"   -> "parses"
                [] phase = "headers" -> "table"
                [] phase = "table"   -> "loads"
  /\ wired' = IF phase = "table" THEN Unwired ELSE wired
  /\ UNCHANGED <<count, paths, custom, modified, drain, slot, text, pending,
                 rows, entries, loads, parses, command, saving, renamed, actions>>

-----------------------------------------------------------------------------

\* The first poll after the default values were loaded: rebuildEntries(-1)
\* has run once.
Init ==
  /\ phase = "loads"
  /\ count = 1
  /\ paths = [c \in Columns |-> <<>>]
  /\ custom = [c \in Columns |-> NoDoc]
  /\ modified = [c \in Columns |-> FALSE]
  /\ rows = Cardinality(DefaultKeys)
  /\ drain = [c \in Columns |-> rows > 0]
  /\ slot = [c \in Columns |-> [r \in Rows |-> c]]
  /\ text = [c \in Columns |-> [r \in Rows |-> Blank]]
  /\ pending = {}
  /\ entries = DefaultKeys
  /\ wired = Unwired
  /\ loads = [c \in Columns |-> NoJob]
  /\ parses = [c \in Columns |-> NoJob]
  /\ command = [c \in Columns |-> <<>>]
  /\ saving = [values |-> FALSE, column |-> 0, answers |-> {}, dialog |-> NoJob]
  /\ renamed = [c \in Columns |-> FALSE]
  /\ actions = 0

Next ==
  \/ Advance \/ Layout \/ onAddColumn
  \/ ConfirmOverwrite \/ DismissOverwriteDialog \/ onSaveCurrentChart
  \/ pollExportRunner \/ ExportFails
  \/ \E c \in Columns :
       \/ PollLoad(c) \/ PollParse(c) \/ NoAnswer(c)
       \/ \E files \in Selections : OnColumnFilesSelected(c, files)
       \/ onClearColumn(c) \/ onRemoveColumn(c) \/ onSaveColumnValues(c)
       \/ \E r \in Rows : DeliverChange(c, r)
       \/ \E r \in Rows, w \in Words \union {Blank} : Edit(c, r, w)

Spec == Init /\ [][Next]_vars

-----------------------------------------------------------------------------

\* No file is open in two columns, as long as no save gave one of them another
\* file: Save As does not look at the other columns, and a save answered after
\* a removal renames the column that moved into the noted number.
OneColumnPerFile ==
  \A c, d \in Active : c # d /\ ~renamed[c] /\ ~renamed[d] => Disjoint(paths[c], paths[d])

\* Every key of the values of the first column has a row, without which the
\* next save would drop it.  The other columns have no such guarantee: a key
\* pressed in the frame that removes one is reported to the column of that
\* number, and +Values brings it back without rebuilding the rows.
EveryKeyHasARow == KeysOf(custom[0]) \subseteq entries

\* The cached helm command names the files that are loaded, in column order.
CommandMatchesFiles == command = FilesShown(paths, count)

\* A load that was not called off is of the files its column shows: results
\* and columns stay together when columns move.  A save can give a column
\* another file under a load on its way.
LoadIsOfShownFiles ==
  \A c \in Columns :
    loads[c] # NoJob /\ ~loads[c].stopped /\ ~renamed[c] => loads[c].files = paths[c]

\* An answer, or the clearing of a column, moves the rows of the others and
\* keeps what they say of every key that still has a row.
OthersKeepTheirText ==
  [][\A c, d \in Columns :
       /\ c # d /\ OwnCells(d)
       /\ PollLoad(c) \/ PollParse(c) \/ onClearColumn(c)
       => \A k \in entries \intersect entries' : TextOf(d)'[k] = TextOf(d)[k]]_vars

\* Removing a column keeps the text of the columns to its right.
RemovalKeepsText ==
  [][\A c \in Columns : onRemoveColumn(c) =>
       \A d \in Active : d > c =>
         \A k \in entries \intersect entries' : TextOf(d - 1)'[k] = TextOf(d)[k]]_vars

\* A column is marked unmodified again, by anything but the answer of a save,
\* only when nothing the user typed is left in it.
UnsavedStaysFlagged ==
  [][\A c \in Active : modified[c] /\ ~modified'[c] /\ count' = count /\ ~pollExportRunner =>
       \A k \in entries' : TextOf(c)'[k] \notin Words]_vars
=============================================================================
