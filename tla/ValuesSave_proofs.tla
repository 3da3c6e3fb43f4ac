--------------------------- MODULE ValuesSave_proofs ---------------------------
(***************************************************************************)
(* Saving, for any number of columns, acts and writes of other programs:   *)
(* an answer is known for what it is while its chart is open, and for a    *)
(* careful user it takes the mark off a column that is on disk.            *)
(***************************************************************************)
EXTENDS ValuesSave, FiniteSetTheorems, TLAPS

\* Every operation writes once, so that the time of a file stays below what
\* the user and other programs have done.
Counted ==
  /\ IsFiniteSet(writers)
  /\ \A job \in writers : job.number \in 1..acts
  /\ \A f \in Paths : disk[f].time + Cardinality(writers) <= acts + foreign

\* The column shows this and will go on doing so until somebody touches it.
Kept(i, content) ==
  i \in Active /\ columns[i].shown = content /\ columns[i].load = Nothing

\* A careful user answers a dialog before anything else, and it is about the
\* column as it is.
Asked ==
  dialog # NoJob =>
    /\ export = NoJob /\ writers = {}
    /\ saveColumn = dialog.column /\ Kept(dialog.column, dialog.content)

\* One operation is under way, of the column as it is, unless its chart is gone.
OneAtATime ==
  export # NoJob =>
    /\ writers \subseteq {export}
    /\ pendingSave \in {export.kind, "saveNone"}
    /\ pendingSave = "saveValues" => Kept(saveColumn, export.content)

\* What was answered is on disk.
Answered ==
  export # NoJob /\ answer # "working" =>
    /\ writers = {}
    /\ answer \in Paths => disk[answer].content \in {export.content, Foreign}

Careful == Asked /\ OneAtATime /\ Answered

IInv == TypeOK /\ Counted /\ (careful => Careful)

-----------------------------------------------------------------------------
(* Answers.                                                                *)

\* Operations are of the charts that were opened so far.
Past == chart \in Nat /\ (export # NoJob => export.chart \in Nat /\ export.chart <= chart)

\* Every step that changes pendingSave dispatches an operation of that kind, consumes
\* the answer, comes before any, or leaves the chart.
THEOREM AnswerKnown == Spec => []ValuesAnswerIsKnown
<1> DEFINE Known == Past /\ ValuesAnswerIsKnown
<1>1. Init => Known
  BY DEF Init, Past, ValuesAnswerIsKnown
<1>2. ASSUME Known, [Next]_vars
      PROVE  Known'
  <2>1. ASSUME UNCHANGED <<chart, export>>, pendingSave' \in {pendingSave, "saveValues"}
        PROVE  Known'
    BY <1>2, <2>1 DEF Past, ValuesAnswerIsKnown
  <2>2. ASSUME UNCHANGED chart, export' = NoJob
        PROVE  Known'
    BY <1>2, <2>2 DEF Past, ValuesAnswerIsKnown
  <2>3. ASSUME NEW kind, NEW file, NEW content, UNCHANGED chart, pendingSave' = kind,
               Dispatch(kind, file, content)
        PROVE  Known'
    <3>1. export'.kind = kind /\ export'.chart = chart
      BY <2>3 DEF Dispatch
    <3> QED
      BY <1>2, <2>3, <3>1 DEF Past, ValuesAnswerIsKnown
  <2>4. CASE ColumnStep \/ UNCHANGED vars
    BY <2>1, <2>4 DEF ColumnStep, vars
  <2>5. ASSUME NEW i \in Active, onSaveColumnValues(i)
        PROVE  Known'
    BY <2>1, <2>3, <2>5 DEF onSaveColumnValues
  <2>6. ASSUME NEW i \in Active, SaveFailsEarly(i)
        PROVE  Known'
    BY <2>1, <2>6 DEF SaveFailsEarly
  <2>7. CASE ConfirmOverwrite
    BY <2>3, <2>7 DEF ConfirmOverwrite
  <2>8. CASE onSaveCurrentChart
    BY <2>3, <2>8 DEF onSaveCurrentChart
  <2>9. CASE DismissOverwriteDialog
    BY <2>1, <2>9 DEF DismissOverwriteDialog
  <2>10. CASE ResetState
    <3>1. chart' = chart + 1 /\ export' = export
      BY <2>10 DEF ResetState
    <3> QED
      BY <1>2, <3>1 DEF Past, ValuesAnswerIsKnown
  <2>11. CASE pollExportRunner \/ NoAnswer
    BY <2>2, <2>11 DEF pollExportRunner, NoAnswer
  <2>12. ASSUME NEW job \in writers, WriteFile(job) \/ WriteFails(job)
         PROVE  Known'
    BY <2>1, <2>12 DEF WriteFile, WriteFails
  <2>13. ASSUME NEW f \in Files, ForeignWrite(f)
         PROVE  Known'
    BY <2>1, <2>13 DEF ForeignWrite
  <2> QED
    BY <1>2, <2>4, <2>5, <2>6, <2>7, <2>8, <2>9, <2>10, <2>11, <2>12, <2>13
       DEF Next, Edit, onClearColumn, onRemoveColumn, SelectFile, PollLoad, NoLoad, PollParse,
           onAddColumn, Layout
<1> QED
  BY <1>1, <1>2, PTL DEF Spec

-----------------------------------------------------------------------------
(* Types.                                                                  *)

\* A column as Reset leaves it is one.
LEMMA EmptyType ==
  ASSUME NEW load \in Contents \union {Nothing}
  PROVE  Empty(load) \in Column /\ Empty(load).load = load
BY SaveAssumption DEF Empty, Column, Contents, Times

\* A rebuild changes nothing of a column but whether it will be drained.
LEMMA RebuiltType ==
  ASSUME NEW cols \in [Ids -> Column], NEW skip, Rebuilt(cols, skip)
  PROVE  /\ columns' \in [Ids -> Column]
         /\ \A j \in Ids : columns'[j].shown = cols[j].shown /\ columns'[j].load = cols[j].load
<1>1. CASE columns' = cols
  BY <1>1
<1>2. CASE columns' = [j \in Ids |-> [cols[j] EXCEPT !.drain = cols[j].drain \/ j # skip]]
  <2>1. ASSUME NEW j \in Ids
        PROVE  /\ columns'[j] \in Column
               /\ columns'[j].shown = cols[j].shown /\ columns'[j].load = cols[j].load
    <3>1. columns'[j] = [cols[j] EXCEPT !.drain = cols[j].drain \/ j # skip] /\ cols[j] \in Column
      BY <1>2
    <3> QED
      BY <3>1 DEF Column
  <2> QED
    BY <1>2, <2>1
<1> QED
  BY <1>1, <1>2 DEF Rebuilt

\* Draining changes nothing of a column but its mark.
LEMMA DrainedType ==
  ASSUME NEW cols \in [Ids -> Column], columns' = Drained(cols)
  PROVE  /\ columns' \in [Ids -> Column]
         /\ \A j \in Ids : columns'[j].shown = cols[j].shown /\ columns'[j].load = cols[j].load
<1>1. ASSUME NEW j \in Ids
      PROVE  /\ columns'[j] \in Column
             /\ columns'[j].shown = cols[j].shown /\ columns'[j].load = cols[j].load
  <2>1. columns'[j] \in {cols[j], [cols[j] EXCEPT !.modified = FALSE, !.drain = FALSE]}
    BY DEF Drained
  <2>2. cols[j] \in Column
    OBVIOUS
  <2> QED
    BY <2>1, <2>2 DEF Column
<1> QED
  BY <1>1 DEF Drained

\* What is typed in a column is a column.
LEMMA TypedType ==
  ASSUME NEW c \in Column, Act, acts \in Nat, NEW col \in Typed(c)
  PROVE  col \in Column /\ col.load = c.load
<1>1. acts + 1 \in Contents /\ Blank \in Contents
  BY SaveAssumption DEF Act, Contents
<1> QED
  BY <1>1 DEF Typed, Column

-----------------------------------------------------------------------------
(* The columns.                                                            *)

ColumnAction ==
  \/ \E i \in Active :
       \/ Edit(i) \/ onClearColumn(i) \/ onRemoveColumn(i)
       \/ \E f \in Files : SelectFile(i, f)
  \/ \E i \in Ids : PollLoad(i) \/ NoLoad(i)
  \/ PollParse \/ onAddColumn \/ Layout

\* A column that a careful user waits for is left as it is.
Undisturbed ==
  careful /\ ~Idle /\ saveColumn \in Active /\ columns[saveColumn].load = Nothing =>
    /\ saveColumn \in 1..count'
    /\ columns'[saveColumn].shown = columns[saveColumn].shown
    /\ columns'[saveColumn].load = Nothing

\* Whatever is done to the columns, they are columns, and the one waited for is kept.
LEMMA ColumnsKept ==
  ASSUME TypeOK, ColumnAction
  PROVE  /\ columns' \in [Ids -> Column] /\ count' \in Ids
         /\ acts' \in 0..MaxActs /\ acts' >= acts
         /\ ColumnStep /\ Undisturbed
<1> USE SaveAssumption
<1>0. /\ columns \in [Ids -> Column] /\ count \in Ids /\ acts \in 0..MaxActs
      /\ count \in Nat /\ acts \in Nat
      /\ \A j \in Ids : columns[j] \in Column /\ columns[j].load \in Contents \union {Nothing}
  BY DEF TypeOK, Column, Ids
<1>1. ASSUME NEW i \in Active, Edit(i)
      PROVE  /\ columns' \in [Ids -> Column] /\ count' \in Ids
             /\ acts' \in 0..MaxActs /\ acts' >= acts
             /\ ColumnStep /\ Undisturbed
  <2>1. PICK col \in Typed(columns[i]) :
          columns' = [columns EXCEPT ![i] =
            [col EXCEPT !.modified = TRUE, !.raw = IF col.shown = Blank THEN Nothing ELSE @]]
    BY <1>1 DEF Edit
  <2>2. i \in Ids /\ Act /\ UNCHANGED count /\ ColumnStep /\ May(i)
    BY <1>0, <1>1 DEF Edit, Active, Ids
  <2>3. col \in Column /\ col.load = columns[i].load
    BY <1>0, <2>2, TypedType
  <2>4. [col EXCEPT !.modified = TRUE, !.raw = IF col.shown = Blank THEN Nothing ELSE col.raw]
          \in Column
    BY <2>3 DEF Column
  <2> QED
    BY <1>0, <2>1, <2>2, <2>4 DEF Act, Undisturbed, May, Active
<1>2. ASSUME NEW i \in Active, onClearColumn(i)
      PROVE  /\ columns' \in [Ids -> Column] /\ count' \in Ids
             /\ acts' \in 0..MaxActs /\ acts' >= acts
             /\ ColumnStep /\ Undisturbed
  <2> DEFINE cols == [columns EXCEPT ![i] = Empty(columns[i].load)]
  <2>1. i \in Ids /\ Act /\ UNCHANGED count /\ ColumnStep /\ May(i) /\ Rebuilt(cols, 0)
    BY <1>0, <1>2 DEF onClearColumn, Active, Ids
  <2>2. cols \in [Ids -> Column]
    BY <1>0, <2>1, EmptyType
  <2>3. /\ columns' \in [Ids -> Column]
        /\ \A j \in Ids : columns'[j].shown = cols[j].shown /\ columns'[j].load = cols[j].load
    BY <2>1, <2>2, RebuiltType
  <2>4. \A j \in Ids : j # i => cols[j] = columns[j]
    BY <1>0
  <2>5. Undisturbed
    BY <1>0, <2>1, <2>3, <2>4 DEF Undisturbed, May, Active, Ids
  <2> QED
    BY <1>0, <2>1, <2>3, <2>5 DEF Act
<1>3. ASSUME NEW i \in Active, onRemoveColumn(i)
      PROVE  /\ columns' \in [Ids -> Column] /\ count' \in Ids
             /\ acts' \in 0..MaxActs /\ acts' >= acts
             /\ ColumnStep /\ Undisturbed
  <2> DEFINE cols == [j \in Ids |-> IF j = MaxColumns THEN Empty(Nothing)
                                   ELSE IF j < i THEN columns[j] ELSE columns[j + 1]]
  <2>1. /\ i \in Nat /\ i > 1 /\ i <= count /\ Act /\ count' = count - 1 /\ ColumnStep
        /\ MayFrom(i) /\ Rebuilt(cols, 0)
    BY <1>0, <1>3 DEF onRemoveColumn, Active
  <2>2. cols \in [Ids -> Column]
    <3>1. ASSUME NEW j \in Ids
          PROVE  cols[j] \in Column
      <4>1. CASE j = MaxColumns
        BY <4>1, EmptyType
      <4>2. CASE j # MaxColumns
        <5>1. j + 1 \in Ids
          BY <4>2 DEF Ids
        <5> QED
          BY <1>0, <4>2, <5>1
      <4> QED
        BY <4>1, <4>2
    <3> QED
      BY <3>1
  <2>3. /\ columns' \in [Ids -> Column]
        /\ \A j \in Ids : columns'[j].shown = cols[j].shown /\ columns'[j].load = cols[j].load
    BY <2>1, <2>2, RebuiltType
  <2>4. \A j \in Ids : j < i => cols[j] = columns[j]
    <3>1. ASSUME NEW j \in Ids, j < i
          PROVE  j # MaxColumns
      BY <1>0, <2>1, <3>1 DEF Ids
    <3> QED
      BY <3>1
  <2>5. Undisturbed
    <3>1. SUFFICES ASSUME careful, ~Idle, saveColumn \in Active,
                          columns[saveColumn].load = Nothing
                   PROVE  /\ saveColumn \in 1..count'
                          /\ columns'[saveColumn].shown = columns[saveColumn].shown
                          /\ columns'[saveColumn].load = Nothing
      BY DEF Undisturbed
    <3>2. saveColumn \in Ids /\ saveColumn < i /\ saveColumn \in 1..count'
      BY <1>0, <2>1, <3>1 DEF MayFrom, Active, Ids
    <3> QED
      BY <2>3, <2>4, <3>1, <3>2
  <2> QED
    BY <1>0, <2>1, <2>3, <2>5 DEF Act, Ids
<1>4. ASSUME NEW i \in Active, NEW f \in Files, SelectFile(i, f)
      PROVE  /\ columns' \in [Ids -> Column] /\ count' \in Ids
             /\ acts' \in 0..MaxActs /\ acts' >= acts
             /\ ColumnStep /\ Undisturbed
  <2>1. /\ i \in Ids /\ Act /\ UNCHANGED count /\ ColumnStep /\ May(i)
        /\ columns' = [columns EXCEPT ![i].file = f, ![i].seen = disk[f].time,
                                     ![i].load = disk[f].content]
    BY <1>0, <1>4 DEF SelectFile, Active, Ids
  <2>2. disk[f].time \in Times /\ disk[f].content \in Contents
    BY DEF TypeOK, Paths
  <2>3. columns' = [columns EXCEPT ![i] = [columns[i] EXCEPT !.file = f, !.seen = disk[f].time,
                                                             !.load = disk[f].content]]
    BY <1>0, <2>1
  <2>4. [columns[i] EXCEPT !.file = f, !.seen = disk[f].time, !.load = disk[f].content] \in Column
    BY <1>0, <2>1, <2>2 DEF Column, Paths
  <2>5. columns' \in [Ids -> Column] /\ \A j \in Ids : j # i => columns'[j] = columns[j]
    BY <1>0, <2>3, <2>4
  <2>6. Undisturbed
    BY <1>0, <2>1, <2>5 DEF Undisturbed, May, Active, Ids
  <2> QED
    BY <1>0, <2>1, <2>5, <2>6 DEF Act
<1>5. ASSUME NEW i \in Ids, PollLoad(i)
      PROVE  /\ columns' \in [Ids -> Column] /\ count' \in Ids
             /\ acts' \in 0..MaxActs /\ acts' >= acts
             /\ ColumnStep /\ Undisturbed
  <2>1. PICK read \in {columns[i].load}
                       \union {disk[f].content : f \in {columns[i].file} \ {NoFile}} :
          Rebuilt([columns EXCEPT ![i] =
                     [columns[i] EXCEPT !.shown = read, !.raw = read, !.load = Nothing,
                                        !.modified = FALSE, !.drain = TRUE]], i)
    BY <1>5 DEF PollLoad
  <2> DEFINE cols == [columns EXCEPT ![i] =
                        [columns[i] EXCEPT !.shown = read, !.raw = read, !.load = Nothing,
                                           !.modified = FALSE, !.drain = TRUE]]
  <2>2. UNCHANGED <<count, acts>> /\ ColumnStep /\ columns[i].load # Nothing
    BY <1>5 DEF PollLoad
  <2>3. read \in Contents
    <3>1. CASE read = columns[i].load
      BY <1>0, <2>2, <3>1
    <3>2. ASSUME NEW f \in {columns[i].file} \ {NoFile}, read = disk[f].content
          PROVE  read \in Contents
      <4>1. f \in Paths
        BY <1>0 DEF Column
      <4> QED
        BY <3>2, <4>1 DEF TypeOK
    <3> QED
      BY <3>1, <3>2
  <2>4. cols \in [Ids -> Column]
    <3>1. [columns[i] EXCEPT !.shown = read, !.raw = read, !.load = Nothing,
                             !.modified = FALSE, !.drain = TRUE] \in Column
      BY <1>0, <2>3 DEF Column
    <3> QED
      BY <1>0, <3>1
  <2>5. /\ columns' \in [Ids -> Column]
        /\ \A j \in Ids : columns'[j].shown = cols[j].shown /\ columns'[j].load = cols[j].load
    BY <2>1, <2>4, RebuiltType
  <2>6. \A j \in Ids : j # i => cols[j] = columns[j]
    BY <1>0
  <2>7. Undisturbed
    BY <1>0, <2>2, <2>5, <2>6 DEF Undisturbed, Active, Ids
  <2> QED
    BY <1>0, <2>2, <2>5, <2>7
<1>6. ASSUME NEW i \in Ids, NoLoad(i)
      PROVE  /\ columns' \in [Ids -> Column] /\ count' \in Ids
             /\ acts' \in 0..MaxActs /\ acts' >= acts
             /\ ColumnStep /\ Undisturbed
  <2>1. /\ UNCHANGED <<count, acts>> /\ ColumnStep /\ columns[i].load # Nothing
        /\ columns' = [columns EXCEPT ![i] = [columns[i] EXCEPT !.load = Nothing]]
    BY <1>0, <1>6 DEF NoLoad
  <2>2. [columns[i] EXCEPT !.load = Nothing] \in Column
    BY <1>0 DEF Column
  <2> QED
    BY <1>0, <2>1, <2>2 DEF Undisturbed, Active
<1>7. CASE PollParse
  <2>1. UNCHANGED <<count, acts>> /\ ColumnStep /\ Rebuilt(columns, 0)
    BY <1>7 DEF PollParse
  <2>2. /\ columns' \in [Ids -> Column]
        /\ \A j \in Ids : /\ columns'[j].shown = columns[j].shown
                         /\ columns'[j].load = columns[j].load
    BY <1>0, <2>1, RebuiltType
  <2>3. Undisturbed
    BY <1>0, <2>1, <2>2 DEF Undisturbed, Active, Ids
  <2> QED
    BY <1>0, <2>1, <2>2, <2>3
<1>8. CASE onAddColumn
  <2>1. count' = count + 1 /\ count < MaxColumns /\ Act /\ UNCHANGED columns /\ ColumnStep
    BY <1>8 DEF onAddColumn
  <2> QED
    BY <1>0, <2>1 DEF Act, Undisturbed, Active, Ids
<1>9. CASE Layout
  <2>1. UNCHANGED count /\ ColumnStep
    BY <1>9 DEF Layout
  <2>2. CASE columns' = Drained(columns) /\ UNCHANGED acts
    <3>1. /\ columns' \in [Ids -> Column]
          /\ \A j \in Ids : /\ columns'[j].shown = columns[j].shown
                           /\ columns'[j].load = columns[j].load
      BY <1>0, <2>2, DrainedType
    <3>2. Undisturbed
      BY <1>0, <2>1, <3>1 DEF Undisturbed, Active, Ids
    <3>3. UNCHANGED acts
      BY <2>2
    <3> QED
      BY <1>0, <2>1, <3>1, <3>2, <3>3
  <2>3. ASSUME NEW i \in Active, May(i), Act, NEW col \in Typed(columns[i]),
               columns' = Drained([columns EXCEPT ![i] = col])
        PROVE  /\ columns' \in [Ids -> Column] /\ count' \in Ids
               /\ acts' \in 0..MaxActs /\ acts' >= acts
               /\ ColumnStep /\ Undisturbed
    <3> DEFINE cols == [columns EXCEPT ![i] = col]
    <3>1. i \in Ids
      BY <1>0 DEF Active, Ids
    <3>2. col \in Column
      BY <1>0, <2>3, <3>1, TypedType
    <3>3. cols \in [Ids -> Column] /\ \A j \in Ids : j # i => cols[j] = columns[j]
      BY <1>0, <3>2
    <3>4. /\ columns' \in [Ids -> Column]
          /\ \A j \in Ids : columns'[j].shown = cols[j].shown /\ columns'[j].load = cols[j].load
      BY <2>3, <3>3, DrainedType
    <3>5. Undisturbed
      <4>1. careful /\ ~Idle => i # saveColumn
        BY <2>3 DEF May
      <4>2. \A j \in Ids : j # i => /\ columns'[j].shown = columns[j].shown
                                  /\ columns'[j].load = columns[j].load
        BY <3>3, <3>4
      <4> QED
        BY <1>0, <2>1, <4>1, <4>2 DEF Undisturbed, Active, Ids
    <3>6. acts' \in 0..MaxActs /\ acts' >= acts
      BY <1>0, <2>3 DEF Act
    <3> QED
      BY <1>0, <2>1, <3>4, <3>5, <3>6
  <2> QED
    BY <1>9, <2>2, <2>3 DEF Layout
<1> QED
  BY <1>1, <1>2, <1>3, <1>4, <1>5, <1>6, <1>7, <1>8, <1>9 DEF ColumnAction

-----------------------------------------------------------------------------
(* The operations.                                                         *)

\* Finishing an operation, writing one file or none, keeps the count.
LEMMA FinishCounted ==
  ASSUME TypeOK, Counted, NEW job \in writers, writers' = writers \ {job},
         UNCHANGED <<acts, foreign>>,
         \A f \in Paths : disk'[f].time \in {disk[f].time, disk[f].time + 1}
  PROVE  Counted'
<1>1. IsFiniteSet(writers') /\ Cardinality(writers') = Cardinality(writers) - 1
  BY FS_RemoveElement DEF Counted
<1>2. Cardinality(writers) \in Nat /\ acts \in Nat /\ foreign \in Nat
  BY SaveAssumption, FS_CardinalityType DEF Counted, TypeOK
<1>3. ASSUME NEW f \in Paths
      PROVE  disk'[f].time + Cardinality(writers') <= acts' + foreign'
  <2>1. disk[f].time \in Nat /\ disk[f].time + Cardinality(writers) <= acts + foreign
    BY SaveAssumption DEF Counted, TypeOK, Times
  <2> QED
    BY <1>1, <1>2, <2>1
<1> QED
  BY <1>1, <1>3 DEF Counted

\* A write of a file, and another program's, in the types.
LEMMA PutType ==
  ASSUME TypeOK, NEW f \in Paths, NEW content \in Contents, Put(f, content),
         disk[f].time < MaxActs + MaxForeign
  PROVE  /\ disk' \in [Paths -> [content : Contents, time : Times]]
         /\ disk'[f].content = content
         /\ \A g \in Paths \ {f} : disk'[g] = disk[g]
         /\ \A g \in Paths : disk'[g].time \in {disk[g].time, disk[g].time + 1}
<1>1. disk \in [Paths -> [content : Contents, time : Times]] /\ disk[f].time \in Nat
  BY SaveAssumption DEF TypeOK, Times
<1>2. [content |-> content, time |-> disk[f].time + 1] \in [content : Contents, time : Times]
  BY <1>1, SaveAssumption DEF Times
<1>3. disk' = [disk EXCEPT ![f] = [content |-> content, time |-> disk[f].time + 1]]
  BY DEF Put
<1> QED
  BY <1>1, <1>2, <1>3

\* A dispatched operation is the one that answers, and one more to write.
LEMMA DispatchType ==
  ASSUME TypeOK, Counted, Act, UNCHANGED <<disk, foreign>>,
         NEW kind \in {"saveValues", "saveTgz"}, NEW file \in Paths \union {NoFile},
         NEW content \in Contents, Dispatch(kind, file, content)
  PROVE  /\ acts' \in 0..MaxActs /\ acts' = acts + 1
         /\ export' \in Job /\ export'.kind = kind /\ export'.content = content
         /\ answer' = "working"
         /\ writers' = writers \union {export'} /\ writers' \subseteq Job
         /\ Counted'
<1>1. acts \in Nat /\ foreign \in Nat /\ acts < MaxActs /\ acts' = acts + 1 /\ chart \in 1..(acts + 1)
  BY SaveAssumption DEF TypeOK, Act
<1>2. export' = [number |-> acts + 1, kind |-> kind, file |-> file, content |-> content,
                 chart |-> chart]
  BY DEF Dispatch
<1>3. export' \in Job
  BY <1>1, <1>2, SaveAssumption DEF Job
<1>4. writers' = writers \union {export'} /\ answer' = "working"
  BY DEF Dispatch
<1>5. IsFiniteSet(writers') /\ Cardinality(writers') <= Cardinality(writers) + 1
      /\ Cardinality(writers) \in Nat /\ Cardinality(writers') \in Nat
  <2>1. IsFiniteSet(writers) /\ IsFiniteSet(writers')
    BY <1>4, FS_AddElement DEF Counted
  <2>2. Cardinality(writers') = IF export' \in writers THEN Cardinality(writers)
                                ELSE Cardinality(writers) + 1
    BY <1>4, FS_AddElement DEF Counted
  <2>3. Cardinality(writers) \in Nat /\ Cardinality(writers') \in Nat
    BY <2>1, FS_CardinalityType
  <2> QED
    BY <2>1, <2>2, <2>3
<1>6. \A job \in writers' : job.number \in 1..acts'
  BY <1>1, <1>2, <1>4 DEF Counted
<1>7. ASSUME NEW f \in Paths
      PROVE  disk'[f].time + Cardinality(writers') <= acts' + foreign'
  <2>1. disk[f].time \in Nat /\ disk[f].time + Cardinality(writers) <= acts + foreign
    BY SaveAssumption DEF Counted, TypeOK, Times
  <2> QED
    BY <1>1, <1>5, <2>1
<1>8. Counted'
  BY <1>5, <1>6, <1>7 DEF Counted
<1>9. export'.kind = kind /\ export'.content = content
  BY <1>2
<1>10. writers' \subseteq Job /\ acts' \in 0..MaxActs
  BY <1>1, <1>3, <1>4, SaveAssumption DEF TypeOK
<1> QED
  BY <1>1, <1>3, <1>4, <1>8, <1>9, <1>10

\* An answer changes the saved column at most, and what it shows not at all.
LEMMA SavedType ==
  ASSUME TypeOK, answer # "working"
  PROVE  Saved \in [Ids -> Column]
<1>1. CASE answer # "failed" /\ pendingSave = "saveValues" /\ saveColumn \in Active
  <2>1. columns \in [Ids -> Column] /\ answer \in Paths /\ saveColumn \in Ids
        /\ disk[answer].time \in Times
    BY <1>1 DEF TypeOK
  <2>2. Saved = [columns EXCEPT ![saveColumn] =
                   [columns[saveColumn] EXCEPT !.modified = FALSE, !.file = answer,
                                               !.seen = disk[answer].time]]
    BY <1>1, <2>1 DEF Saved
  <2>3. [columns[saveColumn] EXCEPT !.modified = FALSE, !.file = answer,
                                    !.seen = disk[answer].time] \in Column
    BY <2>1 DEF Column
  <2> QED
    BY <2>1, <2>2, <2>3 DEF Ids
<1> QED
  BY <1>1 DEF Saved, TypeOK

\* What is written of a column is a content.
LEMMA WrittenType ==
  ASSUME TypeOK, NEW i \in Ids
  PROVE  Written(columns[i]) \in Contents
<1>1. columns[i].shown \in Contents /\ columns[i].raw \in Contents \union {Nothing}
  BY DEF TypeOK, Column
<1> QED
  BY <1>1 DEF Written, Verbatim

-----------------------------------------------------------------------------
(* The invariant.                                                          *)

LEMMA InitInv == ASSUME Init PROVE IInv
<1> USE SaveAssumption
<1>1. Empty(Nothing) \in Column
  BY EmptyType
<1>2. disk \in [Paths -> [content : Contents, time : Times]]
  BY DEF Init, Contents, Times
<1>3. TypeOK
  BY <1>1, <1>2 DEF Init, TypeOK, Ids
<1>4. IsFiniteSet(writers) /\ Cardinality(writers) = 0
  BY FS_EmptySet DEF Init
<1>5. Counted
  BY <1>4 DEF Init, Counted
<1>6. Careful
  BY DEF Init, Careful, Asked, OneAtATime, Answered
<1> QED
  BY <1>3, <1>5, <1>6 DEF IInv

\* More acts leave room for as many charts.
LEMMA MoreActs ==
  ASSUME NEW n \in Nat, NEW m \in Nat, m >= n, NEW k \in 1..(n + 1)
  PROVE  k \in 1..(m + 1)
OBVIOUS

\* A step of the columns alone.
LEMMA ColumnInv ==
  ASSUME IInv, ColumnAction
  PROVE  IInv'
<1>1. /\ columns' \in [Ids -> Column] /\ count' \in Ids
      /\ acts' \in 0..MaxActs /\ acts' >= acts
      /\ ColumnStep /\ Undisturbed
  BY ColumnsKept DEF IInv
<1>2. acts \in Nat /\ foreign \in Nat
  BY SaveAssumption DEF IInv, TypeOK
<1>3. TypeOK'
  <2>1. chart' \in 1..(acts' + 1)
    <3>1. chart \in 1..(acts + 1) /\ chart' = chart
      BY <1>1 DEF ColumnStep, IInv, TypeOK
    <3>2. acts' \in Nat /\ acts' >= acts
      BY <1>1, SaveAssumption
    <3> QED
      BY <1>2, <3>1, <3>2, MoreActs
  <2>2. TypeOK /\ UNCHANGED <<careful, disk, pendingSave, saveColumn, dialog, export, answer,
                               writers, foreign>>
    BY <1>1 DEF ColumnStep, IInv
  <2> QED
    BY <1>1, <2>1, <2>2 DEF TypeOK
<1>4. Counted'
  <2>1. Cardinality(writers) \in Nat
    BY FS_CardinalityType DEF IInv, Counted
  <2>2. \A f \in Paths : disk[f].time \in Nat
    BY SaveAssumption DEF IInv, TypeOK, Times
  <2> QED
    BY <1>1, <1>2, <2>1, <2>2 DEF ColumnStep, IInv, Counted
<1>5. ASSUME careful', ~Idle
      PROVE  \A content : Kept(saveColumn, content) => Kept(saveColumn, content)'
  BY <1>1, <1>5 DEF ColumnStep, Undisturbed, Kept, Active
<1>6. ASSUME careful'
      PROVE  Careful'
  <2>1. Careful
    BY <1>1, <1>6 DEF ColumnStep, IInv
  <2>2. CASE Idle
    BY <1>1, <2>2 DEF ColumnStep, Idle, Careful, Asked, OneAtATime, Answered
  <2>3. CASE ~Idle
    <3>1. Asked'
      BY <1>1, <1>5, <1>6, <2>1, <2>3 DEF ColumnStep, Careful, Asked
    <3>2. OneAtATime'
      BY <1>1, <1>5, <1>6, <2>1, <2>3 DEF ColumnStep, Careful, OneAtATime
    <3>3. Answered'
      BY <1>1, <2>1 DEF ColumnStep, Careful, Answered
    <3> QED
      BY <3>1, <3>2, <3>3 DEF Careful
  <2> QED
    BY <2>2, <2>3
<1> QED
  BY <1>3, <1>4, <1>6 DEF IInv

LEMMA StepInv == ASSUME IInv, [Next]_vars PROVE IInv'
<1> USE SaveAssumption
<1>0. /\ TypeOK /\ Counted /\ acts \in Nat /\ foreign \in Nat /\ count \in Nat
      /\ Active \subseteq Ids /\ Cardinality(writers) \in Nat
  BY FS_CardinalityType DEF IInv, TypeOK, Counted, Active, Ids
<1>1. CASE ColumnAction
  BY <1>1, ColumnInv
<1>2. CASE ResetState
  <2>1. /\ careful => dialog = NoJob
        /\ acts < MaxActs /\ acts' = acts + 1 /\ chart' = chart + 1 /\ count' = 1
        /\ columns' = [i \in Ids |-> Empty(columns[i].load)] /\ pendingSave' = "saveNone"
        /\ UNCHANGED <<careful, disk, saveColumn, dialog, export, answer, writers, foreign>>
    BY <1>2 DEF ResetState, Act
  <2>2. columns' \in [Ids -> Column]
    <3>1. \A i \in Ids : columns[i].load \in Contents \union {Nothing}
      BY <1>0 DEF TypeOK, Column
    <3> QED
      BY <2>1, <3>1, EmptyType
  <2>3. TypeOK'
    <3>1. count' \in Ids /\ acts' \in 0..MaxActs /\ chart' \in 1..(acts' + 1)
      BY <1>0, <2>1 DEF TypeOK, Ids
    <3> QED
      BY <1>0, <2>1, <2>2, <3>1 DEF TypeOK
  <2>4. Counted'
    <3>1. \A f \in Paths : disk[f].time \in Nat
      BY <1>0 DEF TypeOK, Times
    <3> QED
      BY <1>0, <2>1, <3>1 DEF Counted
  <2>5. careful' => Careful'
    BY <2>1 DEF IInv, Careful, Asked, OneAtATime, Answered
  <2> QED
    BY <2>3, <2>4, <2>5 DEF IInv
<1>3. ASSUME NEW i \in Active, onSaveColumnValues(i)
      PROVE  IInv'
  <2> DEFINE col == columns[i]
  <2>1. /\ MaySave(i) /\ Act /\ pendingSave' = "saveValues" /\ saveColumn' = i
        /\ UNCHANGED <<careful, count, columns, disk, chart, foreign>>
    BY <1>3 DEF onSaveColumnValues
  <2>2. i \in Ids /\ col \in Column /\ Written(col) \in Contents
        /\ col.file \in Paths \union {NoFile} /\ chart \in 1..(acts + 1)
    BY <1>0, WrittenType DEF TypeOK, Column
  <2>3. ASSUME careful
        PROVE  Idle /\ Kept(i, Written(col))'
    BY <2>1, <2>3 DEF MaySave, Written, Verbatim, Kept, Active
  <2>4. CASE Dispatch("saveValues", col.file, Written(col)) /\ UNCHANGED dialog
    <3>1. /\ acts' \in 0..MaxActs /\ acts' = acts + 1
          /\ export' \in Job /\ export'.kind = "saveValues" /\ export'.content = Written(col)
          /\ answer' = "working"
          /\ writers' = writers \union {export'} /\ writers' \subseteq Job
          /\ Counted'
      BY <1>0, <2>1, <2>2, <2>4, DispatchType
    <3>2. TypeOK'
      <4>1. chart' \in 1..(acts' + 1)
        BY <1>0, <2>1, <2>2, <3>1
      <4> QED
        BY <1>0, <2>1, <2>2, <2>4, <3>1, <4>1 DEF TypeOK
    <3>3. careful' => Careful'
      BY <2>1, <2>3, <2>4, <3>1 DEF Idle, Careful, Asked, OneAtATime, Answered
    <3> QED
      BY <3>1, <3>2, <3>3 DEF IInv
  <2>5. CASE /\ col.file # NoFile
             /\ dialog' = [column |-> i, file |-> col.file, content |-> Written(col)]
             /\ UNCHANGED <<export, answer, writers>>
    <3>1. acts < MaxActs /\ acts' = acts + 1
      BY <2>1 DEF Act
    <3>2. TypeOK'
      <4>1. acts' \in 0..MaxActs /\ chart' \in 1..(acts' + 1)
        BY <1>0, <2>1, <2>2, <3>1
      <4>2. dialog' \in [column : Ids, file : Paths, content : Contents]
        BY <2>2, <2>5
      <4> QED
        BY <1>0, <2>1, <2>2, <2>5, <4>1, <4>2 DEF TypeOK
    <3>3. Counted'
      <4>1. \A f \in Paths : disk[f].time \in Nat
        BY <1>0 DEF TypeOK, Times
      <4> QED
        BY <1>0, <2>1, <2>5, <3>1, <4>1 DEF Counted
    <3>4. careful' => Careful'
      <4>1. dialog'.column = i /\ dialog'.content = Written(col)
        BY <2>5
      <4> QED
        BY <2>1, <2>3, <2>5, <4>1 DEF Idle, Careful, Asked, OneAtATime, Answered
    <3> QED
      BY <3>2, <3>3, <3>4 DEF IInv
  <2> QED
    BY <1>3, <2>4, <2>5 DEF onSaveColumnValues
<1>4. ASSUME NEW i \in Active, SaveFailsEarly(i)
      PROVE  IInv'
  <2>1. /\ careful => Idle
        /\ acts < MaxActs /\ acts' = acts + 1 /\ pendingSave' = "saveValues" /\ saveColumn' = i
        /\ UNCHANGED <<careful, count, columns, disk, dialog, export, answer, writers, chart, foreign>>
    BY <1>4 DEF SaveFailsEarly, MaySave, Act
  <2>2. TypeOK'
    <3>1. acts' \in 0..MaxActs /\ chart' \in 1..(acts' + 1) /\ i \in Ids
      BY <1>0, <2>1 DEF TypeOK
    <3> QED
      BY <1>0, <2>1, <3>1 DEF TypeOK
  <2>3. Counted'
    <3>1. \A f \in Paths : disk[f].time \in Nat
      BY <1>0 DEF TypeOK, Times
    <3> QED
      BY <1>0, <2>1, <3>1 DEF Counted
  <2>4. careful' => Careful'
    BY <2>1 DEF Idle, Careful, Asked, OneAtATime, Answered
  <2> QED
    BY <2>2, <2>3, <2>4 DEF IInv
<1>5. CASE ConfirmOverwrite
  <2>1. /\ dialog # NoJob /\ Act /\ pendingSave' = "saveValues" /\ saveColumn' = dialog.column
        /\ Dispatch("saveValues", dialog.file, dialog.content) /\ dialog' = NoJob
        /\ UNCHANGED <<careful, count, columns, disk, chart, foreign>>
    BY <1>5 DEF ConfirmOverwrite
  <2>2. dialog \in [column : Ids, file : Paths, content : Contents] /\ chart \in 1..(acts + 1)
    BY <1>0, <2>1 DEF TypeOK
  <2>3. dialog.column \in Ids /\ dialog.file \in Paths \union {NoFile} /\ dialog.content \in Contents
    BY <2>2
  <2>4. /\ acts' \in 0..MaxActs /\ acts' = acts + 1
        /\ export' \in Job /\ export'.kind = "saveValues" /\ export'.content = dialog.content
        /\ answer' = "working"
        /\ writers' = writers \union {export'} /\ writers' \subseteq Job
        /\ Counted'
    BY <1>0, <2>1, <2>3, DispatchType
  <2>5. TypeOK'
    <3>1. chart' \in 1..(acts' + 1)
      BY <1>0, <2>1, <2>2, <2>4
    <3> QED
      BY <1>0, <2>1, <2>3, <2>4, <3>1 DEF TypeOK
  <2>6. careful' => Careful'
    BY <2>1, <2>4 DEF IInv, Careful, Asked, OneAtATime, Answered, Kept, Active
  <2> QED
    BY <2>4, <2>5, <2>6 DEF IInv
<1>6. CASE DismissOverwriteDialog
  <2>1. /\ dialog' = NoJob
        /\ UNCHANGED <<careful, count, columns, disk, pendingSave, saveColumn, export, answer,
                       writers, chart, acts, foreign>>
    BY <1>6 DEF DismissOverwriteDialog
  <2> QED
    BY <2>1 DEF IInv, TypeOK, Counted, Careful, Asked, OneAtATime, Answered, Kept, Active
<1>7. CASE onSaveCurrentChart
  <2>1. /\ careful => Idle
        /\ Act /\ pendingSave' = "saveTgz" /\ Dispatch("saveTgz", Archive, Archive)
        /\ UNCHANGED <<careful, count, columns, disk, saveColumn, dialog, chart, foreign>>
    BY <1>7 DEF onSaveCurrentChart
  <2>2. chart \in 1..(acts + 1) /\ Archive \in Paths \union {NoFile} /\ Archive \in Contents
    BY <1>0 DEF TypeOK, Paths, Contents
  <2>3. /\ acts' \in 0..MaxActs /\ acts' = acts + 1
        /\ export' \in Job /\ export'.kind = "saveTgz" /\ export'.content = Archive
        /\ answer' = "working"
        /\ writers' = writers \union {export'} /\ writers' \subseteq Job
        /\ Counted'
    BY <1>0, <2>1, <2>2, DispatchType
  <2>4. TypeOK'
    <3>1. chart' \in 1..(acts' + 1)
      BY <1>0, <2>1, <2>2, <2>3
    <3> QED
      BY <1>0, <2>1, <2>3, <3>1 DEF TypeOK
  <2>5. careful' => Careful'
    BY <2>1, <2>3 DEF Idle, Careful, Asked, OneAtATime, Answered
  <2> QED
    BY <2>3, <2>4, <2>5 DEF IInv
<1>8. ASSUME NEW job \in writers, WriteFile(job)
      PROVE  IInv'
  <2>1. PICK f \in Target(job) : /\ Put(f, job.content)
                                 /\ answer' = IF job = export THEN f ELSE answer
    BY <1>8 DEF WriteFile
  <2>2. /\ writers' = writers \ {job}
        /\ UNCHANGED <<careful, count, columns, pendingSave, saveColumn, dialog, export,
                       chart, acts, foreign>>
    BY <1>8 DEF WriteFile
  <2>3. job \in Job
    BY <1>0 DEF TypeOK
  <2>4. f \in Paths /\ job.content \in Contents
    BY <2>1, <2>3 DEF Target, Job, Paths
  <2>5. disk[f].time < MaxActs + MaxForeign
    <3>1. Cardinality(writers \ {job}) = Cardinality(writers) - 1 /\ IsFiniteSet(writers \ {job})
      BY <1>0, FS_RemoveElement DEF Counted
    <3>2. Cardinality(writers \ {job}) \in Nat
      BY <3>1, FS_CardinalityType
    <3>3. disk[f].time \in Nat /\ disk[f].time + Cardinality(writers) <= acts + foreign
          /\ acts <= MaxActs /\ foreign <= MaxForeign
      BY <1>0, <2>4 DEF Counted, TypeOK, Times
    <3> QED
      BY <1>0, <3>1, <3>2, <3>3
  <2>6. /\ disk' \in [Paths -> [content : Contents, time : Times]]
        /\ disk'[f].content = job.content
        /\ \A g \in Paths \ {f} : disk'[g] = disk[g]
        /\ \A g \in Paths : disk'[g].time \in {disk[g].time, disk[g].time + 1}
    BY <1>0, <2>1, <2>4, <2>5, PutType
  <2>7. TypeOK'
    BY <1>0, <2>1, <2>2, <2>4, <2>6 DEF TypeOK
  <2>8. Counted'
    BY <1>0, <2>2, <2>6, FinishCounted
  <2>9. ASSUME careful'
        PROVE  Careful'
    <3>1. Careful /\ careful
      BY <2>2, <2>9 DEF IInv
    <3>2. Asked'
      BY <2>2, <3>1 DEF Careful, Asked, Kept, Active
    <3>3. OneAtATime'
      BY <2>2, <3>1 DEF Careful, OneAtATime, Kept, Active
    <3>4. Answered'
      <4>1. CASE job = export
        BY <2>1, <2>2, <2>6, <3>1, <4>1 DEF Careful, OneAtATime, Answered
      <4>2. CASE job # export
        BY <2>2, <3>1, <4>2 DEF Careful, OneAtATime, Answered
      <4> QED
        BY <4>1, <4>2
    <3> QED
      BY <3>2, <3>3, <3>4 DEF Careful
  <2> QED
    BY <2>7, <2>8, <2>9 DEF IInv
<1>9. ASSUME NEW job \in writers, WriteFails(job)
      PROVE  IInv'
  <2>1. /\ answer' = IF job = export THEN "failed" ELSE answer
        /\ writers' = writers \ {job}
        /\ UNCHANGED <<careful, count, columns, disk, pendingSave, saveColumn, dialog, export,
                       chart, acts, foreign>>
    BY <1>9 DEF WriteFails
  <2>2. TypeOK'
    BY <1>0, <2>1 DEF TypeOK
  <2>3. Counted'
    BY <1>0, <2>1, FinishCounted
  <2>4. ASSUME careful'
        PROVE  Careful'
    <3>1. Careful
      BY <2>1, <2>4 DEF IInv
    <3>2. Asked' /\ OneAtATime'
      BY <2>1, <3>1 DEF Careful, Asked, OneAtATime, Kept, Active
    <3>3. Answered'
      <4>1. "failed" \notin Paths
        BY DEF Paths
      <4> QED
        BY <2>1, <3>1, <4>1 DEF Careful, OneAtATime, Answered
    <3> QED
      BY <3>2, <3>3 DEF Careful
  <2> QED
    BY <2>2, <2>3, <2>4 DEF IInv
<1>10. ASSUME NEW f \in Files, ForeignWrite(f)
       PROVE  IInv'
  <2>1. /\ foreign < MaxForeign /\ foreign' = foreign + 1 /\ Put(f, Foreign)
        /\ UNCHANGED <<careful, count, columns, pendingSave, saveColumn, dialog, export, answer,
                       writers, chart, acts>>
    BY <1>10 DEF ForeignWrite
  <2>2. f \in Paths /\ Foreign \in Contents
    BY DEF Paths, Contents
  <2>3. disk[f].time < MaxActs + MaxForeign
    <3>1. disk[f].time \in Nat /\ disk[f].time + Cardinality(writers) <= acts + foreign
          /\ acts <= MaxActs
      BY <1>0, <2>2 DEF Counted, TypeOK, Times
    <3> QED
      BY <1>0, <2>1, <3>1
  <2>4. /\ disk' \in [Paths -> [content : Contents, time : Times]]
        /\ disk'[f].content = Foreign
        /\ \A g \in Paths \ {f} : disk'[g] = disk[g]
        /\ \A g \in Paths : disk'[g].time \in {disk[g].time, disk[g].time + 1}
    BY <1>0, <2>1, <2>2, <2>3, PutType
  <2>5. TypeOK'
    <3>1. foreign' \in 0..MaxForeign
      BY <1>0, <2>1
    <3> QED
      BY <1>0, <2>1, <2>4, <3>1 DEF TypeOK
  <2>6. Counted'
    <3>1. ASSUME NEW g \in Paths
          PROVE  disk'[g].time + Cardinality(writers) <= acts + foreign'
      <4>1. disk[g].time \in Nat /\ disk[g].time + Cardinality(writers) <= acts + foreign
        BY <1>0 DEF Counted, TypeOK, Times
      <4> QED
        BY <1>0, <2>1, <2>4, <4>1
    <3> QED
      BY <1>0, <2>1, <3>1 DEF Counted
  <2>7. careful' => Careful'
    BY <2>1, <2>4 DEF IInv, Careful, Asked, OneAtATime, Answered, Kept, Active
  <2> QED
    BY <2>5, <2>6, <2>7 DEF IInv
<1>11. CASE pollExportRunner
  <2>1. /\ export # NoJob /\ answer # "working" /\ columns' = Saved
        /\ pendingSave' = "saveNone" /\ export' = NoJob /\ answer' = "working"
        /\ UNCHANGED <<careful, count, disk, saveColumn, dialog, writers, chart, acts, foreign>>
    BY <1>11 DEF pollExportRunner
  <2>2. TypeOK'
    BY <1>0, <2>1, SavedType DEF TypeOK
  <2>3. Counted'
    BY <1>0, <2>1 DEF Counted
  <2>4. careful' => Careful'
    BY <2>1 DEF IInv, Careful, Asked, OneAtATime, Answered
  <2> QED
    BY <2>2, <2>3, <2>4 DEF IInv
<1>12. CASE NoAnswer
  <2>1. /\ export # NoJob /\ export' = NoJob /\ answer' = "working"
        /\ UNCHANGED <<careful, count, columns, disk, pendingSave, saveColumn, dialog, writers,
                       chart, acts, foreign>>
    BY <1>12 DEF NoAnswer
  <2>2. TypeOK' /\ Counted'
    BY <1>0, <2>1 DEF TypeOK, Counted
  <2>3. careful' => Careful'
    BY <2>1 DEF IInv, Careful, Asked, OneAtATime, Answered
  <2> QED
    BY <2>2, <2>3 DEF IInv
<1>13. CASE UNCHANGED vars
  BY <1>13 DEF vars, IInv, TypeOK, Counted, Careful, Asked, OneAtATime, Answered, Kept, Active
<1> QED
  BY <1>1, <1>2, <1>3, <1>4, <1>5, <1>6, <1>7, <1>8, <1>9, <1>10, <1>11, <1>12, <1>13
     DEF Next, ColumnAction

\* The invariant of saving.
THEOREM SaveInvariant == Spec => []IInv
BY InitInv, StepInv, PTL DEF Spec

\* What the user does, the disk, the operations and their answers keep their types.
THEOREM TypeCorrect == Spec => []TypeOK
BY SaveInvariant, PTL DEF IInv

\* An answer is of the one operation under way, which wrote what the column
\* has shown since.
THEOREM SavedOnDisk == Spec => SavedIsOnDisk
<1>1. ASSUME IInv, careful, pollExportRunner
      PROVE  \A i \in Ids :
               columns[i].modified /\ ~columns'[i].modified =>
                 /\ columns'[i].file # NoFile
                 /\ disk[columns'[i].file].content \in {columns'[i].shown, Foreign}
  <2>1. SUFFICES ASSUME NEW i \in Ids, columns[i].modified, ~columns'[i].modified
                 PROVE  /\ columns'[i].file # NoFile
                        /\ disk[columns'[i].file].content \in {columns'[i].shown, Foreign}
    OBVIOUS
  <2>2. /\ export # NoJob /\ answer # "working" /\ columns' = Saved
        /\ columns \in [Ids -> Column] /\ columns[i] \in Column
        /\ answer \in Paths \union {"working", "failed"} /\ Careful
    BY <1>1 DEF pollExportRunner, IInv, TypeOK
  <2>3. answer # "failed" /\ pendingSave = "saveValues" /\ saveColumn \in Active
    BY <2>1, <2>2 DEF Saved
  <2>4. columns' = [columns EXCEPT ![saveColumn].modified = FALSE, ![saveColumn].file = answer,
                                   ![saveColumn].seen = disk[answer].time]
    BY <2>2, <2>3 DEF Saved
  <2>5. i = saveColumn
    BY <2>1, <2>2, <2>4
  <2>6. columns'[i].file = answer /\ columns'[i].shown = columns[i].shown
    BY <2>2, <2>4, <2>5 DEF Column
  <2>7. answer \in Paths /\ NoFile \notin Paths
    BY <2>2, <2>3, SaveAssumption DEF Paths
  <2>8. columns[i].shown = export.content
    BY <2>2, <2>3, <2>5 DEF Careful, OneAtATime, Kept
  <2>9. disk[answer].content \in {export.content, Foreign}
    BY <2>2, <2>7 DEF Careful, Answered
  <2> QED
    BY <2>6, <2>7, <2>8, <2>9
<1> QED
  BY <1>1, SaveInvariant, PTL DEF SavedIsOnDisk
=============================================================================
