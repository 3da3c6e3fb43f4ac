----------------------------- MODULE Documents ------------------------------
(***************************************************************************)
(* One override column over one values file: what is typed into its cells  *)
(* becomes overrides (src/ui/state/editor_state.go), is parsed again while *)
(* the user types (values_controller.go) and is written back by a save     *)
(* (values_controller_actions.go), through YamlText.  Cells are nullified  *)
(* and anchors declared, used, renamed and taken away on the parsed tree.  *)
(*                                                                         *)
(* A cell is a comment above the value, the value and a comment behind it; *)
(* a cell without a value is Blank.  The cell of a section is its comment. *)
(***************************************************************************)
EXTENDS YamlText

CONSTANTS
  Texts,        \* the files that may be opened
  Defaults,     \* the keys the chart declares, in the order of its values.yaml
  Vals,         \* what may be typed
  Comments,     \* what may be typed as a comment
  Anchors,      \* names that may be given
  Blank,        \* a cell without text
  NoText,       \* nothing to parse
  NoValues,     \* col.CustomValues = nil
  MaxEdits      \* bound on what the user does

\* What may stand for a value, a comment or an anchor.
Words ==
    {None, Null, Empty, Blank} \union Vals \union Comments \union Anchors \union
    UNION {{t.banner} \union UNION {{n.val, n.anchor, n.head, n.line, n.foot} : n \in ToSet(t.lines)} :
           t \in Texts}

Paths == Seq(Names \union Nat \union {Merge, Off} \union Words) \ {<<>>}

NodeType ==
    [path : Paths, kind : {"map", "seq", "scalar", "alias"}, val : Words,
     style : {"plain", "quoted", "block"}, anchor : Words,
     head : Words, line : Words, foot : Words, keyAt : Nat, at : Nat]

LineType ==
    [path : Paths, kind : {"map", "seq", "scalar", "alias"}, val : Words,
     style : {"plain", "quoted", "block"}, anchor : Words,
     head : Words, line : Words, foot : Words,
     blank : BOOLEAN, bytes : {"source", "encoder"}]

TextType ==
    [banner : Words, coding : {"plain"} \union {t.coding : t \in Texts}, lines : Seq(LineType)]

\* A reader of the file (flattenValues) and a reader of its tree
\* (findEffectiveScalar, treeNodeMatchesContainerType) read the same: a load
\* takes the values of scalars from the tree (rewriteValuesFromNodeTree).
ReadersAgree(lines) ==
    LET doc  == Nodes(lines)
        vals == flattenValues(doc)
    IN  \A p \in DOMAIN vals :
          IF vals[p] \in {None, Empty} THEN treeNodeMatchesContainerType(doc, p)
          ELSE findEffectiveScalar(doc, p) = vals[p]

\* Nobody types a text that is none, a null is told from an empty container,
\* and the file that is opened was parsed; Off is a key of none.
ASSUME DocumentsAssumption ==
    /\ MaxEdits \in Nat
    /\ Blank \notin Vals /\ Null \notin {None, Empty}
    /\ Defaults \in Seq(Paths)
    /\ Texts \subseteq TextType
    /\ \A t \in Texts :
         /\ Parses(t.lines) /\ ReadersAgree(t.lines)
         /\ \A n \in ToSet(t.lines) : isAttached(n)

VARIABLES
  opened,       \* the text the column was loaded from
  disk,         \* the file
  values,       \* col.CustomValues
  entries,      \* vc.State.Entries: the keys in order, and their comments
  cells,        \* col.OverrideEditors, by key
  nullified,    \* col.NullifiedKeys
  asked,        \* the text EditorParseRunner is parsing
  modified,     \* col.ValuesModified
  edits,        \* how much the user has done
  anchored      \* the user has worked on anchors

vars == <<opened, disk, values, entries, cells, nullified, asked, modified, edits, anchored>>

-----------------------------------------------------------------------------
(* Loading. *)

\* ReadAndMergeCustomValues of one file.
Loaded(text) ==
    LET tree == Nodes(text.lines)
    IN  [raw |-> text, tree |-> tree, vals |-> flattenValues(tree),
         comments |-> parseComments(text.lines), docs |-> parseOrphanComments(text),
         coding |-> text.coding]

EmptyText == [banner |-> None, coding |-> "plain", lines |-> <<>>]

\* What ParseEditorContent makes of a text that belongs to no file.
Parsed(text) ==
    [Loaded(EmptyText) EXCEPT !.tree = Nodes(text.lines), !.vals = flattenValues(Nodes(text.lines))]

\* The keys of the chart, then those of the file alone, in the order of the
\* file (the program sorts them); a comment is always one of the file.
RebuildUnifiedEntries(v) ==
    LET files == Expanded(v.tree)
        paths == [i \in DOMAIN files |-> files[i].path]
        own   == {i \in DOMAIN files : paths[i] \in DOMAIN v.vals \ ToSet(Defaults)}
    IN  [order |-> Defaults \o Picked(paths, own), comments |-> v.comments]

NoCell == [head |-> None, val |-> Blank, line |-> None]

rows == ToSet(entries.order)

IsSection(r) == \E q \in rows : q # r /\ Below(r, q)

Leaves == {r \in rows : ~IsSection(r)}

Said(comments, r) == IF r \in DOMAIN comments THEN comments[r] ELSE None

\* loadFormForEditor: the comment, then the value.
loadFormForEditor(v, r) ==
    [head |-> Said(v.comments, r),
     val |-> IF v.vals[r] = None THEN Blank ELSE v.vals[r], line |-> None]

\* populateColumnOverrides: the file is the source of truth for every cell,
\* and its explicit nulls are nullified.
populated(text) ==
    LET v == Loaded(text)
    IN  [r \in ToSet(RebuildUnifiedEntries(v).order) |->
            IF r \in DOMAIN v.vals THEN loadFormForEditor(v, r) ELSE NoCell]

nulls(v) == {r \in DOMAIN v.vals : v.vals[r] = Null}

Init ==
    /\ opened \in Texts
    /\ disk = opened
    /\ values = Loaded(opened)
    /\ entries = RebuildUnifiedEntries(values)
    /\ cells = populated(opened)
    /\ nullified = nulls(values)
    /\ asked = NoText
    /\ modified = FALSE
    /\ edits = 0
    /\ anchored = FALSE

-----------------------------------------------------------------------------
(* Cells to text. *)

StrictAncestors(r) == ToSet(Walk(Parent(r)))

hasNullifiedAncestor(r, ns) == StrictAncestors(r) \cap ns # {}

CommentOf(r) == Said(entries.comments, r)

IsLoaded(v, r) == v # NoValues /\ r \in DOMAIN v.vals

\* A section of the file whose comment is empty passes for an entry that was
\* not edited.
isPlainSection(v, cs, r) ==
    IsSection(r) /\ IsLoaded(v, r) /\ v.vals[r] = None /\ CommentOf(r) = None /\ cs[r].head = None

\* Nullified keys that have no row come last (the program sorts them).
orphans(ns) == SetToSeq({r \in ns \ rows : ~hasNullifiedAncestor(r, ns)})

\* collectOverrides: nothing below a nullified key, and a null for the key;
\* the comment that was loaded comes back as one above the value.
collectOverrides(v, cs, ns) ==
    LET isWanted(r) == /\ ~hasNullifiedAncestor(r, ns)
                       /\ \/ r \in ns
                          \/ isPlainSection(v, cs, r)
                          \/ ~IsSection(r) /\ cs[r].val # Blank
        wanted == Picked(entries.order, {i \in DOMAIN entries.order : isWanted(entries.order[i])})
        isNull(r) == IsLoaded(v, r) /\ v.vals[r] = Null /\ r \notin ToSet(Defaults)
    IN  [i \in DOMAIN wanted |->
            LET r == wanted[i]
            IN  IF r \in ns THEN Entry(r, Null, CommentOf(r), None, TRUE)
                ELSE IF IsSection(r) THEN Entry(r, Empty, None, None, FALSE)
                ELSE Entry(r, cs[r].val, cs[r].head, cs[r].line, isNull(r))]
        \o [i \in DOMAIN orphans(ns) |-> Entry(orphans(ns)[i], Null, None, None, TRUE)]

\* OverridesToYAML over SaveInputs.
WithOverrides(v, overrides, docs) ==
    IF overrides = <<>> /\ docs.banner = None /\ DOMAIN docs.foots = {} THEN EmptyText
    ELSE IF v = NoValues THEN FlatEntriesToYAML(overrides, docs)
    ELSE PatchSourceText(v.raw, v.tree, overrides, docs)

OverridesToYAML(v, cs, ns) ==
    WithOverrides(v, collectOverrides(v, cs, ns), IF v = NoValues THEN NoDocs ELSE v.docs)

\* onColumnOverrideChanged: the text is parsed by a goroutine, and a column
\* without text loses its values at once.
Parse(text, v) ==
    IF text = EmptyText THEN values' = NoValues /\ UNCHANGED asked
    ELSE asked' = text /\ values' = v

Publish(v, cs, ns) ==
    /\ modified' = TRUE
    /\ cells' = cs
    /\ nullified' = ns
    /\ Parse(OverridesToYAML(v, cs, ns), v)

\* MergeLoadedMetadata: new values under the tree, the comments and the bytes
\* of the load; the encoding and the edited heads of sections are left out.
MergeLoadedMetadata(parsed, loaded) ==
    [loaded EXCEPT !.vals = parsed.vals, !.coding = parsed.coding, !.docs.heads = <<>>,
                   !.comments = [p \in DOMAIN @ \cap DOMAIN parsed.vals |-> @[p]]]

\* Mutant: the texts stay where they are when the keys move.
RealignByIndex(old, new, cs) ==
    [r \in ToSet(new) |->
        LET i == CHOOSE k \in DOMAIN new : new[k] = r
        IN  IF i \in DOMAIN old THEN cs[old[i]] ELSE NoCell]

\* Cells go with their keys; a key that is gone takes its text with it.
RealignEditorTextByKey(old, new, cs) ==
    [r \in ToSet(new) |-> IF r \in ToSet(old) THEN cs[r] ELSE NoCell]

pollEditorParse ==
    /\ asked # NoText
    /\ asked' = NoText
    /\ values' = IF ~Parses(asked.lines) THEN values
                 ELSE IF values = NoValues THEN Parsed(asked)
                 ELSE MergeLoadedMetadata(Parsed(asked), values)
    /\ entries' = IF ~Parses(asked.lines) THEN entries
                  ELSE RebuildUnifiedEntries([values' EXCEPT !.tree = Nodes(asked.lines)])
    /\ cells' = RealignEditorTextByKey(entries.order, entries'.order, cells)
    /\ UNCHANGED <<opened, disk, nullified, modified, edits, anchored>>

-----------------------------------------------------------------------------
(* Typing. *)

Edits ==
    /\ edits < MaxEdits
    /\ edits' = edits + 1
    /\ UNCHANGED <<opened, disk, entries>>

Tree == IF values = NoValues THEN <<>> ELSE values.tree

badges == ExtractAnchors(Tree)

\* propagateAnchoredValueEdit: the text goes to every cell that repeats it.
\* The key of an item of a list gets a dot too many and is not found.
Mirrors(r) ==
    LET above == {p \in DOMAIN badges : badges[p].role = "anchor" /\ Below(p, r)}
    IN  IF above = {} THEN {}
        ELSE LET base   == CHOOSE p \in above : \A q \in above : Len(q) <= Len(p)
                 suffix == SubSeq(r, Len(base) + 1, Len(r))
             IN  IF suffix # <<>> /\ isIndex(suffix[1]) THEN {}
                 ELSE {q \in rows : \E p \in DOMAIN badges :
                         /\ badges[p] = [role |-> "alias", name |-> badges[base].name]
                         /\ q = p \o suffix}

\* Typing ends the null of the cell and of everything above it, unless what
\* is typed is nothing or a null.
ClearNullified(r, cell) ==
    IF cell.val \in {Blank, Null} THEN nullified ELSE nullified \ (StrictAncestors(r) \union {r})

\* processEditorChanges and commitOverrideUpdate; a cell that is an alias is
\* set back, and the user asked to unlock it.
Type(r, cell) ==
    /\ Edits
    /\ r \in Leaves /\ cell # cells[r]
    /\ ~(r \in DOMAIN badges /\ badges[r].role = "alias")
    /\ Publish(values,
               [q \in DOMAIN cells |-> IF q = r \/ q \in Mirrors(r) THEN cell ELSE cells[q]],
               ClearNullified(r, cell))
    /\ UNCHANGED anchored

TypedValues(r) == {NoCell} \union {[cells[r] EXCEPT !.val = v] : v \in Vals}

\* A comment goes above a value or behind it, but not behind a null.
CommentFields(r) ==
    IF cells[r].val = Blank THEN {} ELSE {"head"} \union (IF cells[r].val = Null THEN {} ELSE {"line"})

TypedComments(r) ==
    {[cells[r] EXCEPT ![f] = c] : c \in Comments, f \in CommentFields(r)}

TypeText(r) == \E cell \in TypedValues(r) \union TypedComments(r) : Type(r, cell)

\* onCommentChanged: the comment of a section, the banner, or a block that
\* trails a value.
CommentsOf(cs) == [r \in {q \in DOMAIN cs : IsSection(q) /\ cs[q].head # None} |-> cs[r].head]

onCommentChanged ==
    /\ values # NoValues
    /\ Edits
    /\ modified' = TRUE
    /\ \E c \in Comments :
         \/ /\ \E r \in rows \ Leaves :
                 /\ r \in DOMAIN cells /\ cells[r].head # c
                 /\ cells' = [cells EXCEPT ![r].head = c]
            /\ values' = [values EXCEPT !.docs.heads = CommentsOf(cells')]
         \/ /\ values.docs.banner \notin {None, c}
            /\ values' = [values EXCEPT !.docs.banner = c, !.docs.heads = CommentsOf(cells)]
            /\ UNCHANGED cells
         \/ /\ \E p \in DOMAIN values.docs.foots :
                 /\ values.docs.foots[p] # c
                 /\ values' = [values EXCEPT !.docs.foots[p] = c,
                                             !.docs.heads = CommentsOf(cells)]
            /\ UNCHANGED cells
    /\ UNCHANGED <<nullified, asked, anchored>>

-----------------------------------------------------------------------------
(* Nullifying. *)

severAnchorAtKey(tree, r) ==
    LET shown == ExtractAnchors(tree)
    IN  IF r \notin DOMAIN shown THEN tree
        ELSE IF shown[r].role = "anchor" THEN DeleteAnchor(tree, shown[r].name)
        ELSE ClearNodeAlias(tree, r)

severAnchorsInSubtree(tree, r) ==
    LET under == {i \in DOMAIN entries.order : entries.order[i] # r /\ Below(r, entries.order[i])}
        keys  == Picked(entries.order, under)
        upTo[i \in 0 .. Len(keys)] ==
            IF i = 0 THEN tree ELSE severAnchorAtKey(upTo[i - 1], keys[i])
    IN  upTo[Len(keys)]

Severed(r) ==
    IF values = NoValues THEN values
    ELSE [values EXCEPT !.tree = severAnchorAtKey(severAnchorsInSubtree(@, r), r)]

\* A section loses the text of everything below it; a leaf keeps its comment,
\* and shows a null where it had one or showed nothing.
nullifyCell(r) ==
    [v |-> Severed(r),
     cs |-> [q \in DOMAIN cells |->
                IF q # r /\ Below(r, q) THEN NoCell
                ELSE IF q = r /\ r \in Leaves /\ (cells[r].head # None \/ cells[r].val = Blank)
                THEN [cells[r] EXCEPT !.val = Null, !.line = None]
                ELSE cells[q]],
     ns |-> nullified \union {r}]

unnullifyCell(r) ==
    [v |-> values, cs |-> IF IsSection(r) THEN cells ELSE [cells EXCEPT ![r] = NoCell],
     ns |-> nullified \ (StrictAncestors(r) \union {r})]

\* On, off, or out of the reach of a nullified section.
Nullify(r) ==
    IF r \in nullified THEN unnullifyCell(r)
    ELSE IF hasNullifiedAncestor(r, nullified)
    THEN [v |-> values, cs |-> cells, ns |-> nullified \ StrictAncestors(r)]
    ELSE nullifyCell(r)

onCellNullify(r) ==
    /\ Edits
    /\ anchored' = (anchored \/ Severed(r) # values)
    /\ \E edit \in {Nullify(r)} : Publish(edit.v, edit.cs, edit.ns)

-----------------------------------------------------------------------------
(* Anchors. *)

\* cellValueAndType: the text of the cell, else the default, here a null.
cellValue(r) == IF cells[r].val = Blank THEN Null ELSE cells[r].val

OnTree(tree) ==
    /\ Edits
    /\ values' = [(IF values = NoValues THEN Loaded(EmptyText) ELSE values) EXCEPT !.tree = tree]
    /\ modified' = TRUE
    /\ anchored' = TRUE
    /\ UNCHANGED <<asked, nullified>>

\* Two anchors of one name are outside the model.
onAnchorCreate(r, name) ==
    /\ ~IsSection(r) /\ findAnchorNode(Tree, name) = Nowhere
    /\ OnTree(SetNodeAnchor(EnsurePath(Tree, r, cellValue(r)), r, name))
    /\ UNCHANGED cells

\* The cell shows what it repeats.
onAnchorAlias(r, name) ==
    /\ ~IsSection(r)
    /\ findAnchorNode(Tree, name) \notin {Nowhere, r}
    /\ ~Below(findAnchorNode(Tree, name), r)
    /\ OnTree(SetNodeAlias(EnsurePath(Tree, r, cellValue(r)), r, name))
    /\ LET shown == findEffectiveScalar(values'.tree, r)
       IN  cells' = IF shown = None THEN cells
                    ELSE [cells EXCEPT ![r] = [NoCell EXCEPT !.val = shown]]

onUnlockCell(r) ==
    /\ r \in DOMAIN badges
    /\ OnTree(IF badges[r].role = "anchor" THEN ClearNodeAnchor(Tree, r)
              ELSE ClearNodeAlias(Tree, r))
    /\ UNCHANGED cells

onAnchorRename(old, new) ==
    /\ findAnchorNode(Tree, old) # Nowhere /\ findAnchorNode(Tree, new) = Nowhere
    /\ OnTree(RenameAnchor(Tree, old, new))
    /\ UNCHANGED cells

\* onAnchorDelete: every alias becomes a copy.
onAnchorDelete(name) ==
    /\ findAnchorNode(Tree, name) # Nowhere
    /\ OnTree(DeleteAnchor(Tree, name))
    /\ UNCHANGED cells

-----------------------------------------------------------------------------
(* Saving. *)

\* onSaveColumnValues of a modified column: the text of the cells in the
\* encoding of the values.
onSaveColumnValues ==
    /\ modified
    /\ disk' = EncodeForFile(OverridesToYAML(values, cells, nullified),
                             IF values = NoValues THEN "plain" ELSE values.coding)
    /\ modified' = FALSE
    /\ UNCHANGED <<opened, values, entries, cells, nullified, asked, edits, anchored>>

Next ==
    \/ \E r \in rows : TypeText(r) \/ onCellNullify(r)
    \/ onCommentChanged
    \/ \E r \in rows, n \in Anchors : onAnchorCreate(r, n) \/ onAnchorAlias(r, n)
    \/ \E r \in rows : onUnlockCell(r)
    \/ \E m, n \in Anchors : onAnchorRename(m, n)
    \/ \E n \in Anchors : onAnchorDelete(n)
    \/ pollEditorParse
    \/ onSaveColumnValues

Spec == Init /\ [][Next]_vars

-----------------------------------------------------------------------------

\* A function from keys to words.
IsSaying(f) == \A p \in DOMAIN f : p \in Paths /\ f[p] \in Words

IsValues(v) ==
    /\ DOMAIN v = {"raw", "tree", "vals", "comments", "docs", "coding"}
    /\ v.raw \in TextType /\ v.tree \in Seq(NodeType)
    /\ IsSaying(v.vals) /\ IsSaying(v.comments)
    /\ DOMAIN v.docs = {"banner", "foots", "heads"}
    /\ v.docs.banner \in Words /\ IsSaying(v.docs.foots) /\ IsSaying(v.docs.heads)
    /\ v.coding \in {"plain", opened.coding}

\* What is loaded, parsed or saved is a document, and there is a cell for every
\* row, with a comment behind the value only where there is a value.
TypeOK ==
    /\ opened \in Texts
    /\ disk \in TextType
    /\ asked \in TextType \union {NoText}
    /\ values = NoValues \/ IsValues(values)
    /\ DOMAIN entries = {"order", "comments"}
    /\ entries.order \in Seq(Paths) /\ IsSaying(entries.comments)
    /\ cells \in [rows -> [head : Words, val : Words, line : Words]]
    /\ \A r \in rows : cells[r].line # None => cells[r].val # Blank
    /\ nullified \subseteq Paths /\ IsFiniteSet(nullified)
    /\ modified \in BOOLEAN /\ anchored \in BOOLEAN /\ edits \in 0 .. MaxEdits

Settled == ~modified /\ edits > 0

shown(r) ==
    IF r \in nullified THEN Null ELSE cells[r].val

\* No alias and no merge key of the opened file stands at or above the row.
ownRow(r) ==
    \A n \in ToSet(opened.lines) : n.kind = "alias" =>
        ~Below(IF isMerge(n.path) THEN Parent(n.path) ELSE n.path, r)

onDisk == flattenValues(Nodes(disk.lines))

\* A saved file that can be read holds what the table shows: the value of
\* every cell that no alias or merge key fills and that no nullified section
\* covers, and a null for a nullified one, whichever of splice, encoder and
\* the passes that bring source lines back wrote it.
SavedShowsCells ==
    Settled /\ ~anchored /\ Parses(disk.lines) =>
        \A r \in Leaves :
            /\ ownRow(r) /\ ~hasNullifiedAncestor(r, nullified) /\ shown(r) # Blank
            => r \in DOMAIN onDisk /\ onDisk[r] = shown(r)

Unedited(p) ==
    \A r \in DOMAIN populated(opened) : Below(p, r) \/ Below(r, p) =>
        /\ r \in DOMAIN cells
        /\ Below(p, r) => cells[r] = populated(opened)[r]
        /\ r \in nullified => r \in nulls(Loaded(opened))

\* What a line belongs to: its key, the map it is merged into, or the list it
\* is in, of which a cleared item takes the line of the one behind it.
holder(p) ==
    LET items == {k \in DOMAIN p : isIndex(p[k])}
    IN  IF items # {} THEN SubSeq(p, 1, Min(items) - 1)
        ELSE IF isMerge(p) THEN Parent(p) ELSE p

\* Nobody edited what a line of the opened file says, nor what its alias repeats.
UneditedLine(n) ==
    /\ Unedited(holder(n.path))
    /\ n.kind = "alias" => Unedited(findAnchorNode(Nodes(opened.lines), n.val))

\* "Leaves whose editor value equals the underlying scalar (after alias
\* resolution) are left untouched, so aliases survive unedited saves": an alias
\* whose place and whose anchor were left alone is an alias in the saved file,
\* whatever else was edited, as long as the column was never emptied: then the
\* values of the file are gone, and what is typed back is no alias.
UneditedAliasKept ==
    Settled /\ ~anchored /\ values # NoValues /\ values.raw = opened =>
        \A n \in ToSet(opened.lines) :
            n.kind = "alias" /\ UneditedLine(n)
            => Has(disk.lines, n.path) /\ At(disk.lines, n.path).kind = "alias"

\* The rows whose value was changed, and nothing else of them: it was a plain
\* scalar of the file without an anchor, which the splice would take for a part
\* of the value (AnchorsAreSaved), and no parse has taken the cell for a null,
\* which has its own type.
revalued(r) ==
    /\ r \in Leaves /\ r \in DOMAIN Loaded(opened).vals /\ Has(opened.lines, r)
    /\ LET n == At(opened.lines, r)
       IN  n.kind = "scalar" /\ n.style = "plain" /\ n.val # Null /\ n.anchor = None
    /\ cells[r].val \notin {Blank, Empty}
    /\ cells[r] = [populated(opened)[r] EXCEPT !.val = cells[r].val]
    /\ IsLoaded(values, r) => values.vals[r] # Null

\* Nothing but the values of cells was edited, as far as a save can see: the
\* values are those of a file that holds some, with its comments, its nulls and
\* its rows, and no key has become a section (SectionsAreSkipped).
OnlyValuesEdited ==
    /\ ~anchored /\ values # NoValues /\ opened.lines # <<>>
    /\ values.raw = opened /\ values.docs = parseOrphanComments(opened)
    /\ LET file   == Loaded(opened)
           before == populated(opened)
       IN  /\ nullified = nulls(file) /\ DOMAIN cells = DOMAIN before
           /\ \A r \in rows : cells[r] = before[r] \/ revalued(r)
           /\ \A r \in nullified : CommentOf(r) = Said(file.comments, r)
           /\ \A r \in rows : IsSection(r) /\ IsLoaded(values, r) /\ values.vals[r] = None =>
                r \in DOMAIN file.vals /\ file.vals[r] \in {None, Empty}

\* The lines of the edited values have them, every other line is as it was.
OnlyTheirLinesDiffer(text) ==
    LET before == populated(opened)
    IN  /\ text.banner = opened.banner
        /\ Len(text.lines) = Len(opened.lines)
        /\ \A i \in DOMAIN opened.lines :
             LET was == opened.lines[i]
             IN  text.lines[i] =
                   IF was.path \in rows /\ cells[was.path] # before[was.path]
                   THEN [was EXCEPT !.val = cells[was.path].val] ELSE was

\* "For value-only edits to plain scalars, the output differs from raw by
\* exactly one line per edit, with everything else byte-identical": comments,
\* blank lines and aliases included, however the user got there.
ValueEditsChangeOnlyTheirLines ==
    [][/\ modified /\ ~modified' /\ OnlyValuesEdited
       /\ OverridesToYAML(values, cells, nullified) # EmptyText
       => OnlyTheirLinesDiffer(disk')]_vars

\* "inter-node blank lines, ... byte-verbatim block scalars, ...
\* and semantically-equivalent leaves": a value nobody edited has its line in
\* the saved file as it was, with its bytes, its comments and the blank lines
\* behind it, whatever was edited elsewhere and whoever wrote the file.
UneditedLinesKept ==
    Settled /\ ~anchored /\ values # NoValues /\ values.raw = opened /\ Parses(disk.lines) =>
        \A n \in ToSet(opened.lines) :
            n.kind \in {"scalar", "alias"} /\ UneditedLine(n)
            => \E m \in ToSet(disk.lines) : n = [m EXCEPT !.foot = n.foot]

\* The answer of a parse never takes away what has been typed meanwhile.  What
\* an alias put into a cell was not typed, and may be newer than the parse.
TypedTextStays ==
    [][asked # NoText /\ asked' = NoText /\ ~anchored =>
         \A r \in Leaves : cells[r].val # Blank => r \in rows' /\ cells'[r] = cells[r]]_vars

\* "Section headers and orphan-comment rows are skipped": the row of a section
\* never becomes a value in the file.
SectionsAreSkipped ==
    Settled => \A r \in rows \ Leaves :
        r \notin nullified /\ Has(disk.lines, r) => At(disk.lines, r).kind # "scalar"

\* "Saving a nullified section produces a single null at the section's path."
NullifiedIsOneNull ==
    Settled =>
        \A r \in nullified : ~hasNullifiedAncestor(r, nullified) =>
            {n.path : n \in {m \in ToSet(disk.lines) : Below(r, m.path)}} = {r}

\* "When any entry blocks the splice (new keys, removed keys, ...) the pipeline
\* falls through to the full PatchNodeTree encoder": a cell that was cleared
\* leaves no line behind.
ClearedIsGone ==
    Settled /\ ~anchored =>
        \A r \in Leaves :
            cells[r].val = Blank /\ r \notin nullified /\ ~hasNullifiedAncestor(r, nullified)
            => ~Has(disk.lines, r)

\* "Editing the anchor's scalar (or a leaf under an anchored mapping) must
\* visually update the parallel alias cells - without this the UI drifts from
\* what the saved file will contain."
CellsFollowAnchors ==
    Settled /\ ~anchored /\ Parses(disk.lines) =>
        \A r \in Leaves : r \notin nullified /\ cells[r].val # Blank =>
            r \in DOMAIN onDisk /\ onDisk[r] = cells[r].val

\* "Mutates the column's NodeTree directly so the next save preserves the
\* anchor": what is anchored in the table is anchored in the saved file.
AnchorsAreSaved ==
    Settled /\ values # NoValues =>
        \A n \in ToSet(Attached(values.tree)) : n.anchor # None =>
            Has(disk.lines, n.path) /\ At(disk.lines, n.path).anchor = n.anchor

\* "The anchor definition elsewhere stays intact; only this usage site is
\* severed": a cell that nobody edited keeps its value in the saved file when an
\* alias is unlocked and what was below it is edited.
UnlockIsLocal ==
    Settled /\ values # NoValues /\ Parses(disk.lines) =>
        \A r \in Leaves :
            /\ r \in DOMAIN populated(opened) /\ ownRow(r) /\ Unedited(r)
            /\ r \notin nullified /\ cells[r].val # Blank
            => r \in DOMAIN onDisk /\ onDisk[r] = cells[r].val
=============================================================================
