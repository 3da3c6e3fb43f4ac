------------------------------ MODULE YamlText ------------------------------
(***************************************************************************)
(* The text of a values file and how a save writes it:                     *)
(* src/service/yaml_format.go, yaml_splice.go, yaml_serialize.go,          *)
(* yaml_substitute.go, yaml_blank_lines.go and comment_parser.go.          *)
(*                                                                         *)
(* A text is a banner, an encoding (the byte order mark and line endings)  *)
(* and a sequence of lines, one for each node of the document it holds,    *)
(* with the comments that belong to the node, the blank lines after it and *)
(* whether its bytes are those of the source or of yaml.v3's encoder.  A   *)
(* scalar may be plain, quoted or a block of lines.                        *)
(***************************************************************************)
EXTENDS YamlTree

\* An override, as collectOverrides hands it to the serializer; null: its type
\* is that of a null.
Entry(p, val, head, line, null) ==
    [key |-> p, val |-> val, head |-> head, line |-> line, null |-> null]

NoDocs == [banner |-> None, foots |-> <<>>, heads |-> <<>>]

Keys(lines) == {n.path : n \in ToSet(lines)}

\* yaml.v3's nodes of the lines: blank lines and bytes are not in the tree, the
\* number of the line is.
Nodes(lines) ==
    [i \in DOMAIN lines |->
        LET n == lines[i]
        IN  [path |-> n.path, kind |-> n.kind, val |-> n.val, style |-> n.style,
             anchor |-> n.anchor, head |-> n.head, line |-> n.line, foot |-> n.foot,
             keyAt |-> i, at |-> i]]

-----------------------------------------------------------------------------
(* yaml.Unmarshal of a text. *)

NoChildren(doc, p) == ~\E n \in ToSet(doc) : n.path # p /\ Below(p, n.path)

\* The text parses: every line stands under a container of its kind, no key
\* comes twice, and an alias repeats an anchor that ends before it.
Parses(lines) ==
    \A i \in DOMAIN lines :
      LET n == lines[i] IN
      /\ \A j \in DOMAIN lines : lines[j].path = n.path => i = j
      /\ IF Parent(n.path) = <<>> THEN ~isIndex(Last(n.path))
         ELSE \E j \in 1 .. (i - 1) :
                /\ lines[j].path = Parent(n.path)
                /\ lines[j].kind = (IF isIndex(Last(n.path)) THEN "seq" ELSE "map")
                /\ lines[j].val # Empty
      /\ n.kind = "alias" =>
           \E j \in 1 .. (i - 1) : lines[j].anchor = n.val /\ ~Below(lines[j].path, n.path)

\* The values a reader of the file gets: aliases repeat what they point to,
\* merge keys add what the map has not.
MergedFrom(doc, p, src) ==
    LET here(q) == Parent(p) \o SubSeq(q, Len(src) + 1, Len(q))
        new == {i \in DOMAIN doc : /\ Below(src, doc[i].path) /\ doc[i].path # src
                                   /\ ~Has(doc, here(doc[i].path))}
    IN  Without(doc, p) \o Rerooted(Picked(doc, new), src, Parent(p))

AllMerged(doc) ==
    LET upTo[i \in 0 .. Len(doc)] ==
            IF i = 0 THEN doc
            ELSE IF isMerge(doc[i].path)
            THEN MergedFrom(upTo[i - 1], doc[i].path, resolveAlias(upTo[i - 1], doc[i].path))
            ELSE upTo[i - 1]
    IN  upTo[Len(doc)]

AliasesCopied(doc) ==
    LET nodes == Attached(doc)
        upTo[i \in 0 .. Len(nodes)] ==
            IF i = 0 THEN doc
            ELSE IF nodes[i].kind = "alias" /\ ~isMerge(nodes[i].path)
            THEN Unaliased(upTo[i - 1], nodes[i].path)
            ELSE upTo[i - 1]
    IN  upTo[Len(nodes)]

Expanded(doc) == AllMerged(AliasesCopied(doc))

\* flattenValues: a value for every scalar and empty container, and the
\* sections above them.
valuesOf(nodes) ==
    [p \in {n.path : n \in nodes} |->
        LET n == CHOOSE m \in nodes : m.path = p
        IN  IF n.kind = "scalar" THEN n.val
            ELSE IF \E m \in nodes : m.path # p /\ Below(p, m.path) THEN None
            ELSE Empty]

flattenValues(doc) == valuesOf(ToSet(Expanded(Attached(doc))))

\* parseComments: the comment shown above a value, the inline one first.
bestComment(n) == IF n.line # None THEN n.line ELSE n.head

parseComments(lines) ==
    [p \in {n.path : n \in {m \in ToSet(lines) : bestComment(m) # None}} |->
        bestComment(At(lines, p))]

\* parseOrphanComments: the banner and the blocks that trail a value.
parseOrphanComments(text) ==
    [banner |-> text.banner, heads |-> <<>>,
     foots |-> [p \in {n.path : n \in {m \in ToSet(text.lines) : m.foot # None}} |->
                   At(text.lines, p).foot]]

-----------------------------------------------------------------------------
(* The splice. *)

\* Mutant: what was loaded as the text above the value has to be the head.
headsMatch(e, head, line) == e.head = head

\* overrideCommentsMatch: what was loaded as the text above the value may be
\* the head or the inline comment of the file.
overrideCommentsMatch(e, head, line) ==
    IF e.line # None THEN e.head = head /\ e.line = line
    ELSE IF e.head = None THEN head = None /\ line = None
    ELSE e.head \in {head, line}

\* effectiveComments.
commentsAt(doc, slot) ==
    IF slot = Nowhere THEN [head |-> None, line |-> None]
    ELSE [head |-> At(doc, slot).head, line |-> At(doc, slot).line]

commentsMatch(doc, e) ==
    \E said \in {commentsAt(doc, findParentSlotReadOnly(doc, e.key))} :
        overrideCommentsMatch(e, said.head, said.line)

viaAlias(doc, p) == findParentSlotReadOnly(doc, p) \notin {Nowhere, p}

docsMatchSource(text, docs) == docs = parseOrphanComments(text)

\* planScalarSplice for one entry: nothing to do, a plain scalar to rewrite,
\* or a case for the encoder.
isNoEdit(doc, e) ==
    IF e.val = Empty
    THEN treeNodeMatchesContainerType(doc, e.key)
    ELSE /\ viaAlias(doc, e.key) \/ commentsMatch(doc, e)
         /\ findEffectiveScalar(doc, e.key) = e.val

isSpliceable(doc, e) ==
    /\ findEffectiveScalar(doc, e.key) # None
    /\ ~viaAlias(doc, e.key)
    /\ commentsMatch(doc, e)
    /\ ~e.null /\ e.val # Empty
    /\ Has(doc, e.key) /\ At(doc, e.key).kind = "scalar" /\ At(doc, e.key).style = "plain"

\* spliceScalarValue fails for a node that is not of the source: it has no line.
hasLine(doc, e) == At(doc, e.key).at # 0

planScalarSplice(text, doc, entries, docs) ==
    /\ docsMatchSource(text, docs)
    /\ \A e \in ToSet(entries) :
         isNoEdit(doc, e) \/ (isSpliceable(doc, e) /\ hasLine(doc, e))

\* What stands behind the key up to a comment is replaced: an anchor or an alias
\* goes with the value.
Spliced(n, val) == [n EXCEPT !.kind = "scalar", !.anchor = None, !.val = val]

\* SpliceScalarValues: one edit after the other, each on the line of its node,
\* which a copy shares with what it is a copy of.
SpliceScalarValues(text, doc, entries) ==
    LET edits == {k \in DOMAIN entries : ~isNoEdit(doc, entries[k])}
        of(i) == {k \in edits : At(doc, entries[k].key).at = i}
    IN  [text EXCEPT !.lines =
            [i \in DOMAIN @ |-> IF of(i) = {} THEN @[i]
                                ELSE Spliced(@[i], entries[Max(of(i))].val)]]

-----------------------------------------------------------------------------
(* The encoder. *)

\* applyOverrideComments: the head comment goes above the key, the inline one
\* behind the value.
applyOverrideComments(doc, e) ==
    LET d == BreakAbove(doc, e.key)
    IN  [i \in DOMAIN d |-> IF d[i].path = e.key
                            THEN [d[i] EXCEPT !.head = e.head, !.line = e.line] ELSE d[i]]

\* applyDocFoots, applySectionHeads.
applyDocFoots(doc, foots) ==
    [i \in DOMAIN doc |-> IF doc[i].path \in DOMAIN foots
                          THEN [doc[i] EXCEPT !.foot = foots[doc[i].path]] ELSE doc[i]]

applySectionHeads(doc, heads) ==
    [i \in DOMAIN doc |-> IF doc[i].path \in DOMAIN heads
                          THEN [doc[i] EXCEPT !.head = heads[doc[i].path]] ELSE doc[i]]

\* encodeWithDocComments: yaml.v3 writes no blank lines, and drops the inline
\* comment of a null.
Encode(doc, docs) ==
    LET written == Attached(doc)
        isSection(n) == n.kind \in {"map", "seq"}
    IN  [banner |-> docs.banner, coding |-> "plain",
         lines |-> [i \in DOMAIN written |->
            LET n == written[i]
            IN  [path |-> n.path, kind |-> n.kind, style |-> n.style, anchor |-> n.anchor,
                 head |-> n.head, foot |-> n.foot,
                 val |-> IF ~isSection(n) THEN n.val
                         ELSE IF NoChildren(written, n.path) THEN Empty ELSE None,
                 line |-> IF ~isSection(n) /\ n.val = Null THEN None ELSE n.line,
                 blank |-> FALSE, bytes |-> "encoder"]]]

FlatEntriesToYAML(entries, docs) ==
    LET tree[i \in 0 .. Len(entries)] ==
            IF i = 0 THEN <<>>
            ELSE applyOverrideComments(upsertPath(tree[i - 1], entries[i].key, entries[i].val),
                                       entries[i])
    IN  Encode(applySectionHeads(applyDocFoots(tree[Len(entries)], docs.foots), docs.heads), docs)

\* The keys nobody wants any more go first, in the order they were collected.
DeleteStale(doc, wanted) ==
    LET found == collectPhysicalLeafKeys(doc)
        upTo[i \in 0 .. Len(found)] ==
            IF i = 0 THEN doc
            ELSE IF found[i] \in wanted THEN upTo[i - 1] ELSE deletePath(upTo[i - 1], found[i])
    IN  upTo[Len(found)]

PatchComments(doc, e, said) == IF said THEN doc ELSE applyOverrideComments(doc, e)

\* Mutant: what an alias shows is written over it.
PatchPhysical(doc, e) ==
    LET unchanged == findPhysicalScalar(doc, e.key) = e.val
    IN  IF e.val = Empty /\ isNoEdit(doc, e) THEN doc
        ELSE PatchComments(IF unchanged THEN doc ELSE upsertPath(doc, e.key, e.val), e,
                           viaAlias(doc, e.key) \/ commentsMatch(doc, e))

PatchEntry(doc, e) ==
    LET unchanged == findEffectiveScalar(doc, e.key) = e.val
    IN  IF e.val = Empty /\ isNoEdit(doc, e) THEN doc
        ELSE PatchComments(IF unchanged THEN doc ELSE upsertPath(doc, e.key, e.val), e,
                           viaAlias(doc, e.key) \/ commentsMatch(doc, e))

Patched(doc, entries) ==
    LET upTo[i \in 0 .. Len(entries)] ==
            IF i = 0 THEN doc ELSE PatchEntry(upTo[i - 1], entries[i])
    IN  upTo[Len(entries)]

PatchNodeTree(doc, entries, docs) ==
    LET stale == DeleteStale(doc, {e.key : e \in ToSet(entries)})
    IN  Encode(applyDocFoots(Patched(stale, entries), docs.foots), docs)

-----------------------------------------------------------------------------
(* PreserveSourceFormatting: four passes over the lines of the encoder, none  *)
(* of which does anything when they do not parse.                            *)

\* The line of the source a node was declared on.
declaredAt(n) == IF isIndex(Last(n.path)) THEN n.at ELSE n.keyAt

\* Mutant: the lines of the tree are counted from 0.
lineToFlatKeyFromZero(doc, i) ==
    LET there == {j \in DOMAIN doc : isAttached(doc[j]) /\ declaredAt(doc[j]) + 1 = i}
    IN  IF there = {} THEN None ELSE doc[Max(there)].path

\* lineToFlatKey over the tree the column holds by now: the key declared on a
\* line of the source, the last of them when copies declare several there.
lineToFlatKey(doc, i) ==
    LET there == {j \in DOMAIN doc : isAttached(doc[j]) /\ declaredAt(doc[j]) = i}
    IN  IF there = {} THEN None ELSE doc[Max(there)].path

\* The line of the source that has this key, 0 where there is none.
LineOfKey(raw, doc, p) ==
    LET found == {i \in DOMAIN raw : lineToFlatKey(doc, i) = p}
    IN  IF found = {} THEN 0 ELSE Min(found)

\* Mutant: a line with the same key and comment passes for unchanged.
sameKind(a, b) == a.kind = b.kind

sameText(a, b) ==
    /\ a.kind = b.kind /\ a.val = b.val /\ a.anchor = b.anchor /\ a.style = b.style

\* Two lines begin alike: the same indent, and the same key or the dash.
sameKeyText(p, q) ==
    /\ Len(p) = Len(q)
    /\ Last(p) = Last(q) \/ (isIndex(Last(p)) /\ isIndex(Last(q)))

\* The bytes of a source line where line n stands, between its comments.
SourceLine(s, n) ==
    [s EXCEPT !.path = IF sameKeyText(@, n.path) THEN n.path ELSE @,
              !.head = n.head, !.foot = n.foot, !.blank = FALSE]

\* refineBlockScalarEnd: the lines of a block that begins on line i; when that
\* is no block in the source, the lines behind it that are indented as the next.
BlockRange(raw, i) ==
    IF i > 0 /\ raw[i].style = "block" THEN {i}
    ELSE {j \in DOMAIN raw : /\ i <= j
                             /\ \A k \in (i + 1) .. j : Len(raw[k].path) >= Len(raw[i + 1].path)}

\* A block whose value did not change gets the bytes of the source.
isSameBlock(doc, n) ==
    /\ n.style = "block" /\ Positions(doc, n.path) # {}
    /\ LET b == At(doc, n.path)
       IN  b.kind = "scalar" /\ b.style = "block" /\ b.val = n.val

BlockLines(raw, i, n) ==
    Picked([j \in DOMAIN raw |-> IF j = i THEN SourceLine(raw[j], n) ELSE raw[j]],
           BlockRange(raw, i))

substituteBlockScalarRanges(raw, doc, lines) ==
    FlattenSeq([i \in DOMAIN lines |->
        IF isSameBlock(doc, lines[i])
        THEN BlockLines(raw, declaredAt(At(doc, lines[i].path)), lines[i]) ELSE <<lines[i]>>])

\* linesSemanticallyMatch: the same key, value and inline comment, or an
\* inline comment that the encoder has lost.
substituteUnchangedLinesFromSource(raw, doc, lines) ==
    [i \in DOMAIN lines |->
        LET n  == lines[i]
            at == LineOfKey(raw, doc, n.path)
        IN  IF /\ at # 0 /\ n.style # "block"
               /\ sameKeyText(raw[at].path, n.path) /\ sameText(raw[at], n)
               /\ n.line \in {raw[at].line, None}
            THEN SourceLine(raw[at], n) ELSE n]

insertableSingleLineKeys(doc) ==
    {doc[i].path : i \in {j \in DOMAIN doc :
        \/ doc[j].kind = "alias"
        \/ doc[j].kind = "scalar" /\ doc[j].style # "block"
        \/ doc[j].kind \in {"map", "seq"} /\ ItemCount(doc, doc[j].path) = 0}}

\* A line of the source whose key is missing comes back, behind the last key
\* before it that is there.
isMissing(doc, lines, i) ==
    /\ lineToFlatKey(doc, i) \notin Keys(lines)
    /\ lineToFlatKey(doc, i) \in insertableSingleLineKeys(doc)

\* The key of the source a missing line comes back behind.
keyBefore(doc, lines, i) ==
    LET there == {j \in 1 .. (i - 1) : lineToFlatKey(doc, j) \in Keys(lines)}
    IN  IF there = {} THEN None ELSE lineToFlatKey(doc, Max(there))

insertMissingSourceLines(raw, doc, lines) ==
    LET back(p) == LET at == Picked(raw, {i \in DOMAIN raw : isMissing(doc, lines, i)
                                                             /\ keyBefore(doc, lines, i) = p})
                   IN  [k \in DOMAIN at |->
                          [at[k] EXCEPT !.head = None, !.foot = None, !.blank = FALSE]]
    IN  back(None) \o FlattenSeq([i \in DOMAIN lines |-> <<lines[i]>> \o back(lines[i].path)])

restoreBlankLines(raw, doc, lines) ==
    [i \in DOMAIN lines |->
        IF \E j \in DOMAIN raw : raw[j].blank /\ lineToFlatKey(doc, j) = lines[i].path
        THEN [lines[i] EXCEPT !.blank = TRUE] ELSE lines[i]]

\* A pass parses what it gets, and gives back what it cannot parse.
Pass(lines, then) == IF Parses(lines) THEN then ELSE lines

PreserveSourceFormatting(raw, doc, text) ==
    LET a == Pass(text.lines, substituteBlockScalarRanges(raw.lines, doc, text.lines))
        b == Pass(a, substituteUnchangedLinesFromSource(raw.lines, doc, a))
        c == Pass(b, insertMissingSourceLines(raw.lines, doc, b))
    IN  IF raw.lines = <<>> THEN text
        ELSE [text EXCEPT !.lines = Pass(c, restoreBlankLines(raw.lines, doc, c))]

\* PatchSourceText: the splice when every entry allows it, else the encoder.
\* The source is taken without its encoding, which the file gets back later.
PatchSourceText(raw, doc, entries, docs) ==
    IF /\ raw.lines # <<>>
       /\ planScalarSplice(raw, doc, entries, docs)
    THEN SpliceScalarValues([raw EXCEPT !.coding = "plain"], doc, entries)
    ELSE PreserveSourceFormatting(raw, doc, PatchNodeTree(doc, entries, docs))

\* EncodeForFile.
EncodeForFile(text, coding) == [text EXCEPT !.coding = coding]
=============================================================================
