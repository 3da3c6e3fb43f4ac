------------------------------ MODULE YamlTree ------------------------------
(***************************************************************************)
(* The yaml.Node tree of a values file (src/service/yaml_tree.go and       *)
(* yaml_anchors.go): reading through aliases and merge keys, the edits     *)
(* that keep to the place they are made at, and the anchors.               *)
(*                                                                         *)
(* A document is the sequence of its nodes in file order.  A node carries  *)
(* its path, a sequence of segments: a key of a map (a member of Names, or *)
(* Merge for "<<") or the index of a list item, counted from 0.  The root, *)
(* always a map, is not in the sequence.                                   *)
(*                                                                         *)
(* An alias of the program holds a pointer to the node it repeats, and     *)
(* keeps it when that node is taken out of the tree.  A node that left     *)
(* while an alias still points to it lives on under the path <<Off, name>> *)
(* of the model; it is never written to a file.                            *)
(*                                                                         *)
(* A node knows the lines of the source it was read from: that of its key  *)
(* (keyAt) and that of its value (at), 0 for what was made since.  A copy  *)
(* keeps the lines of what it is a copy of.                                *)
(***************************************************************************)
EXTENDS Naturals, SequencesExt

CONSTANTS Names,    \* the keys of maps
          Merge,    \* the key "<<"
          Off,      \* where nodes without a place in the tree are kept
          None,     \* no anchor, no comment
          Null,     \* the scalar null
          Empty     \* the "{}" or "[]" of an entry for an empty container

Nowhere == <<Off>>

-----------------------------------------------------------------------------
(* parseKeySegments and domain.FlatKey: a flat key is its segments.        *)

isIndex(seg) == seg \in Nat

\* The key "<<" of a map.
isMerge(p) == p # <<>> /\ Last(p) = Merge

Parent(p) == Front(p)

Below(p, q) == IsPrefix(p, q)

\* The paths on the way to p, the nearest to the root first, and p.
Walk(p) == [i \in 1 .. Len(p) |-> SubSeq(p, 1, i)]

Node(p, kind, val) ==
    [path |-> p, kind |-> kind, val |-> val, style |-> "plain", anchor |-> None,
     head |-> None, line |-> None, foot |-> None, keyAt |-> 0, at |-> 0]

\* The nodes at these places, in order.
Picked(nodes, places) ==
    FlattenSeq([i \in DOMAIN nodes |-> IF i \in places THEN <<nodes[i]>> ELSE <<>>])

Positions(doc, p) == {i \in DOMAIN doc : doc[i].path = p}

Has(doc, p) == p = <<>> \/ Positions(doc, p) # {}

At(doc, p) == doc[CHOOSE i \in Positions(doc, p) : TRUE]

KindAt(doc, p) == IF p = <<>> THEN "map" ELSE At(doc, p).kind

Subtree(doc, p) == Picked(doc, {i \in DOMAIN doc : Below(p, doc[i].path)})

Without(doc, p) == Picked(doc, {i \in DOMAIN doc : ~Below(p, doc[i].path)})

ItemCount(doc, p) == Cardinality({i \in DOMAIN doc : Parent(doc[i].path) = p})

\* Moves a subtree from path p to path q.
Rerooted(nodes, p, q) ==
    [i \in DOMAIN nodes |->
        [nodes[i] EXCEPT !.path = q \o SubSeq(@, Len(p) + 1, Len(@))]]

isAttached(n) == n.path[1] # Off

Attached(doc) == Picked(doc, {i \in DOMAIN doc : isAttached(doc[i])})

Detached(doc) == Picked(doc, {i \in DOMAIN doc : ~isAttached(doc[i])})

\* Puts nodes where the node at p stands, or after the last node below p's
\* parent when p is new.
Placed(doc, p, nodes) ==
    LET here   == {i \in DOMAIN doc : Below(p, doc[i].path)}
        kin    == {i \in DOMAIN doc : Below(Parent(p), doc[i].path) /\ isAttached(doc[i])}
        before == {i \in DOMAIN doc :
                     IF here # {} THEN \A j \in here : i < j
                     ELSE IF kin # {} THEN \E j \in kin : i <= j
                     ELSE isAttached(doc[i])}
    IN  Picked(doc, before) \o nodes \o Picked(doc, DOMAIN doc \ (before \union here))

-----------------------------------------------------------------------------
(* Anchors and aliases. *)

\* findAnchorNode: the first node of the tree with this anchor.
findAnchorNode(doc, name) ==
    LET found == {i \in DOMAIN doc : doc[i].anchor = name /\ isAttached(doc[i])}
    IN  IF found = {} THEN Nowhere ELSE doc[Min(found)].path

\* The node an alias points to: the one that left the tree, if it did.
resolveAlias(doc, p) ==
    IF p = Nowhere \/ p = <<>> \/ At(doc, p).kind # "alias" THEN p
    ELSE IF Has(doc, <<Off, At(doc, p).val>>) THEN <<Off, At(doc, p).val>>
    ELSE findAnchorNode(doc, At(doc, p).val)

\* Nodes leave the tree: what an alias elsewhere points to lives on.
Dropped(doc, p) ==
    LET gone    == Subtree(doc, p)
        rest    == Without(doc, p)
        aliased == {n.val : n \in {m \in ToSet(rest) : m.kind = "alias"}}
        kept    == Picked(gone, {i \in DOMAIN gone : /\ gone[i].anchor \in aliased
                                                     /\ ~Has(rest, <<Off, gone[i].anchor>>)})
    IN  rest \o FlattenSeq([i \in DOMAIN kept |->
                               Rerooted(Subtree(gone, kept[i].path), kept[i].path,
                                        <<Off, kept[i].anchor>>)])

\* breakAliasInPlace: the alias becomes a copy of its target, without the
\* target's anchor and with the comments and the line of the alias.  What is
\* below it keeps the lines of the target.
breakAliasInPlace(doc, p) ==
    LET alias  == At(doc, p)
        target == resolveAlias(doc, p)
        nodes  == Rerooted(Subtree(doc, target), target, p)
        top(n) == [n EXCEPT !.anchor = None, !.head = alias.head, !.line = alias.line,
                            !.foot = alias.foot, !.keyAt = alias.keyAt, !.at = alias.at]
    IN  IF alias.kind # "alias" \/ target = Nowhere THEN doc
        ELSE Placed(doc, p, [i \in DOMAIN nodes |-> IF i = 1 THEN top(nodes[i]) ELSE nodes[i]])

Unaliased(doc, p) == IF Has(doc, p) THEN breakAliasInPlace(doc, p) ELSE doc

\* The walk of stepPhysical: every alias above the last segment is broken.
BreakAbove(doc, p) ==
    LET way == Walk(Parent(p))
        upTo[i \in 0 .. Len(way)] ==
            IF i = 0 THEN doc ELSE Unaliased(upTo[i - 1], way[i])
    IN  upTo[Len(way)]

-----------------------------------------------------------------------------
(* Reading. *)

\* mappingValueWithMerge: the local entry, else the one merged by "<<".
mappingValueWithMerge(doc, m, name) ==
    LET source(at) == resolveAlias(doc, Append(at, Merge))
        find[at \in {n.path : n \in ToSet(doc)} \union {<<>>}] ==
            IF Has(doc, Append(at, name)) THEN Append(at, name)
            ELSE IF ~Has(doc, Append(at, Merge)) THEN Nowhere
            ELSE IF source(at) = Nowhere \/ KindAt(doc, source(at)) # "map" THEN Nowhere
            ELSE find[source(at)]
    IN  IF Has(doc, Append(m, name)) THEN Append(m, name) ELSE find[m]

\* One step of a reader: aliases and merge keys are resolved.
stepEffective(doc, cur, seg) ==
    IF cur = Nowhere THEN Nowhere
    ELSE IF isIndex(seg)
    THEN IF KindAt(doc, cur) = "seq" /\ Has(doc, Append(cur, seg))
         THEN resolveAlias(doc, Append(cur, seg)) ELSE Nowhere
    ELSE IF KindAt(doc, cur) = "map" THEN resolveAlias(doc, mappingValueWithMerge(doc, cur, seg))
    ELSE Nowhere

\* The place a reader of the file finds the path at.
Effective(doc, p) ==
    LET upTo[i \in 0 .. Len(p)] ==
            IF i = 0 THEN <<>> ELSE stepEffective(doc, upTo[i - 1], p[i])
    IN  upTo[Len(p)]

scalarAt(doc, p) ==
    IF Has(doc, p) /\ KindAt(doc, p) = "scalar" THEN At(doc, p).val ELSE None

\* Mutant: only a scalar that stands at the path itself.
findPhysicalScalar(doc, p) == scalarAt(doc, p)

\* findEffectiveScalar: the scalar at the path, None where there is none.
findEffectiveScalar(doc, p) ==
    scalarAt(doc, Effective(doc, p))

isContainer(doc, p) == p # Nowhere /\ KindAt(doc, p) \in {"map", "seq"}

\* An entry of a container is of the kind its row has, here of either.
treeNodeMatchesContainerType(doc, p) == isContainer(doc, Effective(doc, p))

\* findParentSlotReadOnly: where the path is physically, through aliases but
\* not through merge keys.
stepPhysical(doc, cur, seg) ==
    LET at == resolveAlias(doc, cur)
    IN  IF at = Nowhere \/ ~Has(doc, Append(at, seg)) THEN Nowhere ELSE Append(at, seg)

findParentSlotReadOnly(doc, p) ==
    LET upTo[i \in 0 .. Len(p)] ==
            IF i = 0 THEN <<>> ELSE stepPhysical(doc, upTo[i - 1], p[i])
    IN  upTo[Len(p)]

\* collectPhysicalLeafKeys: the scalars and empty containers of the tree
\* itself, nothing an alias or a merge key brings.
collectPhysicalLeafKeys(doc) ==
    LET leaves == {i \in DOMAIN doc :
            /\ isAttached(doc[i]) /\ Merge \notin ToSet(doc[i].path)
            /\ \/ doc[i].kind = "scalar"
               \/ /\ doc[i].kind \in {"map", "seq"}
                  /\ ~\E n \in ToSet(doc) : Parent(n.path) = doc[i].path}
    IN  Picked([i \in DOMAIN doc |-> doc[i].path], leaves)

-----------------------------------------------------------------------------
(* Edits. *)

\* leafNodeFromValue: a scalar that replaces a scalar keeps its style, anchor
\* and comments.
leafNodeFromValue(doc, p, val) ==
    IF Has(doc, p) /\ At(doc, p).kind = "scalar"
    THEN [At(doc, p) EXCEPT !.val = val, !.at = 0]
    ELSE Node(p, "scalar", val)

\* A list is padded with nulls up to the index that is written.
Padded(doc, p) ==
    LET list == Parent(p)
        have == ItemCount(doc, list)
    IN  IF ~isIndex(Last(p)) \/ Last(p) < have THEN doc
        ELSE Placed(doc, Append(list, have),
                    [i \in 1 .. (Last(p) + 1) - have |->
                        Node(Append(list, have + i - 1), "scalar", Null)])

\* A new value under a key that is there: the key keeps its line.
UnderKey(doc, p, node) ==
    [node EXCEPT !.keyAt = IF Has(doc, p) THEN At(doc, p).keyAt ELSE 0]

\* Replaces the node at p: aliases keep pointing to the node they had.
Replaced(doc, p, node) ==
    Attached(Placed(doc, p, <<UnderKey(doc, p, node)>>)) \o Detached(Dropped(doc, p))

\* descendOrCreate: the container at p for the segment next.  A missing slot
\* and a slot that holds no container become an empty one.
Contained(doc, p, kind) ==
    IF Has(doc, p) /\ KindAt(doc, p) \in {"map", "seq"} THEN doc
    ELSE Replaced(doc, p, Node(p, kind, Empty))

descendOrCreate(doc, p, next) ==
    Contained(Unaliased(Padded(doc, p), p), p, IF isIndex(next) THEN "seq" ELSE "map")

fits(doc, p) ==
    KindAt(doc, Parent(p)) = (IF isIndex(Last(p)) THEN "seq" ELSE "map")

writeLeaf(doc, p, val) ==
    IF Has(doc, p) /\ At(doc, p).kind = "alias"
    THEN Placed(doc, p, <<UnderKey(doc, p, Node(p, "scalar", val))>>)
    ELSE Replaced(doc, p, leafNodeFromValue(doc, p, val))

setLeaf(doc, p, val) ==
    IF ~Has(doc, Parent(p)) \/ ~fits(doc, p) THEN doc ELSE writeLeaf(Padded(doc, p), p, val)

\* upsertPath: writes val at p; the error of a parent of the other kind is
\* the document unchanged from there on.
upsertPath(doc, p, val) ==
    LET way == Walk(Parent(p))
        upTo[i \in 0 .. Len(way)] ==
            IF i = 0 THEN doc
            ELSE IF fits(upTo[i - 1], way[i]) THEN descendOrCreate(upTo[i - 1], way[i], p[i + 1])
            ELSE upTo[i - 1]
    IN  setLeaf(upTo[Len(way)], p, val)

\* Items behind a removed one move up.
Renumbered(doc, p) ==
    IF ~isIndex(Last(p)) THEN doc
    ELSE LET k == Len(p)
             behind(q) == /\ Len(q) >= k
                          /\ SubSeq(q, 1, k - 1) = Parent(p)
                          /\ isIndex(q[k]) /\ q[k] > Last(p)
             lower(q) == [q EXCEPT ![k] = @ - 1]
         IN  [i \in DOMAIN doc |-> IF behind(doc[i].path)
                 THEN [doc[i] EXCEPT !.path = lower(@)] ELSE doc[i]]

\* deletePath: removes the physical key at p; aliases above it are broken
\* first, so that nothing is removed from what others share.
deletePath(doc, p) ==
    LET d == BreakAbove(doc, p) IN IF ~Has(d, p) THEN d ELSE Renumbered(Dropped(d, p), p)

EnsurePath(doc, p, val) ==
    LET d == BreakAbove(doc, p) IN IF Has(d, p) THEN d ELSE upsertPath(d, p, val)

-----------------------------------------------------------------------------
(* The operations on anchors: each is the document after it, and the same  *)
(* document where the code returns an error.                               *)

Anchored(doc, p, name) ==
    [i \in DOMAIN doc |-> IF doc[i].path = p THEN [doc[i] EXCEPT !.anchor = name] ELSE doc[i]]

\* resolvePhysicalForMutation breaks aliases on the way, not the node itself:
\* an anchor set on an alias node is never written.
SetNodeAnchor(doc, p, name) ==
    Anchored(BreakAbove(doc, p), p, name)

ClearNodeAnchor(doc, p) ==
    Anchored(BreakAbove(doc, p), p, None)

RenameAnchor(doc, old, new) ==
    IF findAnchorNode(doc, old) = Nowhere \/ findAnchorNode(doc, new) # Nowhere
    THEN doc
    ELSE [i \in DOMAIN doc |->
            LET n == doc[i]
                named == IF n.anchor = old THEN [n EXCEPT !.anchor = new] ELSE n
            IN  IF n.kind = "alias" /\ n.val = old THEN [n EXCEPT !.val = new]
                ELSE IF Len(n.path) > 1 /\ n.path[1] = Off /\ n.path[2] = old
                THEN [named EXCEPT !.path[2] = new]
                ELSE named]

DeleteAnchor(doc, name) ==
    LET aliases == Picked(doc, {i \in DOMAIN doc : doc[i].kind = "alias" /\ doc[i].val = name})
        upTo[i \in 0 .. Len(aliases)] ==
            IF i = 0 THEN doc ELSE Unaliased(upTo[i - 1], aliases[i].path)
        broken  == upTo[Len(aliases)]
    IN  IF findAnchorNode(doc, name) = Nowhere THEN doc
        ELSE Anchored(broken, findAnchorNode(broken, name), None)

ClearNodeAlias(doc, p) ==
    Unaliased(BreakAbove(doc, p), p)

SetNodeAlias(doc, p, name) ==
    LET d == BreakAbove(doc, p)
        n == At(d, p)
    IN  IF findAnchorNode(doc, name) = Nowhere THEN doc
        ELSE IF ~Has(d, p) \/ findAnchorNode(doc, name) = p THEN d
        ELSE Replaced(d, p, [n EXCEPT !.kind = "alias", !.style = "plain", !.val = name, !.anchor = None,
                                       !.at = 0])

\* ExtractAnchors: the badges of the table, by flat key.
ExtractAnchors(doc) ==
    LET shown == {n \in ToSet(Attached(doc)) : /\ Merge \notin ToSet(n.path)
                                               /\ n.kind = "alias" \/ n.anchor # None}
    IN  [p \in {n.path : n \in shown} |->
            IF At(doc, p).kind = "alias"
            THEN [role |-> "alias", name |-> At(doc, p).val]
            ELSE [role |-> "anchor", name |-> At(doc, p).anchor]]
=============================================================================
