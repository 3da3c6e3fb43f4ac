----------------------------- MODULE ValuesView -----------------------------
(***************************************************************************)
(* What the values page shows and where the keyboard is: collapsed         *)
(* sections, search, the focused cell and its restore, and the anchor      *)
(* overlays (ui/page/values_page*.go, ui/widget/override_table*.go,        *)
(* search_bar.go, anchor_dialog.go, anchor_menu.go, confirm_dialog.go).    *)
(*                                                                         *)
(* The interface is redrawn frame by frame; a frame handles one event here *)
(* and runs the page's steps on the page state in the order Layout calls   *)
(* them.  lands is whether a FocusCmd for a cell finds its editor in the   *)
(* tree of the frame before: the list lays out only the rows it shows.     *)
(*                                                                         *)
(* Rows, columns and matches are counted from 1; match 0 is the parked     *)
(* cursor.  Sections are known by their keys; the keys of the tables share *)
(* no byte prefix except with their ancestors.  Only the first column has  *)
(* anchors.  Focus on a search button counts as focus on the field.        *)
(***************************************************************************)
EXTENDS Integers, Sequences, FiniteSets, Positions

CONSTANTS
  Charts, FirstChart, NoChart, \* the charts the user opens, and no chart
  Keys, NoKey,  \* flat keys, and the "" of a comment row
  Parent,       \* FlatKey.Parent: of a key, or NoKey
  Tables,       \* the entry lists the column files can make
  FirstTable,   \* the one of the defaults alone, of every chart
  Queries, NoQuery,
  Hits,         \* the keys a query matches
  Aliases,      \* AnchorRoleAlias: from a key to the key of its anchor
  MaxColumns,   \* MaxCustomColumns
  MaxAttempts,  \* focusHighlightMaxAttempts
  MaxActs       \* bound on events

Rows == [key : Keys \union {NoKey}, kind : {"section", "leaf", "comment"}]
Cells == [col : 1..MaxColumns, key : Keys]
NoCell == [col |-> 0, key |-> NoKey]
Ops == {"none", "create", "alias", "aliasesOf", "rename"}

NoTag == <<0, 0>>      \* keyboard focus: nowhere,
SearchTag == <<0, 1>>  \* in the search field,
OverlayTag == <<0, 2>> \* in an overlay, or <<entry, column>>

(* A cell of the chart shown when an overlay was opened, or acted on. *)
On(chart, cell) == [chart |-> chart, col |-> cell.col, key |-> cell.key]
NotAsked == On(NoChart, NoCell)
Nothing == [op |-> "none", cell |-> NotAsked]

ASSUME ValuesViewAssumption ==
  /\ FirstChart \in Charts /\ NoChart \notin Charts
  /\ NoKey \notin Keys /\ Parent \in [Keys -> Keys \union {NoKey}]
  /\ FirstTable \in Tables /\ Tables \subseteq Seq(Rows)
  /\ NoQuery \notin Queries /\ Hits \in [Queries -> SUBSET Keys]
  /\ DOMAIN Aliases \subseteq Keys /\ MaxColumns \in Nat \ {0}
  /\ MaxAttempts \in Nat \ {0} /\ MaxActs \in Nat

VARIABLES
  pg,    \* the page's state, with what was handed to the saver and to the controller
  acts

vars == <<pg, acts>>

-----------------------------------------------------------------------------
(* Keys and rows *)

Ancestors[k \in Keys] ==
  IF Parent[k] = NoKey THEN {} ELSE {Parent[k]} \union Ancestors[Parent[k]]

Above(k) == IF k = NoKey THEN {} ELSE Ancestors[k]

isHiddenByCollapsedAncestor(k, collapsed) == Above(k) \cap collapsed # {}

IsFocusable(row) == row.kind = "leaf"

(* A collapsed header is shown whatever is collapsed above it; a comment    *)
(* goes with the entry above it.                                           *)
VisibleRows(entries, collapsed) ==
  LET hidden == {i \in 1..Len(entries) :
                   /\ entries[i].kind # "comment" /\ entries[i].key \notin collapsed
                   /\ isHiddenByCollapsedAncestor(entries[i].key, collapsed)}
      Shown(i) == \A h \in hidden :
        h <= i => \E j \in (h + 1)..i : entries[j].kind # "comment"
  IN Ascending[{i \in 1..Len(entries) : Shown(i)}]

MatchingEntries(p) ==
  Ascending[{i \in 1..Len(p.entries) :
               /\ p.query # NoQuery /\ p.entries[i].kind # "comment"
               /\ p.entries[i].key \in Hits[p.query]}]

RowAt(p, r) == p.entries[p.filtered[r]]
InRange(p, r) == r \in 1..Len(p.filtered)

FirstOf(S) == CHOOSE i \in S : \A j \in S : i <= j
LastOf(S) == CHOOSE i \in S : \A j \in S : i >= j

FocusedEntryKey(p) == IF InRange(p, p.row) THEN RowAt(p, p.row).key ELSE NoKey

(* Mutant: the field counts as busy only while it is empty. *)
BusyWhenEmpty(p) == p.query = NoQuery /\ p.focus = SearchTag

SearchFocused(p) == p.query # NoQuery /\ p.focus = SearchTag

Grab(p, tag, lands) == IF lands THEN [p EXCEPT !.focus = tag] ELSE p

-----------------------------------------------------------------------------
(* Saving and collapsing.  past is history: the collapsed set a search     *)
(* found, the sections the user acted on since, and whether the saved      *)
(* state came in the middle of the search.                                 *)

(* Mutant: saves what the search has opened. *)
SavesTheShown(p) == p.collapsed

persistedCollapsedKeys(p) == IF p.searching THEN p.pre ELSE p.collapsed

Stored(saved, chart, state) ==
  [c \in DOMAIN saved \union {chart} |-> IF c = chart THEN state ELSE saved[c]]

(* One state for each chart. *)
Persist(p, key) ==
  [p EXCEPT !.saved = Stored(@, p.chart, [key |-> key, col |-> p.col,
                                          collapsed |-> persistedCollapsedKeys(p)])]

Flip(S, k) == IF k \in S THEN S \ {k} ELSE S \union {k}

onCollapseToggle(p, k) ==
  LET q == [p EXCEPT !.collapsed = Flip(@, k),
                     !.pre = IF p.searching THEN Flip(@, k) ELSE @,
                     !.past.touched = @ \union {k}]
  IN Persist(q, FocusedEntryKey(q))

jumpToFlatKey(p, k) ==
  [p EXCEPT !.collapsed = @ \ Above(k), !.pendingKey = k, !.highlight = TRUE, !.attempts = 0,
            !.past.touched = IF p.searching THEN @ ELSE @ \union Above(k)]

syncSearchCollapseSnapshot(p) ==
  LET inSearch == p.query # NoQuery
      restored == [p EXCEPT !.collapsed = p.pre]
      ended == IF p.collapsed = p.pre THEN p ELSE Persist(restored, FocusedEntryKey(restored))
  IN CASE inSearch /\ ~p.searching ->
            [p EXCEPT !.pre = p.collapsed, !.searching = TRUE,
                      !.past = [before |-> p.collapsed, touched |-> {}, late |-> FALSE]]
       [] ~inSearch /\ p.searching -> [ended EXCEPT !.pre = {}, !.searching = FALSE]
       [] OTHER -> p

(* Mutant: the sections over the matches stay closed. *)
OpensNothing(p) == p

UncollapseMatchAncestors(p) ==
  IF p.query = NoQuery THEN p
  ELSE [p EXCEPT !.collapsed =
          @ \ UNION {Above(p.entries[p.matches[m]].key) : m \in 1..Len(p.matches)}]

(* Where Ctrl+/ puts the focus.  The scan inside a section ends at the     *)
(* first row that is not below it; outside, a comment row stops it too and *)
(* gives no key.                                                           *)
firstLeafInsideSection(p, s) ==
  LET at == FirstOf({i \in 1..Len(p.entries) : p.entries[i].key = s})
      end == FirstOf({i \in (at + 1)..Len(p.entries) : s \notin Above(p.entries[i].key)}
                       \union {Len(p.entries) + 1})
      leaves == {i \in (at + 1)..(end - 1) :
                   /\ IsFocusable(p.entries[i])
                   /\ ~isHiddenByCollapsedAncestor(p.entries[i].key, p.collapsed)}
  IN IF leaves = {} THEN NoKey ELSE p.entries[FirstOf(leaves)].key

nextLeafOutsideSection(p, s) ==
  LET at == FirstOf({i \in 1..Len(p.entries) : p.entries[i].key = s})
      Open(i) == ~isHiddenByCollapsedAncestor(p.entries[i].key, p.collapsed)
      after == {i \in (at + 1)..Len(p.entries) :
                  /\ s \notin Above(p.entries[i].key)
                  /\ p.entries[i].kind # "section" /\ Open(i)}
      before == {i \in 1..(at - 1) : IsFocusable(p.entries[i]) /\ Open(i)}
  IN CASE after # {} -> p.entries[FirstOf(after)].key
       [] after = {} /\ before # {} -> p.entries[LastOf(before)].key
       [] OTHER -> NoKey

handleCollapseShortcut(p) ==
  LET row == RowAt(p, p.row)
      target == IF row.kind = "section" THEN row.key
                ELSE IF row.key = NoKey THEN NoKey ELSE Parent[row.key]
      q == onCollapseToggle(p, target)
      next == IF target \in p.collapsed THEN firstLeafInsideSection(q, target)
                                        ELSE nextLeafOutsideSection(q, target)
  IN IF ~InRange(p, p.row) \/ target = NoKey THEN p
     ELSE IF next = NoKey THEN q
     ELSE [q EXCEPT !.pendingKey = next, !.highlight = TRUE, !.attempts = 0]

-----------------------------------------------------------------------------
(* Arrow keys, on the rows of the frame before *)

Nearest(rows, d) == IF d > 0 THEN FirstOf(rows) ELSE LastOf(rows)

moveCellFocusRow(p, d, lands) ==
  LET Stops(r) == \/ IsFocusable(RowAt(p, r))
                  \/ RowAt(p, r).kind = "section" /\ RowAt(p, r).key \in p.collapsed
      rows == {r \in 1..Len(p.filtered) : (r - p.row) * d > 0 /\ Stops(r)}
      q == [p EXCEPT !.row = Nearest(rows, d)]
  IN CASE rows = {} -> p
       [] rows # {} /\ ~IsFocusable(RowAt(q, q.row)) -> [q EXCEPT !.focus = NoTag]
       [] OTHER -> Grab(q, <<p.filtered[q.row], p.col>>, lands)

moveCellFocusCol(p, d, lands) ==
  LET rows == {r \in 1..Len(p.filtered) : (r - p.row) * d > 0 /\ IsFocusable(RowAt(p, r))}
      q == IF p.col + d \in 1..p.columns THEN [p EXCEPT !.col = @ + d]
           ELSE [p EXCEPT !.row = Nearest(rows, d), !.col = IF d > 0 THEN 1 ELSE p.columns]
  IN IF \/ ~InRange(p, p.row) \/ ~IsFocusable(RowAt(p, p.row))
        \/ p.col + d \notin 1..p.columns /\ rows = {}
       THEN p
       ELSE Grab(q, <<p.filtered[q.row], q.col>>, lands)

-----------------------------------------------------------------------------
(* Search *)

scrollToCurrentMatch(p) ==
  IF p.current \notin 1..Len(p.matches) THEN p
  ELSE jumpToFlatKey(p, p.entries[p.matches[p.current]].key)

navigateMatch(p, d) ==
  LET n == Len(p.matches)
      next == CASE n = 0 -> 0
                [] n > 0 /\ p.current = 0 -> IF d > 0 THEN 1 ELSE n
                [] OTHER -> ((p.current - 1 + d + n) % n) + 1
      q == [p EXCEPT !.current = next]
  IN IF n = 0 THEN q ELSE scrollToCurrentMatch(q)

(* The text typed is read here, after the matches were computed. *)
handleSearchNavigation(p, e) ==
  LET n == Len(p.matches)
      q == CASE e.k = "type"  -> [p EXCEPT !.query = e.query]
             [] e.k = "enter" -> navigateMatch(p, 1)
             [] e.k = "prev"  -> [navigateMatch(p, -1) EXCEPT !.focus = SearchTag]
             [] e.k = "next"  -> [navigateMatch(p, 1) EXCEPT !.focus = SearchTag]
             [] OTHER -> p
      changed == [q EXCEPT !.lastQuery = q.query, !.current = IF n > 0 THEN 1 ELSE 0]
  IN IF q.query # q.lastQuery
       THEN IF n > 0 THEN scrollToCurrentMatch(changed) ELSE changed
       ELSE [q EXCEPT !.current = CASE n = 0 -> 0
                                    [] n > 0 /\ @ = 0 -> 1
                                    [] n > 0 /\ @ > n -> n
                                    [] OTHER -> @]

-----------------------------------------------------------------------------
(* The focused row: restored, clamped, moved off an open section header *)

placeFocus(p) ==
  LET found == {r \in 1..Len(p.filtered) :
                  p.pendingKey # NoKey /\ RowAt(p, r).key = p.pendingKey}
      resolved == IF found = {} THEN p.row ELSE FirstOf(found)
      row == IF resolved > Len(p.filtered) THEN LastOf({Len(p.filtered), 1}) ELSE resolved
      leaves == {r \in 1..Len(p.filtered) : IsFocusable(RowAt(p, r))}
      atOpenSection == /\ InRange(p, row) /\ RowAt(p, row).kind = "section"
                       /\ RowAt(p, row).key \notin p.collapsed
  IN [p EXCEPT !.row = IF found = {} /\ atOpenSection /\ leaves # {} THEN FirstOf(leaves) ELSE row,
               !.col = IF @ > p.columns THEN p.columns ELSE @]

(* Mutant: a try that fails is not counted. *)
uncounted(p) == p.attempts

tries(p) == p.attempts + 1

(* PendingFocusHighlight asks for the keyboard frame after frame, until it *)
(* gets it, the attempts run out, the search has it or the row has no      *)
(* editor.                                                                 *)
highlightFocus(p, lands) ==
  LET focusable == InRange(p, p.row) /\ IsFocusable(RowAt(p, p.row))
      cell == <<p.filtered[p.row], p.col>>
      asks == focusable /\ p.focus # cell /\ ~SearchFocused(p)
      q == IF asks THEN Grab(p, cell, lands) ELSE p
  IN IF asks /\ tries(p) < MaxAttempts
       THEN [q EXCEPT !.attempts = tries(p)]
       ELSE [q EXCEPT !.highlight = FALSE, !.attempts = 0, !.pendingKey = NoKey,
                      !.lastRow = p.row, !.lastCol = p.col]

noticeFocus(p, lands) ==
  LET moved == [p EXCEPT !.lastRow = p.row, !.lastCol = p.col]
  IN CASE p.highlight -> highlightFocus(p, lands)
       [] ~p.highlight /\ (p.row # p.lastRow \/ p.col # p.lastCol) ->
            IF p.awaiting THEN moved ELSE Persist(moved, FocusedEntryKey(moved))
       [] OTHER -> p

-----------------------------------------------------------------------------
(* Overlays: the menu, the anchor dialog, the two confirmations.  A closed *)
(* one keeps no target (the code leaves the menu's, which nothing reads).  *)
(* Their targets name a column and a key, not the chart.  asked is history: *)
(* the cell each was opened for, with its chart.                           *)

NoDialog == [op |-> "none", col |-> 0, key |-> NoKey, name |-> NoKey]

AnchorKeys == {Aliases[k] : k \in DOMAIN Aliases}

(* An anchor is named by its key. *)
availableAnchorNames(col) == IF col = 1 THEN AnchorKeys ELSE {}
aliasUsageKeys(col, name) == IF col = 1 THEN {k \in DOMAIN Aliases : Aliases[k] = name} ELSE {}

resolveFocusedCell(p) ==
  IF InRange(p, p.row) /\ IsFocusable(RowAt(p, p.row))
    THEN [col |-> p.col, key |-> RowAt(p, p.row).key] ELSE NoCell

closeMenu(p) == [p EXCEPT !.menu = NoCell, !.asked.menu = NotAsked]
closeAnchorDialog(p) == [p EXCEPT !.dialog = NoDialog, !.asked.dialog = NotAsked]
closeUnlockDialog(p) == [p EXCEPT !.unlock = NoCell, !.asked.unlock = NotAsked]
closeDeleteAnchorDialog(p) == [p EXCEPT !.delete = NoCell, !.asked.delete = NotAsked]

beginAnchorOp(p, op, cell) ==
  [p EXCEPT !.dialog = [op |-> op, col |-> cell.col, key |-> cell.key, name |-> NoKey]]

openAnchorDialog(p, op) ==
  LET cell == resolveFocusedCell(p)
  IN IF cell = NoCell THEN p
     ELSE [closeMenu(beginAnchorOp(p, op, cell)) EXCEPT !.asked.dialog = On(p.chart, cell)]

openAnchorMenu(p, cell) ==
  IF cell = NoCell THEN p
  ELSE [closeAnchorDialog(p) EXCEPT !.menu = cell, !.asked.menu = On(p.chart, cell)]

openAliasesOfDialog(p, cell) ==
  [closeMenu(p) EXCEPT !.dialog = [op |-> "aliasesOf", col |-> cell.col,
                                   key |-> cell.key, name |-> cell.key],
                       !.asked.dialog = On(p.chart, cell)]

openUnlockDialog(p, cell) ==
  IF p.unlock # NoCell THEN p
  ELSE [p EXCEPT !.unlock = cell, !.asked.unlock = On(p.chart, cell)]

(* Mutant: the menu acts on the focused cell, not on the one clicked. *)
ActsOnFocused(p, op) ==
  closeMenu([beginAnchorOp(p, op, resolveFocusedCell(p)) EXCEPT !.asked.dialog = p.asked.menu])

chooseInMenu(p, op) ==
  closeMenu([beginAnchorOp(p, op, p.menu) EXCEPT !.asked.dialog = p.asked.menu])

(* The controller acts on the column of the chart shown. *)
Hand(p, op, col, key) ==
  [p EXCEPT !.done = [op |-> op, cell |-> On(p.chart, [col |-> col, key |-> key])]]

applyAnchorOp(p, value) ==
  LET d == p.dialog
  IN CASE d.op = "create" \/ d.op = "alias" -> Hand(p, d.op, d.col, d.key)
       [] d.op = "rename" -> IF value = d.name THEN p ELSE Hand(p, d.op, d.col, d.name)
       [] d.op = "aliasesOf" -> jumpToFlatKey(p, value)
       [] OTHER -> p

submitAnchorDialog(p, value) == closeAnchorDialog(applyAnchorOp(p, value))

renameAnchor(p) == [p EXCEPT !.dialog.op = "rename", !.dialog.key = NoKey]

deleteAnchor(p) ==
  closeAnchorDialog([p EXCEPT !.delete = [col |-> p.dialog.col, key |-> p.dialog.name],
                              !.asked.delete = p.asked.dialog])

(* before: the page as the frame found it *)
layoutOverlays(p, e, before, lands) ==
  LET q == CASE e.k = "menuCreate" -> chooseInMenu(p, "create")
             [] e.k = "menuAlias"  -> chooseInMenu(p, "alias")
             [] e.k = "dismiss"    -> closeMenu(p)
             [] e.k = "submit"     -> submitAnchorDialog(p, e.key)
             [] e.k = "cancel"     -> closeAnchorDialog(p)
             [] e.k = "rename"     -> renameAnchor(p)
             [] e.k = "delete"     -> deleteAnchor(p)
             [] e.k = "unlockYes"  ->
                  closeUnlockDialog(Hand(p, "unlock", p.unlock.col, p.unlock.key))
             [] e.k = "unlockNo"   -> closeUnlockDialog(p)
             [] e.k = "deleteYes"  ->
                  closeDeleteAnchorDialog(Hand(p, "delete", p.delete.col, p.delete.key))
             [] e.k = "deleteNo"   -> closeDeleteAnchorDialog(p)
             [] OTHER -> p
      opened == \/ q.menu # NoCell /\ q.menu # before.menu
                \/ q.dialog # NoDialog /\ q.dialog # before.dialog
  IN IF opened THEN Grab(q, OverlayTag, lands) ELSE q

-----------------------------------------------------------------------------
(* One frame *)

Opened ==
  [chart |-> FirstChart, entries |-> FirstTable, columns |-> 1, filtered |-> <<>>,
   collapsed |-> {}, pre |-> {}, searching |-> FALSE,
   query |-> NoQuery, lastQuery |-> NoQuery, matches |-> <<>>, current |-> 0,
   row |-> 1, col |-> 1, lastRow |-> 1, lastCol |-> 1,
   pendingKey |-> NoKey, highlight |-> FALSE, attempts |-> 0, awaiting |-> TRUE,
   focus |-> NoTag, dialog |-> NoDialog, menu |-> NoCell, unlock |-> NoCell, delete |-> NoCell,
   saved |-> <<>>, done |-> Nothing,
   asked |-> [dialog |-> NotAsked, menu |-> NotAsked, unlock |-> NotAsked, delete |-> NotAsked],
   past |-> [before |-> {}, touched |-> {}, late |-> FALSE]]

(* ResetState, and the load of the next chart: until it is there nothing   *)
(* is drawn.  The overlays stay as they are.                               *)
ResetState(p, chart) ==
  [Opened EXCEPT !.chart = chart, !.saved = p.saved, !.asked = p.asked,
                 !.dialog = p.dialog, !.menu = p.menu, !.unlock = p.unlock, !.delete = p.delete]

pollChartUIState(p, e) ==
  LET saved == p.saved[p.chart]
  IN CASE e.k = "restore" /\ p.chart \in DOMAIN p.saved ->
            [p EXCEPT !.awaiting = FALSE, !.pendingKey = saved.key, !.col = saved.col,
                      !.highlight = TRUE, !.attempts = 0, !.collapsed = saved.collapsed,
                      !.past.late = p.searching]
       [] e.k = "restoreFails" \/ (e.k = "restore" /\ p.chart \notin DOMAIN p.saved) ->
            [p EXCEPT !.awaiting = FALSE]
       [] OTHER -> p

(* The rest of what reaches the page from outside: another chart, a file   *)
(* loaded or parsed into a column, a column added or removed.              *)
poll(p, e) ==
  CASE e.k = "reopen"  -> ResetState(p, e.chart)
    [] e.k = "rebuild" -> [p EXCEPT !.entries = e.table]
    [] e.k = "columns" -> [p EXCEPT !.columns = e.n]
    [] OTHER -> pollChartUIState(p, e)

(* Escape outside the overlays and the search leaves the page: "reopen". *)
handleEscape(p) ==
  CASE p.unlock # NoCell -> closeUnlockDialog(p)
    [] p.unlock = NoCell /\ p.delete # NoCell -> closeDeleteAnchorDialog(p)
    [] p.unlock = NoCell /\ p.delete = NoCell /\ p.dialog # NoDialog -> closeAnchorDialog(p)
    [] p.unlock = NoCell /\ p.delete = NoCell /\ p.dialog = NoDialog /\ p.menu # NoCell ->
         closeMenu(p)
    [] OTHER -> [p EXCEPT !.query = NoQuery, !.focus = SearchTag]

handleKeyEvents(p, e, lands) ==
  CASE e.k = "escape"     -> handleEscape(p)
    [] e.k = "find"       -> [p EXCEPT !.focus = SearchTag]
    [] e.k = "deleteWord" -> [p EXCEPT !.query = NoQuery]
    [] e.k = "shiftEnter" -> navigateMatch(p, -1)
    [] e.k = "up"         -> moveCellFocusRow(p, -1, lands)
    [] e.k = "down"       -> moveCellFocusRow(p, 1, lands)
    [] e.k = "left"       -> moveCellFocusCol(p, -1, lands)
    [] e.k = "right"      -> moveCellFocusCol(p, 1, lands)
    [] e.k = "fold"       -> handleCollapseShortcut(p)
    [] e.k = "create"     -> openAnchorDialog(p, "create")
    [] e.k = "alias"      -> openAnchorDialog(p, "alias")
    [] e.k = "menu"       -> openAnchorMenu(p, resolveFocusedCell(p))
    [] OTHER -> p

(* A pointer event goes to the e.r-th row of the rows laid out now.  The   *)
(* editor of a comment row takes the keyboard and leaves the focused cell  *)
(* where it was: not modelled.                                             *)
handleCellClick(p, e) ==
  IF IsFocusable(RowAt(p, e.r))
    THEN [p EXCEPT !.focus = <<p.filtered[e.r], e.c>>, !.row = e.r, !.col = e.c] ELSE p

drainRightClicks(p, e) ==
  IF IsFocusable(RowAt(p, e.r))
    THEN openAnchorMenu(p, [col |-> e.c, key |-> RowAt(p, e.r).key]) ELSE p

layoutChevronSlot(p, e) ==
  IF RowAt(p, e.r).kind = "section" THEN onCollapseToggle(p, RowAt(p, e.r).key) ELSE p

layoutAnchorBadge(p, e) ==
  LET key == RowAt(p, e.r).key
  IN CASE key \in DOMAIN Aliases -> jumpToFlatKey(p, Aliases[key])
       [] key \in AnchorKeys     -> openAliasesOfDialog(p, [col |-> e.c, key |-> key])
       [] OTHER -> p

layoutTable(p, e) ==
  LET there == e.k \in {"click", "rightClick", "chevron", "badge"} /\ InRange(p, e.r)
  IN CASE e.k = "edit"                  -> openUnlockDialog(p, e.cell)
       [] there /\ e.k = "click"      -> handleCellClick(p, e)
       [] there /\ e.k = "rightClick" -> drainRightClicks(p, e)
       [] there /\ e.k = "chevron"    -> layoutChevronSlot(p, e)
       [] there /\ e.k = "badge"      -> layoutAnchorBadge(p, e)
       [] OTHER -> p

(* An editor that was not laid out loses the keyboard. *)
dropFocus(p) ==
  LET gone == \/ p.focus = OverlayTag /\ p.menu = NoCell /\ p.dialog = NoDialog
              \/ /\ p.focus \notin {NoTag, SearchTag, OverlayTag}
                 /\ \/ p.focus[2] > p.columns
                    \/ \A r \in 1..Len(p.filtered) : p.filtered[r] # p.focus[1]
  IN IF gone THEN [p EXCEPT !.focus = NoTag] ELSE p

(* Layout: the page's steps, each on the page the step before left. *)
Redraw(e, lands) ==
  \E polled \in {poll([pg EXCEPT !.done = Nothing], e)} :
  \E keyed \in {handleKeyEvents(polled, e, lands)} :
  \E matched \in {[keyed EXCEPT !.matches = MatchingEntries(keyed)]} :
  \E synced \in {syncSearchCollapseSnapshot(matched)} :
  \E searched \in {handleSearchNavigation(UncollapseMatchAncestors(synced), e)} :
  \E shown \in {[searched EXCEPT !.filtered = VisibleRows(searched.entries, searched.collapsed)]} :
  \E placed \in {placeFocus(shown)} :
  \E noticed \in {noticeFocus(placed, lands)} :
  \E laid \in {layoutTable(noticed, e)} :
    pg' = dropFocus(layoutOverlays(laid, e, pg, lands))

Frame(e) == \E lands \in BOOLEAN : Redraw(e, lands)

Act(e) == acts < MaxActs /\ Frame(e) /\ acts' = acts + 1

(* An overlay covers the page for the pointer, not for the keyboard. *)
Covered == \/ pg.menu # NoCell \/ pg.dialog # NoDialog
           \/ pg.unlock # NoCell \/ pg.delete # NoCell

Init == pg = Opened /\ acts = 0

(* A frame without an event: the one an InvalidateCmd asks for. *)
Idle == [k |-> "quiet"]
Quiet == Frame(Idle) /\ UNCHANGED acts

(* Over the breadcrumb, which no overlay covers, and the list of charts.   *)
Reopen == \E c \in Charts : Act([k |-> "reopen", chart |-> c])

Restore == pg.awaiting /\ \E k \in {"restore", "restoreFails"} : Act([k |-> k])

Rebuild == \E t \in Tables \ {pg.entries} : Act([k |-> "rebuild", table |-> t])

SetColumns == \E n \in 1..MaxColumns : n # pg.columns /\ Act([k |-> "columns", n |-> n])

Shortcut == \E k \in {"find", "up", "down", "left", "right", "fold", "create", "alias", "menu"} :
              Act([k |-> k])

Escape == (Covered \/ SearchFocused(pg)) /\ Act([k |-> "escape"])

Type == /\ pg.focus = SearchTag
        /\ \E q \in Queries \union {NoQuery} : q # pg.query /\ Act([k |-> "type", query |-> q])

StepMatch == /\ pg.query # NoQuery
             /\ \E k \in {"enter", "shiftEnter", "deleteWord", "prev", "next"} :
                  /\ IF k \in {"prev", "next"} THEN ~Covered ELSE pg.focus = SearchTag
                  /\ Act([k |-> k])

ClickCell == ~Covered /\ \E r \in 1..Len(pg.filtered), c \in 1..pg.columns :
               \E k \in {"click", "rightClick"} : Act([k |-> k, r |-> r, c |-> c])

ClickRow == ~Covered /\ \E r \in 1..Len(pg.filtered), k \in {"chevron", "badge"} :
              Act([k |-> k, r |-> r, c |-> 1])

EditAlias == /\ pg.focus \notin {NoTag, SearchTag, OverlayTag} /\ pg.focus[2] = 1
             /\ LET key == pg.entries[pg.focus[1]].key
                IN key \in DOMAIN Aliases /\ Act([k |-> "edit", cell |-> [col |-> 1, key |-> key]])

AnswerMenu == /\ pg.menu # NoCell
              /\ \E k \in {"menuCreate", "menuAlias", "dismiss"} :
                   /\ k = "menuAlias" => availableAnchorNames(pg.menu.col) # {}
                   /\ Act([k |-> k])

(* What each mode of the dialog can be answered with. *)
Answers(d) ==
  CASE d.op = "create"    -> {NoKey}
    [] d.op = "rename"    -> {NoKey, d.name}
    [] d.op = "alias"     -> availableAnchorNames(d.col)
    [] d.op = "aliasesOf" -> aliasUsageKeys(d.col, d.name)
    [] OTHER              -> {}

AnswerDialog == /\ pg.dialog # NoDialog
                /\ \/ \E v \in Answers(pg.dialog) : Act([k |-> "submit", key |-> v])
                   \/ Act([k |-> "cancel"])
                   \/ /\ pg.dialog.op = "aliasesOf"
                      /\ \E k \in {"rename", "delete"} : Act([k |-> k])

Confirm == \/ pg.unlock # NoCell /\ \E k \in {"unlockYes", "unlockNo"} : Act([k |-> k])
           \/ pg.delete # NoCell /\ \E k \in {"deleteYes", "deleteNo"} : Act([k |-> k])

Next == \/ Quiet \/ Reopen \/ Restore \/ Rebuild \/ SetColumns
        \/ Shortcut \/ Escape \/ Type \/ StepMatch
        \/ ClickCell \/ ClickRow \/ EditAlias
        \/ AnswerMenu \/ AnswerDialog \/ Confirm

(* A retry of the focus asks for the next frame itself.  No fairness makes *)
(* an editor show up: only the frames that miss it are counted on.         *)
Spec == Init /\ [][Next]_vars /\ WF_vars(Redraw(Idle, FALSE) /\ UNCHANGED acts)

-----------------------------------------------------------------------------
(* Properties *)

(* What a search found is on the screen: after every frame each match is a *)
(* visible row, whatever was collapsed over it in between, and the cursor  *)
(* stands on a match exactly when there is one (MatchingEntries,           *)
(* UncollapseMatchAncestors, handleSearchNavigation).                      *)
MatchesAreShown ==
  /\ \A m \in 1..Len(pg.matches) :
       \E r \in 1..Len(pg.filtered) : pg.filtered[r] = pg.matches[m]
  /\ pg.current \in 0..Len(pg.matches)
  /\ (pg.current = 0) = (pg.matches = <<>>)

SameBut(S, T, touched) == S \ touched = T \ touched

(* A search leaves no trace in the sections the user did not act on: when  *)
(* it ends they are as it found them, and what is saved during it has them *)
(* so too (syncSearchCollapseSnapshot, persistedCollapsedKeys).  A saved   *)
(* state that arrives in the middle of a search is excepted.               *)
SearchLeavesNoTrace ==
  [][ (pg.searching /\ ~pg'.past.late /\ ~Reopen) =>
        LET past == pg'.past
        IN /\ ~pg'.searching => SameBut(pg'.collapsed, past.before, past.touched)
           /\ pg'.saved # pg.saved =>
                SameBut(pg'.saved[pg'.chart].collapsed, past.before, past.touched)
    ]_vars

(* Who works in the search field keeps the keyboard: typing and stepping   *)
(* jump to matches, and the jump asks for the keyboard, but the cell gets  *)
(* it only when the field is empty (SearchFocused, values_page.go:523).    *)
TypingStaysInSearch ==
  [][ (pg.focus = SearchTag /\ pg'.query # NoQuery /\ pg'.focus # SearchTag)
        => ~(Quiet \/ Type \/ StepMatch) ]_vars

(* The request for the keyboard ends: a row whose editor never shows up    *)
(* cannot keep the page redrawing (focusHighlightMaxAttempts).             *)
FocusAttemptsEnd == pg.highlight ~> ~pg.highlight

(* The cell the overlay that hands over op was opened for. *)
AskedFor(op) == CASE op = "unlock" -> pg.asked.unlock
                  [] op = "delete" -> pg.asked.delete
                  [] OTHER         -> pg.asked.dialog

(* While its chart is shown, what an overlay hands to the controller is for *)
(* the cell it was opened for, through menu, dialog, rename and delete      *)
(* confirmation, whatever keys were pressed, rows moved or other overlays   *)
(* opened since.  For another chart see OverlaysKeepTheirChart.            *)
ConfirmedIsAsked ==
  [][ (pg'.done # Nothing /\ AskedFor(pg'.done.op).chart = pg'.chart) =>
        pg'.done.cell = AskedFor(pg'.done.op) ]_vars

(* values_state.go:400: "AnchorOpCol and AnchorOpKey identify the target    *)
(* cell".  ResetState keeps the overlays: answered on another chart, they   *)
(* act on that chart's column.                                             *)
OverlaysKeepTheirChart ==
  [][ pg'.done # Nothing => pg'.done.cell = AskedFor(pg'.done.op) ]_vars

(* values_service.go:504: "every entry except those hidden inside a        *)
(* user-collapsed section".  A collapsed section inside a collapsed one    *)
(* keeps its header.                                                       *)
CollapsedHidesInside ==
  \A i \in 1..Len(VisibleRows(pg.entries, pg.collapsed)) :
    ~isHiddenByCollapsedAncestor(pg.entries[VisibleRows(pg.entries, pg.collapsed)[i]].key,
                                 pg.collapsed)

(* values_state.go:363: "mid-search user actions still survive the search  *)
(* clear".  A section the search opened and the user closed is open after. *)
TogglesSurviveSearch ==
  [][ (pg.searching /\ ~pg'.searching /\ ~Reopen) =>
        \A k \in pg.past.touched : k \in pg'.collapsed <=> k \in pg.collapsed ]_vars
=============================================================================
