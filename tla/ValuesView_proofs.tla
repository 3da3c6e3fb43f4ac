--------------------------- MODULE ValuesView_proofs ---------------------------
(***************************************************************************)
(* What is confirmed in an overlay is what it was opened for, who works in *)
(* the search field keeps the keyboard, every match is shown and a search  *)
(* that is left leaves no trace, for any tables, keys and events.          *)
(***************************************************************************)
EXTENDS ValuesView, SequenceTheorems, FiniteSetTheorems, TLAPS

Fields ==
  {"entries", "columns", "filtered", "collapsed", "pre", "searching", "query", "lastQuery",
   "matches", "current", "row", "col", "lastRow", "lastCol", "pendingKey", "highlight",
   "attempts", "awaiting", "focus", "dialog", "menu", "unlock", "delete", "saved", "done",
   "asked", "past", "chart"}

\* A cell an overlay was opened for.
IsAsked(a) == a = [chart |-> a.chart, col |-> a.col, key |-> a.key]

\* A page, with the cells its overlays were opened for.
Page(p) ==
  /\ DOMAIN p = Fields
  /\ p.asked = [dialog |-> p.asked.dialog, menu |-> p.asked.menu,
                unlock |-> p.asked.unlock, delete |-> p.asked.delete]
  /\ IsAsked(p.asked.dialog) /\ IsAsked(p.asked.menu)
  /\ IsAsked(p.asked.unlock) /\ IsAsked(p.asked.delete)

\* The column and the key of a cell.
At(a) == [col |-> a.col, key |-> a.key]

\* Every open overlay is for the column and the key it was opened for; a dialog
\* about an anchor holds its name where the others hold a key.
Aimed(p) ==
  /\ p.menu = At(p.asked.menu) /\ p.unlock = At(p.asked.unlock) /\ p.delete = At(p.asked.delete)
  /\ p.dialog = [op |-> p.dialog.op, col |-> p.dialog.col, key |-> p.dialog.key,
                 name |-> p.dialog.name]
  /\ p.dialog.op \in {"create", "alias"} =>
       At(p.asked.dialog) = [col |-> p.dialog.col, key |-> p.dialog.key]
  /\ p.dialog.op \in {"aliasesOf", "rename"} =>
       At(p.asked.dialog) = [col |-> p.dialog.col, key |-> p.dialog.name]

IInv == Page(pg) /\ Aimed(pg)

\* A step that does not touch the overlays.
Apart(p, q) ==
  /\ DOMAIN q = DOMAIN p /\ q.asked = p.asked /\ q.done = p.done
  /\ q.menu = p.menu /\ q.dialog = p.dialog /\ q.unlock = p.unlock /\ q.delete = p.delete
  /\ q.chart = p.chart

\* Such steps follow one another.
LEMMA ApartTransitive ==
  ASSUME NEW p, NEW q, NEW r, Apart(p, q), Apart(q, r)
  PROVE  Apart(p, r)
BY DEF Apart

\* Taking the keyboard to an editor.
LEMMA GrabApart ==
  ASSUME NEW p, DOMAIN p = Fields, NEW tag, NEW lands
  PROVE  Apart(p, Grab(p, tag, lands))
BY DEF Grab, Apart, Fields

\* Handing over the collapsed sections to be stored.
LEMMA PersistApart ==
  ASSUME NEW p, DOMAIN p = Fields, NEW key
  PROVE  Apart(p, Persist(p, key))
BY DEF Persist, Apart, Fields

\* Collapsing or expanding a section.
LEMMA ToggleApart ==
  ASSUME NEW p, DOMAIN p = Fields, NEW k
  PROVE  Apart(p, onCollapseToggle(p, k))
<1> DEFINE q == [p EXCEPT !.collapsed = Flip(@, k),
                          !.pre = IF p.searching THEN Flip(@, k) ELSE @,
                          !.past.touched = @ \union {k}]
<1>1. Apart(p, q) /\ DOMAIN q = Fields
  BY DEF Apart, Fields
<1>2. onCollapseToggle(p, k) = Persist(q, FocusedEntryKey(q))
  BY DEF onCollapseToggle
<1> HIDE DEF q
<1> QED
  BY <1>1, <1>2, PersistApart, ApartTransitive

\* Jumping to a key and expanding the sections around it.
LEMMA JumpApart ==
  ASSUME NEW p, DOMAIN p = Fields, NEW k
  PROVE  Apart(p, jumpToFlatKey(p, k))
BY DEF jumpToFlatKey, Apart, Fields

\* The search: its snapshot, the sections over the matches, the cursor.
LEMMA SyncApart ==
  ASSUME NEW p, DOMAIN p = Fields
  PROVE  Apart(p, syncSearchCollapseSnapshot(p))
<1> DEFINE restored == [p EXCEPT !.collapsed = p.pre]
           ended == IF p.collapsed = p.pre THEN p ELSE Persist(restored, FocusedEntryKey(restored))
<1>1. Apart(p, restored) /\ DOMAIN restored = Fields
  BY DEF Apart, Fields
<1> HIDE DEF restored
<1>2. Apart(p, ended)
  BY <1>1, PersistApart, ApartTransitive DEF Apart
<1>3. DOMAIN ended = Fields
  BY <1>2 DEF Apart
<1> HIDE DEF ended
<1>4. Apart(p, [p EXCEPT !.pre = p.collapsed, !.searching = TRUE,
                         !.past = [before |-> p.collapsed, touched |-> {}, late |-> FALSE]])
  BY DEF Apart, Fields
<1>5. Apart(ended, [ended EXCEPT !.pre = {}, !.searching = FALSE])
  BY <1>3 DEF Apart, Fields
<1>6. Apart(p, [ended EXCEPT !.pre = {}, !.searching = FALSE])
  BY <1>2, <1>5, ApartTransitive
<1>7. Apart(p, p)
  BY DEF Apart
<1>8. \/ syncSearchCollapseSnapshot(p) =
           [p EXCEPT !.pre = p.collapsed, !.searching = TRUE,
                     !.past = [before |-> p.collapsed, touched |-> {}, late |-> FALSE]]
      \/ syncSearchCollapseSnapshot(p) = [ended EXCEPT !.pre = {}, !.searching = FALSE]
      \/ syncSearchCollapseSnapshot(p) = p
  BY Zenon DEF syncSearchCollapseSnapshot, ended, restored
<1> QED
  BY <1>4, <1>6, <1>7, <1>8

\* The sections around the matches are expanded.
LEMMA UncollapseApart ==
  ASSUME NEW p, DOMAIN p = Fields
  PROVE  Apart(p, UncollapseMatchAncestors(p))
BY DEF UncollapseMatchAncestors, Apart, Fields

\* The row of the current match is brought into view.
LEMMA ScrollApart ==
  ASSUME NEW p, DOMAIN p = Fields
  PROVE  Apart(p, scrollToCurrentMatch(p))
<1>1. Apart(p, p)
  BY DEF Apart
<1> QED
  BY <1>1, JumpApart DEF scrollToCurrentMatch

\* The cursor moves to the next or the previous match.
LEMMA NavigateApart ==
  ASSUME NEW p, DOMAIN p = Fields, NEW d
  PROVE  Apart(p, navigateMatch(p, d))
<1>1. \E next : \/ navigateMatch(p, d) = [p EXCEPT !.current = next]
                \/ navigateMatch(p, d) = scrollToCurrentMatch([p EXCEPT !.current = next])
  BY DEF navigateMatch
<1>2. PICK next : \/ navigateMatch(p, d) = [p EXCEPT !.current = next]
                  \/ navigateMatch(p, d) = scrollToCurrentMatch([p EXCEPT !.current = next])
  BY <1>1
<1> DEFINE q == [p EXCEPT !.current = next]
<1>3. Apart(p, q) /\ DOMAIN q = Fields
  BY DEF Apart, Fields
<1>4. navigateMatch(p, d) = q \/ navigateMatch(p, d) = scrollToCurrentMatch(q)
  BY <1>2
<1> HIDE DEF q
<1> QED
  BY <1>3, <1>4, ScrollApart, ApartTransitive

\* Typing, stepping and leaving in the search bar.
LEMMA SearchApart ==
  ASSUME NEW p, DOMAIN p = Fields, NEW e
  PROVE  Apart(p, handleSearchNavigation(p, e))
<1> DEFINE q == CASE e.k = "type"  -> [p EXCEPT !.query = e.query]
                  [] e.k = "enter" -> navigateMatch(p, 1)
                  [] e.k = "prev"  -> [navigateMatch(p, -1) EXCEPT !.focus = SearchTag]
                  [] e.k = "next"  -> [navigateMatch(p, 1) EXCEPT !.focus = SearchTag]
                  [] OTHER -> p
<1>1. Apart(p, q)
  <2>1. Apart(p, p) /\ Apart(p, [p EXCEPT !.query = e.query])
    BY DEF Apart, Fields
  <2>2. Apart(p, navigateMatch(p, 1)) /\ Apart(p, navigateMatch(p, -1))
    BY NavigateApart
  <2>3. ASSUME NEW r, Apart(p, r) PROVE Apart(p, [r EXCEPT !.focus = SearchTag])
    BY <2>3 DEF Apart, Fields
  <2>4. /\ Apart(p, [navigateMatch(p, 1) EXCEPT !.focus = SearchTag])
        /\ Apart(p, [navigateMatch(p, -1) EXCEPT !.focus = SearchTag])
    BY <2>2, <2>3
  <2> QED
    BY <2>1, <2>2, <2>4
<1>2. DOMAIN q = Fields
  BY <1>1 DEF Apart
<1>3. \E last, current :
        LET changed == [q EXCEPT !.lastQuery = last, !.current = current]
        IN  \/ handleSearchNavigation(p, e) = scrollToCurrentMatch(changed)
            \/ handleSearchNavigation(p, e) = changed
            \/ handleSearchNavigation(p, e) = [q EXCEPT !.current = current]
  BY DEF handleSearchNavigation, q
<1> HIDE DEF q
<1>4. PICK last, current :
        LET changed == [q EXCEPT !.lastQuery = last, !.current = current]
        IN  \/ handleSearchNavigation(p, e) = scrollToCurrentMatch(changed)
            \/ handleSearchNavigation(p, e) = changed
            \/ handleSearchNavigation(p, e) = [q EXCEPT !.current = current]
  BY <1>3
<1> DEFINE changed == [q EXCEPT !.lastQuery = last, !.current = current]
<1>5. Apart(q, changed) /\ DOMAIN changed = Fields /\ Apart(q, [q EXCEPT !.current = current])
  BY <1>2 DEF Apart, Fields
<1>6. \/ handleSearchNavigation(p, e) = scrollToCurrentMatch(changed)
      \/ handleSearchNavigation(p, e) = changed
      \/ handleSearchNavigation(p, e) = [q EXCEPT !.current = current]
  BY <1>4
<1> HIDE DEF changed
<1> QED
  BY <1>1, <1>5, <1>6, ScrollApart, ApartTransitive

\* Arrow keys, the collapse shortcut, and the focus.
LEMMA MoveApart ==
  ASSUME NEW p, DOMAIN p = Fields, NEW d, NEW lands
  PROVE  Apart(p, moveCellFocusRow(p, d, lands)) /\ Apart(p, moveCellFocusCol(p, d, lands))
<1>1. ASSUME NEW q, Apart(p, q), NEW tag PROVE Apart(p, Grab(q, tag, lands))
  BY <1>1, GrabApart, ApartTransitive DEF Apart
<1>2. Apart(p, p)
  BY DEF Apart
<1>3. ASSUME NEW row PROVE /\ Apart(p, [p EXCEPT !.row = row])
                           /\ Apart(p, [[p EXCEPT !.row = row] EXCEPT !.focus = NoTag])
  BY DEF Apart, Fields
<1>4. ASSUME NEW row, NEW col PROVE /\ Apart(p, [p EXCEPT !.col = col])
                                    /\ Apart(p, [p EXCEPT !.row = row, !.col = col])
  BY DEF Apart, Fields
<1>5. Apart(p, moveCellFocusRow(p, d, lands))
  <2>1. \E row, tag : \/ moveCellFocusRow(p, d, lands) = p
                      \/ moveCellFocusRow(p, d, lands) = [[p EXCEPT !.row = row] EXCEPT !.focus = NoTag]
                      \/ moveCellFocusRow(p, d, lands) = Grab([p EXCEPT !.row = row], tag, lands)
    BY DEF moveCellFocusRow
  <2> QED
    BY <2>1, <1>1, <1>2, <1>3
<1>6. Apart(p, moveCellFocusCol(p, d, lands))
  <2>1. \E row, col, tag :
          \/ moveCellFocusCol(p, d, lands) = p
          \/ moveCellFocusCol(p, d, lands) = Grab([p EXCEPT !.col = col], tag, lands)
          \/ moveCellFocusCol(p, d, lands) = Grab([p EXCEPT !.row = row, !.col = col], tag, lands)
    BY DEF moveCellFocusCol
  <2> QED
    BY <2>1, <1>1, <1>2, <1>4
<1> QED
  BY <1>5, <1>6

\* The shortcut that collapses the section around the focused cell.
LEMMA ShortcutApart ==
  ASSUME NEW p, DOMAIN p = Fields
  PROVE  Apart(p, handleCollapseShortcut(p))
<1>1. \E k, next :
        LET q == onCollapseToggle(p, k)
        IN  \/ handleCollapseShortcut(p) = p
            \/ handleCollapseShortcut(p) = q
            \/ handleCollapseShortcut(p) =
                 [q EXCEPT !.pendingKey = next, !.highlight = TRUE, !.attempts = 0]
  BY DEF handleCollapseShortcut
<1>2. PICK k, next :
        LET q == onCollapseToggle(p, k)
        IN  \/ handleCollapseShortcut(p) = p
            \/ handleCollapseShortcut(p) = q
            \/ handleCollapseShortcut(p) =
                 [q EXCEPT !.pendingKey = next, !.highlight = TRUE, !.attempts = 0]
  BY <1>1
<1> DEFINE q == onCollapseToggle(p, k)
<1>3. Apart(p, q) /\ DOMAIN q = Fields
  BY ToggleApart DEF Apart
<1>4. \/ handleCollapseShortcut(p) = p
      \/ handleCollapseShortcut(p) = q
      \/ handleCollapseShortcut(p) =
           [q EXCEPT !.pendingKey = next, !.highlight = TRUE, !.attempts = 0]
  BY <1>2
<1> HIDE DEF q
<1>5. Apart(q, [q EXCEPT !.pendingKey = next, !.highlight = TRUE, !.attempts = 0])
  BY <1>3 DEF Apart, Fields
<1>6. Apart(p, p)
  BY DEF Apart
<1> QED
  BY <1>3, <1>4, <1>5, <1>6, ApartTransitive

\* A pending key finds its row again.
LEMMA PlaceApart ==
  ASSUME NEW p, DOMAIN p = Fields
  PROVE  Apart(p, placeFocus(p))
<1>1. \E row, col : placeFocus(p) = [p EXCEPT !.row = row, !.col = col]
  BY DEF placeFocus
<1>2. PICK row, col : placeFocus(p) = [p EXCEPT !.row = row, !.col = col]
  BY <1>1
<1> QED
  BY <1>2 DEF Apart, Fields

\* A focus request is retried, ends, or gives up; a saved focus is restored.
LEMMA NoticeApart ==
  ASSUME NEW p, DOMAIN p = Fields, NEW lands
  PROVE  Apart(p, noticeFocus(p, lands))
<1>1. Apart(p, highlightFocus(p, lands))
  <2>1. \E tag, n, row, col :
          LET q == Grab(p, tag, lands)
          IN  \/ highlightFocus(p, lands) = [q EXCEPT !.attempts = n]
              \/ \E r \in {p, q} :
                   highlightFocus(p, lands) =
                     [r EXCEPT !.highlight = FALSE, !.attempts = 0, !.pendingKey = NoKey,
                               !.lastRow = row, !.lastCol = col]
    BY DEF highlightFocus
  <2>2. PICK tag, n, row, col :
          LET q == Grab(p, tag, lands)
          IN  \/ highlightFocus(p, lands) = [q EXCEPT !.attempts = n]
              \/ \E r \in {p, q} :
                   highlightFocus(p, lands) =
                     [r EXCEPT !.highlight = FALSE, !.attempts = 0, !.pendingKey = NoKey,
                               !.lastRow = row, !.lastCol = col]
    BY <2>1
  <2> DEFINE q == Grab(p, tag, lands)
  <2>3. Apart(p, q) /\ Apart(p, p)
    BY GrabApart DEF Apart
  <2>4. \/ highlightFocus(p, lands) = [q EXCEPT !.attempts = n]
        \/ \E r \in {p, q} :
             highlightFocus(p, lands) =
               [r EXCEPT !.highlight = FALSE, !.attempts = 0, !.pendingKey = NoKey,
                         !.lastRow = row, !.lastCol = col]
    BY <2>2
  <2> HIDE DEF q
  <2>5. ASSUME NEW r, Apart(p, r)
        PROVE  /\ Apart(p, [r EXCEPT !.attempts = n])
               /\ Apart(p, [r EXCEPT !.highlight = FALSE, !.attempts = 0, !.pendingKey = NoKey,
                                     !.lastRow = row, !.lastCol = col])
    BY <2>5 DEF Apart, Fields
  <2> QED
    BY <2>3, <2>4, <2>5
<1> DEFINE moved == [p EXCEPT !.lastRow = p.row, !.lastCol = p.col]
<1>2. Apart(p, moved) /\ DOMAIN moved = Fields /\ Apart(p, p)
  BY DEF Apart, Fields
<1>3. \/ noticeFocus(p, lands) = highlightFocus(p, lands)
      \/ noticeFocus(p, lands) = moved
      \/ noticeFocus(p, lands) = Persist(moved, FocusedEntryKey(moved))
      \/ noticeFocus(p, lands) = p
  BY DEF noticeFocus
<1> HIDE DEF moved
<1> QED
  BY <1>1, <1>2, <1>3, PersistApart, ApartTransitive

\* A click into a cell, or on the chevron of a section.
LEMMA ClickApart ==
  ASSUME NEW p, DOMAIN p = Fields, NEW e
  PROVE  Apart(p, handleCellClick(p, e)) /\ Apart(p, layoutChevronSlot(p, e))
<1>1. Apart(p, p)
  BY DEF Apart
<1>2. Apart(p, layoutChevronSlot(p, e))
  BY <1>1, ToggleApart DEF layoutChevronSlot
<1>3. \A tag, row, col : Apart(p, [p EXCEPT !.focus = tag, !.row = row, !.col = col])
  BY DEF Apart, Fields
<1>4. Apart(p, handleCellClick(p, e))
  BY <1>1, <1>3 DEF handleCellClick
<1> QED
  BY <1>2, <1>4

\* The keyboard leaves the table.
LEMMA DropApart ==
  ASSUME NEW p, DOMAIN p = Fields
  PROVE  Apart(p, dropFocus(p))
BY DEF dropFocus, Apart, Fields

-----------------------------------------------------------------------------
(* What opens and closes overlays.                                         *)

\* A page whose overlays are aimed, with nothing handed over this frame.
Sound(p) == Page(p) /\ Aimed(p) /\ p.done = Nothing

\* Steps that leave the overlays alone keep them aimed.
LEMMA ApartSound ==
  ASSUME NEW p, Sound(p), NEW q, Apart(p, q)
  PROVE  Sound(q)
BY DEF Sound, Page, Aimed, Apart

\* Closing an overlay.
LEMMA CloseSound ==
  ASSUME NEW p, Page(p), Aimed(p)
  PROVE  /\ Page(closeMenu(p)) /\ Aimed(closeMenu(p)) /\ closeMenu(p).done = p.done
         /\ closeMenu(p).chart = p.chart
         /\ Page(closeAnchorDialog(p)) /\ Aimed(closeAnchorDialog(p))
         /\ closeAnchorDialog(p).done = p.done /\ closeAnchorDialog(p).chart = p.chart
         /\ Page(closeUnlockDialog(p)) /\ Aimed(closeUnlockDialog(p))
         /\ closeUnlockDialog(p).done = p.done /\ closeUnlockDialog(p).chart = p.chart
         /\ Page(closeDeleteAnchorDialog(p)) /\ Aimed(closeDeleteAnchorDialog(p))
         /\ closeDeleteAnchorDialog(p).done = p.done /\ closeDeleteAnchorDialog(p).chart = p.chart
<1>1. /\ Page(closeMenu(p)) /\ Aimed(closeMenu(p))
      /\ closeMenu(p).done = p.done /\ closeMenu(p).chart = p.chart
  BY DEF Page, Aimed, closeMenu, Fields, NoCell, NotAsked, On, IsAsked, At
<1>2. /\ Page(closeAnchorDialog(p)) /\ Aimed(closeAnchorDialog(p))
      /\ closeAnchorDialog(p).done = p.done /\ closeAnchorDialog(p).chart = p.chart
  BY DEF Page, Aimed, closeAnchorDialog, Fields, NoCell, NoDialog, NotAsked, On, IsAsked, At
<1>3. /\ Page(closeUnlockDialog(p)) /\ Aimed(closeUnlockDialog(p))
      /\ closeUnlockDialog(p).done = p.done /\ closeUnlockDialog(p).chart = p.chart
  BY DEF Page, Aimed, closeUnlockDialog, Fields, NoCell, NotAsked, On, IsAsked, At
<1>4. /\ Page(closeDeleteAnchorDialog(p)) /\ Aimed(closeDeleteAnchorDialog(p))
      /\ closeDeleteAnchorDialog(p).done = p.done /\ closeDeleteAnchorDialog(p).chart = p.chart
  BY DEF Page, Aimed, closeDeleteAnchorDialog, Fields, NoCell, NotAsked, On, IsAsked, At
<1> QED
  BY <1>1, <1>2, <1>3, <1>4

\* An overlay that opens is for the cell it opens for.
LEMMA OpenSound ==
  ASSUME NEW p, Sound(p), NEW cell, cell = [col |-> cell.col, key |-> cell.key]
  PROVE  /\ Sound(openAnchorMenu(p, cell))
         /\ Sound(openAliasesOfDialog(p, cell))
         /\ Sound(openUnlockDialog(p, cell))
         /\ \A op \in {"create", "alias"} :
              Sound([closeMenu(beginAnchorOp(p, op, cell)) EXCEPT !.asked.dialog = On(p.chart, cell)])
<1>0. On(p.chart, cell) = [chart |-> p.chart, col |-> cell.col, key |-> cell.key]
  BY DEF On
<1> DEFINE on == On(p.chart, cell)
<1>6. IsAsked(on) /\ At(on) = cell
  BY <1>0 DEF IsAsked, At
<1>1. Page(p) /\ Aimed(p) /\ p.done = Nothing
  BY DEF Sound
<1>2. Sound(openAnchorMenu(p, cell))
  <2> DEFINE q == closeAnchorDialog(p)
  <2>1. Page(q) /\ Aimed(q) /\ q.done = Nothing
    BY <1>1, CloseSound
  <2>2. openAnchorMenu(p, cell) \in {p, [q EXCEPT !.menu = cell, !.asked.menu = On(p.chart, cell)]}
    BY DEF openAnchorMenu
  <2> HIDE DEF q
  <2>3. Sound([q EXCEPT !.menu = cell, !.asked.menu = on])
    <3> HIDE DEF on
    <3> QED
      BY <1>6, <2>1 DEF Sound, Page, Aimed, Fields
  <2> QED
    BY <2>2, <2>3
<1>3. Sound(openAliasesOfDialog(p, cell))
  <2> DEFINE q == closeMenu(p)
             d == [op |-> "aliasesOf", col |-> cell.col, key |-> cell.key, name |-> cell.key]
  <2>1. Page(q) /\ Aimed(q) /\ q.done = Nothing
    BY <1>1, CloseSound
  <2>2. openAliasesOfDialog(p, cell) = [q EXCEPT !.dialog = d, !.asked.dialog = On(p.chart, cell)]
    BY DEF openAliasesOfDialog
  <2> HIDE DEF q
  <2>3. Sound([q EXCEPT !.dialog = d, !.asked.dialog = on])
    <3> HIDE DEF on
    <3> QED
      BY <1>6, <2>1 DEF Sound, Page, Aimed, Fields
  <2> QED
    BY <2>2, <2>3
<1>4. Sound(openUnlockDialog(p, cell))
  <2>1. Sound([p EXCEPT !.unlock = cell, !.asked.unlock = on])
    <3> HIDE DEF on
    <3> QED
      BY <1>6, <1>1 DEF Sound, Page, Aimed, Fields
  <2> QED
    BY <2>1 DEF openUnlockDialog
<1>5. ASSUME NEW op \in {"create", "alias"}
      PROVE  Sound([closeMenu(beginAnchorOp(p, op, cell)) EXCEPT !.asked.dialog = On(p.chart, cell)])
  <2> DEFINE q == closeMenu(beginAnchorOp(p, op, cell))
  <2>1. /\ Page(q) /\ q.done = Nothing /\ q.menu = At(q.asked.menu)
        /\ q.unlock = At(q.asked.unlock) /\ q.delete = At(q.asked.delete)
        /\ q.dialog = [op |-> op, col |-> cell.col, key |-> cell.key, name |-> NoKey]
    BY <1>1 DEF Page, Aimed, Fields, closeMenu, beginAnchorOp, NoCell, NotAsked, On, IsAsked, At
  <2> HIDE DEF q, on
  <2>2. Sound([q EXCEPT !.asked.dialog = on])
    BY <1>6, <2>1 DEF Sound, Page, Aimed, Fields
  <2> QED
    BY <2>2 DEF q, on
<1> QED
  BY <1>2, <1>3, <1>4, <1>5

\* The focused cell is a cell.
LEMMA FocusedCell ==
  ASSUME NEW p
  PROVE  resolveFocusedCell(p) = [col |-> resolveFocusedCell(p).col,
                                  key |-> resolveFocusedCell(p).key]
BY DEF resolveFocusedCell, NoCell

\* The events that answer an overlay; no step before layoutOverlays takes them.
Answering(e) ==
  e.k \in {"menuCreate", "menuAlias", "dismiss", "submit", "cancel", "rename", "delete",
           "unlockYes", "unlockNo", "deleteYes", "deleteNo"}

\* What reaches the page from outside, another chart included.
LEMMA PollSound ==
  ASSUME NEW p, Sound(p), NEW e
  PROVE  Sound(poll(p, e)) /\ (Answering(e) => poll(p, e) = p)
<1>1. Sound(ResetState(p, e.chart))
  <2>1. /\ DOMAIN Opened = Fields /\ Opened.done = Nothing
    BY DEF Opened, Fields
  <2>2. ResetState(p, e.chart).asked = p.asked /\ ResetState(p, e.chart).done = Nothing
        /\ ResetState(p, e.chart).menu = p.menu /\ ResetState(p, e.chart).dialog = p.dialog
        /\ ResetState(p, e.chart).unlock = p.unlock /\ ResetState(p, e.chart).delete = p.delete
        /\ DOMAIN ResetState(p, e.chart) = Fields
    BY <2>1 DEF ResetState, Fields
  <2> QED
    BY <2>2 DEF Sound, Page, Aimed
<1>2. DOMAIN p = Fields
  BY DEF Sound, Page
<1>3. Apart(p, pollChartUIState(p, e))
  BY <1>2 DEF pollChartUIState, Apart, Fields
<1>4. \A x : Apart(p, [p EXCEPT !.entries = x]) /\ Apart(p, [p EXCEPT !.columns = x])
  BY <1>2 DEF Apart, Fields
<1>5. Sound(poll(p, e))
  BY <1>1, <1>3, <1>4, ApartSound DEF poll
<1>6. Answering(e) => poll(p, e) = p
  BY DEF Answering, poll, pollChartUIState
<1> QED
  BY <1>5, <1>6

\* Keys.
LEMMA KeysSound ==
  ASSUME NEW p, Sound(p), NEW e, NEW lands
  PROVE  /\ Sound(handleKeyEvents(p, e, lands))
         /\ Answering(e) => handleKeyEvents(p, e, lands) = p
<1>1. DOMAIN p = Fields /\ Page(p) /\ Aimed(p) /\ p.done = Nothing
  BY DEF Sound, Page
<1>2. Apart(p, [p EXCEPT !.query = NoQuery, !.focus = SearchTag])
      /\ Apart(p, [p EXCEPT !.query = NoQuery]) /\ Apart(p, [p EXCEPT !.focus = SearchTag])
  BY <1>1 DEF Apart, Fields
<1>3. Sound(handleEscape(p))
  BY <1>1, <1>2, CloseSound, ApartSound DEF handleEscape, Sound
<1>4. \A d : Apart(p, navigateMatch(p, d)) /\ Apart(p, moveCellFocusRow(p, d, lands))
             /\ Apart(p, moveCellFocusCol(p, d, lands))
  BY <1>1, NavigateApart, MoveApart
<1>5. Apart(p, handleCollapseShortcut(p))
  BY <1>1, ShortcutApart
<1>6. \A op \in {"create", "alias"} : Sound(openAnchorDialog(p, op))
  BY OpenSound, FocusedCell DEF openAnchorDialog
<1>7. Sound(openAnchorMenu(p, resolveFocusedCell(p)))
  BY OpenSound, FocusedCell
<1>8. Sound(handleKeyEvents(p, e, lands))
  BY <1>2, <1>3, <1>4, <1>5, <1>6, <1>7, ApartSound DEF handleKeyEvents
<1>9. Answering(e) => handleKeyEvents(p, e, lands) = p
  BY DEF Answering, handleKeyEvents
<1> QED
  BY <1>8, <1>9

\* The table: clicks, badges, and typing into an alias.
LEMMA TableSound ==
  ASSUME NEW p, Sound(p), NEW e, e.k = "edit" => e.cell = [col |-> e.cell.col, key |-> e.cell.key]
  PROVE  Sound(layoutTable(p, e)) /\ (Answering(e) => layoutTable(p, e) = p)
<1>1. DOMAIN p = Fields
  BY DEF Sound, Page
<1>2. Sound(handleCellClick(p, e)) /\ Sound(layoutChevronSlot(p, e))
  BY <1>1, ClickApart, ApartSound
<1>3. Sound(drainRightClicks(p, e))
  <2> DEFINE cell == [col |-> e.c, key |-> RowAt(p, e.r).key]
  <2>1. cell = [col |-> cell.col, key |-> cell.key]
    OBVIOUS
  <2>2. drainRightClicks(p, e) \in {p, openAnchorMenu(p, cell)}
    BY DEF drainRightClicks
  <2> HIDE DEF cell
  <2> QED
    BY <2>1, <2>2, OpenSound
<1>4. Sound(layoutAnchorBadge(p, e))
  <2> DEFINE cell == [col |-> e.c, key |-> RowAt(p, e.r).key]
  <2>1. cell = [col |-> cell.col, key |-> cell.key]
    OBVIOUS
  <2>2. \/ layoutAnchorBadge(p, e) = p
        \/ layoutAnchorBadge(p, e) = openAliasesOfDialog(p, cell)
        \/ \E k : layoutAnchorBadge(p, e) = jumpToFlatKey(p, k)
    BY DEF layoutAnchorBadge, cell
  <2> HIDE DEF cell
  <2>3. \A k : Sound(jumpToFlatKey(p, k))
    BY <1>1, JumpApart, ApartSound
  <2> QED
    BY <2>1, <2>2, <2>3, OpenSound
<1>5. e.k = "edit" => Sound(openUnlockDialog(p, e.cell))
  BY OpenSound
<1>6. Sound(layoutTable(p, e))
  BY <1>2, <1>3, <1>4, <1>5 DEF layoutTable
<1>7. Answering(e) => layoutTable(p, e) = p
  BY DEF Answering, layoutTable
<1> QED
  BY <1>6, <1>7

-----------------------------------------------------------------------------
(* What is handed over.                                                    *)

\* The cell for which the overlay of an operation was opened.
Asked(p, op) == CASE op = "unlock" -> p.asked.unlock
                  [] op = "delete" -> p.asked.delete
                  [] OTHER         -> p.asked.dialog

\* What is handed over from page p to page q is for the cell of its overlay, on
\* the chart shown.
Told(p, q) ==
  q.done # Nothing =>
    q.done.cell = [chart |-> q.chart, col |-> Asked(p, q.done.op).col, key |-> Asked(p, q.done.op).key]

\* A page whose overlays are aimed, after an answer.
Answered(p, q) == Page(q) /\ Aimed(q) /\ Told(p, q)

\* What is handed over is noted as done, and the overlays stay aimed.
LEMMA HandAimed ==
  ASSUME NEW p, Sound(p), NEW op, NEW col, NEW key
  PROVE  LET q == Hand(p, op, col, key)
         IN  /\ Page(q) /\ Aimed(q)
             /\ q.done = [op |-> op, cell |-> [chart |-> p.chart, col |-> col, key |-> key]]
             /\ q.chart = p.chart
BY DEF Sound, Page, Aimed, Hand, Fields, On

\* The anchor dialog is submitted.
LEMMA SubmitTold ==
  ASSUME NEW p, Sound(p), NEW value
  PROVE  Answered(p, submitAnchorDialog(p, value))
<1> DEFINE q == applyAnchorOp(p, value)
           d == p.dialog
<1>1. Page(p) /\ Aimed(p) /\ p.done = Nothing /\ DOMAIN p = Fields
  BY DEF Sound, Page
<1>2. Answered(p, q)
  <2>1. CASE d.op \in {"create", "alias"}
    <3>1. q = Hand(p, d.op, d.col, d.key)
      BY <2>1 DEF applyAnchorOp
    <3>2. At(p.asked.dialog) = [col |-> d.col, key |-> d.key]
      BY <1>1, <2>1 DEF Aimed
    <3>3. /\ Page(q) /\ Aimed(q)
          /\ q.done = [op |-> d.op, cell |-> [chart |-> p.chart, col |-> d.col, key |-> d.key]]
          /\ q.chart = p.chart
      BY <3>1, HandAimed
    <3>4. At(p.asked.dialog).col = d.col /\ At(p.asked.dialog).key = d.key
      BY <3>2
    <3>5. Asked(p, d.op) = p.asked.dialog
      BY <2>1 DEF Asked
    <3> HIDE DEF q, d
    <3> QED
      BY <3>3, <3>4, <3>5 DEF Answered, Told, At
  <2>2. CASE d.op = "rename"
    <3>1. q = p \/ q = Hand(p, "rename", d.col, d.name)
      BY <2>2 DEF applyAnchorOp
    <3>2. At(p.asked.dialog) = [col |-> d.col, key |-> d.name]
      BY <1>1, <2>2 DEF Aimed
    <3>3. CASE q = Hand(p, "rename", d.col, d.name)
      <4>1. /\ Page(q) /\ Aimed(q)
            /\ q.done = [op |-> "rename", cell |-> [chart |-> p.chart, col |-> d.col, key |-> d.name]]
            /\ q.chart = p.chart
        BY <3>3, HandAimed
      <4>2. At(p.asked.dialog).col = d.col /\ At(p.asked.dialog).key = d.name
        BY <3>2
      <4>3. Asked(p, "rename") = p.asked.dialog
        BY DEF Asked
      <4> HIDE DEF q, d
      <4> QED
        BY <4>1, <4>2, <4>3 DEF Answered, Told, At
    <3> QED
      BY <1>1, <3>1, <3>3 DEF Answered, Told
  <2>3. CASE d.op = "aliasesOf"
    <3>1. q = jumpToFlatKey(p, value)
      BY <2>3 DEF applyAnchorOp
    <3>2. Sound(q)
      BY <1>1, <3>1, JumpApart, ApartSound
    <3> QED
      BY <3>2 DEF Answered, Told, Sound
  <2>4. CASE d.op \notin {"create", "alias", "rename", "aliasesOf"}
    <3>1. q = p
      BY <2>4 DEF applyAnchorOp
    <3> QED
      BY <1>1, <3>1 DEF Answered, Told
  <2> QED
    BY <2>1, <2>2, <2>3, <2>4
<1>3. submitAnchorDialog(p, value) = closeAnchorDialog(q)
  BY DEF submitAnchorDialog
<1> HIDE DEF q, d
<1> QED
  BY <1>2, <1>3, CloseSound DEF Answered, Told

\* The menu opens a dialog for its own cell.
LEMMA ChosenTold ==
  ASSUME NEW p, Sound(p), NEW op \in {"create", "alias"}
  PROVE  Answered(p, chooseInMenu(p, op))
<1> DEFINE q == [beginAnchorOp(p, op, p.menu) EXCEPT !.asked.dialog = p.asked.menu]
<1>1. Page(q) /\ Aimed(q) /\ q.done = Nothing
  BY DEF Sound, Page, Aimed, beginAnchorOp, Fields, At
<1>2. chooseInMenu(p, op) = closeMenu(q)
  BY DEF chooseInMenu
<1> HIDE DEF q
<1> QED
  BY <1>1, <1>2, CloseSound DEF Answered, Told

\* The dialog about an anchor turns to its renaming, or asks before it deletes.
LEMMA AnchorTold ==
  ASSUME NEW p, Sound(p), p.dialog.op = "aliasesOf"
  PROVE  Answered(p, renameAnchor(p)) /\ Answered(p, deleteAnchor(p))
<1>1. Page(p) /\ Aimed(p) /\ p.done = Nothing
        /\ At(p.asked.dialog) = [col |-> p.dialog.col, key |-> p.dialog.name]
  BY DEF Sound, Aimed
<1>2. Answered(p, renameAnchor(p))
  BY <1>1 DEF renameAnchor, Page, Aimed, Fields, Answered, Told
<1>3. Answered(p, deleteAnchor(p))
  <2> DEFINE q == [p EXCEPT !.delete = [col |-> p.dialog.col, key |-> p.dialog.name],
                            !.asked.delete = p.asked.dialog]
  <2>1. Page(q) /\ Aimed(q) /\ q.done = Nothing
    BY <1>1 DEF Page, Aimed, Fields
  <2>2. deleteAnchor(p) = closeAnchorDialog(q)
    BY DEF deleteAnchor
  <2> HIDE DEF q
  <2> QED
    BY <2>1, <2>2, CloseSound DEF Answered, Told
<1> QED
  BY <1>2, <1>3

\* A confirmation is answered with yes.
LEMMA ConfirmTold ==
  ASSUME NEW p, Sound(p)
  PROVE  /\ Answered(p, closeUnlockDialog(Hand(p, "unlock", p.unlock.col, p.unlock.key)))
         /\ Answered(p, closeDeleteAnchorDialog(Hand(p, "delete", p.delete.col, p.delete.key)))
<1> DEFINE u == Hand(p, "unlock", p.unlock.col, p.unlock.key)
           d == Hand(p, "delete", p.delete.col, p.delete.key)
<1>1. /\ Page(u) /\ Aimed(u)
      /\ u.done = [op |-> "unlock",
                 cell |-> [chart |-> p.chart, col |-> p.unlock.col, key |-> p.unlock.key]]
      /\ Page(d) /\ Aimed(d) /\ u.chart = p.chart /\ d.chart = p.chart
      /\ d.done = [op |-> "delete",
                 cell |-> [chart |-> p.chart, col |-> p.delete.col, key |-> p.delete.key]]
  BY HandAimed
<1>2. /\ At(p.asked.unlock) = [col |-> p.unlock.col, key |-> p.unlock.key]
      /\ At(p.asked.delete) = [col |-> p.delete.col, key |-> p.delete.key]
  BY DEF Sound, Aimed, At
<1> HIDE DEF u, d
<1>3. Answered(p, closeUnlockDialog(u))
  BY <1>1, <1>2, CloseSound DEF Answered, Told, Asked, At
<1>4. Answered(p, closeDeleteAnchorDialog(d))
  BY <1>1, <1>2, CloseSound DEF Answered, Told, Asked, At
<1> QED
  BY <1>3, <1>4 DEF u, d

\* Every answer, and no answer.
LEMMA OverlaysTold ==
  ASSUME NEW p, Sound(p), NEW e, NEW before, NEW lands,
         e.k \in {"rename", "delete"} => p.dialog.op = "aliasesOf"
  PROVE  /\ Answered(p, layoutOverlays(p, e, before, lands))
         /\ ~Answering(e) => layoutOverlays(p, e, before, lands).done = Nothing
<1> DEFINE q == CASE e.k = "menuCreate" -> chooseInMenu(p, "create")
                  [] e.k = "menuAlias"  -> chooseInMenu(p, "alias")
                  [] e.k = "dismiss"    -> closeMenu(p)
                  [] e.k = "submit"     -> submitAnchorDialog(p, e.key)
                  [] e.k = "cancel"     -> closeAnchorDialog(p)
                  [] e.k = "rename"     -> renameAnchor(p)
                  [] e.k = "delete"     -> deleteAnchor(p)
                  [] e.k = "unlockYes"  ->
                       closeUnlockDialog(Hand(p, "unlock", p.unlock.col, p.unlock.key))
                  [] e.k = "unlockNo"   -> closeUnlockDialog(p)
                  [] e.k = "deleteYes"  ->
                       closeDeleteAnchorDialog(Hand(p, "delete", p.delete.col, p.delete.key))
                  [] e.k = "deleteNo"   -> closeDeleteAnchorDialog(p)
                  [] OTHER -> p
<1>1. /\ Answered(p, p) /\ Answered(p, closeMenu(p)) /\ Answered(p, closeAnchorDialog(p))
      /\ Answered(p, closeUnlockDialog(p)) /\ Answered(p, closeDeleteAnchorDialog(p))
  BY CloseSound DEF Sound, Answered, Told
<1>2. Answered(p, chooseInMenu(p, "create")) /\ Answered(p, chooseInMenu(p, "alias"))
  BY ChosenTold
<1>3. Answered(p, q)
  BY <1>1, <1>2, SubmitTold, AnchorTold, ConfirmTold
<1>4. ~Answering(e) => q = p
  BY DEF Answering
<1>5. layoutOverlays(p, e, before, lands) \in {q, Grab(q, OverlayTag, lands)}
  BY DEF layoutOverlays
<1> HIDE DEF q
<1>6. Apart(q, Grab(q, OverlayTag, lands))
  BY <1>3, GrabApart DEF Answered, Page
<1>7. p.done = Nothing
  BY DEF Sound
<1> QED
  BY <1>3, <1>4, <1>5, <1>6, <1>7 DEF Apart, Answered, Page, Aimed, Told

\* One frame.
LEMMA RedrawTold ==
  ASSUME IInv, NEW e, NEW lands, Redraw(e, lands),
         e.k = "edit" => e.cell = [col |-> e.cell.col, key |-> e.cell.key],
         e.k \in {"rename", "delete"} => pg.dialog.op = "aliasesOf"
  PROVE  IInv' /\ Told(pg, pg')
<1> DEFINE start    == [pg EXCEPT !.done = Nothing]
           polled   == poll(start, e)
           keyed    == handleKeyEvents(polled, e, lands)
           matched  == [keyed EXCEPT !.matches = MatchingEntries(keyed)]
           synced   == syncSearchCollapseSnapshot(matched)
           searched == handleSearchNavigation(UncollapseMatchAncestors(synced), e)
           shown    == [searched EXCEPT !.filtered = VisibleRows(searched.entries, searched.collapsed)]
           placed   == placeFocus(shown)
           noticed  == noticeFocus(placed, lands)
           laid     == layoutTable(noticed, e)
           q        == layoutOverlays(laid, e, pg, lands)
<1>1. pg' = dropFocus(q)
  BY DEF Redraw
<1>2. /\ Sound(start)
      /\ start.asked = pg.asked /\ start.dialog = pg.dialog
  BY DEF IInv, Sound, Page, Aimed, Fields
<1> HIDE DEF start
<1>3. Sound(polled) /\ (Answering(e) => polled = start)
  BY <1>2, PollSound
<1> HIDE DEF polled
<1>4. Sound(keyed) /\ (Answering(e) => keyed = start)
  BY <1>3, KeysSound
<1> HIDE DEF keyed
<1>5. Apart(keyed, noticed)
  <2>1. DOMAIN keyed = Fields
    BY <1>4 DEF Sound, Page
  <2>2. Apart(keyed, matched) /\ DOMAIN matched = Fields
    BY <2>1 DEF Apart, Fields
  <2> HIDE DEF matched
  <2>3. Apart(matched, synced) /\ DOMAIN synced = Fields
    BY <2>2, SyncApart DEF Apart
  <2> HIDE DEF synced
  <2>4. Apart(synced, UncollapseMatchAncestors(synced))
        /\ DOMAIN UncollapseMatchAncestors(synced) = Fields
    BY <2>3, UncollapseApart DEF Apart
  <2>5. Apart(UncollapseMatchAncestors(synced), searched) /\ DOMAIN searched = Fields
    BY <2>4, SearchApart DEF Apart
  <2> HIDE DEF searched
  <2>6. Apart(searched, shown) /\ DOMAIN shown = Fields
    BY <2>5 DEF Apart, Fields
  <2> HIDE DEF shown
  <2>7. Apart(shown, placed) /\ DOMAIN placed = Fields
    BY <2>6, PlaceApart DEF Apart
  <2> HIDE DEF placed
  <2>8. Apart(placed, noticed)
    BY <2>7, NoticeApart
  <2> HIDE DEF noticed
  <2> QED
    BY <2>2, <2>3, <2>4, <2>5, <2>6, <2>7, <2>8 DEF Apart
<1> HIDE DEF noticed
<1>6. Sound(laid) /\ (Answering(e) => laid.asked = pg.asked /\ laid.dialog = pg.dialog)
  <2>1. Sound(noticed)
    BY <1>4, <1>5, ApartSound
  <2>2. Sound(laid) /\ (Answering(e) => laid = noticed)
    BY <2>1, TableSound
  <2> QED
    BY <1>2, <1>4, <1>5, <2>2 DEF Apart
<1> HIDE DEF laid
<1>7. e.k \in {"rename", "delete"} => laid.dialog.op = "aliasesOf"
  BY <1>6 DEF Answering
<1>8. Answered(laid, q) /\ (~Answering(e) => q.done = Nothing)
  BY <1>6, <1>7, OverlaysTold
<1> HIDE DEF q
<1>9. Apart(q, pg')
  BY <1>8, <1>1, DropApart DEF Answered, Page
<1>10. IInv'
  BY <1>8, <1>9 DEF IInv, Answered, Page, Aimed, Apart
<1>11. Told(pg, pg')
  BY <1>6, <1>8, <1>9 DEF Answered, Told, Asked, Apart
<1> QED
  BY <1>10, <1>11

\* Every step is a frame: it keeps the overlays aimed and hands over what was asked.
LEMMA StepTold ==
  ASSUME IInv, Next
  PROVE  IInv' /\ Told(pg, pg')
<1>1. ASSUME NEW e, Frame(e), e.k \notin {"edit", "rename", "delete"}
      PROVE  IInv' /\ Told(pg, pg')
  BY <1>1, RedrawTold DEF Frame
<1>2. CASE Quiet \/ Reopen \/ Restore \/ Rebuild \/ SetColumns
  BY <1>1, <1>2 DEF Quiet, Idle, Reopen, Restore, Rebuild, SetColumns, Act
<1>3. CASE Shortcut \/ Escape \/ Type \/ StepMatch
  BY <1>1, <1>3 DEF Shortcut, Escape, Type, StepMatch, Act
<1>4. CASE ClickCell \/ ClickRow
  BY <1>1, <1>4 DEF ClickCell, ClickRow, Act
<1>5. CASE EditAlias
  <2>1. PICK key : Act([k |-> "edit", cell |-> [col |-> 1, key |-> key]])
    BY <1>5 DEF EditAlias
  <2>2. PICK lands : Redraw([k |-> "edit", cell |-> [col |-> 1, key |-> key]], lands)
    BY <2>1 DEF Act, Frame
  <2> QED
    BY <2>2, RedrawTold
<1>6. CASE AnswerMenu \/ Confirm
  BY <1>1, <1>6 DEF AnswerMenu, Confirm, Act
<1>7. CASE AnswerDialog
  <2>1. CASE \/ \E v \in Answers(pg.dialog) : Act([k |-> "submit", key |-> v])
             \/ Act([k |-> "cancel"])
    BY <1>1, <2>1 DEF Act
  <2>2. CASE pg.dialog.op = "aliasesOf" /\ \E k \in {"rename", "delete"} : Act([k |-> k])
    <3>1. PICK k \in {"rename", "delete"} : Act([k |-> k])
      BY <2>2
    <3>2. PICK lands : Redraw([k |-> k], lands)
      BY <3>1 DEF Act, Frame
    <3> QED
      BY <2>2, <3>2, RedrawTold
  <2> QED
    BY <1>7, <2>1, <2>2 DEF AnswerDialog
<1> QED
  BY <1>2, <1>3, <1>4, <1>5, <1>6, <1>7 DEF Next

\* The page opens with its overlays closed.
LEMMA InitInv == Init => IInv
BY DEF Init, IInv, Page, Aimed, Opened, Fields, NoCell, NoDialog, NotAsked, On, IsAsked, At

\* The invariant on which the next theorem depends: every open overlay is for the
\* cell it was opened for.
THEOREM ViewInvariant == Spec => []IInv
<1>1. IInv /\ [Next]_vars => IInv'
  <2>1. IInv /\ UNCHANGED vars => IInv'
    BY DEF vars, IInv, Page, Aimed
  <2> QED
    BY <2>1, StepTold
<1> QED
  BY <1>1, InitInv, PTL DEF Spec

\* applyAnchorOp, the unlock and the delete confirmation hand over the cell the
\* user opened them for as long as its chart is shown, whatever moved on the page
\* behind them, for any tables.
THEOREM Confirmed == Spec => ConfirmedIsAsked
<1> DEFINE Right == (pg'.done # Nothing /\ AskedFor(pg'.done.op).chart = pg'.chart) =>
                      pg'.done.cell = AskedFor(pg'.done.op)
<1>1. ASSUME IInv, Next PROVE Right
  <2>1. Told(pg, pg')
    BY <1>1, StepTold
  <2>2. \A op : AskedFor(op) = Asked(pg, op)
    BY DEF AskedFor, Asked
  <2>3. \A op : IsAsked(Asked(pg, op))
    BY <1>1 DEF IInv, Page, Asked
  <2> QED
    BY <2>1, <2>2, <2>3 DEF Told, IsAsked
<1>2. IInv /\ [Next]_vars => [Right]_vars
  BY <1>1
<1> QED
  BY <1>2, ViewInvariant, PTL DEF Spec, ConfirmedIsAsked

-----------------------------------------------------------------------------
(* The keyboard of who works in the search field.                          *)

\* A step that leaves the keyboard where it is, and the search text as it is.
Steady(p, q) == DOMAIN q = Fields /\ q.query = p.query /\ q.focus = p.focus

\* The search field has the keyboard.
InSearch(p) == DOMAIN p = Fields /\ p.focus = SearchTag

\* The frames of who types, steps from match to match, or waits.
Searching(e) == e.k \in {"quiet", "type", "enter", "shiftEnter", "deleteWord", "prev", "next"}

\* Handing over the collapsed sections to be stored.
LEMMA PersistSteady ==
  ASSUME NEW p, DOMAIN p = Fields, NEW key
  PROVE  Steady(p, Persist(p, key))
BY DEF Persist, Steady, Fields

\* A match is brought into view without the keyboard.
LEMMA ScrollSteady ==
  ASSUME NEW p, DOMAIN p = Fields
  PROVE  Steady(p, scrollToCurrentMatch(p))
<1>1. Steady(p, p)
  BY DEF Steady
<1>2. \A k : Steady(p, jumpToFlatKey(p, k))
  BY DEF jumpToFlatKey, Steady, Fields
<1> QED
  BY <1>1, <1>2 DEF scrollToCurrentMatch

\* The cursor moves to the next or the previous match.
LEMMA NavigateSteady ==
  ASSUME NEW p, DOMAIN p = Fields, NEW d
  PROVE  Steady(p, navigateMatch(p, d))
<1>1. PICK next : \/ navigateMatch(p, d) = [p EXCEPT !.current = next]
                  \/ navigateMatch(p, d) = scrollToCurrentMatch([p EXCEPT !.current = next])
  BY DEF navigateMatch
<1> DEFINE q == [p EXCEPT !.current = next]
<1>2. Steady(p, q)
  BY DEF Steady, Fields
<1>3. navigateMatch(p, d) = q \/ navigateMatch(p, d) = scrollToCurrentMatch(q)
  BY <1>1
<1> HIDE DEF q
<1> QED
  BY <1>2, <1>3, ScrollSteady DEF Steady

\* A search that begins or ends.
LEMMA SyncSteady ==
  ASSUME NEW p, DOMAIN p = Fields
  PROVE  Steady(p, syncSearchCollapseSnapshot(p))
<1> DEFINE restored == [p EXCEPT !.collapsed = p.pre]
           ended == IF p.collapsed = p.pre THEN p ELSE Persist(restored, FocusedEntryKey(restored))
<1>1. Steady(p, restored)
  BY DEF Steady, Fields
<1> HIDE DEF restored
<1>2. Steady(p, ended)
  BY <1>1, PersistSteady DEF Steady
<1> HIDE DEF ended
<1>3. /\ Steady(p, p)
      /\ Steady(p, [p EXCEPT !.pre = p.collapsed, !.searching = TRUE,
                             !.past = [before |-> p.collapsed, touched |-> {}, late |-> FALSE]])
  BY DEF Steady, Fields
<1>4. Steady(p, [ended EXCEPT !.pre = {}, !.searching = FALSE])
  BY <1>2 DEF Steady, Fields
<1>5. \/ syncSearchCollapseSnapshot(p) =
           [p EXCEPT !.pre = p.collapsed, !.searching = TRUE,
                     !.past = [before |-> p.collapsed, touched |-> {}, late |-> FALSE]]
      \/ syncSearchCollapseSnapshot(p) = [ended EXCEPT !.pre = {}, !.searching = FALSE]
      \/ syncSearchCollapseSnapshot(p) = p
  BY Zenon DEF syncSearchCollapseSnapshot, ended, restored
<1> QED
  BY <1>3, <1>4, <1>5

\* The search bar keeps the keyboard it has.
LEMMA SearchKeeps ==
  ASSUME NEW p, InSearch(p), NEW e
  PROVE  InSearch(handleSearchNavigation(p, e))
<1> DEFINE q == CASE e.k = "type"  -> [p EXCEPT !.query = e.query]
                  [] e.k = "enter" -> navigateMatch(p, 1)
                  [] e.k = "prev"  -> [navigateMatch(p, -1) EXCEPT !.focus = SearchTag]
                  [] e.k = "next"  -> [navigateMatch(p, 1) EXCEPT !.focus = SearchTag]
                  [] OTHER -> p
<1>1. InSearch(q)
  <2>1. InSearch(p) /\ InSearch([p EXCEPT !.query = e.query])
    BY DEF InSearch, Fields
  <2>2. InSearch(navigateMatch(p, 1)) /\ InSearch(navigateMatch(p, -1))
    BY NavigateSteady DEF Steady, InSearch
  <2>3. \A r : InSearch(r) => InSearch([r EXCEPT !.focus = SearchTag])
    BY DEF InSearch, Fields
  <2> QED
    BY <2>1, <2>2, <2>3
<1>2. \E last, current :
        LET changed == [q EXCEPT !.lastQuery = last, !.current = current]
        IN  \/ handleSearchNavigation(p, e) = scrollToCurrentMatch(changed)
            \/ handleSearchNavigation(p, e) = changed
            \/ handleSearchNavigation(p, e) = [q EXCEPT !.current = current]
  BY DEF handleSearchNavigation, q
<1> HIDE DEF q
<1>3. PICK last, current :
        LET changed == [q EXCEPT !.lastQuery = last, !.current = current]
        IN  \/ handleSearchNavigation(p, e) = scrollToCurrentMatch(changed)
            \/ handleSearchNavigation(p, e) = changed
            \/ handleSearchNavigation(p, e) = [q EXCEPT !.current = current]
  BY <1>2
<1> DEFINE changed == [q EXCEPT !.lastQuery = last, !.current = current]
<1>4. InSearch(changed) /\ InSearch([q EXCEPT !.current = current])
  BY <1>1 DEF InSearch, Fields
<1>5. \/ handleSearchNavigation(p, e) = scrollToCurrentMatch(changed)
      \/ handleSearchNavigation(p, e) = changed
      \/ handleSearchNavigation(p, e) = [q EXCEPT !.current = current]
  BY <1>3
<1> HIDE DEF changed
<1> QED
  BY <1>4, <1>5, ScrollSteady DEF Steady, InSearch

\* A focus request does not take the keyboard from a search.
LEMMA NoticeKeeps ==
  ASSUME NEW p, DOMAIN p = Fields, NEW lands
  PROVE  LET q == noticeFocus(p, lands)
         IN  /\ DOMAIN q = Fields /\ q.query = p.query
             /\ SearchFocused(p) => q.focus = SearchTag
<1> DEFINE Kept(q) == /\ DOMAIN q = Fields /\ q.query = p.query
                      /\ SearchFocused(p) => q.focus = SearchTag
<1>1. Kept(highlightFocus(p, lands))
  <2> DEFINE Ended(r, row, col) == [r EXCEPT !.highlight = FALSE, !.attempts = 0,
                                             !.pendingKey = NoKey,
                                             !.lastRow = row, !.lastCol = col]
  <2>1. ASSUME NEW r, DOMAIN r = Fields, NEW row, NEW col, NEW n
        PROVE  Steady(r, Ended(r, row, col)) /\ Steady(r, [r EXCEPT !.attempts = n])
    BY <2>1 DEF Steady, Fields
  <2>2. CASE SearchFocused(p)
    <3>1. highlightFocus(p, lands) = Ended(p, p.row, p.col)
      BY <2>2 DEF highlightFocus
    <3> HIDE DEF Ended
    <3> QED
      BY <2>1, <2>2, <3>1 DEF Steady, SearchFocused
  <2>3. CASE ~SearchFocused(p)
    <3>1. \E tag, n, row, col :
            LET q == Grab(p, tag, lands)
            IN  \/ highlightFocus(p, lands) = [q EXCEPT !.attempts = n]
                \/ \E r \in {p, q} : highlightFocus(p, lands) = Ended(r, row, col)
      BY DEF highlightFocus
    <3> HIDE DEF Ended
    <3>2. PICK tag, n, row, col :
            LET q == Grab(p, tag, lands)
            IN  \/ highlightFocus(p, lands) = [q EXCEPT !.attempts = n]
                \/ \E r \in {p, q} : highlightFocus(p, lands) = Ended(r, row, col)
      BY <3>1
    <3>3. DOMAIN Grab(p, tag, lands) = Fields /\ Grab(p, tag, lands).query = p.query
      BY DEF Grab, Fields
    <3> DEFINE q == Grab(p, tag, lands)
    <3>4. \/ highlightFocus(p, lands) = [q EXCEPT !.attempts = n]
          \/ \E r \in {p, q} : highlightFocus(p, lands) = Ended(r, row, col)
      BY <3>2
    <3>5. DOMAIN q = Fields /\ q.query = p.query
      BY <3>3
    <3> HIDE DEF q
    <3>6. \A r \in {p, q} : /\ Kept([r EXCEPT !.attempts = n])
                           /\ Kept(Ended(r, row, col))
      BY <2>1, <2>3, <3>5 DEF Steady
    <3> QED
      BY <3>4, <3>6
  <2> QED
    BY <2>2, <2>3
<1> DEFINE moved == [p EXCEPT !.lastRow = p.row, !.lastCol = p.col]
<1>2. Steady(p, moved) /\ Steady(p, p)
  BY DEF Steady, Fields
<1>3. \/ noticeFocus(p, lands) = highlightFocus(p, lands)
      \/ noticeFocus(p, lands) = moved
      \/ noticeFocus(p, lands) = Persist(moved, FocusedEntryKey(moved))
      \/ noticeFocus(p, lands) = p
  BY DEF noticeFocus
<1> HIDE DEF moved
<1>4. \A q : Steady(p, q) => Kept(q)
  BY DEF Steady, SearchFocused
<1>5. Steady(p, Persist(moved, FocusedEntryKey(moved)))
  BY <1>2, PersistSteady DEF Steady
<1> QED
  BY <1>1, <1>2, <1>3, <1>4, <1>5

\* One frame of who works in the search field: no overlay opens, the table gets
\* no event, and the request of a jump is refused.
LEMMA RedrawKeeps ==
  ASSUME Page(pg), pg.focus = SearchTag, NEW e, Searching(e), NEW lands, Redraw(e, lands),
         pg'.query # NoQuery
  PROVE  pg'.focus = SearchTag
<1> DEFINE start    == [pg EXCEPT !.done = Nothing]
           polled   == poll(start, e)
           keyed    == handleKeyEvents(polled, e, lands)
           matched  == [keyed EXCEPT !.matches = MatchingEntries(keyed)]
           synced   == syncSearchCollapseSnapshot(matched)
           opened   == UncollapseMatchAncestors(synced)
           searched == handleSearchNavigation(opened, e)
           shown    == [searched EXCEPT !.filtered = VisibleRows(searched.entries, searched.collapsed)]
           placed   == placeFocus(shown)
           noticed  == noticeFocus(placed, lands)
           laid     == layoutTable(noticed, e)
           q        == layoutOverlays(laid, e, pg, lands)
           Same(p)  == p.menu = pg.menu /\ p.dialog = pg.dialog
<1>1. pg' = dropFocus(q)
  BY DEF Redraw
<1>2. InSearch(start) /\ Same(start)
  BY DEF Page, InSearch, Fields
<1> HIDE DEF start
<1>3. polled = start
  BY DEF poll, pollChartUIState, Searching
<1> HIDE DEF polled
<1>4. InSearch(keyed) /\ Same(keyed)
  <2>1. InSearch([start EXCEPT !.query = NoQuery]) /\ Same([start EXCEPT !.query = NoQuery])
    BY <1>2 DEF InSearch, Fields
  <2>2. InSearch(navigateMatch(start, -1)) /\ Same(navigateMatch(start, -1))
    BY <1>2, NavigateSteady, NavigateApart DEF Steady, Apart, InSearch
  <2>3. keyed \in {start, [start EXCEPT !.query = NoQuery], navigateMatch(start, -1)}
    BY <1>3 DEF handleKeyEvents, Searching
  <2> QED
    BY <1>2, <2>1, <2>2, <2>3
<1> HIDE DEF keyed
<1>5. InSearch(matched) /\ Same(matched)
  BY <1>4 DEF InSearch, Fields
<1> HIDE DEF matched
<1>6. InSearch(synced) /\ Same(synced)
  BY <1>5, SyncSteady, SyncApart DEF Steady, Apart, InSearch
<1> HIDE DEF synced
<1>7. InSearch(opened) /\ Same(opened)
  BY <1>6 DEF UncollapseMatchAncestors, InSearch, Fields
<1> HIDE DEF opened
<1>8. InSearch(searched) /\ Same(searched)
  BY <1>7, SearchKeeps, SearchApart DEF Apart, InSearch
<1> HIDE DEF searched
<1>9. InSearch(shown) /\ Same(shown)
  BY <1>8 DEF InSearch, Fields
<1> HIDE DEF shown
<1>10. InSearch(placed) /\ Same(placed)
  <2>1. \E row, col : placeFocus(shown) = [shown EXCEPT !.row = row, !.col = col]
    BY DEF placeFocus
  <2>2. PICK row, col : placed = [shown EXCEPT !.row = row, !.col = col]
    BY <2>1
  <2> HIDE DEF placed
  <2> QED
    BY <1>9, <2>2 DEF InSearch, Fields
<1> HIDE DEF placed
<1>11. /\ DOMAIN noticed = Fields /\ Same(noticed) /\ noticed.query = placed.query
       /\ SearchFocused(placed) => noticed.focus = SearchTag
  BY <1>10, NoticeKeeps, NoticeApart DEF Apart, InSearch
<1> HIDE DEF noticed
<1>12. laid = noticed
  BY DEF layoutTable, Searching
<1> HIDE DEF laid
<1>13. q = laid
  BY <1>11, <1>12 DEF layoutOverlays, Searching
<1> HIDE DEF q
<1>14. pg'.query = noticed.query
  BY <1>1, <1>11, <1>12, <1>13 DEF dropFocus, Fields
<1>15. noticed.focus = SearchTag
  BY <1>10, <1>11, <1>14 DEF SearchFocused, InSearch
<1> QED
  BY <1>1, <1>12, <1>13, <1>15 DEF dropFocus, SearchTag, OverlayTag

\* Who types in the search field or steps through its matches keeps the keyboard,
\* although every jump to a match asks for it (values_page.go:523), for any tables,
\* queries and number of attempts.
THEOREM SearchKeepsKeyboard == Spec => TypingStaysInSearch
<1> DEFINE Stays == pg.focus = SearchTag /\ pg'.query # NoQuery /\ pg'.focus # SearchTag
                      => ~(Quiet \/ Type \/ StepMatch)
<1>1. ASSUME IInv, pg.focus = SearchTag, pg'.query # NoQuery, Quiet \/ Type \/ StepMatch
      PROVE  pg'.focus = SearchTag
  <2>1. \E e, lands : Searching(e) /\ Redraw(e, lands)
    <3>1. CASE Quiet
      BY <3>1 DEF Quiet, Idle, Frame, Searching
    <3>2. CASE Type
      BY <3>2 DEF Type, Act, Frame, Searching
    <3>3. CASE StepMatch
      BY <3>3 DEF StepMatch, Act, Frame, Searching
    <3> QED
      BY <1>1, <3>1, <3>2, <3>3
  <2> QED
    BY <1>1, <2>1, RedrawKeeps DEF IInv
<1>2. IInv /\ [Next]_vars => [Stays]_vars
  BY <1>1
<1> QED
  BY <1>2, ViewInvariant, PTL DEF Spec, TypingStaysInSearch

-----------------------------------------------------------------------------
(* What a search leaves in the collapsed sections.                         *)

\* While a search lasts the set it will restore is the one it found, but for
\* the sections the user acted on.
Traced(p) ==
  /\ p.past = [before |-> p.past.before, touched |-> p.past.touched, late |-> p.past.late]
  /\ p.searching /\ ~p.past.late => SameBut(p.pre, p.past.before, p.past.touched)

\* Neither the sections after a search nor what was saved since has more to show.
NoTrace(p, saved) ==
  ~p.past.late => /\ ~p.searching => SameBut(p.collapsed, p.past.before, p.past.touched)
                  /\ p.saved # saved => SameBut(p.saved[p.chart].collapsed, p.past.before, p.past.touched)

\* A step in a frame, before or after the search begins or ends.
Carries(p, q) ==
  /\ DOMAIN q = Fields /\ q.searching = p.searching /\ q.entries = p.entries
  /\ Traced(p) => Traced(q)
  /\ \A saved : Traced(p) /\ NoTrace(p, saved) => NoTrace(q, saved)

\* A step after the rows were computed.
Follows(p, q) ==
  /\ Carries(p, q)
  /\ q.filtered = p.filtered /\ q.matches = p.matches /\ q.current = p.current

\* A step that does not touch the sections.
Alike(p, q) ==
  /\ DOMAIN q = Fields /\ q.entries = p.entries
  /\ q.collapsed = p.collapsed /\ q.pre = p.pre /\ q.searching = p.searching
  /\ q.past = p.past /\ q.saved = p.saved /\ q.chart = p.chart

\* A step that does not touch the rows either.
Beside(p, q) ==
  Alike(p, q) /\ q.filtered = p.filtered /\ q.matches = p.matches /\ q.current = p.current

LEMMA AlikeCarries ==
  ASSUME NEW p, NEW q, Alike(p, q)
  PROVE  Carries(p, q)
BY DEF Alike, Carries, Traced, NoTrace

LEMMA BesideFollows ==
  ASSUME NEW p, NEW q, Beside(p, q)
  PROVE  Follows(p, q)
BY AlikeCarries DEF Beside, Follows

\* Such steps follow one another.
LEMMA FollowsTransitive ==
  ASSUME NEW p, NEW q, NEW r, Follows(p, q), Follows(q, r)
  PROVE  Follows(p, r)
BY DEF Follows, Carries

\* What is handed over to be stored is what the search found.
LEMMA PersistFollows ==
  ASSUME NEW p, DOMAIN p = Fields, NEW key
  PROVE  Follows(p, Persist(p, key))
<1> DEFINE q == Persist(p, key)
<1>1. /\ DOMAIN q = Fields /\ q.searching = p.searching /\ q.pre = p.pre /\ q.past = p.past
      /\ q.collapsed = p.collapsed /\ q.filtered = p.filtered /\ q.matches = p.matches
      /\ q.current = p.current /\ q.saved[q.chart].collapsed = persistedCollapsedKeys(p)
      /\ q.entries = p.entries
  BY DEF Persist, Stored, Fields
<1> HIDE DEF q
<1>2. ASSUME NEW saved, Traced(p), NoTrace(p, saved) PROVE NoTrace(q, saved)
  BY <1>1, <1>2 DEF Traced, NoTrace, persistedCollapsedKeys
<1>3. Carries(p, q)
  BY <1>1, <1>2 DEF Carries, Traced
<1> QED
  BY <1>1, <1>3 DEF Follows, q

\* A toggle acts on the set in use, and in a search on the one it will restore.
LEMMA ToggleFollows ==
  ASSUME NEW p, DOMAIN p = Fields, NEW k
  PROVE  Follows(p, onCollapseToggle(p, k))
<1> DEFINE q == [p EXCEPT !.collapsed = Flip(@, k),
                          !.pre = IF p.searching THEN Flip(@, k) ELSE @,
                          !.past.touched = @ \union {k}]
<1>1. /\ DOMAIN q = Fields /\ q.searching = p.searching /\ q.saved = p.saved /\ q.chart = p.chart
      /\ q.entries = p.entries
      /\ q.filtered = p.filtered /\ q.matches = p.matches /\ q.current = p.current
      /\ q.collapsed = Flip(p.collapsed, k)
      /\ q.pre = IF p.searching THEN Flip(p.pre, k) ELSE p.pre
      /\ q.past = [p.past EXCEPT !.touched = @ \union {k}]
  BY DEF Fields
<1>2. onCollapseToggle(p, k) = Persist(q, FocusedEntryKey(q))
  BY DEF onCollapseToggle
<1> HIDE DEF q
<1>3. ASSUME Traced(p)
      PROVE  /\ q.past.before = p.past.before /\ q.past.late = p.past.late
             /\ q.past.touched = p.past.touched \union {k}
             /\ q.past = [before |-> q.past.before, touched |-> q.past.touched, late |-> q.past.late]
  BY <1>1, <1>3 DEF Traced
<1>4. ASSUME NEW S, NEW T, NEW U, SameBut(S, T, U)
      PROVE  SameBut(Flip(S, k), T, U \union {k}) /\ SameBut(S, T, U \union {k})
  BY <1>4 DEF SameBut, Flip
<1>5. Traced(p) => Traced(q)
  BY <1>1, <1>3, <1>4 DEF Traced
<1>6. ASSUME NEW saved, Traced(p), NoTrace(p, saved) PROVE NoTrace(q, saved)
  BY <1>1, <1>3, <1>4, <1>6 DEF NoTrace
<1>7. Follows(p, q)
  BY <1>1, <1>5, <1>6 DEF Follows, Carries
<1> QED
  BY <1>1, <1>2, <1>7, PersistFollows, FollowsTransitive

\* A jump opens the sections over its target; in a search they close again.
LEMMA JumpFollows ==
  ASSUME NEW p, DOMAIN p = Fields, NEW k
  PROVE  Follows(p, jumpToFlatKey(p, k))
<1> DEFINE q == jumpToFlatKey(p, k)
<1>1. /\ DOMAIN q = Fields /\ q.searching = p.searching /\ q.saved = p.saved
      /\ q.chart = p.chart /\ q.pre = p.pre
      /\ q.entries = p.entries
      /\ q.filtered = p.filtered /\ q.matches = p.matches /\ q.current = p.current
      /\ q.collapsed = p.collapsed \ Above(k)
      /\ q.past = [p.past EXCEPT !.touched = IF p.searching THEN @ ELSE @ \union Above(k)]
  BY DEF jumpToFlatKey, Fields
<1> HIDE DEF q
<1>2. ASSUME Traced(p)
      PROVE  /\ q.past.before = p.past.before /\ q.past.late = p.past.late
             /\ q.past.touched = IF p.searching THEN p.past.touched
                                                ELSE p.past.touched \union Above(k)
             /\ q.past = [before |-> q.past.before, touched |-> q.past.touched, late |-> q.past.late]
  BY <1>1, <1>2 DEF Traced
<1>3. ASSUME NEW S, NEW T, NEW U, SameBut(S, T, U)
      PROVE  SameBut(S \ Above(k), T, U \union Above(k)) /\ SameBut(S, T, U \union Above(k))
  BY <1>3 DEF SameBut
<1>4. Traced(p) => Traced(q)
  BY <1>1, <1>2 DEF Traced
<1>5. ASSUME NEW saved, Traced(p), NoTrace(p, saved) PROVE NoTrace(q, saved)
  <2>1. CASE p.searching
    <3>1. q.past.touched = p.past.touched
      BY <1>2, <1>5, <2>1
    <3> QED
      BY <1>1, <1>2, <1>5, <2>1, <3>1 DEF NoTrace
  <2>2. CASE ~p.searching
    <3>1. q.past.touched = p.past.touched \union Above(k)
      BY <1>2, <1>5, <2>2
    <3>2. ASSUME ~p.past.late
          PROVE  SameBut(q.collapsed, q.past.before, q.past.touched)
      <4>1. SameBut(p.collapsed, p.past.before, p.past.touched)
        BY <1>5, <2>2, <3>2 DEF NoTrace
      <4> QED
        BY <1>1, <1>2, <1>3, <1>5, <3>1, <4>1
    <3>3. ASSUME ~p.past.late, p.saved # saved
          PROVE  SameBut(q.saved[q.chart].collapsed, q.past.before, q.past.touched)
      <4>1. SameBut(p.saved[p.chart].collapsed, p.past.before, p.past.touched)
        BY <1>5, <3>3 DEF NoTrace
      <4>2. /\ q.saved = p.saved /\ q.chart = p.chart /\ q.past.before = p.past.before
            /\ q.past.touched = p.past.touched \union Above(k)
        BY <1>1, <1>2, <1>5, <3>1
      <4>3. SameBut(p.saved[p.chart].collapsed, p.past.before, p.past.touched \union Above(k))
        BY <1>3, <4>1
      <4> QED
        BY <4>2, <4>3
    <3> QED
      BY <1>1, <1>2, <1>5, <3>2, <3>3 DEF NoTrace
  <2> QED
    BY <2>1, <2>2
<1>6. Carries(p, q)
  BY <1>1, <1>4, <1>5 DEF Carries
<1> QED
  BY <1>1, <1>6 DEF Follows, q

\* The sections are restored when the search ends.
LEMMA SyncCarries ==
  ASSUME NEW p, DOMAIN p = Fields, Traced(p)
  PROVE  LET q == syncSearchCollapseSnapshot(p)
         IN  /\ DOMAIN q = Fields /\ Traced(q) /\ q.query = p.query
             /\ q.query # NoQuery => q.searching
             /\ q.entries = p.entries /\ q.matches = p.matches /\ q.current = p.current
             /\ p.searching => \A saved : NoTrace(p, saved) => NoTrace(q, saved)
<1> DEFINE q        == syncSearchCollapseSnapshot(p)
           begun    == [p EXCEPT !.pre = p.collapsed, !.searching = TRUE,
                                 !.past = [before |-> p.collapsed, touched |-> {}, late |-> FALSE]]
           restored == [p EXCEPT !.collapsed = p.pre]
           kept     == Persist(restored, FocusedEntryKey(restored))
           ended    == IF p.collapsed = p.pre THEN p ELSE kept
           closed   == [ended EXCEPT !.pre = {}, !.searching = FALSE]
<1>1. CASE p.query # NoQuery /\ ~p.searching
  <2>1. q = begun
    BY <1>1 DEF syncSearchCollapseSnapshot
  <2>2. /\ DOMAIN begun = Fields /\ begun.query = p.query /\ begun.entries = p.entries
        /\ begun.matches = p.matches /\ begun.searching /\ begun.pre = p.collapsed
        /\ begun.current = p.current
        /\ begun.past = [before |-> p.collapsed, touched |-> {}, late |-> FALSE]
    BY DEF Fields
  <2> HIDE DEF begun, q
  <2>3. Traced(begun)
    BY <2>2 DEF Traced, SameBut
  <2> QED
    BY <1>1, <2>1, <2>2, <2>3 DEF q
<1>2. CASE p.query = NoQuery /\ p.searching
  <2>1. /\ DOMAIN restored = Fields /\ restored.query = p.query /\ restored.entries = p.entries
        /\ restored.matches = p.matches /\ restored.searching = p.searching
        /\ restored.current = p.current /\ restored.chart = p.chart
        /\ restored.past = p.past /\ restored.collapsed = p.pre /\ restored.pre = p.pre
    BY DEF Fields
  <2> HIDE DEF restored
  <2>2. /\ DOMAIN kept = Fields /\ kept.query = p.query /\ kept.entries = p.entries
        /\ kept.matches = p.matches /\ kept.current = p.current
        /\ kept.past = p.past /\ kept.collapsed = p.pre
        /\ kept.saved[kept.chart].collapsed = p.pre
    BY <1>2, <2>1 DEF Persist, Stored, persistedCollapsedKeys, Fields
  <2> HIDE DEF kept
  <2>3. /\ DOMAIN ended = Fields /\ ended.query = p.query /\ ended.entries = p.entries
        /\ ended.matches = p.matches /\ ended.current = p.current
        /\ ended.past = p.past /\ ended.collapsed = p.pre
        /\ \/ ended.saved = p.saved /\ ended.chart = p.chart
           \/ ended.saved[ended.chart].collapsed = p.pre
    BY <2>2
  <2>4. q = closed
    BY <1>2 DEF syncSearchCollapseSnapshot, kept, restored
  <2> HIDE DEF ended, q
  <2>5. /\ DOMAIN closed = Fields /\ closed.query = p.query /\ closed.entries = p.entries
        /\ closed.matches = p.matches /\ closed.current = p.current
        /\ closed.past = p.past /\ closed.collapsed = p.pre
        /\ \/ closed.saved = p.saved /\ closed.chart = p.chart
           \/ closed.saved[closed.chart].collapsed = p.pre
        /\ closed.searching = FALSE
    BY <2>3 DEF Fields
  <2> HIDE DEF closed
  <2>6. Traced(closed)
    BY <2>5 DEF Traced
  <2>7. ASSUME NEW saved, NoTrace(p, saved) PROVE NoTrace(closed, saved)
    BY <1>2, <2>5, <2>7 DEF Traced, NoTrace
  <2> QED
    BY <1>2, <2>4, <2>5, <2>6, <2>7 DEF q
<1>3. CASE p.query = NoQuery <=> ~p.searching
  <2>1. q = p
    BY <1>3 DEF syncSearchCollapseSnapshot
  <2> QED
    BY <1>3, <2>1
<1> QED
  BY <1>1, <1>2, <1>3

\* Taking the keyboard to an editor.
LEMMA GrabBeside ==
  ASSUME NEW p, DOMAIN p = Fields, NEW tag, NEW lands
  PROVE  Beside(p, Grab(p, tag, lands))
BY DEF Grab, Beside, Alike, Fields

\* The row of the current match is brought into view.
LEMMA ScrollFollows ==
  ASSUME NEW p, DOMAIN p = Fields
  PROVE  Follows(p, scrollToCurrentMatch(p))
<1>1. Follows(p, p)
  BY BesideFollows DEF Beside, Alike
<1> QED
  BY <1>1, JumpFollows DEF scrollToCurrentMatch

\* The cursor moves to the next or the previous match.
LEMMA NavigateCarries ==
  ASSUME NEW p, DOMAIN p = Fields, NEW d
  PROVE  Carries(p, navigateMatch(p, d))
<1>1. PICK next : \/ navigateMatch(p, d) = [p EXCEPT !.current = next]
                  \/ navigateMatch(p, d) = scrollToCurrentMatch([p EXCEPT !.current = next])
  BY DEF navigateMatch
<1> DEFINE q == [p EXCEPT !.current = next]
<1>2. Alike(p, q)
  BY DEF Alike, Fields
<1>3. navigateMatch(p, d) = q \/ navigateMatch(p, d) = scrollToCurrentMatch(q)
  BY <1>1
<1> HIDE DEF q
<1>4. Carries(p, q) /\ Carries(q, scrollToCurrentMatch(q))
  BY <1>2, AlikeCarries, ScrollFollows DEF Alike, Follows
<1> QED
  BY <1>3, <1>4 DEF Carries

\* Typing, stepping and leaving in the search bar.
LEMMA SearchCarries ==
  ASSUME NEW p, DOMAIN p = Fields, NEW e
  PROVE  Carries(p, handleSearchNavigation(p, e))
<1> DEFINE q == CASE e.k = "type"  -> [p EXCEPT !.query = e.query]
                  [] e.k = "enter" -> navigateMatch(p, 1)
                  [] e.k = "prev"  -> [navigateMatch(p, -1) EXCEPT !.focus = SearchTag]
                  [] e.k = "next"  -> [navigateMatch(p, 1) EXCEPT !.focus = SearchTag]
                  [] OTHER -> p
<1>1. Carries(p, q)
  <2>1. Carries(p, p) /\ Carries(p, [p EXCEPT !.query = e.query])
    BY AlikeCarries DEF Alike, Fields
  <2>2. Carries(p, navigateMatch(p, 1)) /\ Carries(p, navigateMatch(p, -1))
    BY NavigateCarries
  <2>3. ASSUME NEW r, Carries(p, r) PROVE Carries(p, [r EXCEPT !.focus = SearchTag])
    <3>1. Alike(r, [r EXCEPT !.focus = SearchTag])
      BY <2>3 DEF Carries, Alike, Fields
    <3> QED
      BY <2>3, <3>1, AlikeCarries DEF Carries
  <2>4. /\ Carries(p, [navigateMatch(p, 1) EXCEPT !.focus = SearchTag])
        /\ Carries(p, [navigateMatch(p, -1) EXCEPT !.focus = SearchTag])
    BY <2>2, <2>3
  <2> QED
    BY <2>1, <2>2, <2>4
<1>2. \E last, current :
        LET changed == [q EXCEPT !.lastQuery = last, !.current = current]
        IN  \/ handleSearchNavigation(p, e) = scrollToCurrentMatch(changed)
            \/ handleSearchNavigation(p, e) = changed
            \/ handleSearchNavigation(p, e) = [q EXCEPT !.current = current]
  BY DEF handleSearchNavigation, q
<1> HIDE DEF q
<1>3. PICK last, current :
        LET changed == [q EXCEPT !.lastQuery = last, !.current = current]
        IN  \/ handleSearchNavigation(p, e) = scrollToCurrentMatch(changed)
            \/ handleSearchNavigation(p, e) = changed
            \/ handleSearchNavigation(p, e) = [q EXCEPT !.current = current]
  BY <1>2
<1> DEFINE changed == [q EXCEPT !.lastQuery = last, !.current = current]
<1>4. Alike(q, changed) /\ Alike(q, [q EXCEPT !.current = current])
  BY <1>1 DEF Carries, Alike, Fields
<1>5. \/ handleSearchNavigation(p, e) = scrollToCurrentMatch(changed)
      \/ handleSearchNavigation(p, e) = changed
      \/ handleSearchNavigation(p, e) = [q EXCEPT !.current = current]
  BY <1>3
<1> HIDE DEF changed
<1>6. Carries(changed, scrollToCurrentMatch(changed))
  BY <1>4, ScrollFollows DEF Alike, Follows
<1>7. Carries(q, handleSearchNavigation(p, e))
  BY <1>4, <1>5, <1>6, AlikeCarries DEF Carries
<1> QED
  BY <1>1, <1>7 DEF Carries

\* Keys: all but Shift+Enter leave the cursor of the search alone.
LEMMA KeysFollow ==
  ASSUME NEW p, DOMAIN p = Fields, NEW e, NEW lands
  PROVE  \/ Follows(p, handleKeyEvents(p, e, lands))
         \/ handleKeyEvents(p, e, lands) = navigateMatch(p, -1)
<1>1. /\ Beside(p, [p EXCEPT !.query = NoQuery, !.focus = SearchTag])
      /\ Beside(p, [p EXCEPT !.query = NoQuery]) /\ Beside(p, [p EXCEPT !.focus = SearchTag])
      /\ Beside(p, p)
  BY DEF Beside, Alike, Fields
<1>2. /\ Beside(p, closeMenu(p)) /\ Beside(p, closeAnchorDialog(p))
      /\ Beside(p, closeUnlockDialog(p)) /\ Beside(p, closeDeleteAnchorDialog(p))
  BY DEF Beside, Alike, Fields, closeMenu, closeAnchorDialog, closeUnlockDialog, closeDeleteAnchorDialog
<1>3. Beside(p, handleEscape(p))
  BY <1>1, <1>2 DEF handleEscape
<1>4. \A d : Beside(p, moveCellFocusRow(p, d, lands)) /\ Beside(p, moveCellFocusCol(p, d, lands))
  <2>1. ASSUME NEW q, Beside(p, q), NEW tag PROVE Beside(p, Grab(q, tag, lands))
    BY <2>1, GrabBeside DEF Beside, Alike
  <2>2. ASSUME NEW row PROVE /\ Beside(p, [p EXCEPT !.row = row])
                             /\ Beside(p, [[p EXCEPT !.row = row] EXCEPT !.focus = NoTag])
    BY DEF Beside, Alike, Fields
  <2>3. ASSUME NEW row, NEW col PROVE /\ Beside(p, [p EXCEPT !.col = col])
                                      /\ Beside(p, [p EXCEPT !.row = row, !.col = col])
    BY DEF Beside, Alike, Fields
  <2> TAKE d
  <2>4. \E row, tag : \/ moveCellFocusRow(p, d, lands) = p
                      \/ moveCellFocusRow(p, d, lands) = [[p EXCEPT !.row = row] EXCEPT !.focus = NoTag]
                      \/ moveCellFocusRow(p, d, lands) = Grab([p EXCEPT !.row = row], tag, lands)
    BY DEF moveCellFocusRow
  <2>5. Beside(p, moveCellFocusRow(p, d, lands))
    BY <1>1, <2>1, <2>2, <2>4
  <2>6. \E row, col, tag :
          \/ moveCellFocusCol(p, d, lands) = p
          \/ moveCellFocusCol(p, d, lands) = Grab([p EXCEPT !.col = col], tag, lands)
          \/ moveCellFocusCol(p, d, lands) = Grab([p EXCEPT !.row = row, !.col = col], tag, lands)
    BY DEF moveCellFocusCol
  <2>7. Beside(p, moveCellFocusCol(p, d, lands))
    BY <1>1, <2>1, <2>3, <2>6
  <2> QED
    BY <2>5, <2>7
<1>5. Follows(p, handleCollapseShortcut(p))
  <2>1. PICK k, next :
          LET q == onCollapseToggle(p, k)
          IN  \/ handleCollapseShortcut(p) = p
              \/ handleCollapseShortcut(p) = q
              \/ handleCollapseShortcut(p) =
                   [q EXCEPT !.pendingKey = next, !.highlight = TRUE, !.attempts = 0]
    BY DEF handleCollapseShortcut
  <2> DEFINE q == onCollapseToggle(p, k)
  <2>2. Follows(p, q)
    BY ToggleFollows
  <2>3. \/ handleCollapseShortcut(p) = p
        \/ handleCollapseShortcut(p) = q
        \/ handleCollapseShortcut(p) =
             [q EXCEPT !.pendingKey = next, !.highlight = TRUE, !.attempts = 0]
    BY <2>1
  <2> HIDE DEF q
  <2>4. Beside(q, [q EXCEPT !.pendingKey = next, !.highlight = TRUE, !.attempts = 0])
    BY <2>2 DEF Follows, Carries, Beside, Alike, Fields
  <2>5. Follows(q, [q EXCEPT !.pendingKey = next, !.highlight = TRUE, !.attempts = 0])
    BY <2>4, BesideFollows
  <2> QED
    BY <1>1, <2>2, <2>3, <2>5, BesideFollows, FollowsTransitive
<1>6. \A op : Beside(p, openAnchorDialog(p, op))
  <2>1. ASSUME NEW op, NEW cell
        PROVE  Beside(p, [closeMenu(beginAnchorOp(p, op, cell))
                            EXCEPT !.asked.dialog = On(p.chart, cell)])
    BY DEF Beside, Alike, Fields, closeMenu, beginAnchorOp
  <2> QED
    BY <1>1, <2>1 DEF openAnchorDialog
<1>7. \A cell : Beside(p, openAnchorMenu(p, cell))
  BY <1>1 DEF openAnchorMenu, closeAnchorDialog, Beside, Alike, Fields
<1>8. ASSUME NEW q, Beside(p, q) PROVE Follows(p, q)
  BY <1>8, BesideFollows
<1> QED
  BY <1>1, <1>3, <1>4, <1>5, <1>6, <1>7, <1>8 DEF handleKeyEvents

\* A pending key finds its row again.
LEMMA PlaceBeside ==
  ASSUME NEW p, DOMAIN p = Fields
  PROVE  Beside(p, placeFocus(p))
<1>1. \E row, col : placeFocus(p) = [p EXCEPT !.row = row, !.col = col]
  BY DEF placeFocus
<1>2. PICK row, col : placeFocus(p) = [p EXCEPT !.row = row, !.col = col]
  BY <1>1
<1> QED
  BY <1>2 DEF Beside, Alike, Fields

\* A focus request is retried, ends, or gives up; a new focus is handed over.
LEMMA NoticeFollows ==
  ASSUME NEW p, DOMAIN p = Fields, NEW lands
  PROVE  Follows(p, noticeFocus(p, lands))
<1>1. Beside(p, highlightFocus(p, lands))
  <2> DEFINE Ended(r, row, col) == [r EXCEPT !.highlight = FALSE, !.attempts = 0,
                                             !.pendingKey = NoKey,
                                             !.lastRow = row, !.lastCol = col]
  <2>1. \E tag, n, row, col :
          LET q == Grab(p, tag, lands)
          IN  \/ highlightFocus(p, lands) = [q EXCEPT !.attempts = n]
              \/ \E r \in {p, q} : highlightFocus(p, lands) = Ended(r, row, col)
    BY DEF highlightFocus
  <2>2. PICK tag, n, row, col :
          LET q == Grab(p, tag, lands)
          IN  \/ highlightFocus(p, lands) = [q EXCEPT !.attempts = n]
              \/ \E r \in {p, q} : highlightFocus(p, lands) = Ended(r, row, col)
    BY <2>1
  <2> DEFINE q == Grab(p, tag, lands)
  <2>3. Beside(p, q) /\ Beside(p, p)
    BY GrabBeside DEF Beside, Alike
  <2>4. \/ highlightFocus(p, lands) = [q EXCEPT !.attempts = n]
        \/ \E r \in {p, q} : highlightFocus(p, lands) = Ended(r, row, col)
    BY <2>2
  <2> HIDE DEF q
  <2>5. ASSUME NEW r, Beside(p, r)
        PROVE  Beside(p, [r EXCEPT !.attempts = n]) /\ Beside(p, Ended(r, row, col))
    BY <2>5 DEF Beside, Alike, Fields
  <2> QED
    BY <2>3, <2>4, <2>5
<1> DEFINE moved == [p EXCEPT !.lastRow = p.row, !.lastCol = p.col]
<1>2. Beside(p, moved) /\ Beside(p, p) /\ DOMAIN moved = Fields
  BY DEF Beside, Alike, Fields
<1>3. \/ noticeFocus(p, lands) = highlightFocus(p, lands)
      \/ noticeFocus(p, lands) = moved
      \/ noticeFocus(p, lands) = Persist(moved, FocusedEntryKey(moved))
      \/ noticeFocus(p, lands) = p
  BY DEF noticeFocus
<1> HIDE DEF moved
<1>4. Follows(p, Persist(moved, FocusedEntryKey(moved)))
  BY <1>2, BesideFollows, PersistFollows, FollowsTransitive
<1> QED
  BY <1>1, <1>2, <1>3, <1>4, BesideFollows

\* The table: clicks, chevrons, badges, and typing into an alias.
LEMMA TableFollows ==
  ASSUME NEW p, DOMAIN p = Fields, NEW e
  PROVE  Follows(p, layoutTable(p, e))
<1>1. Beside(p, p)
  BY DEF Beside, Alike
<1>2. Beside(p, handleCellClick(p, e))
  BY DEF handleCellClick, Beside, Alike, Fields
<1>3. \A cell : /\ Beside(p, openAnchorMenu(p, cell)) /\ Beside(p, openUnlockDialog(p, cell))
                /\ Beside(p, openAliasesOfDialog(p, cell))
  <2>1. \A cell : Beside(p, openAnchorMenu(p, cell))
    BY DEF openAnchorMenu, closeAnchorDialog, Beside, Alike, Fields
  <2>2. \A cell : Beside(p, openUnlockDialog(p, cell))
    BY DEF openUnlockDialog, Beside, Alike, Fields
  <2>3. \A cell : Beside(p, openAliasesOfDialog(p, cell))
    BY DEF openAliasesOfDialog, closeMenu, Beside, Alike, Fields
  <2> QED
    BY <2>1, <2>2, <2>3
<1>4. Beside(p, drainRightClicks(p, e))
  BY <1>1, <1>3 DEF drainRightClicks
<1>5. ASSUME NEW q, Beside(p, q) PROVE Follows(p, q)
  BY <1>5, BesideFollows
<1>6. Follows(p, layoutChevronSlot(p, e))
  BY <1>1, <1>5, ToggleFollows DEF layoutChevronSlot
<1>7. Follows(p, layoutAnchorBadge(p, e))
  BY <1>1, <1>3, <1>5, JumpFollows DEF layoutAnchorBadge
<1> QED
  BY <1>1, <1>2, <1>3, <1>4, <1>5, <1>6, <1>7 DEF layoutTable

\* The overlays: only the jump to an alias moves anything on the page.
LEMMA OverlaysFollow ==
  ASSUME NEW p, DOMAIN p = Fields, NEW e, NEW before, NEW lands
  PROVE  Follows(p, layoutOverlays(p, e, before, lands))
<1>1. ASSUME NEW r, DOMAIN r = Fields
      PROVE  /\ Beside(r, closeMenu(r)) /\ Beside(r, closeAnchorDialog(r))
             /\ Beside(r, closeUnlockDialog(r)) /\ Beside(r, closeDeleteAnchorDialog(r))
  BY <1>1 DEF Beside, Alike, Fields, closeMenu, closeAnchorDialog, closeUnlockDialog,
              closeDeleteAnchorDialog
<1>2. \A op, col, key : Beside(p, Hand(p, op, col, key))
  BY DEF Beside, Alike, Fields, Hand
<1>3. ASSUME NEW r, NEW s, Beside(p, r), Beside(r, s)
      PROVE  Beside(p, s)
  BY <1>3 DEF Beside, Alike
<1>4. ASSUME NEW r, Beside(p, r)
      PROVE  /\ Beside(p, closeMenu(r)) /\ Beside(p, closeAnchorDialog(r))
             /\ Beside(p, closeUnlockDialog(r)) /\ Beside(p, closeDeleteAnchorDialog(r))
  <2>1. DOMAIN r = Fields
    BY <1>4 DEF Beside, Alike
  <2> QED
    BY <1>1, <1>3, <1>4, <2>1
<1>5. ASSUME NEW op PROVE Beside(p, chooseInMenu(p, op))
  <2>1. Beside(p, [beginAnchorOp(p, op, p.menu) EXCEPT !.asked.dialog = p.asked.menu])
    BY DEF beginAnchorOp, Beside, Alike, Fields
  <2> QED
    BY <1>4, <2>1 DEF chooseInMenu
<1>6. Beside(p, renameAnchor(p))
  BY DEF renameAnchor, Beside, Alike, Fields
<1>7. Beside(p, deleteAnchor(p))
  <2>1. Beside(p, [p EXCEPT !.delete = [col |-> p.dialog.col, key |-> p.dialog.name],
                            !.asked.delete = p.asked.dialog])
    BY DEF Beside, Alike, Fields
  <2> QED
    BY <1>4, <2>1 DEF deleteAnchor
<1>8. Beside(p, p)
  BY DEF Beside, Alike
<1>9. Follows(p, submitAnchorDialog(p, e.key))
  <2>1. Follows(p, applyAnchorOp(p, e.key))
    BY <1>2, <1>8, BesideFollows, JumpFollows DEF applyAnchorOp
  <2>2. DOMAIN applyAnchorOp(p, e.key) = Fields
    BY <2>1 DEF Follows, Carries
  <2>3. Follows(applyAnchorOp(p, e.key), submitAnchorDialog(p, e.key))
    BY <1>1, <2>2, BesideFollows DEF submitAnchorDialog
  <2> QED
    BY <2>1, <2>3, FollowsTransitive
<1> DEFINE q == CASE e.k = "menuCreate" -> chooseInMenu(p, "create")
                  [] e.k = "menuAlias"  -> chooseInMenu(p, "alias")
                  [] e.k = "dismiss"    -> closeMenu(p)
                  [] e.k = "submit"     -> submitAnchorDialog(p, e.key)
                  [] e.k = "cancel"     -> closeAnchorDialog(p)
                  [] e.k = "rename"     -> renameAnchor(p)
                  [] e.k = "delete"     -> deleteAnchor(p)
                  [] e.k = "unlockYes"  ->
                       closeUnlockDialog(Hand(p, "unlock", p.unlock.col, p.unlock.key))
                  [] e.k = "unlockNo"   -> closeUnlockDialog(p)
                  [] e.k = "deleteYes"  ->
                       closeDeleteAnchorDialog(Hand(p, "delete", p.delete.col, p.delete.key))
                  [] e.k = "deleteNo"   -> closeDeleteAnchorDialog(p)
                  [] OTHER -> p
<1>10. Follows(p, q)
  <2>1. \/ Beside(p, q) \/ q = submitAnchorDialog(p, e.key)
    BY <1>2, <1>4, <1>5, <1>6, <1>7, <1>8
  <2> QED
    BY <1>9, <2>1, BesideFollows
<1>11. layoutOverlays(p, e, before, lands) \in {q, Grab(q, OverlayTag, lands)}
  BY DEF layoutOverlays
<1> HIDE DEF q
<1>12. Follows(q, Grab(q, OverlayTag, lands))
  BY <1>10, GrabBeside, BesideFollows DEF Follows, Carries
<1> QED
  BY <1>10, <1>11, <1>12, FollowsTransitive

\* What reaches the page from outside; a saved state in a search is noted as late.
LEMMA PollCarries ==
  ASSUME NEW p, DOMAIN p = Fields, Traced(p), NEW e
  PROVE  LET q == poll(p, e)
         IN  /\ DOMAIN q = Fields /\ Traced(q)
             /\ e.k # "reopen" => /\ q.searching = p.searching
                                  /\ p.searching => \A saved : NoTrace(p, saved) => NoTrace(q, saved)
<1> DEFINE q == poll(p, e)
           restored == [p EXCEPT !.awaiting = FALSE, !.pendingKey = p.saved[p.chart].key,
                                 !.col = p.saved[p.chart].col,
                                 !.highlight = TRUE, !.attempts = 0, !.collapsed = p.saved[p.chart].collapsed,
                                 !.past.late = p.searching]
<1>1. CASE e.k = "reopen"
  <2>1. /\ DOMAIN ResetState(p, e.chart) = Fields /\ ResetState(p, e.chart).past = Opened.past
        /\ ResetState(p, e.chart).searching = Opened.searching
    BY DEF ResetState, Opened, Fields
  <2>2. Opened.past = [before |-> {}, touched |-> {}, late |-> FALSE] /\ Opened.searching = FALSE
    BY DEF Opened
  <2>3. Traced(ResetState(p, e.chart))
    BY <2>1, <2>2 DEF Traced
  <2> QED
    BY <1>1, <2>1, <2>3 DEF poll, q
<1>2. CASE e.k # "reopen"
  <2> DEFINE Kept(r) == /\ DOMAIN r = Fields /\ r.collapsed = p.collapsed /\ r.pre = p.pre
                        /\ r.searching = p.searching /\ r.past = p.past
                        /\ r.saved = p.saved /\ r.chart = p.chart
  <2>1. Kept(q) \/ q = restored
    <3>1. /\ Kept(p) /\ Kept([p EXCEPT !.awaiting = FALSE])
          /\ \A x : Kept([p EXCEPT !.entries = x]) /\ Kept([p EXCEPT !.columns = x])
      BY DEF Fields
    <3> HIDE DEF Kept
    <3> QED
      BY <1>2, <3>1 DEF poll, pollChartUIState
  <2>2. CASE Kept(q)
    <3> HIDE DEF q
    <3>1. Traced(q) /\ \A saved : NoTrace(p, saved) => NoTrace(q, saved)
      BY <2>2 DEF Traced, NoTrace
    <3> QED
      BY <2>2, <3>1 DEF q
  <2>3. CASE q = restored
    <3>1. /\ DOMAIN restored = Fields /\ restored.searching = p.searching
          /\ restored.past = [p.past EXCEPT !.late = p.searching]
      BY DEF Fields
    <3> HIDE DEF restored
    <3>2. restored.past = [before |-> p.past.before, touched |-> p.past.touched, late |-> p.searching]
      BY <3>1 DEF Traced
    <3>3. Traced(restored) /\ \A saved : p.searching => NoTrace(restored, saved)
      BY <3>1, <3>2 DEF Traced, NoTrace
    <3> QED
      BY <2>3, <3>1, <3>3 DEF q
  <2> QED
    BY <2>1, <2>2, <2>3
<1> QED
  BY <1>1, <1>2

\* The cursor of a search is a number, its matches are numbers of entries.
Cursor(p) == p.entries \in Tables /\ p.matches \in Seq(Nat) /\ p.current \in Nat

\* Another chart and another table; the matches are computed anew in the same frame.
LEMMA PollCursor ==
  ASSUME NEW p, DOMAIN p = Fields, Cursor(p), NEW e, e.k = "rebuild" => e.table \in Tables
  PROVE  Cursor(poll(p, e))
<1>1. Cursor(ResetState(p, e.chart))
  <2>1. /\ ResetState(p, e.chart).entries = FirstTable /\ ResetState(p, e.chart).matches = <<>>
        /\ ResetState(p, e.chart).current = 0
    BY DEF ResetState, Opened
  <2> QED
    BY <2>1, ValuesViewAssumption DEF Cursor
<1>2. e.k = "rebuild" => Cursor([p EXCEPT !.entries = e.table])
  BY DEF Cursor, Fields
<1>3. \A x : Cursor([p EXCEPT !.columns = x])
  BY DEF Cursor, Fields
<1>4. Cursor(pollChartUIState(p, e))
  BY DEF pollChartUIState, Cursor, Fields
<1> QED
  BY <1>1, <1>2, <1>3, <1>4 DEF poll

\* The cursor moves within the matches.
LEMMA NavigateCursor ==
  ASSUME NEW p, DOMAIN p = Fields, p.matches \in Seq(Nat), p.current \in Nat, NEW d \in {-1, 1}
  PROVE  LET q == navigateMatch(p, d)
         IN  /\ q.entries = p.entries /\ q.matches = p.matches /\ q.current \in Nat
             /\ q.collapsed \subseteq p.collapsed
<1> DEFINE n == Len(p.matches)
           next == CASE n = 0 -> 0
                     [] n > 0 /\ p.current = 0 -> IF d > 0 THEN 1 ELSE n
                     [] OTHER -> ((p.current - 1 + d + n) % n) + 1
           q == [p EXCEPT !.current = next]
<1>1. n \in Nat
  BY LenProperties
<1>2. next \in Nat
  <2> HIDE DEF n
  <2>1. n > 0 => (p.current - 1 + d + n) % n \in 0..(n - 1)
    BY <1>1
  <2> QED
    BY <1>1, <2>1
<1>3. /\ DOMAIN q = Fields /\ q.entries = p.entries /\ q.matches = p.matches
      /\ q.current = next /\ q.collapsed = p.collapsed
  BY DEF Fields
<1>4. navigateMatch(p, d) = q \/ navigateMatch(p, d) = scrollToCurrentMatch(q)
  BY DEF navigateMatch
<1> HIDE DEF q, next, n
<1>5. scrollToCurrentMatch(q) = q \/ \E k : scrollToCurrentMatch(q) = jumpToFlatKey(q, k)
  BY DEF scrollToCurrentMatch
<1>6. \A k : LET j == jumpToFlatKey(q, k)
             IN  /\ j.entries = q.entries /\ j.matches = q.matches /\ j.current = q.current
                 /\ j.collapsed \subseteq q.collapsed
  BY <1>3 DEF jumpToFlatKey, Fields
<1> QED
  BY <1>2, <1>3, <1>4, <1>5, <1>6

\* An editor that was not laid out loses the keyboard.
LEMMA DropBeside ==
  ASSUME NEW p, DOMAIN p = Fields
  PROVE  Beside(p, dropFocus(p))
BY DEF dropFocus, Beside, Alike, Fields

\* From the rows of a frame to its end.
LEMMA RestFollows ==
  ASSUME NEW p, DOMAIN p = Fields, NEW e, NEW before, NEW lands
  PROVE  Follows(p, dropFocus(layoutOverlays(layoutTable(noticeFocus(placeFocus(p), lands), e),
                                             e, before, lands)))
<1> DEFINE placed  == placeFocus(p)
           noticed == noticeFocus(placed, lands)
           laid    == layoutTable(noticed, e)
           q       == layoutOverlays(laid, e, before, lands)
<1>1. Follows(p, placed) /\ DOMAIN placed = Fields
  BY PlaceBeside, BesideFollows DEF Follows, Carries
<1> HIDE DEF placed
<1>2. Follows(placed, noticed) /\ DOMAIN noticed = Fields
  BY <1>1, NoticeFollows DEF Follows, Carries
<1> HIDE DEF noticed
<1>3. Follows(noticed, laid) /\ DOMAIN laid = Fields
  BY <1>2, TableFollows DEF Follows, Carries
<1> HIDE DEF laid
<1>4. Follows(laid, q) /\ DOMAIN q = Fields
  BY <1>3, OverlaysFollow DEF Follows, Carries
<1> HIDE DEF q
<1>5. Follows(q, dropFocus(q))
  BY <1>4, DropBeside, BesideFollows
<1>6. Follows(p, dropFocus(q))
  BY <1>1, <1>2, <1>3, <1>4, <1>5, FollowsTransitive
<1> QED
  BY <1>6 DEF q, laid, noticed, placed

\* One frame.
LEMMA RedrawTraced ==
  ASSUME DOMAIN pg = Fields, Traced(pg), NEW e, NEW lands, Redraw(e, lands)
  PROVE  /\ DOMAIN pg' = Fields /\ Traced(pg')
         /\ pg.searching /\ e.k # "reopen" => NoTrace(pg', pg.saved)
<1> DEFINE start    == [pg EXCEPT !.done = Nothing]
           polled   == poll(start, e)
           keyed    == handleKeyEvents(polled, e, lands)
           matched  == [keyed EXCEPT !.matches = MatchingEntries(keyed)]
           synced   == syncSearchCollapseSnapshot(matched)
           opened   == UncollapseMatchAncestors(synced)
           searched == handleSearchNavigation(opened, e)
           shown    == [searched EXCEPT !.filtered = VisibleRows(searched.entries, searched.collapsed)]
           Searched == pg.searching /\ e.k # "reopen"
           Fine(p)  == DOMAIN p = Fields /\ Traced(p) /\ (Searched => NoTrace(p, pg.saved))
<1>0. pg' = dropFocus(layoutOverlays(layoutTable(noticeFocus(placeFocus(shown), lands), e),
                                     e, pg, lands))
  BY DEF Redraw
<1>1. Fine(start) /\ start.searching = pg.searching
  <2>1. Alike(pg, start)
    BY DEF Alike, Fields
  <2> HIDE DEF start
  <2> QED
    BY <2>1 DEF Alike, Traced, NoTrace
<1> HIDE DEF start
<1>2. Fine(polled) /\ (Searched => polled.searching)
  BY <1>1, PollCarries
<1> HIDE DEF polled
<1>3. Fine(keyed) /\ (Searched => keyed.searching)
  BY <1>2, KeysFollow, NavigateCarries DEF Carries, Follows
<1> HIDE DEF keyed
<1>4. Fine(matched) /\ (Searched => matched.searching)
  <2>1. Alike(keyed, matched)
    BY <1>3 DEF Alike, Fields
  <2> HIDE DEF matched
  <2> QED
    BY <1>3, <2>1, AlikeCarries DEF Carries
<1> HIDE DEF matched
<1>5. Fine(synced) /\ (synced.query # NoQuery => synced.searching)
  BY <1>4, SyncCarries
<1> HIDE DEF synced
<1>6. Fine(opened)
  <2>1. CASE synced.query = NoQuery
    BY <1>5, <2>1 DEF UncollapseMatchAncestors
  <2>2. CASE synced.query # NoQuery
    <3>1. /\ DOMAIN opened = Fields /\ opened.searching = synced.searching
          /\ opened.past = synced.past /\ opened.pre = synced.pre /\ opened.saved = synced.saved
          /\ opened.chart = synced.chart
      BY <1>5 DEF UncollapseMatchAncestors, Fields
    <3> HIDE DEF opened
    <3> QED
      BY <1>5, <2>2, <3>1 DEF Traced, NoTrace
  <2> QED
    BY <2>1, <2>2
<1> HIDE DEF opened
<1>7. Fine(searched)
  BY <1>6, SearchCarries DEF Carries
<1> HIDE DEF searched
<1>8. Fine(shown)
  <2>1. Alike(searched, shown)
    BY <1>7 DEF Alike, Fields
  <2> HIDE DEF shown
  <2> QED
    BY <1>7, <2>1, AlikeCarries DEF Carries
<1> HIDE DEF shown
<1>9. Carries(shown, pg')
  BY <1>0, <1>8, RestFollows DEF Follows
<1> QED
  BY <1>8, <1>9 DEF Carries

\* Every step is a frame; charts are opened only by Reopen, tables come only from Tables.
LEMMA StepIsFrame ==
  ASSUME Next
  PROVE  \E e, lands : /\ Redraw(e, lands) /\ (e.k = "reopen" => Reopen)
                       /\ e.k = "rebuild" => e.table \in Tables
<1> DEFINE Goal == \E e, lands : /\ Redraw(e, lands) /\ (e.k = "reopen" => Reopen)
                                 /\ e.k = "rebuild" => e.table \in Tables
<1>1. ASSUME NEW e, Frame(e), e.k \notin {"reopen", "rebuild"} PROVE Goal
  BY <1>1 DEF Frame
<1>2. CASE Reopen
  <2>1. PICK c, lands : Redraw([k |-> "reopen", chart |-> c], lands)
    BY <1>2 DEF Reopen, Act, Frame
  <2>2. [k |-> "reopen", chart |-> c].k # "rebuild"
    OBVIOUS
  <2> QED
    BY <1>2, <2>1, <2>2
<1>3. CASE Rebuild
  <2>1. PICK t \in Tables : Act([k |-> "rebuild", table |-> t])
    BY <1>3 DEF Rebuild
  <2>2. PICK lands : Redraw([k |-> "rebuild", table |-> t], lands)
    BY <2>1 DEF Act, Frame
  <2>3. [k |-> "rebuild", table |-> t].k # "reopen" /\ [k |-> "rebuild", table |-> t].table \in Tables
    OBVIOUS
  <2> QED
    BY <2>2, <2>3
<1>4. CASE Quiet \/ Restore \/ SetColumns
  BY <1>1, <1>4 DEF Quiet, Idle, Restore, SetColumns, Act
<1>5. CASE Shortcut \/ Escape \/ Type \/ StepMatch
  BY <1>1, <1>5 DEF Shortcut, Escape, Type, StepMatch, Act
<1>6. CASE ClickCell \/ ClickRow \/ EditAlias
  BY <1>1, <1>6 DEF ClickCell, ClickRow, EditAlias, Act
<1>7. CASE AnswerMenu \/ AnswerDialog \/ Confirm
  BY <1>1, <1>7 DEF AnswerMenu, AnswerDialog, Confirm, Act
<1> QED
  BY <1>2, <1>3, <1>4, <1>5, <1>6, <1>7 DEF Next

\* The invariant on which the next theorem depends: a search restores what it found,
\* but for what the user did to it since.
THEOREM SnapshotKept == Spec => [](DOMAIN pg = Fields /\ Traced(pg))
<1> DEFINE Inv == DOMAIN pg = Fields /\ Traced(pg)
<1>1. Init => Inv
  BY DEF Init, Traced, Opened, Fields
<1>2. Inv /\ [Next]_vars => Inv'
  <2>1. Inv /\ UNCHANGED vars => Inv'
    BY DEF vars, Traced
  <2> QED
    BY <2>1, StepIsFrame, RedrawTraced
<1> QED
  BY <1>1, <1>2, PTL DEF Spec

\* A search leaves no trace in the sections the user did not act on, neither on the
\* page nor in what is saved, whatever is toggled, jumped to or redrawn in between
\* (syncSearchCollapseSnapshot, persistedCollapsedKeys), for any tables and queries.
THEOREM SearchForgotten == Spec => SearchLeavesNoTrace
<1> DEFINE Inv == DOMAIN pg = Fields /\ Traced(pg)
           Left == (pg.searching /\ ~pg'.past.late /\ ~Reopen) =>
                     LET past == pg'.past
                     IN /\ ~pg'.searching => SameBut(pg'.collapsed, past.before, past.touched)
                        /\ pg'.saved # pg.saved =>
                             SameBut(pg'.saved[pg'.chart].collapsed, past.before, past.touched)
<1>1. ASSUME Inv, Next PROVE Left
  <2>1. PICK e, lands : Redraw(e, lands) /\ (e.k = "reopen" => Reopen)
    BY <1>1, StepIsFrame
  <2>2. pg.searching /\ e.k # "reopen" => NoTrace(pg', pg.saved)
    BY <1>1, <2>1, RedrawTraced
  <2> QED
    BY <2>1, <2>2 DEF NoTrace
<1>2. Inv /\ [Next]_vars => [Left]_vars
  BY <1>1
<1> QED
  BY <1>2, SnapshotKept, PTL DEF Spec, SearchLeavesNoTrace

-----------------------------------------------------------------------------
(* The matches of a search are on the screen.                              *)

\* Of two numbers of a finite set the greater has more of the set below it.
LEMMA RankGrows ==
  ASSUME NEW S \in SUBSET Nat, IsFiniteSet(S), NEW i \in S, NEW j \in S, i < j
  PROVE  Cardinality({k \in S : k < i}) < Cardinality({k \in S : k < j})
<1> DEFINE I == {k \in S : k < i}
           J == {k \in S : k < j}
<1>1. IsFiniteSet(J)
  BY FS_Subset
<1>2. I \in SUBSET J /\ i \in J /\ i \notin I
  <2>1. \A k \in S : k < i => k < j
    OBVIOUS
  <2>2. ~(i < i)
    OBVIOUS
  <2> QED
    BY <2>1, <2>2
<1> HIDE DEF I, J
<1>3. IsFiniteSet(I) /\ Cardinality(I) <= Cardinality(J) /\ (Cardinality(J) = Cardinality(I) => J = I)
  BY <1>1, <1>2, FS_Subset
<1>4. Cardinality(I) \in Nat /\ Cardinality(J) \in Nat
  BY <1>1, <1>3, FS_CardinalityType
<1>5. Cardinality(I) < Cardinality(J)
  BY <1>2, <1>3, <1>4
<1> QED
  BY <1>5 DEF I, J

\* Ascending lists exactly the numbers of the set.
LEMMA AscendingLists ==
  ASSUME NEW S \in SUBSET Nat, IsFiniteSet(S)
  PROVE  /\ Cardinality(S) \in Nat
         /\ Ascending[S] \in Seq(S) /\ Len(Ascending[S]) = Cardinality(S)
         /\ \A i \in S : \E k \in 1..Len(Ascending[S]) : Ascending[S][k] = i
<1> DEFINE c == Cardinality(S)
           rank == [i \in S |-> Cardinality({j \in S : j < i})]
           s == Ascending[S]
<1>1. c \in Nat
  BY FS_CardinalityType
<1>2. \A i \in S : rank[i] \in 0..(c - 1)
  <2> TAKE i \in S
  <2> DEFINE I == {j \in S : j < i}
  <2>1. I \in SUBSET S /\ i \notin I
    OBVIOUS
  <2>2. rank[i] = Cardinality(I)
    OBVIOUS
  <2> HIDE DEF I, rank
  <2>3. IsFiniteSet(I) /\ Cardinality(I) <= c /\ (c = Cardinality(I) => S = I)
    BY <2>1, FS_Subset
  <2>4. Cardinality(I) \in Nat
    BY <2>3, FS_CardinalityType
  <2> HIDE DEF c
  <2> QED
    BY <1>1, <2>1, <2>2, <2>3, <2>4
<1>3. rank \in Injection(S, 0..(c - 1))
  <2>1. \A i, j \in S : i < j => rank[i] < rank[j]
    BY RankGrows
  <2>2. rank \in [S -> 0..(c - 1)]
    BY <1>2
  <2> HIDE DEF rank, c
  <2>3. \A i, j \in S : rank[i] = rank[j] => i = j
    BY <1>1, <1>2, <2>1
  <2> QED
    BY <2>2, <2>3 DEF Injection, IsInjective
<1>4. rank \in Surjection(S, 0..(c - 1))
  <2>1. IsFiniteSet(0..(c - 1)) /\ Cardinality(0..(c - 1)) = c
    <3>1. 0 \in Int /\ c - 1 \in Int /\ (0 > c - 1 => c = 0) /\ c - 1 - 0 + 1 = c
      BY <1>1
    <3> HIDE DEF c
    <3> QED
      BY <3>1, FS_Interval
  <2> HIDE DEF rank, c
  <2> QED
    BY <1>3, <2>1, FS_Injection DEF c
<1>5. s = [n \in 1..c |-> CHOOSE i \in S : Cardinality({j \in S : j < i}) = n - 1]
  BY DEF Ascending
<1>6. \A n \in 1..c : s[n] \in S /\ rank[s[n]] = n - 1
  <2> TAKE n \in 1..c
  <2> HIDE DEF c, s
  <2>1. n - 1 \in 0..(c - 1)
    BY <1>1
  <2>2. \E i \in S : rank[i] = n - 1
    BY <1>4, <2>1 DEF Surjection
  <2>3. s[n] = CHOOSE i \in S : Cardinality({j \in S : j < i}) = n - 1
    BY <1>5
  <2>4. s[n] \in S /\ Cardinality({j \in S : j < s[n]}) = n - 1
    BY <2>2, <2>3
  <2> QED
    BY <2>4
<1> HIDE DEF rank, c, s
<1>7. s \in [1..c -> S]
  <2>1. \A n \in 1..c : (CHOOSE i \in S : Cardinality({j \in S : j < i}) = n - 1) \in S
    BY <1>5, <1>6
  <2> QED
    BY <1>5, <2>1
<1>8. s \in Seq(S) /\ Len(s) = c
  <2>1. s \in Seq(S)
    BY <1>1, <1>7, SeqDef
  <2>2. DOMAIN s = 1..c /\ DOMAIN s = 1..Len(s) /\ Len(s) \in Nat
    BY <1>7, <2>1, LenProperties
  <2> QED
    BY <1>1, <2>1, <2>2
<1>9. ASSUME NEW i \in S PROVE \E k \in 1..c : s[k] = i
  <2>1. rank[i] \in 0..(c - 1)
    BY <1>2
  <2>2. rank[i] + 1 \in 1..c /\ (rank[i] + 1) - 1 = rank[i]
    BY <1>1, <2>1
  <2>3. s[rank[i] + 1] \in S /\ rank[s[rank[i] + 1]] = rank[i]
    BY <1>6, <2>2
  <2>4. s[rank[i] + 1] = i
    BY <1>3, <2>3 DEF Injection, IsInjective
  <2> QED
    BY <2>2, <2>4
<1> QED
  BY <1>1, <1>8, <1>9 DEF c, s

\* The numbers of entries chosen from a table, in ascending order.
LEMMA RowsListed ==
  ASSUME NEW entries \in Tables, NEW S \in SUBSET (1..Len(entries))
  PROVE  LET s == Ascending[S]
         IN  /\ s \in Seq(Nat) /\ Len(s) \in Nat
             /\ \A k \in 1..Len(s) : s[k] \in S
             /\ \A i \in S : \E k \in 1..Len(s) : s[k] = i
<1> DEFINE s == Ascending[S]
<1>1. Len(entries) \in Nat
  BY ValuesViewAssumption, LenProperties
<1>2. IsFiniteSet(S) /\ S \in SUBSET Nat
  <2> DEFINE n == Len(entries)
  <2>0. 1 \in Int /\ n \in Int
    BY <1>1
  <2> HIDE DEF n
  <2>1. IsFiniteSet(1..n)
    BY <2>0, FS_Interval
  <2>2. S \in SUBSET (1..n)
    BY DEF n
  <2>3. IsFiniteSet(S)
    BY <2>1, <2>2, FS_Subset
  <2> QED
    BY <2>0, <2>2, <2>3
<1>3. /\ s \in Seq(S) /\ Len(s) = Cardinality(S) /\ Cardinality(S) \in Nat
      /\ \A i \in S : \E k \in 1..Len(s) : s[k] = i
  BY <1>2, AscendingLists
<1> HIDE DEF s
<1>4. s \in Seq(Nat) /\ \A k \in 1..Len(s) : s[k] \in S
  BY <1>2, <1>3, SeqMonotonic, ElementOfSeq
<1> QED
  BY <1>3, <1>4 DEF s

\* Nothing is collapsed over a match, and a match is no comment.
Clear(p) ==
  /\ \A m \in 1..Len(p.matches) :
       /\ p.matches[m] \in 1..Len(p.entries) /\ p.entries[p.matches[m]].kind # "comment"
       /\ Above(p.entries[p.matches[m]].key) \cap p.collapsed = {}

\* The cursor stands on a match exactly when there is one.
OnMatch(p) ==
  p.current \in 0..Len(p.matches) /\ ((p.current = 0) = (p.matches = <<>>))

\* The matches are clear once the sections over them are opened.
LEMMA OpenedClear ==
  ASSUME NEW k, NEW p, DOMAIN k = Fields, DOMAIN p = Fields, k.entries \in Tables,
         p.entries = k.entries, p.query = k.query, p.matches = MatchingEntries(k)
  PROVE  LET q == UncollapseMatchAncestors(p)
         IN  /\ Clear(q) /\ q.matches \in Seq(Nat)
             /\ q.entries = p.entries /\ q.matches = p.matches /\ q.current = p.current
<1> DEFINE q == UncollapseMatchAncestors(p)
           S == {i \in 1..Len(k.entries) :
                   /\ k.query # NoQuery /\ k.entries[i].kind # "comment"
                   /\ k.entries[i].key \in Hits[k.query]}
<1>1. p.matches = Ascending[S]
  BY DEF MatchingEntries
<1>2. /\ p.matches \in Seq(Nat)
      /\ \A m \in 1..Len(p.matches) : p.matches[m] \in S
  <2>1. S \in SUBSET (1..Len(k.entries))
    OBVIOUS
  <2> HIDE DEF S
  <2> QED
    BY <1>1, <2>1, RowsListed
<1>3. \A m \in 1..Len(p.matches) :
        /\ p.query # NoQuery /\ p.matches[m] \in 1..Len(p.entries)
        /\ p.entries[p.matches[m]].kind # "comment"
  BY <1>2
<1> HIDE DEF S
<1>4. /\ q.entries = p.entries /\ q.matches = p.matches /\ q.current = p.current
      /\ p.query # NoQuery =>
           q.collapsed = p.collapsed \
             UNION {Above(p.entries[p.matches[m]].key) : m \in 1..Len(p.matches)}
  BY DEF UncollapseMatchAncestors, Fields
<1> HIDE DEF q
<1>5. ASSUME NEW m \in 1..Len(p.matches)
      PROVE  Above(p.entries[p.matches[m]].key) \cap q.collapsed = {}
  <2>1. q.collapsed = p.collapsed \
          UNION {Above(p.entries[p.matches[i]].key) : i \in 1..Len(p.matches)}
    BY <1>3, <1>4
  <2> QED
    BY <2>1
<1>6. Clear(q)
  BY <1>3, <1>4, <1>5 DEF Clear
<1> QED
  BY <1>2, <1>4, <1>6 DEF q

\* The search bar moves the cursor within the matches, and only opens sections.
LEMMA SearchCursor ==
  ASSUME NEW p, DOMAIN p = Fields, Clear(p), p.matches \in Seq(Nat), p.current \in Nat, NEW e
  PROVE  LET q == handleSearchNavigation(p, e)
         IN  /\ DOMAIN q = Fields /\ Clear(q) /\ OnMatch(q)
             /\ q.entries = p.entries /\ q.matches = p.matches
<1> DEFINE n == Len(p.matches)
           q == CASE e.k = "type"  -> [p EXCEPT !.query = e.query]
                  [] e.k = "enter" -> navigateMatch(p, 1)
                  [] e.k = "prev"  -> [navigateMatch(p, -1) EXCEPT !.focus = SearchTag]
                  [] e.k = "next"  -> [navigateMatch(p, 1) EXCEPT !.focus = SearchTag]
                  [] OTHER -> p
           clamped == CASE n = 0 -> 0
                        [] n > 0 /\ q.current = 0 -> 1
                        [] n > 0 /\ q.current > n -> n
                        [] OTHER -> q.current
           changed == [q EXCEPT !.lastQuery = q.query, !.current = IF n > 0 THEN 1 ELSE 0]
           same == [q EXCEPT !.current = clamped]
           r == handleSearchNavigation(p, e)
           Near(x) == /\ DOMAIN x = Fields /\ x.entries = p.entries /\ x.matches = p.matches
                      /\ x.collapsed \subseteq p.collapsed
<1>1. n \in Nat /\ (n = 0 <=> p.matches = <<>>)
  BY LenProperties, EmptySeq
<1>2. Near(q) /\ q.current \in Nat
  <2>1. Near(p) /\ Near([p EXCEPT !.query = e.query])
        /\ [p EXCEPT !.query = e.query].current = p.current
    BY DEF Fields
  <2>2. ASSUME NEW d \in {-1, 1}
        PROVE  LET x == navigateMatch(p, d)
               IN  /\ Near(x) /\ x.current \in Nat
                   /\ Near([x EXCEPT !.focus = SearchTag])
                   /\ [x EXCEPT !.focus = SearchTag].current = x.current
    <3> DEFINE x == navigateMatch(p, d)
    <3>1. Near(x) /\ x.current \in Nat
      BY NavigateCursor, NavigateSteady DEF Steady
    <3> HIDE DEF x
    <3>2. Near([x EXCEPT !.focus = SearchTag])
          /\ [x EXCEPT !.focus = SearchTag].current = x.current
      BY <3>1 DEF Fields
    <3> QED
      BY <3>1, <3>2 DEF x
  <2> HIDE DEF Near
  <2> QED
    BY <2>1, <2>2
<1>3. r \in {scrollToCurrentMatch(changed), changed, same}
  BY <1>2 DEF handleSearchNavigation
<1> HIDE DEF q, r
<1>4. /\ Near(changed) /\ changed.current = IF n > 0 THEN 1 ELSE 0
      /\ Near(same) /\ same.current = clamped
  BY <1>2 DEF Fields
<1>5. clamped \in 0..n /\ (clamped = 0 <=> n = 0)
  <2> HIDE DEF n
  <2> QED
    BY <1>1, <1>2
<1> HIDE DEF changed, same, clamped, n
<1>6. Near(scrollToCurrentMatch(changed)) /\ scrollToCurrentMatch(changed).current = changed.current
  <2>1. scrollToCurrentMatch(changed) = changed
        \/ \E k : scrollToCurrentMatch(changed) = jumpToFlatKey(changed, k)
    BY DEF scrollToCurrentMatch
  <2>2. \A k : LET j == jumpToFlatKey(changed, k)
               IN  /\ DOMAIN j = Fields /\ j.entries = changed.entries /\ j.matches = changed.matches
                   /\ j.current = changed.current /\ j.collapsed \subseteq changed.collapsed
    BY <1>4 DEF jumpToFlatKey, Fields
  <2> QED
    BY <1>4, <2>1, <2>2
<1>7. Near(r) /\ r.current \in 0..n /\ (r.current = 0 <=> n = 0)
  BY <1>1, <1>3, <1>4, <1>5, <1>6
<1>8. Clear(r)
  BY <1>7 DEF Clear
<1>9. OnMatch(r)
  BY <1>1, <1>7 DEF OnMatch, n
<1> QED
  BY <1>7, <1>8, <1>9 DEF r

\* An entry nothing is collapsed over has its row.
LEMMA ClearShown ==
  ASSUME NEW p, p.entries \in Tables, Clear(p), NEW m \in 1..Len(p.matches)
  PROVE  LET rows == VisibleRows(p.entries, p.collapsed)
         IN  \E r \in 1..Len(rows) : rows[r] = p.matches[m]
<1> DEFINE i == p.matches[m]
           hidden == {h \in 1..Len(p.entries) :
                        /\ p.entries[h].kind # "comment" /\ p.entries[h].key \notin p.collapsed
                        /\ isHiddenByCollapsedAncestor(p.entries[h].key, p.collapsed)}
           Shown(x) == \A h \in hidden :
             h <= x => \E j \in (h + 1)..x : p.entries[j].kind # "comment"
           S == {x \in 1..Len(p.entries) : Shown(x)}
<1>1. /\ i \in 1..Len(p.entries) /\ p.entries[i].kind # "comment"
      /\ Above(p.entries[i].key) \cap p.collapsed = {}
  BY DEF Clear
<1>2. Len(p.entries) \in Nat
  BY ValuesViewAssumption, LenProperties
<1>3. i \notin hidden /\ hidden \subseteq 1..Len(p.entries)
  BY <1>1 DEF isHiddenByCollapsedAncestor
<1> HIDE DEF hidden, i
<1>4. Shown(i)
  <2>1. SUFFICES ASSUME NEW h \in hidden, h <= i
                 PROVE  \E j \in (h + 1)..i : p.entries[j].kind # "comment"
    OBVIOUS
  <2>2. i \in (h + 1)..i
    BY <1>1, <1>2, <1>3, <2>1
  <2> QED
    BY <1>1, <2>2
<1>5. i \in S /\ S \in SUBSET (1..Len(p.entries))
  BY <1>1, <1>4
<1>6. VisibleRows(p.entries, p.collapsed) = Ascending[S]
  BY DEF VisibleRows, hidden
<1> HIDE DEF S
<1>7. \E k \in 1..Len(Ascending[S]) : Ascending[S][k] = i
  BY <1>5, RowsListed
<1> QED
  BY <1>6, <1>7 DEF i

\* One frame: what it found at its start does not matter.
LEMMA RedrawShown ==
  ASSUME DOMAIN pg = Fields, Traced(pg), Cursor(pg), NEW e, NEW lands, Redraw(e, lands),
         e.k = "rebuild" => e.table \in Tables
  PROVE  Cursor(pg') /\ MatchesAreShown'
<1> DEFINE start    == [pg EXCEPT !.done = Nothing]
           polled   == poll(start, e)
           keyed    == handleKeyEvents(polled, e, lands)
           matched  == [keyed EXCEPT !.matches = MatchingEntries(keyed)]
           synced   == syncSearchCollapseSnapshot(matched)
           opened   == UncollapseMatchAncestors(synced)
           searched == handleSearchNavigation(opened, e)
           shown    == [searched EXCEPT !.filtered = VisibleRows(searched.entries, searched.collapsed)]
<1>0. pg' = dropFocus(layoutOverlays(layoutTable(noticeFocus(placeFocus(shown), lands), e),
                                     e, pg, lands))
  BY DEF Redraw
<1>1. DOMAIN start = Fields /\ Traced(start) /\ Cursor(start)
  <2>1. Beside(pg, start)
    BY DEF Beside, Alike, Fields
  <2> HIDE DEF start
  <2> QED
    BY <2>1 DEF Beside, Alike, Traced, Cursor
<1> HIDE DEF start
<1>2. DOMAIN polled = Fields /\ Traced(polled) /\ Cursor(polled)
  BY <1>1, PollCarries, PollCursor
<1> HIDE DEF polled
<1>3. DOMAIN keyed = Fields /\ Traced(keyed) /\ Cursor(keyed)
  <2>1. DOMAIN keyed = Fields /\ Traced(keyed)
    BY <1>2, KeysFollow, NavigateCarries DEF Follows, Carries
  <2>2. CASE Follows(polled, keyed)
    BY <1>2, <2>1, <2>2 DEF Follows, Carries, Cursor
  <2>3. CASE keyed = navigateMatch(polled, -1)
    <3>1. /\ keyed.entries = polled.entries /\ keyed.matches = polled.matches
          /\ keyed.current \in Nat
      BY <1>2, <2>3, NavigateCursor DEF Cursor
    <3> QED
      BY <1>2, <2>1, <3>1 DEF Cursor
  <2> QED
    BY <1>2, <2>2, <2>3, KeysFollow
<1> HIDE DEF keyed
<1>4. /\ DOMAIN matched = Fields /\ Traced(matched) /\ matched.entries = keyed.entries
      /\ matched.query = keyed.query /\ matched.current = keyed.current
      /\ matched.matches = MatchingEntries(keyed)
  <2>1. /\ Alike(keyed, matched) /\ matched.query = keyed.query
        /\ matched.current = keyed.current /\ matched.matches = MatchingEntries(keyed)
    BY <1>3 DEF Alike, Fields
  <2> HIDE DEF matched
  <2> QED
    BY <1>3, <2>1 DEF Alike, Traced
<1> HIDE DEF matched
<1>5. /\ DOMAIN synced = Fields /\ synced.entries = keyed.entries /\ synced.query = keyed.query
      /\ synced.current = keyed.current /\ synced.matches = MatchingEntries(keyed)
  BY <1>4, SyncCarries
<1> HIDE DEF synced
<1>6. /\ DOMAIN opened = Fields /\ Clear(opened) /\ opened.matches \in Seq(Nat)
      /\ opened.current \in Nat /\ opened.entries \in Tables
  <2>1. DOMAIN opened = Fields
    BY <1>5 DEF UncollapseMatchAncestors, Fields
  <2> QED
    BY <1>3, <1>5, <2>1, OpenedClear DEF Cursor
<1> HIDE DEF opened
<1>7. /\ DOMAIN searched = Fields /\ Clear(searched) /\ OnMatch(searched)
      /\ searched.entries \in Tables /\ searched.matches \in Seq(Nat)
  BY <1>6, SearchCursor
<1> HIDE DEF searched
<1>8. /\ DOMAIN shown = Fields /\ shown.entries = searched.entries
      /\ shown.matches = searched.matches /\ shown.current = searched.current
      /\ shown.filtered = VisibleRows(searched.entries, searched.collapsed)
  BY <1>7 DEF Fields
<1> HIDE DEF shown
<1>9. /\ pg'.filtered = shown.filtered /\ pg'.matches = shown.matches
      /\ pg'.current = shown.current /\ pg'.entries = shown.entries
  BY <1>0, <1>8, RestFollows DEF Follows, Carries
<1>10. \A m \in 1..Len(searched.matches) :
         \E r \in 1..Len(shown.filtered) : shown.filtered[r] = searched.matches[m]
  BY <1>7, <1>8, ClearShown
<1>11. MatchesAreShown'
  BY <1>7, <1>8, <1>9, <1>10 DEF MatchesAreShown, OnMatch
<1>12. Len(searched.matches) \in Nat
  BY <1>7, LenProperties
<1>13. Cursor(pg')
  BY <1>7, <1>8, <1>9, <1>12 DEF Cursor, OnMatch
<1> QED
  BY <1>11, <1>13

\* After every frame each match of the search is a visible row, whatever was collapsed
\* over it in between, and the cursor stands on a match exactly when there is one
\* (MatchingEntries, UncollapseMatchAncestors, VisibleRows, handleSearchNavigation),
\* for any tables, sections, queries and events.
THEOREM MatchesShown == Spec => []MatchesAreShown
<1> DEFINE Inv == DOMAIN pg = Fields /\ Traced(pg)
           Row == Cursor(pg) /\ MatchesAreShown
<1>1. ASSUME Init PROVE Row
  <2>1. pg.entries = FirstTable /\ pg.matches = <<>> /\ pg.current = 0
    BY <1>1 DEF Init, Opened
  <2>2. pg.matches \in Seq(Nat) /\ Len(pg.matches) = 0
    BY <2>1, EmptySeq
  <2>3. Cursor(pg)
    BY <2>1, <2>2, ValuesViewAssumption DEF Cursor
  <2>4. MatchesAreShown
    BY <2>1, <2>2 DEF MatchesAreShown
  <2> QED
    BY <2>3, <2>4
<1>2. Inv /\ Row /\ [Next]_vars => Row'
  <2>1. Inv /\ Row /\ UNCHANGED vars => Row'
    BY DEF vars, Cursor, MatchesAreShown
  <2> QED
    BY <2>1, StepIsFrame, RedrawShown
<1> QED
  BY <1>1, <1>2, SnapshotKept, PTL DEF Spec
=============================================================================
