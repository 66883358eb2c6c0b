------------------------------ MODULE GridEditor -----------------------------
(***************************************************************************)
(* A user who edits the cells of one input column in the browser           *)
(* (apps/web/src/app/app/grid-editor.tsx) while the table changes: the     *)
(* page shows a snapshot, an editor remembers what was typed over, and     *)
(* requests and their answers arrive in any order, late or not at all      *)
(* (packages/db/src/sqlite/grid.ts answers them).                          *)
(***************************************************************************)
EXTENDS Integers, FiniteSets

CONSTANTS
  GridRows,     \* rows of the table, naturals in order
  Matching,     \* the rows that the search finds
  PageSize,     \* rows per page
  NoDraft,      \* the editor of a cell shows what the snapshot does
  MaxChanges,   \* bound: changes of cells
  MaxCalls      \* bound: requests under way at a time

GridParameters ==
  /\ GridRows \subseteq Nat \ {0}
  /\ Matching \subseteq GridRows
  /\ PageSize \in Nat \ {0}
  /\ {MaxChanges, MaxCalls} \subseteq Nat

VARIABLES
  cell,     \* the cells of the column: record, version and value
  changes,  \* changes of cells so far, which number records and values
  listing,  \* the snapshot: query, rows and the cursor of the next page
  display,  \* the cells that the snapshot shows
  draft,    \* what an editor was typed over, or NoDraft
  saving,   \* savingCell: the row whose editor is disabled, or 0
  calls     \* requests and answers under way

gridVars == <<cell, changes, listing, display, draft, saving, calls>>

Queries == {"all", "search"}

\* A cell without a record has version 0 for the browser.
Absent == [id |-> 0, version |-> 0, value |-> 0]
Cell == [id : 0 .. MaxChanges, version : 0 .. MaxChanges,
         value : 0 .. MaxChanges]
Listing == [query : Queries, rows : SUBSET GridRows, cursor : GridRows \union {0}]

GridTypeOK ==
  /\ cell \in [GridRows -> Cell]
  /\ changes \in 0 .. MaxChanges
  /\ listing \in Listing
  /\ display \in [GridRows -> Cell]
  /\ draft \in [GridRows -> Cell \union {NoDraft}]
  /\ saving \in GridRows \union {0}
  /\ Cardinality(calls) <= MaxCalls
  /\ \A call \in calls :
       /\ call.kind \in {"save", "reload", "row", "list", "more"}
       /\ call.answered \in BOOLEAN

-----------------------------------------------------------------------------

Found(query) == IF query = "all" THEN GridRows ELSE Matching

\* getSqliteGridSnapshot: the rows after the cursor, up to a page, and the
\* cursor of the next page if there is one.
PageAfter(query, cursor) ==
  LET rest == {r \in Found(query) : r > cursor}
      rows == {r \in rest : Cardinality({s \in rest : s < r}) < PageSize}
  IN [query |-> query, rows |-> rows,
      cursor |-> IF rows = rest THEN 0
                 ELSE CHOOSE r \in rows : \A s \in rows : s <= r]

GridInit ==
  /\ cell = [r \in GridRows |-> Absent]
  /\ changes = 0
  /\ listing = PageAfter("all", 0)
  /\ display = [r \in GridRows |-> Absent]
  /\ draft = [r \in GridRows |-> NoDraft]
  /\ saving = 0
  /\ calls = {}

\* Wrong variant: an editor is not remounted for a new version.
KeyUnversioned(c) == c.id

\* editorKey
Key(c) == <<c.id, c.version>>

\* The snapshot shows other rows and cells: an editor whose key changes, or
\* whose row is gone, is remounted and what was typed is lost.
Show(rows, cells) ==
  /\ display' = cells
  /\ draft' = [r \in GridRows |->
       IF r \in rows /\ Key(cells[r]) = Key(display[r]) THEN draft[r]
       ELSE NoDraft]

Send(call) ==
  /\ Cardinality(calls) < MaxCalls
  /\ calls' = calls \union {call}

\* number is the expected version of a save, or the cursor of a page.
Request(kind, r, query, number) ==
  [kind |-> kind, row |-> r, query |-> query, number |-> number,
   seen |-> Absent, answered |-> FALSE, ok |-> TRUE,
   cells |-> [s \in GridRows |-> Absent]]

-----------------------------------------------------------------------------

\* The user types into the editor of a cell.
Type(r) ==
  /\ r \in listing.rows
  /\ saving # r
  /\ draft[r] = NoDraft
  /\ draft' = [draft EXCEPT ![r] = display[r]]
  /\ UNCHANGED <<cell, changes, listing, display, saving, calls>>

\* saveInputCell, with the version that the snapshot shows as the expected
\* one.  The request remembers what was typed over, for the properties.
Save(r) ==
  /\ r \in listing.rows
  /\ saving # r
  /\ draft[r] # NoDraft
  /\ saving' = r
  /\ Send([Request("save", r, listing.query, display[r].version)
             EXCEPT !.seen = draft[r]])
  /\ UNCHANGED <<cell, changes, listing, display, draft>>

\* refreshRow, while pollCell waits for an enrichment of the row.
PollRow(r) ==
  /\ r \in listing.rows
  /\ Send(Request("row", r, listing.query, 0))
  /\ UNCHANGED <<cell, changes, listing, display, draft, saving>>

\* loadSearch, refreshFirstPage or a reload: the first page of a query.
LoadList(query) ==
  /\ Send(Request("list", 0, query, 0))
  /\ UNCHANGED <<cell, changes, listing, display, draft, saving>>

\* loadMoreRows, one at a time.
LoadMore ==
  /\ listing.cursor # 0
  /\ \A call \in calls : call.kind # "more"
  /\ Send(Request("more", 0, listing.query, listing.cursor))
  /\ UNCHANGED <<cell, changes, listing, display, draft, saving>>

\* The record that a write leaves: a new one, or the next version.
Rewritten(c) ==
  IF c = Absent THEN [id |-> changes + 1, version |-> 1, value |-> changes + 1]
  ELSE [c EXCEPT !.version = @ + 1, !.value = changes + 1]

Change(r, new) ==
  /\ changes < MaxChanges
  /\ changes' = changes + 1
  /\ cell' = [cell EXCEPT ![r] = new]

Answer(call, answer) == calls' = (calls \ {call}) \union {answer}

\* The condition of the statement of writeSqliteGridCell.
Accepts(call) == cell[call.row].version = call.number

\* writeSqliteGridCell: the write, or a conflict, which is answered with 409.
HandleSave(call) ==
  /\ call.kind = "save" /\ ~call.answered
  /\ IF Accepts(call)
       THEN Change(call.row, Rewritten(cell[call.row]))
       ELSE UNCHANGED <<cell, changes>>
  /\ Answer(call, [call EXCEPT !.answered = TRUE, !.ok = Accepts(call)])
  /\ UNCHANGED <<listing, display, draft, saving>>

\* getSqliteGridRow and getSqliteGridSnapshot read the cells.
HandleRead(call) ==
  /\ call.kind # "save" /\ ~call.answered
  /\ Answer(call, [call EXCEPT !.answered = TRUE, !.cells = cell])
  /\ UNCHANGED <<cell, changes, listing, display, draft, saving>>

\* A save was answered: after a conflict, or in a listing of all rows, the
\* row is read again, and the editor stays disabled meanwhile; after a save in
\* a search the page is loaded anew, and the editor is enabled at once.
SaveAnswered(call) ==
  /\ call.kind = "save" /\ call.answered
  /\ IF call.ok /\ call.query = "search"
       THEN /\ Answer(call, Request("list", 0, "search", 0))
            /\ saving' = 0
       ELSE /\ Answer(call, Request("reload", call.row, call.query, 0))
            /\ UNCHANGED saving
  /\ UNCHANGED <<cell, changes, listing, display, draft>>

\* The row of an answer replaces the one of the snapshot, whatever is newer.
\* After a save, the editors are enabled again.
RowAnswered(call) ==
  /\ call.kind \in {"row", "reload"} /\ call.answered
  /\ calls' = calls \ {call}
  /\ saving' = IF call.kind = "reload" THEN 0 ELSE saving
  /\ IF call.row \in listing.rows
       THEN Show(listing.rows, [display EXCEPT ![call.row] = call.cells[call.row]])
       ELSE UNCHANGED <<display, draft>>
  /\ UNCHANGED <<cell, changes, listing>>

\* The first page replaces the snapshot.
ListAnswered(call) ==
  /\ call.kind = "list" /\ call.answered
  /\ calls' = calls \ {call}
  /\ listing' = PageAfter(call.query, 0)
  /\ Show(listing'.rows, [r \in GridRows |->
       IF r \in listing'.rows THEN call.cells[r] ELSE Absent])
  /\ UNCHANGED <<cell, changes, saving>>

\* The next page is added to the snapshot, of whatever query that is by now.
MoreAnswered(call) ==
  LET page == PageAfter(call.query, call.number)
      new == page.rows \ listing.rows
  IN /\ call.kind = "more" /\ call.answered
     /\ calls' = calls \ {call}
     /\ listing' = [listing EXCEPT !.rows = @ \union new, !.cursor = page.cursor]
     /\ Show(listing'.rows, [r \in GridRows |->
          IF r \in new THEN call.cells[r] ELSE display[r]])
     /\ UNCHANGED <<cell, changes, saving>>

\* A request or its answer is lost.
LoseCall(call) ==
  /\ calls' = calls \ {call}
  /\ saving' = IF call.kind \in {"save", "reload"} THEN 0 ELSE saving
  /\ UNCHANGED <<cell, changes, listing, display, draft>>

-----------------------------------------------------------------------------

\* Another session's edit, a workflow step, or a type conversion.
OtherWrite(r) ==
  /\ Change(r, Rewritten(cell[r]))
  /\ UNCHANGED <<listing, display, draft, saving, calls>>

\* A source page or a batch of pushed records deletes the cell and inserts
\* another one, or none for an empty value.
ReplaceCell(r) ==
  /\ \/ Change(r, Rewritten(Absent))
     \/ cell[r] # Absent /\ Change(r, Absent)
  /\ UNCHANGED <<listing, display, draft, saving, calls>>

GridNext ==
  \/ \E r \in GridRows : \/ Type(r) \/ Save(r) \/ PollRow(r)
                         \/ OtherWrite(r) \/ ReplaceCell(r)
  \/ \E query \in Queries : LoadList(query)
  \/ LoadMore
  \/ \E call \in calls :
       \/ HandleSave(call) \/ HandleRead(call)
       \/ SaveAnswered(call) \/ RowAnswered(call)
       \/ ListAnswered(call) \/ MoreAnswered(call)
       \/ LoseCall(call)

GridSpec == GridInit /\ [][GridNext]_gridVars

-----------------------------------------------------------------------------

\* A request to save that is carried out in this step.
CarriedOut(call) ==
  call.kind = "save" /\ ~call.answered /\ call \notin calls' /\ changes' # changes

\* A save replaces exactly what its user saw while typing, unless the record
\* of the cell is another one by then: the snapshot may have changed under
\* the draft, with answers in any order, and other writes may have come
\* between the snapshot, the draft and the save.
SavesReplaceWhatWasSeen ==
  [][\A call \in calls : CarriedOut(call) =>
       \/ cell[call.row] = call.seen
       \/ cell[call.row].id # call.seen.id]_gridVars

\* A save that is not based on the current value is refused, as
\* docs/adr/0003-authentication-and-tenant-boundaries.md has it.
StaleSavesConflict ==
  [][\A call \in calls : CarriedOut(call) => cell[call.row] = call.seen]_gridVars

=============================================================================
