--------------------------- MODULE WorkflowDrafts ---------------------------
(***************************************************************************)
(* The draft of a workflow and its published versions                      *)
(* (packages/db/src/sqlite/workflows.ts), and the pages that edit them     *)
(* (apps/web/src/app/app/workflow-panel.tsx, workflow-editor.tsx).         *)
(*                                                                         *)
(* A page keeps what the server last told it.  Its editor is mounted anew  *)
(* whenever the revision it shows changes, and then forgets that it was    *)
(* busy: so a page may have several requests under way, and answers come   *)
(* in any order or not at all.  Publishing saves first and publishes the   *)
(* revision that the save made.                                            *)
(*                                                                         *)
(* What the canvas holds is a number that every edit draws anew; module    *)
(* WorkflowGraph has the graphs.                                           *)
(***************************************************************************)
EXTENDS Integers, FiniteSets

CONSTANTS
  Pages,        \* browser pages on which the workflow is open
  MaxEdits,     \* bound: edits
  MaxRevision,  \* bound: revisions that are saved
  MaxOpen       \* bound: saves and publications under way

WorkflowDraftsParameters ==
  /\ {MaxEdits, MaxRevision} \subseteq Nat
  /\ MaxOpen \in Nat \ {0}

VARIABLES
  workflow,  \* the row of workflows: draft, draftRevision
  version,   \* the last of workflow_versions: its number and its graph
  known,     \* what each page has in its list: draft, revision
  canvas,    \* what the editor of each page shows, and what it was mounted with
  busy,      \* whether the editor's buttons are disabled
  tasks,     \* saves and publications under way
  edits      \* edits so far

workflowDraftsVars ==
  <<workflow, version, known, canvas, busy, tasks, edits>>

Content == 0 .. MaxEdits
Draft == [draft : Content, revision : Nat]

\* what a task waits for: the server to save or to publish, or the page to
\* read the answer to either
Phase == {"save", "saved", "publish", "published", "refused"}

\* the page; who waits for the answer: the editor that submitted, or, when
\* another has been mounted, the page alone; whether the draft is published
\* after the save; what the canvas held and was mounted with; the revision
\* the request names; the server's answer
Task == [page : Pages, waits : {"editor", "page", "nobody"},
         publishes : BOOLEAN, content : Content, base : Content,
         phase : Phase, expected : Nat, answer : Draft]

WorkflowDraftsTypeOK ==
  /\ workflow \in Draft
  /\ version \in [number : Nat, graph : Content]
  /\ known \in [Pages -> Draft]
  /\ canvas \in [Pages -> [content : Content, base : Content]]
  /\ busy \in [Pages -> BOOLEAN]
  /\ tasks \subseteq Task
  /\ edits \in Content

\* createSqliteWorkflow, and the workflow is opened on every page.
WorkflowDraftsInit ==
  /\ workflow = [draft |-> 0, revision |-> 1]
  /\ version = [number |-> 0, graph |-> 0]
  /\ known = [p \in Pages |-> workflow]
  /\ canvas = [p \in Pages |-> [content |-> 0, base |-> 0]]
  /\ busy = [p \in Pages |-> FALSE]
  /\ tasks = {}
  /\ edits = 0

-----------------------------------------------------------------------------

\* The user changes the graph or the name, busy or not.
Edit(p) ==
  /\ edits < MaxEdits
  /\ edits' = edits + 1
  /\ canvas' = [canvas EXCEPT ![p].content = edits']
  /\ UNCHANGED <<workflow, version, known, busy, tasks>>

\* submit: the request names the revision that the page knows now.
Submit(p, publishes) ==
  /\ ~busy[p]
  /\ Cardinality(tasks) < MaxOpen
  /\ known[p].revision < MaxRevision
  /\ busy' = [busy EXCEPT ![p] = TRUE]
  /\ tasks' = tasks \union
       {[page |-> p, waits |-> "editor", publishes |-> publishes,
         content |-> canvas[p].content,
         base |-> canvas[p].base, phase |-> "save",
         expected |-> known[p].revision, answer |-> known[p]]}
  /\ UNCHANGED <<workflow, version, known, canvas, edits>>

\* A task goes on; an answer for which nobody waits gets lost.
Becomes(t, task) ==
  tasks' = (tasks \ {t}) \union
    (IF task.waits = "nobody" /\ task.phase \notin {"save", "publish"}
       THEN {} ELSE {task})

\* Wrong variant of the definition that follows: the save and the publication
\* do not ask for the revision.
Accessible(t) == t.expected <= workflow.revision

\* eq(workflows.draftRevision, expectedRevision)
Current(t) == t.expected = workflow.revision

\* updateSqliteWorkflowDraft
SaveDraft(t) ==
  /\ t.phase = "save"
  /\ IF Current(t)
       THEN /\ workflow' = [draft |-> t.content,
                            revision |-> workflow.revision + 1]
            /\ Becomes(t, [t EXCEPT !.phase = "saved", !.answer = workflow'])
       ELSE /\ Becomes(t, [t EXCEPT !.phase = "refused"])
            /\ UNCHANGED workflow
  /\ UNCHANGED <<version, known, canvas, busy, edits>>

\* publishSqliteWorkflow: the next version is the draft as it is.
PublishDraft(t) ==
  /\ t.phase = "publish"
  /\ IF Current(t)
       THEN /\ version' = [number |-> version.number + 1,
                           graph |-> workflow.draft]
            /\ Becomes(t, [t EXCEPT !.phase = "published",
                                    !.answer = workflow])
       ELSE /\ Becomes(t, [t EXCEPT !.phase = "refused"])
            /\ UNCHANGED version
  /\ UNCHANGED <<workflow, known, canvas, busy, edits>>

\* The editor of p is mounted anew on answer; what it waited for, the page
\* alone waits for.
Mounts(p, answer, rest) ==
  /\ canvas' = [canvas EXCEPT ![p] =
       [content |-> answer.draft, base |-> answer.draft]]
  /\ busy' = [busy EXCEPT ![p] = FALSE]
  /\ tasks' = {IF t.page = p /\ t.waits = "editor"
                 THEN [t EXCEPT !.waits = "page"] ELSE t : t \in rest}

\* replaceWorkflow: the page takes over the answer, whatever it has learnt
\* meanwhile; a new revision mounts a new editor.
Replaces(t, rest, ends) ==
  /\ known' = [known EXCEPT ![t.page] = t.answer]
  /\ IF t.answer.revision # known[t.page].revision
       THEN Mounts(t.page, t.answer, rest)
       ELSE /\ tasks' = rest
            /\ busy' = [busy EXCEPT ![t.page] =
                 @ /\ ~(ends /\ t.waits = "editor")]
            /\ UNCHANGED canvas

\* The answer to a save: the end of it, or the request to publish follows.
ReadSaved(t) ==
  LET next == [t EXCEPT !.phase = "publish", !.expected = t.answer.revision]
      others == tasks \ {t}
  IN /\ t.phase = "saved"
     /\ Replaces(t, IF t.publishes THEN others \union {next} ELSE others,
                 ~t.publishes)
     /\ UNCHANGED <<workflow, version, edits>>

\* The answer to a publication.
ReadPublished(t) ==
  /\ t.phase = "published"
  /\ Replaces(t, tasks \ {t}, TRUE)
  /\ UNCHANGED <<workflow, version, edits>>

\* A request is refused, or the connection fails: the page shows an error.
\* The server may still carry out a request that it has.
ReadError(t) ==
  /\ t.waits # "nobody"
  /\ Becomes(t, [t EXCEPT !.waits = "nobody"])
  /\ busy' = [busy EXCEPT ![t.page] = @ /\ t.waits # "editor"]
  /\ UNCHANGED <<workflow, version, known, canvas, edits>>

\* A request for which nobody waits gets lost.
Vanish(t) ==
  /\ t.waits = "nobody"
  /\ tasks' = tasks \ {t}
  /\ UNCHANGED <<workflow, version, known, canvas, busy, edits>>

\* The page is loaded again and waits for nothing.
Reload(p) ==
  /\ known' = [known EXCEPT ![p] = workflow]
  /\ Mounts(p, workflow,
            {t \in tasks : t.page # p} \union
              {[t EXCEPT !.waits = "nobody"] :
                 t \in {u \in tasks : /\ u.page = p
                                     /\ u.phase \in {"save", "publish"}}})
  /\ UNCHANGED <<workflow, version, edits>>

\* selectWorkflow: the user turns to another workflow and back.
Revisit(p) ==
  /\ Mounts(p, known[p], tasks)
  /\ UNCHANGED <<workflow, version, known, edits>>

WorkflowDraftsNext ==
  \/ \E p \in Pages :
       \/ Edit(p)
       \/ \E publishes \in BOOLEAN : Submit(p, publishes)
       \/ Reload(p)
       \/ Revisit(p)
  \/ \E t \in tasks :
       \/ SaveDraft(t)
       \/ PublishDraft(t)
       \/ ReadSaved(t)
       \/ ReadPublished(t)
       \/ ReadError(t)
       \/ Vanish(t)

WorkflowDraftsSpec ==
  WorkflowDraftsInit /\ [][WorkflowDraftsNext]_workflowDraftsVars

-----------------------------------------------------------------------------

\* A save replaces the draft that its editor was mounted with, and a version
\* is what its user submitted for publication: neither another page's save,
\* nor one of the same page, nor a late or lost answer comes in between
\* (workflows.ts, workflow-panel.tsx).
DraftsAsSubmitted ==
  [][/\ workflow' # workflow =>
          \E t \in tasks : /\ t.phase = "save"
                           /\ t.base = workflow.draft
                           /\ t.content = workflow'.draft
     /\ version' # version =>
          \E t \in tasks : /\ t.phase = "publish"
                           /\ t.content = version'.graph]_
     workflowDraftsVars

=============================================================================
