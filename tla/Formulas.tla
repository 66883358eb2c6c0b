------------------------------- MODULE Formulas ------------------------------
(***************************************************************************)
(* Formula columns of one table (packages/db/src/sqlite/formulas.ts): they *)
(* are computed when they are created, and recomputed, in the order of     *)
(* their dependencies, by the transaction of every write to the columns    *)
(* they depend on, whether an edit, an enrichment, an import, an ingestion *)
(* batch or a source page makes it.                                        *)
(*                                                                         *)
(* What a formula computes is some function of the values it refers to; it *)
(* is abstracted to their sum modulo a constant.                           *)
(***************************************************************************)
EXTENDS Integers, FiniteSets

LOCAL INSTANCE Functions   \* SumFunction

CONSTANTS
  Written,     \* columns that are written to: inputs and connector columns
  Formula,     \* formula columns
  TableRows,   \* rows of the table
  Values       \* number of values; the empty value is 0

FormulaParameters ==
  /\ Written \intersect Formula = {}
  /\ IsFiniteSet(Formula)
  /\ Values \in Nat \ {0}

VARIABLES
  life,     \* of each column: absent, active or archived
  refs,     \* column_dependencies
  shown,    \* the rows whose archived_at is not set
  value     \* the cells

formulaVars == <<life, refs, shown, value>>

AllColumns == Written \union Formula
Value == 0 .. Values - 1

FormulaTypeOK ==
  /\ life \in [AllColumns -> {"none", "active", "archived"}]
  /\ refs \in [Formula -> SUBSET AllColumns]
  /\ shown \subseteq TableRows
  /\ value \in [TableRows -> [AllColumns -> Value]]

FormulaInit ==
  /\ life = [c \in AllColumns |-> IF c \in Written THEN "active" ELSE "none"]
  /\ refs = [f \in Formula |-> {}]
  /\ shown = TableRows
  /\ value = [r \in TableRows |-> [c \in AllColumns |-> 0]]

-----------------------------------------------------------------------------

InUse == {c \in AllColumns : life[c] = "active"}

\* evaluateFormula
Evaluate(cells, on) == SumFunction([c \in on |-> cells[c]]) % Values

\* The formulas that a change of some columns reaches, the archived included.
Reached(changed, deps) ==
  LET Closed(set) ==
        \A f \in Formula : deps[f] \intersect (changed \union set) # {} => f \in set
  IN CHOOSE set \in SUBSET Formula :
       /\ Closed(set)
       /\ \A other \in SUBSET Formula : Closed(other) => set \subseteq other

\* Wrong variant: formulas are evaluated over the values before the change.
RecomputedAtOnce(cells, changed, deps, active) ==
  [c \in AllColumns |->
     IF c \in Reached(changed, deps) \intersect active
       THEN Evaluate(cells, deps[c]) ELSE cells[c]]

\* recomputeDependentSqliteFormulasForRow: in topological order each reached
\* formula that is not archived is evaluated over the values so far.
Recomputed(cells, changed, deps, active) ==
  LET after[c \in AllColumns] ==
        IF c \in Reached(changed, deps) \intersect active
          THEN Evaluate(after, deps[c]) ELSE cells[c]
  IN after

\* The cells of a row after values were written to some of its columns.
After(r, new) ==
  LET cells == [c \in AllColumns |->
                  IF c \in DOMAIN new THEN new[c] ELSE value[r][c]]
  IN Recomputed(cells, DOMAIN new, refs, InUse)

\* writeSqliteGridCell, markSqliteCellRunSucceeded, the batches of imports and
\* ingestion, and the row steps of workflows, in a row that is not archived.
WriteRow(r, new) ==
  /\ r \in shown
  /\ value' = [value EXCEPT ![r] = After(r, new)]
  /\ UNCHANGED <<life, refs, shown>>

\* applySqliteSourceRunPage restores the row of a record that it brings.
SourceRow(r, new) ==
  /\ value' = [value EXCEPT ![r] = After(r, new)]
  /\ shown' = shown \union {r}
  /\ UNCHANGED <<life, refs>>

\* The reconciliation of a source run.
HideRow(r) ==
  /\ r \in shown
  /\ shown' = shown \ {r}
  /\ UNCHANGED <<life, refs, value>>

\* createSqliteFormulaColumn computes, in the rows that are not archived, all
\* that depends on the columns it refers to.
CreateFormula(f, on) ==
  /\ life[f] = "none"
  /\ on # {}
  /\ on \subseteq InUse
  /\ life' = [life EXCEPT ![f] = "active"]
  /\ refs' = [refs EXCEPT ![f] = on]
  /\ value' = [r \in TableRows |->
       IF r \in shown THEN Recomputed(value[r], on, refs', InUse \union {f})
                      ELSE value[r]]
  /\ UNCHANGED shown

\* archiveSqliteWorkspaceColumn, which active dependents block (Schema).
ArchiveFormulaColumn(c) ==
  /\ c \in InUse
  /\ \A f \in Formula \intersect InUse : c \notin refs[f]
  /\ life' = [life EXCEPT ![c] = "archived"]
  /\ UNCHANGED <<refs, shown, value>>

\* restoreSqliteWorkspaceColumn recomputes nothing.
RestoreFormulaColumn(c) ==
  /\ life[c] = "archived"
  /\ c \in Formula => refs[c] \subseteq InUse
  /\ life' = [life EXCEPT ![c] = "active"]
  /\ UNCHANGED <<refs, shown, value>>

Writes == UNION {[columns -> Value] : columns \in SUBSET (Written \intersect InUse) \ {{}}}

FormulasNext ==
  \/ \E r \in TableRows, new \in Writes : WriteRow(r, new) \/ SourceRow(r, new)
  \/ \E r \in TableRows : HideRow(r)
  \/ \E f \in Formula : \E on \in SUBSET InUse : CreateFormula(f, on)
  \/ \E c \in AllColumns : ArchiveFormulaColumn(c) \/ RestoreFormulaColumn(c)

FormulaSpec == FormulaInit /\ [][FormulasNext]_formulaVars

-----------------------------------------------------------------------------

\* The cell of formula f in row r has the value of its expression.
Current(r, f) == value[r][f] = Evaluate(value[r], refs[f])

Changed(r) == {c \in Written : value'[r][c] # value[r][c]}

\* There is a path of formulas from one of the columns to formula f.
Downstream(f, columns) ==
  \E i \in 1 .. Cardinality(Formula) :
    \E path \in [1 .. i -> Formula] :
      /\ path[i] = f
      /\ refs[path[1]] \intersect columns # {}
      /\ \A j \in 2 .. i : path[j - 1] \in refs[path[j]]

\* Whatever writes to a row leaves every formula in use that depends on a
\* changed column, at any distance, with the value of its expression, and a
\* new formula starts with it: chains of formulas, formulas that were away
\* while their columns changed, and rows that come back included.
FormulasFollow ==
  [][/\ \A r \in TableRows, f \in Formula \intersect InUse :
          Downstream(f, Changed(r)) => Current(r, f)'
     /\ \A r \in shown, f \in Formula :
          life[f] = "none" /\ life'[f] = "active" => Current(r, f)']_formulaVars

=============================================================================
