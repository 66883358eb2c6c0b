---------------------------- MODULE TablesProofs -----------------------------
(***************************************************************************)
(* Proofs about what happens to the cells of a table, for any number of    *)
(* columns, rows, editors, providers, messages, executors and pages: each  *)
(* part keeps the rule that module Tables states of it.                    *)
(*                                                                         *)
(* The inductive invariant of each part contains what its parameters are   *)
(* assumed to be, which no step changes.  The recursive functions of the   *)
(* formulas and of the graph of a workflow are shown to exist, by least    *)
(* counterexample over a measure that each call makes smaller.             *)
(***************************************************************************)
EXTENDS Tables, FiniteSetTheorems, SequenceTheorems, WellFoundedInduction,
        TLAPS

-----------------------------------------------------------------------------
(* Sets of naturals.                                                       *)

\* A set of naturals has a least element.
LEMMA LeastElement ==
  ASSUME NEW T, T \subseteq Nat, T # {}
  PROVE  \E x \in T : \A y \in T : x <= y
<1> DEFINE smaller == OpToRel(<, Nat)
<1>1. IsWellFoundedOn(smaller, Nat)
  BY NatLessThanWellFounded
<1>2. \A y, x \in Nat : y < x => <<y, x>> \in smaller
  BY DEF OpToRel
<1> HIDE DEF smaller
<1>3. PICK x \in T : \A y \in T : ~(<<y, x>> \in smaller)
  BY <1>1, WFMin
<1>4. ASSUME NEW y \in T PROVE x <= y
  <2>1. ~(<<y, x>> \in smaller) /\ x \in Nat /\ y \in Nat
    BY <1>3
  <2>2. ~(y < x)
    BY <1>2, <2>1
  <2>3. QED
    BY <2>1, <2>2
<1>5. QED
  BY <1>4

\* A set of numbers up to a bound has a greatest element.
LEMMA GreatestElement ==
  ASSUME NEW N \in Nat, NEW T, T \subseteq 1 .. N, T # {}
  PROVE  \E x \in T : \A y \in T : y <= x
<1> DEFINE distances == {N - y : y \in T}
<1>1. \A y \in T : y \in Nat /\ y <= N /\ N - y \in Nat
  <2>1. \A y \in 1 .. N : y \in Nat /\ y <= N /\ N - y \in Nat
    OBVIOUS
  <2>2. QED
    BY <2>1
<1>2. PICK d \in distances : \A e \in distances : d <= e
  <2>1. distances \subseteq Nat /\ distances # {}
    BY <1>1
  <2> HIDE DEF distances
  <2>2. QED
    BY <2>1, LeastElement
<1>3. PICK x \in T : d = N - x
  BY <1>2
<1>4. ASSUME NEW y \in T PROVE y <= x
  <2>1. d <= N - y
    BY <1>2
  <2>2. x \in Nat /\ y \in Nat
    BY <1>1
  <2>3. QED
    BY <1>3, <2>1, <2>2
<1>5. QED
  BY <1>4

-----------------------------------------------------------------------------
(* The schema.                                                             *)

\* A column that was never created depends on nothing, and none depends on it.
DependenciesExist ==
  \A k \in Computed :
    /\ column[k] = "none" => deps[k] = {}
    /\ \A d \in deps[k] : column[d] # "none"

\* A source that was never created has read nothing.
SourceBegins == source.status = "none" => ~source.running /\ S!Mapped = {}

\* The columns that an import was given exist.
ImportColumnsExist ==
  import.status = "running" => \A c \in import.mapping : column[c] # "none"

\* The schema's inductive invariant.
SchemaIInv ==
  /\ S!SchemaParameters /\ S!SchemaTypeOK
  /\ DependenciesExist /\ SourceBegins /\ ImportColumnsExist
  /\ S!ReferencesActive

\* What the invariant says of the types of the variables.
LEMMA SchemaTypes ==
  ASSUME SchemaIInv
  PROVE  /\ column \in [S!Columns -> S!Lifecycle]
         /\ type \in [S!Inputs -> Types] /\ "text" \in Types
         /\ deps \in [Computed -> SUBSET S!Columns]
         /\ S!Inputs \subseteq S!Columns /\ Computed \subseteq S!Columns
         /\ source.mapping \in [Fields -> S!Inputs \union {NoColumn}]
         /\ import.mapping \subseteq S!Inputs
         /\ S!Active = {c \in S!Columns : column[c] = "active"}
BY DEF SchemaIInv, S!SchemaTypeOK, S!SchemaParameters, S!Columns, S!Active

\* New columns become active, and others stay as they are.
LEMMA ColumnsGrow ==
  ASSUME SchemaIInv, column' \in [S!Columns -> S!Lifecycle],
         type' \in [S!Inputs -> Types],
         deps' = deps, view' = view, writeback' = writeback,
         \A c \in S!Columns :
           /\ column[c] # "none" => column'[c] = column[c]
           /\ column'[c] # column[c] => column'[c] = "active",
         \A c \in S!Inputs : column[c] # "none" => type'[c] = type[c]
  PROVE  /\ S!Active \subseteq S!Active'
         /\ DependenciesExist'
         /\ S!Active' # {}
         /\ \A k \in Computed \intersect S!Active' : deps'[k] \subseteq S!Active'
         /\ writeback'.status = "active" => writeback'.refs \subseteq S!Active'
         /\ view' \subseteq S!Active'
<1>1. S!Active \subseteq S!Active'
  BY DEF S!Active
<1>2. DependenciesExist'
  BY SchemaTypes DEF SchemaIInv, DependenciesExist, S!Lifecycle
<1>3. \A k \in Computed \intersect S!Active' : deps'[k] \subseteq S!Active'
  <2> SUFFICES ASSUME NEW k \in Computed, column'[k] = "active"
               PROVE  deps[k] \subseteq S!Active'
    BY SchemaTypes DEF S!Active
  <2>1. CASE column[k] = "none"
    BY <2>1 DEF SchemaIInv, DependenciesExist
  <2>2. CASE column[k] # "none"
    <3>1. k \in S!Active
      BY <2>2, SchemaTypes DEF S!Active
    <3>2. QED
      BY <1>1, <3>1 DEF SchemaIInv, S!ReferencesActive
  <2>3. QED
    BY <2>1, <2>2
<1>4. QED
  BY <1>1, <1>2, <1>3 DEF SchemaIInv, S!ReferencesActive

\* What the operations on columns do.
LEMMA ColumnSteps ==
  ASSUME SchemaIInv,
         \/ \E f \in Fields, t \in Types : S!CreateInput(f, t)
         \/ \E k \in Computed : \E on \in S!ColumnSets : S!CreateComputed(k, on)
         \/ \E c \in S!Columns : S!ArchiveColumn(c) \/ S!RestoreColumn(c)
         \/ \E c \in S!Inputs, t \in Types : S!ConvertType(c, t)
  PROVE  SchemaIInv'
<1>1. ASSUME NEW f \in Fields, NEW t \in Types, S!CreateInput(f, t)
      PROVE  SchemaIInv'
  <2> DEFINE new == <<f, "plain">>
  <2>1. /\ new \in S!Inputs /\ column[new] = "none"
        /\ column' = [column EXCEPT ![new] = "active"]
        /\ type' = [type EXCEPT ![new] = t]
        /\ UNCHANGED <<table, deps, stored, source, import, view, writeback>>
    BY <1>1 DEF S!CreateInput, S!Inputs
  <2> HIDE DEF new
  <2>2. /\ column' \in [S!Columns -> S!Lifecycle] /\ type' \in [S!Inputs -> Types]
        /\ \A c \in S!Columns :
             /\ column[c] # "none" => column'[c] = column[c]
             /\ column'[c] # column[c] => column'[c] = "active"
        /\ \A c \in S!Inputs : column[c] # "none" => type'[c] = type[c]
    BY <2>1, SchemaTypes DEF S!Lifecycle
  <2>3. S!SchemaTypeOK'
    BY <2>1, <2>2 DEF SchemaIInv, S!SchemaTypeOK
  <2>4. SourceBegins' /\ S!Mapped' = S!Mapped
    BY <2>1 DEF SchemaIInv, SourceBegins, S!Mapped
  <2>5. ImportColumnsExist'
    BY <2>1, <2>2, SchemaTypes DEF SchemaIInv, ImportColumnsExist
  <2>6. import'.status = "running" => \A c \in import'.mapping : type'[c] = "text"
    BY <2>1, <2>2, SchemaTypes DEF SchemaIInv, ImportColumnsExist, S!ReferencesActive
  <2>7. /\ S!Active \subseteq S!Active' /\ DependenciesExist' /\ S!Active' # {}
        /\ \A k \in Computed \intersect S!Active' : deps'[k] \subseteq S!Active'
        /\ writeback'.status = "active" => writeback'.refs \subseteq S!Active'
        /\ view' \subseteq S!Active'
    BY <2>1, <2>2, ColumnsGrow
  <2>8. S!ReferencesActive'
    BY <2>1, <2>4, <2>6, <2>7 DEF SchemaIInv, S!ReferencesActive
  <2>9. QED
    BY <2>3, <2>4, <2>5, <2>7, <2>8 DEF SchemaIInv, S!SchemaParameters
<1>2. ASSUME NEW k \in Computed, NEW on \in S!ColumnSets, S!CreateComputed(k, on)
      PROVE  SchemaIInv'
  <2>1. /\ column[k] = "none" /\ on \subseteq S!Active
        /\ column' = [column EXCEPT ![k] = "active"]
        /\ deps' = [deps EXCEPT ![k] = on]
        /\ UNCHANGED <<table, type, stored, source, import, view, writeback>>
    BY <1>2 DEF S!CreateComputed
  <2>2. /\ column' \in [S!Columns -> S!Lifecycle]
        /\ deps' \in [Computed -> SUBSET S!Columns]
        /\ \A c \in S!Columns : c # k => column'[c] = column[c]
        /\ \A j \in Computed : j # k => deps'[j] = deps[j]
        /\ deps'[k] = on /\ column'[k] = "active" /\ k \in S!Columns
    BY <2>1, SchemaTypes DEF S!Lifecycle
  <2>3. S!Active' = S!Active \union {k}
    BY <2>2, SchemaTypes DEF S!Active
  <2>4. S!SchemaTypeOK'
    BY <2>1, <2>2 DEF SchemaIInv, S!SchemaTypeOK
  <2>5. DependenciesExist'
    BY <2>1, <2>2, SchemaTypes DEF SchemaIInv, DependenciesExist
  <2>6. SourceBegins' /\ S!Mapped' = S!Mapped
    BY <2>1 DEF SchemaIInv, SourceBegins, S!Mapped
  <2>7. ImportColumnsExist'
    BY <2>1, <2>2, SchemaTypes DEF SchemaIInv, ImportColumnsExist
  <2>8. S!ReferencesActive'
    BY <2>1, <2>2, <2>3, <2>6 DEF SchemaIInv, S!ReferencesActive
  <2>9. QED
    BY <2>4, <2>5, <2>6, <2>7, <2>8 DEF SchemaIInv, S!SchemaParameters
<1>3. ASSUME NEW c \in S!Columns, S!ArchiveColumn(c)
      PROVE  SchemaIInv'
  <2>1. /\ column[c] = "active" /\ ~S!BlocksArchival(c)
        /\ column' = [column EXCEPT ![c] = "archived"]
        /\ UNCHANGED <<table, type, deps, stored, source, import, view, writeback>>
    BY <1>3 DEF S!ArchiveColumn
  <2>2. /\ column' \in [S!Columns -> S!Lifecycle]
        /\ \A d \in S!Columns : column[d] # "none" <=> column'[d] # "none"
    BY <2>1, SchemaTypes DEF S!Lifecycle
  <2>3. S!Active' = S!Active \ {c} /\ c \in S!Active
    BY <2>1, SchemaTypes DEF S!Active
  <2>4. S!SchemaTypeOK'
    BY <2>1, <2>2 DEF SchemaIInv, S!SchemaTypeOK
  <2>5. DependenciesExist'
    BY <2>1, <2>2, SchemaTypes DEF SchemaIInv, DependenciesExist
  <2>6. SourceBegins' /\ S!Mapped' = S!Mapped
    BY <2>1 DEF SchemaIInv, SourceBegins, S!Mapped
  <2>7. ImportColumnsExist'
    BY <2>1, <2>2, SchemaTypes DEF SchemaIInv, ImportColumnsExist
  <2>8. S!ReferencesActive'
    BY <2>1, <2>3, <2>6
       DEF SchemaIInv, S!ReferencesActive, S!BlocksArchival, S!Dependents
  <2>9. QED
    BY <2>4, <2>5, <2>6, <2>7, <2>8 DEF SchemaIInv, S!SchemaParameters
<1>4. ASSUME NEW c \in S!Columns, S!RestoreColumn(c)
      PROVE  SchemaIInv'
  <2>1. /\ column[c] = "archived"
        /\ c \in Computed => \A d \in deps[c] : column[d] # "archived"
        /\ column' = [column EXCEPT ![c] = "active"]
        /\ UNCHANGED <<table, type, deps, stored, source, import, view, writeback>>
    BY <1>4 DEF S!RestoreColumn
  <2>2. /\ column' \in [S!Columns -> S!Lifecycle]
        /\ \A d \in S!Columns : column[d] # "none" <=> column'[d] # "none"
    BY <2>1, SchemaTypes DEF S!Lifecycle
  <2>3. S!Active' = S!Active \union {c}
    BY <2>1, SchemaTypes DEF S!Active
  <2>4. c \in Computed => deps[c] \subseteq S!Active
    BY <2>1, SchemaTypes DEF SchemaIInv, DependenciesExist, S!Lifecycle
  <2>5. S!SchemaTypeOK'
    BY <2>1, <2>2 DEF SchemaIInv, S!SchemaTypeOK
  <2>6. DependenciesExist'
    BY <2>1, <2>2, SchemaTypes DEF SchemaIInv, DependenciesExist
  <2>7. SourceBegins' /\ S!Mapped' = S!Mapped
    BY <2>1 DEF SchemaIInv, SourceBegins, S!Mapped
  <2>8. ImportColumnsExist'
    BY <2>1, <2>2, SchemaTypes DEF SchemaIInv, ImportColumnsExist
  <2>9. S!ReferencesActive'
    BY <2>1, <2>3, <2>4, <2>7 DEF SchemaIInv, S!ReferencesActive
  <2>10. QED
    BY <2>5, <2>6, <2>7, <2>8, <2>9 DEF SchemaIInv, S!SchemaParameters
<1>5. ASSUME NEW c \in S!Inputs, NEW t \in Types, S!ConvertType(c, t)
      PROVE  SchemaIInv'
  <2>1. /\ ~S!ImportActive
        /\ type' = [type EXCEPT ![c] = t]
        /\ stored' = [stored EXCEPT ![c] = IF @ = {} THEN {} ELSE {t}]
        /\ UNCHANGED <<table, column, deps, source, import, view, writeback>>
    BY <1>5 DEF S!ConvertType, S!BlocksConversion
  <2>2. S!SchemaTypeOK'
    BY <2>1 DEF SchemaIInv, S!SchemaTypeOK
  <2>3. S!Active' = S!Active /\ S!Mapped' = S!Mapped
    BY <2>1 DEF S!Active, S!Mapped
  <2>4. import'.status # "running"
    BY <2>1 DEF S!ImportActive
  <2>5. S!ReferencesActive'
    BY <2>1, <2>3, <2>4 DEF SchemaIInv, S!ReferencesActive
  <2>6. QED
    BY <2>1, <2>2, <2>3, <2>4, <2>5
       DEF SchemaIInv, S!SchemaParameters, DependenciesExist, SourceBegins,
           ImportColumnsExist
<1>6. QED
  BY <1>1, <1>2, <1>3, <1>4, <1>5

\* The columns that a plan needs are created and take text.
LEMMA Plan ==
  ASSUME SchemaIInv, NEW fields \in SUBSET Fields,
         \A f \in fields : S!Available(f),
         S!CreateColumns(S!Created(fields)),
         deps' = deps, view' = view, writeback' = writeback
  PROVE  /\ column' \in [S!Columns -> S!Lifecycle] /\ type' \in [S!Inputs -> Types]
         /\ S!Active \subseteq S!Active' /\ DependenciesExist' /\ S!Active' # {}
         /\ \A k \in Computed \intersect S!Active' : deps'[k] \subseteq S!Active'
         /\ writeback'.status = "active" => writeback'.refs \subseteq S!Active'
         /\ view' \subseteq S!Active'
         /\ \A c \in S!Inputs : column[c] # "none" =>
              column'[c] = column[c] /\ type'[c] = type[c]
         /\ \A f \in fields :
              /\ S!Planned(f) \in S!Inputs /\ column'[S!Planned(f)] = "active"
              /\ type'[S!Planned(f)] = "text"
<1> DEFINE new == S!Created(fields)
<1>1. /\ \A f \in Fields : S!Planned(f) \in S!Inputs
      /\ new \subseteq S!Inputs /\ \A c \in new : column[c] = "none"
      /\ \A f \in fields : column[S!Planned(f)] = "none" => S!Planned(f) \in new
  <2>1. ASSUME NEW f \in Fields PROVE S!Planned(f) \in S!Inputs
    BY DEF S!Planned, S!Inputs
  <2>2. QED
    BY <2>1 DEF S!Created
<1>2. /\ column' = [c \in S!Columns |-> IF c \in new THEN "active" ELSE column[c]]
      /\ type' = [c \in S!Inputs |-> IF c \in new THEN "text" ELSE type[c]]
  BY DEF S!CreateColumns
<1> HIDE DEF new
<1>3. /\ column' \in [S!Columns -> S!Lifecycle] /\ type' \in [S!Inputs -> Types]
      /\ \A c \in S!Columns :
           /\ column[c] # "none" => column'[c] = column[c]
           /\ column'[c] # column[c] => column'[c] = "active"
      /\ \A c \in S!Inputs : column[c] # "none" => type'[c] = type[c]
  BY <1>1, <1>2, SchemaTypes DEF S!Lifecycle
<1>4. ASSUME NEW f \in fields
      PROVE  column'[S!Planned(f)] = "active" /\ type'[S!Planned(f)] = "text"
  <2>1. S!Planned(f) \in S!Inputs /\ S!Planned(f) \in S!Columns
    BY <1>1, SchemaTypes
  <2>2. CASE column[S!Planned(f)] = "none"
    BY <1>1, <1>2, <2>1, <2>2
  <2>3. CASE column[S!Planned(f)] # "none"
    <3>1. /\ S!Planned(f) = <<f, "plain">>
          /\ column[S!Planned(f)] = "active"
      BY <2>3 DEF S!Available
    <3>2. type[S!Planned(f)] = "text"
      BY <3>1 DEF S!Planned
    <3>3. QED
      BY <1>3, <2>1, <3>1, <3>2
  <2>4. QED
    BY <2>2, <2>3
<1>5. /\ S!Active \subseteq S!Active' /\ DependenciesExist' /\ S!Active' # {}
      /\ \A k \in Computed \intersect S!Active' : deps'[k] \subseteq S!Active'
      /\ writeback'.status = "active" => writeback'.refs \subseteq S!Active'
      /\ view' \subseteq S!Active'
  BY <1>3, ColumnsGrow
<1>6. QED
  BY <1>1, <1>3, <1>4, <1>5, SchemaTypes

\* A page or a batch of rows writes text.
LEMMA TextWritten ==
  ASSUME SchemaIInv, NEW columns \in SUBSET S!Inputs, S!WriteText(columns)
  PROVE  stored' \in [S!Inputs -> SUBSET Types]
<1>1. PICK cells \in [columns -> SUBSET Types] :
        stored' = [c \in S!Inputs |-> IF c \in columns THEN cells[c] ELSE stored[c]]
  BY DEF S!WriteText
<1>2. stored \in [S!Inputs -> SUBSET Types]
  BY DEF SchemaIInv, S!SchemaTypeOK
<1>3. QED
  BY <1>1, <1>2

\* What creates columns on the way.
LEMMA PageSteps ==
  ASSUME SchemaIInv,
         \/ \E fields \in SUBSET Fields, last \in BOOLEAN : S!ApplyPage(fields, last)
         \/ \E headers \in SUBSET Fields : S!PrepareImport(headers)
  PROVE  SchemaIInv'
<1>1. ASSUME NEW fields \in SUBSET Fields, NEW last \in BOOLEAN,
             S!ApplyPage(fields, last)
      PROVE  SchemaIInv'
  <2> DEFINE kept == {f \in Fields : /\ source.mapping[f] # NoColumn
                                     /\ column[source.mapping[f]] = "active"}
  <2> DEFINE new == fields \ kept
  <2> DEFINE mapping == [f \in Fields |->
                           IF f \in kept THEN source.mapping[f]
                           ELSE IF f \in new THEN S!Planned(f) ELSE NoColumn]
  <2> DEFINE mapped == {mapping[f] : f \in kept \union new}
  <2>1. /\ source.running /\ \A f \in new : S!Available(f)
        /\ S!CreateColumns(S!Created(new)) /\ S!WriteText(mapped)
        /\ source' = [source EXCEPT !.mapping = mapping, !.running = ~last]
        /\ UNCHANGED <<table, deps, import, view, writeback>>
    BY <1>1 DEF S!ApplyPage
  <2>2. new \in SUBSET Fields
    OBVIOUS
  <2>3. /\ column' \in [S!Columns -> S!Lifecycle] /\ type' \in [S!Inputs -> Types]
        /\ S!Active \subseteq S!Active' /\ DependenciesExist' /\ S!Active' # {}
        /\ \A k \in Computed \intersect S!Active' : deps'[k] \subseteq S!Active'
        /\ writeback'.status = "active" => writeback'.refs \subseteq S!Active'
        /\ view' \subseteq S!Active'
        /\ \A c \in S!Inputs : column[c] # "none" =>
             column'[c] = column[c] /\ type'[c] = type[c]
        /\ \A f \in new :
             /\ S!Planned(f) \in S!Inputs /\ column'[S!Planned(f)] = "active"
    <3> HIDE DEF new
    <3>1. QED
      BY <2>1, <2>2, Plan
  <2>4. \A f \in kept : source.mapping[f] \in S!Inputs /\ source.mapping[f] \in S!Active
    BY SchemaTypes
  <2>5. /\ mapping \in [Fields -> S!Inputs \union {NoColumn}]
        /\ mapped \subseteq S!Inputs
        /\ \A f \in Fields : mapping[f] # NoColumn => mapping[f] \in S!Active'
    <3>1. \A f \in kept : mapping[f] \in S!Inputs /\ mapping[f] \in S!Active'
      BY <2>3, <2>4
    <3>2. \A f \in new : mapping[f] \in S!Inputs /\ mapping[f] \in S!Active'
      <4>1. \A f \in new : S!Planned(f) \in S!Inputs /\ S!Planned(f) \in S!Active'
        BY <2>3, SchemaTypes DEF S!Active
      <4>2. QED
        BY <4>1
    <3>3. \A f \in Fields : f \in kept \/ f \in new \/ mapping[f] = NoColumn
      OBVIOUS
    <3>4. kept \subseteq Fields /\ new \subseteq Fields
      OBVIOUS
    <3>5. DOMAIN mapping = Fields /\ mapping \in [Fields -> {mapping[f] : f \in Fields}]
      OBVIOUS
    <3> HIDE DEF kept, new, mapping
    <3>6. QED
      BY <3>1, <3>2, <3>3, <3>4, <3>5
  <2>6. stored' \in [S!Inputs -> SUBSET Types]
    <3> HIDE DEF mapped
    <3>1. QED
      BY <2>1, <2>5, TextWritten
  <2> HIDE DEF mapping, mapped, new, kept
  <2>7. /\ source' \in [status : S!Switch, running : BOOLEAN,
                        mapping : [Fields -> S!Inputs \union {NoColumn}]]
        /\ source'.mapping = mapping /\ source'.status = source.status
        /\ source.status # "none"
    BY <2>1, <2>5 DEF SchemaIInv, S!SchemaTypeOK, SourceBegins
  <2>8. S!SchemaTypeOK'
    BY <2>1, <2>3, <2>6, <2>7 DEF SchemaIInv, S!SchemaTypeOK
  <2>9. SourceBegins'
    BY <2>7 DEF SourceBegins
  <2>10. S!Mapped' \subseteq S!Active'
    BY <2>5, <2>7 DEF S!Mapped
  <2>11. /\ ImportColumnsExist'
         /\ import'.status = "running" => \A c \in import'.mapping : type'[c] = "text"
    BY <2>1, <2>3, SchemaTypes DEF SchemaIInv, ImportColumnsExist, S!ReferencesActive
  <2>12. S!ReferencesActive'
    BY <2>3, <2>10, <2>11 DEF S!ReferencesActive
  <2>13. QED
    BY <2>3, <2>8, <2>9, <2>11, <2>12 DEF SchemaIInv, S!SchemaParameters
<1>2. ASSUME NEW headers \in SUBSET Fields, S!PrepareImport(headers)
      PROVE  SchemaIInv'
  <2>1. /\ \A f \in headers : S!Available(f)
        /\ S!CreateColumns(S!Created(headers))
        /\ import' = [status |-> "running",
                      mapping |-> {S!Planned(f) : f \in headers}]
        /\ UNCHANGED <<table, deps, stored, source, view, writeback>>
    BY <1>2 DEF S!PrepareImport
  <2>2. /\ column' \in [S!Columns -> S!Lifecycle] /\ type' \in [S!Inputs -> Types]
        /\ S!Active \subseteq S!Active' /\ DependenciesExist' /\ S!Active' # {}
        /\ \A k \in Computed \intersect S!Active' : deps'[k] \subseteq S!Active'
        /\ writeback'.status = "active" => writeback'.refs \subseteq S!Active'
        /\ view' \subseteq S!Active'
        /\ \A f \in headers :
             /\ S!Planned(f) \in S!Inputs /\ column'[S!Planned(f)] = "active"
             /\ type'[S!Planned(f)] = "text"
    BY <2>1, Plan
  <2>3. /\ import'.mapping \subseteq S!Inputs
        /\ \A c \in import'.mapping : column'[c] = "active" /\ type'[c] = "text"
    BY <2>1, <2>2
  <2>4. S!SchemaTypeOK'
    BY <2>1, <2>2, <2>3 DEF SchemaIInv, S!SchemaTypeOK
  <2>5. SourceBegins' /\ S!Mapped' = S!Mapped
    BY <2>1 DEF SchemaIInv, SourceBegins, S!Mapped
  <2>6. ImportColumnsExist'
    BY <2>3 DEF ImportColumnsExist
  <2>7. S!ReferencesActive'
    BY <2>1, <2>2, <2>3, <2>5 DEF SchemaIInv, S!ReferencesActive
  <2>8. QED
    BY <2>2, <2>4, <2>5, <2>6, <2>7 DEF SchemaIInv, S!SchemaParameters
<1>3. QED
  BY <1>1, <1>2

\* What leaves the columns alone.
LEMMA UseSteps ==
  ASSUME SchemaIInv,
         \/ S!ArchiveTable \/ S!RestoreTable
         \/ \E c \in S!Inputs : S!WriteCell(c)
         \/ S!CreateSource \/ S!PauseSource \/ S!ResumeSource
         \/ S!QueueRun \/ S!FailRun
         \/ S!CreateImport \/ S!ImportRows \/ S!FinishImport
         \/ \E columns \in S!ColumnSets : S!SaveView(columns) \/ S!CreateWriteback(columns)
         \/ \E status \in {"active", "paused"} : S!SwitchWriteback(status)
         \/ UNCHANGED S!schemaVars
  PROVE  SchemaIInv'
<1>1. column' = column /\ type' = type /\ deps' = deps
  BY DEF S!ArchiveTable, S!RestoreTable, S!WriteCell, S!CreateSource, S!PauseSource,
         S!ResumeSource, S!QueueRun, S!FailRun, S!CreateImport, S!ImportRows,
         S!FinishImport, S!SaveView, S!CreateWriteback, S!SwitchWriteback, S!schemaVars
<1>2. S!Active' = S!Active
  BY <1>1 DEF S!Active
<1>3. table' \in {"active", "archived"}
  BY DEF S!ArchiveTable, S!RestoreTable, S!WriteCell, S!CreateSource, S!PauseSource,
         S!ResumeSource, S!QueueRun, S!FailRun, S!CreateImport, S!ImportRows,
         S!FinishImport, S!SaveView, S!CreateWriteback, S!SwitchWriteback, S!schemaVars,
         SchemaIInv, S!SchemaTypeOK
<1>4. stored' \in [S!Inputs -> SUBSET Types]
  <2>1. stored \in [S!Inputs -> SUBSET Types] /\ type \in [S!Inputs -> Types]
    BY DEF SchemaIInv, S!SchemaTypeOK
  <2>2. CASE UNCHANGED stored
    BY <2>1, <2>2
  <2>3. ASSUME NEW c \in S!Inputs, S!WriteCell(c) PROVE stored' \in [S!Inputs -> SUBSET Types]
    BY <2>1, <2>3 DEF S!WriteCell, S!Overwritten
  <2>4. CASE S!ImportRows
    BY <2>4, SchemaTypes, TextWritten DEF S!ImportRows
  <2>5. QED
    BY <2>2, <2>3, <2>4
       DEF S!ArchiveTable, S!RestoreTable, S!CreateSource, S!PauseSource,
           S!ResumeSource, S!QueueRun, S!FailRun, S!CreateImport,
           S!FinishImport, S!SaveView, S!CreateWriteback, S!SwitchWriteback, S!schemaVars
<1>5. /\ source' \in [status : S!Switch, running : BOOLEAN,
                      mapping : [Fields -> S!Inputs \union {NoColumn}]]
      /\ SourceBegins'
      /\ source'.status = "active" => S!Mapped' \subseteq S!Active'
  <2>1. /\ source \in [status : S!Switch, running : BOOLEAN,
                       mapping : [Fields -> S!Inputs \union {NoColumn}]]
        /\ SourceBegins
        /\ source.status = "active" => S!Mapped \subseteq S!Active
    BY DEF SchemaIInv, S!SchemaTypeOK, S!ReferencesActive
  <2>2. CASE source' = source
    <3>1. S!Mapped' = S!Mapped
      BY <2>2 DEF S!Mapped
    <3>2. QED
      BY <1>2, <2>1, <2>2, <3>1 DEF SourceBegins
  <2>3. CASE S!CreateSource \/ S!PauseSource \/ S!ResumeSource \/ S!QueueRun \/ S!FailRun
    <3>1. /\ source'.mapping = source.mapping
          /\ source' \in [status : S!Switch, running : BOOLEAN,
                          mapping : [Fields -> S!Inputs \union {NoColumn}]]
      BY <2>1, <2>3 DEF S!CreateSource, S!PauseSource, S!ResumeSource, S!QueueRun,
                        S!FailRun, S!Switch
    <3>2. S!Mapped' = S!Mapped
      BY <3>1 DEF S!Mapped
    <3>3. S!Mapped \subseteq S!Columns
      BY SchemaTypes DEF S!Mapped
    <3>4. source'.status = "none" => ~source'.running /\ S!Mapped = {}
      BY <2>1, <2>3 DEF S!CreateSource, S!PauseSource, S!ResumeSource, S!QueueRun,
                        S!FailRun, SourceBegins
    <3>5. source'.status = "active" => S!Mapped \subseteq S!Active
      BY <2>1, <2>3, <3>3
         DEF S!CreateSource, S!PauseSource, S!ResumeSource, S!QueueRun, S!FailRun,
             SourceBegins, S!MayResume, S!Active
    <3>6. QED
      BY <1>2, <3>1, <3>2, <3>4, <3>5 DEF SourceBegins
  <2>4. QED
    BY <2>2, <2>3
       DEF S!ArchiveTable, S!RestoreTable, S!WriteCell, S!CreateImport, S!ImportRows,
           S!FinishImport, S!SaveView, S!CreateWriteback, S!SwitchWriteback, S!schemaVars
<1>6. /\ import' \in [status : {"none", "queued", "running", "over"},
                      mapping : SUBSET S!Inputs]
      /\ import'.status = "running" => import' = import
  BY DEF S!ArchiveTable, S!RestoreTable, S!WriteCell, S!CreateSource, S!PauseSource,
         S!ResumeSource, S!QueueRun, S!FailRun, S!CreateImport, S!ImportRows,
         S!FinishImport, S!SaveView, S!CreateWriteback, S!SwitchWriteback, S!schemaVars,
         SchemaIInv, S!SchemaTypeOK
<1>7. view' \subseteq S!Columns /\ view' \subseteq S!Active
  BY DEF S!ArchiveTable, S!RestoreTable, S!WriteCell, S!CreateSource, S!PauseSource,
         S!ResumeSource, S!QueueRun, S!FailRun, S!CreateImport, S!ImportRows,
         S!FinishImport, S!SaveView, S!CreateWriteback, S!SwitchWriteback, S!schemaVars,
         SchemaIInv, S!SchemaTypeOK, S!ReferencesActive, S!ColumnSets
<1>8. /\ writeback' \in [status : S!Switch, refs : SUBSET S!Columns]
      /\ writeback'.status = "active" => writeback'.refs \subseteq S!Active
  <2>1. /\ writeback \in [status : S!Switch, refs : SUBSET S!Columns]
        /\ writeback.status = "active" => writeback.refs \subseteq S!Active
    BY DEF SchemaIInv, S!SchemaTypeOK, S!ReferencesActive
  <2>2. CASE writeback' = writeback
    BY <2>1, <2>2
  <2>3. ASSUME NEW columns \in S!ColumnSets, S!CreateWriteback(columns)
        PROVE  /\ writeback' \in [status : S!Switch, refs : SUBSET S!Columns]
               /\ writeback'.status = "active" => writeback'.refs \subseteq S!Active
    BY <2>3 DEF S!CreateWriteback, S!Switch, S!Active
  <2>4. ASSUME NEW status \in {"active", "paused"}, S!SwitchWriteback(status)
        PROVE  /\ writeback' \in [status : S!Switch, refs : SUBSET S!Columns]
               /\ writeback'.status = "active" => writeback'.refs \subseteq S!Active
    BY <2>1, <2>4 DEF S!SwitchWriteback, S!Switch
  <2>5. QED
    BY <2>2, <2>3, <2>4
       DEF S!ArchiveTable, S!RestoreTable, S!WriteCell, S!CreateSource, S!PauseSource,
           S!ResumeSource, S!QueueRun, S!FailRun, S!CreateImport, S!ImportRows,
           S!FinishImport, S!SaveView, S!schemaVars
<1>9. S!SchemaTypeOK'
  BY <1>1, <1>3, <1>4, <1>5, <1>6, <1>7, <1>8 DEF SchemaIInv, S!SchemaTypeOK
<1>10. DependenciesExist' /\ ImportColumnsExist'
  BY <1>1, <1>6 DEF SchemaIInv, DependenciesExist, ImportColumnsExist
<1>11. S!ReferencesActive'
  BY <1>1, <1>2, <1>5, <1>6, <1>7, <1>8 DEF SchemaIInv, S!ReferencesActive
<1>12. QED
  BY <1>5, <1>9, <1>10, <1>11 DEF SchemaIInv, S!SchemaParameters

\* Archivals, restorations, pages and imports leave nothing that is in use
\* with a column that is not.
THEOREM UseActiveColumns ==
  S!SchemaParameters /\ S!SchemaSpec => []S!ReferencesActive
<1>1. S!SchemaParameters /\ S!SchemaInit => SchemaIInv
  <2> SUFFICES ASSUME S!SchemaParameters, S!SchemaInit PROVE SchemaIInv
    OBVIOUS
  <2>1. PICK f \in Fields :
          column = [c \in S!Columns |-> IF c = <<f, "plain">> THEN "active" ELSE "none"]
    BY DEF S!SchemaInit
  <2>2. <<f, "plain">> \in S!Columns /\ <<f, "plain">> \in S!Active
    BY <2>1 DEF S!Columns, S!Inputs, S!Active
  <2>3. S!SchemaTypeOK
    BY <2>1 DEF S!SchemaInit, S!SchemaTypeOK, S!SchemaParameters, S!Lifecycle, S!Switch
  <2>4. S!Mapped = {}
    BY DEF S!SchemaInit, S!Mapped
  <2>5. DependenciesExist /\ SourceBegins /\ ImportColumnsExist
    BY <2>4 DEF S!SchemaInit, DependenciesExist, SourceBegins, ImportColumnsExist
  <2>6. S!ReferencesActive
    BY <2>2 DEF S!SchemaInit, S!ReferencesActive
  <2>7. QED
    BY <2>3, <2>5, <2>6 DEF SchemaIInv
<1>2. SchemaIInv /\ [S!SchemaNext]_(S!schemaVars) => SchemaIInv'
  BY ColumnSteps, PageSteps, UseSteps DEF S!SchemaNext
<1>3. SchemaIInv => S!ReferencesActive
  BY DEF SchemaIInv
<1>4. QED
  BY <1>1, <1>2, <1>3, PTL DEF S!SchemaSpec

-----------------------------------------------------------------------------
(* The grid editor.                                                        *)

\* What is seen of a cell.
Record == [id : Nat, version : Nat, value : Nat]

\* What was seen of a cell and what the cell is: a record of the cell, or one
\* that was; of the same record an earlier version, or the same.
Follows(seen, current, count) ==
  /\ seen \in Record
  /\ seen.id <= count
  /\ seen.id = 0 => seen = G!Absent
  /\ seen.id = current.id =>
       /\ seen.version <= current.version
       /\ seen.version = current.version => seen = current

\* Requests and answers have seen cells, and a save names the version that it
\* was typed over.
CallFits(call, cells, count) ==
  /\ call \in [kind : {"save", "reload", "row", "list", "more"},
               row : GridRows \union {0}, query : {call.query},
               number : {call.number},
               seen : Record, answered : BOOLEAN, ok : BOOLEAN,
               cells : [GridRows -> Record]]
  /\ \A r \in GridRows : Follows(call.cells[r], cells[r], count)
  /\ call.kind \in {"save", "reload"} => call.row \in GridRows
  /\ call.kind = "save" =>
       /\ Follows(call.seen, cells[call.row], count)
       /\ call.number = call.seen.version

\* What editors show and what was typed over has been seen, in one version.
EditorFits(shows, drafts, cells, count) ==
  \A r \in GridRows :
    /\ Follows(shows[r], cells[r], count)
    /\ drafts[r] # NoDraft =>
         /\ Follows(drafts[r], cells[r], count)
         /\ G!Key(drafts[r]) = G!Key(shows[r])

\* The grid's inductive invariant.
GridIInv ==
  /\ G!GridParameters
  /\ changes \in Nat
  /\ cell \in [GridRows -> Record]
  /\ display \in [GridRows -> Record]
  /\ draft \in [GridRows -> Record \union {NoDraft}]
  /\ \A r \in GridRows : Follows(cell[r], cell[r], changes)
  /\ EditorFits(display, draft, cell, changes)
  /\ \A call \in requests : CallFits(call, cell, changes)

\* A cell that is written, replaced or deleted follows what was seen of it.
LEMMA CellChanges ==
  ASSUME GridIInv, NEW r \in GridRows, NEW new, G!Change(r, new),
         new \in {G!Rewritten(cell[r]), G!Rewritten(G!Absent), G!Absent}
  PROVE  /\ changes' \in Nat /\ cell' \in [GridRows -> Record]
         /\ \A s \in GridRows : Follows(cell'[s], cell'[s], changes')
         /\ \A s \in GridRows, seen \in Record :
              Follows(seen, cell[s], changes) => Follows(seen, cell'[s], changes')
<1>1. /\ changes' = changes + 1 /\ cell' = [cell EXCEPT ![r] = new]
      /\ changes \in Nat /\ cell \in [GridRows -> Record]
      /\ Follows(cell[r], cell[r], changes)
      /\ G!Absent \in Record
  BY DEF GridIInv, G!Change, G!Absent, Record
<1>2. \/ new = [id |-> changes + 1, version |-> 1, value |-> changes + 1]
      \/ new = [cell[r] EXCEPT !.version = @ + 1, !.value = changes + 1]
           /\ cell[r] # G!Absent
      \/ new = G!Absent
  BY DEF G!Rewritten
<1>3. /\ new \in Record
      /\ \/ new.id = changes + 1
         \/ new.id = cell[r].id /\ new.id # 0 /\ new.id <= changes
              /\ new.version = cell[r].version + 1
         \/ new = G!Absent /\ new.id = 0
  <2>1. CASE new = [id |-> changes + 1, version |-> 1, value |-> changes + 1]
    BY <1>1, <2>1 DEF Record
  <2>2. CASE new = [cell[r] EXCEPT !.version = @ + 1, !.value = changes + 1]
               /\ cell[r] # G!Absent
    <3>1. cell[r].id \in Nat /\ cell[r].version \in Nat /\ cell[r] \in Record
      BY <1>1 DEF Record
    <3>2. cell[r].id # 0 /\ cell[r].id <= changes
      BY <1>1, <2>2 DEF Follows
    <3>3. /\ new \in Record /\ new.id = cell[r].id
          /\ new.version = cell[r].version + 1
      <4>1. PICK old \in Record : old = cell[r]
        BY <3>1
      <4>2. new = [old EXCEPT !.version = old.version + 1, !.value = changes + 1]
        BY <2>2, <4>1
      <4>3. new = [id |-> old.id, version |-> old.version + 1, value |-> changes + 1]
        BY <4>2 DEF Record
      <4>4. old.id \in Nat /\ old.version + 1 \in Nat /\ changes + 1 \in Nat
        BY <1>1, <3>1, <4>1
      <4>5. QED
        BY <4>1, <4>3, <4>4 DEF Record
    <3>4. QED
      BY <3>2, <3>3
  <2>3. CASE new = G!Absent
    BY <1>1, <2>3 DEF G!Absent
  <2>4. QED
    BY <1>2, <2>1, <2>2, <2>3
<1>4. /\ cell'[r] = new /\ cell' \in [GridRows -> Record]
      /\ \A s \in GridRows : s # r => cell'[s] = cell[s]
  BY <1>1, <1>3
<1>5. Follows(new, new, changes')
  BY <1>1, <1>3 DEF Follows, Record
<1>6. ASSUME NEW seen \in Record, NEW current \in Record, Follows(seen, current, changes)
      PROVE  Follows(seen, current, changes')
  BY <1>1, <1>6 DEF Follows, Record
<1>7. ASSUME NEW seen \in Record, Follows(seen, cell[r], changes)
      PROVE  Follows(seen, new, changes')
  BY <1>1, <1>3, <1>7 DEF Follows, Record
<1>8. \A s \in GridRows : cell[s] \in Record /\ Follows(cell[s], cell[s], changes)
  BY <1>1 DEF GridIInv
<1>9. ASSUME NEW s \in GridRows PROVE Follows(cell'[s], cell'[s], changes')
  BY <1>4, <1>5, <1>6, <1>8
<1>10. ASSUME NEW s \in GridRows, NEW seen \in Record, Follows(seen, cell[s], changes)
       PROVE  Follows(seen, cell'[s], changes')
  BY <1>4, <1>6, <1>7, <1>8, <1>10
<1>11. QED
  BY <1>1, <1>4, <1>9, <1>10

\* What fits a cell fits it after a change.
LEMMA FitsFollow ==
  ASSUME NEW cells, NEW count, NEW later, NEW total,
         \A s \in GridRows, seen \in Record :
           Follows(seen, cells[s], count) => Follows(seen, later[s], total)
  PROVE  /\ \A call : CallFits(call, cells, count) => CallFits(call, later, total)
         /\ \A shows, drafts : EditorFits(shows, drafts, cells, count) =>
              EditorFits(shows, drafts, later, total)
BY DEF CallFits, EditorFits, Follows

\* A request that is sent has seen nothing yet.
LEMMA RequestFresh ==
  ASSUME GridIInv, NEW kind0 \in {"reload", "row", "list", "more"},
         NEW row0 \in GridRows \union {0}, NEW query0, NEW number0,
         kind0 = "reload" => row0 \in GridRows
  PROVE  CallFits(G!Request(kind0, row0, query0, number0), cell, changes)
<1> DEFINE call == G!Request(kind0, row0, query0, number0)
<1>1. /\ call.kind = kind0 /\ call.row = row0 /\ call.query = query0 /\ call.number = number0
      /\ \A r \in GridRows : call.cells[r] = G!Absent
  BY DEF G!Request
<1>2. G!Absent \in Record /\ G!Absent.id = 0 /\ changes \in Nat
  BY DEF G!Absent, Record, GridIInv
<1>3. call \in [kind : {"save", "reload", "row", "list", "more"},
               row : GridRows \union {0}, query : {call.query}, number : {call.number},
               seen : Record, answered : BOOLEAN, ok : BOOLEAN,
               cells : [GridRows -> Record]]
  BY <1>2 DEF G!Request
<1>4. \A r \in GridRows : Follows(G!Absent, cell[r], changes)
  BY <1>2 DEF GridIInv, Follows, G!Absent, Record
<1> HIDE DEF call
<1>5. QED
  BY <1>1, <1>3, <1>4 DEF CallFits, call

\* The page shows other cells, which were seen.
LEMMA ShowSteps ==
  ASSUME GridIInv, NEW rows, NEW cells \in [GridRows -> Record],
         \A r \in GridRows : Follows(cells[r], cell[r], changes),
         G!Show(rows, cells)
  PROVE  /\ display' \in [GridRows -> Record]
         /\ draft' \in [GridRows -> Record \union {NoDraft}]
         /\ EditorFits(display', draft', cell, changes)
<1>1. /\ display' = cells
      /\ draft' = [r \in GridRows |->
           IF r \in rows /\ G!Key(cells[r]) = G!Key(display[r]) THEN draft[r]
           ELSE NoDraft]
  BY DEF G!Show
<1>2. draft' \in [GridRows -> Record \union {NoDraft}]
  BY <1>1 DEF GridIInv
<1>3. \A r \in GridRows : draft'[r] # NoDraft =>
        draft'[r] = draft[r] /\ G!Key(display'[r]) = G!Key(display[r])
  BY <1>1
<1>4. QED
  BY <1>1, <1>2, <1>3 DEF GridIInv, EditorFits

\* Requests go and come.
LEMMA CallSteps ==
  ASSUME GridIInv, UNCHANGED <<cell, changes>>,
         \A call \in requests' : call \in requests \/ CallFits(call, cell, changes),
         \/ UNCHANGED <<display, draft>>
         \/ /\ display' \in [GridRows -> Record]
            /\ draft' \in [GridRows -> Record \union {NoDraft}]
            /\ EditorFits(display', draft', cell, changes)
  PROVE  GridIInv'
BY DEF GridIInv, G!GridParameters

\* The cells change under the editor.
LEMMA WriteSteps ==
  ASSUME GridIInv, NEW r \in GridRows, NEW new, G!Change(r, new),
         new \in {G!Rewritten(cell[r]), G!Rewritten(G!Absent), G!Absent},
         UNCHANGED <<display, draft>>,
         \A call \in requests' : call \in requests \/ CallFits(call, cell, changes)
  PROVE  GridIInv'
<1>1. /\ changes' \in Nat /\ cell' \in [GridRows -> Record]
      /\ \A s \in GridRows : Follows(cell'[s], cell'[s], changes')
      /\ \A s \in GridRows, seen \in Record :
           Follows(seen, cell[s], changes) => Follows(seen, cell'[s], changes')
  BY CellChanges
<1>2. /\ \A call : CallFits(call, cell, changes) => CallFits(call, cell', changes')
      /\ \A shows, drafts : EditorFits(shows, drafts, cell, changes) =>
           EditorFits(shows, drafts, cell', changes')
  BY <1>1, FitsFollow
<1>3. QED
  BY <1>1, <1>2 DEF GridIInv, G!GridParameters

\* A request that is answered, with nothing or with the cells as they are.
LEMMA AnswerFits ==
  ASSUME GridIInv, NEW call \in requests, NEW accepted0 \in BOOLEAN
  PROVE  /\ CallFits([call EXCEPT !.answered = TRUE, !.ok = accepted0], cell, changes)
         /\ call.kind # "save" =>
              CallFits([call EXCEPT !.answered = TRUE, !.cells = cell], cell, changes)
<1>1. CallFits(call, cell, changes)
  BY DEF GridIInv
<1>2. CallFits([call EXCEPT !.answered = TRUE, !.ok = accepted0], cell, changes)
  BY <1>1 DEF CallFits
<1>3. ASSUME call.kind # "save"
      PROVE  CallFits([call EXCEPT !.answered = TRUE, !.cells = cell], cell, changes)
  BY <1>1, <1>3 DEF CallFits, GridIInv
<1>4. QED
  BY <1>2, <1>3

\* Every step of the grid editor keeps the invariant.
LEMMA GridIInvKept ==
  ASSUME GridIInv, G!GridNext
  PROVE  GridIInv'
<1>1. ASSUME NEW r \in GridRows, G!Type(r) PROVE GridIInv'
  <2>1. /\ draft' = [draft EXCEPT ![r] = display[r]]
        /\ UNCHANGED <<cell, changes, display, requests>>
        /\ display \in [GridRows -> Record]
        /\ draft \in [GridRows -> Record \union {NoDraft}]
    BY <1>1 DEF G!Type, GridIInv
  <2>2. draft' \in [GridRows -> Record \union {NoDraft}]
    BY <2>1
  <2>3. \A s \in GridRows : draft'[s] = IF s = r THEN display[s] ELSE draft[s]
    BY <2>1
  <2>4. EditorFits(display, draft', cell, changes)
    BY <2>3 DEF GridIInv, EditorFits
  <2>5. QED
    BY <2>1, <2>2, <2>4, CallSteps
<1>2. ASSUME NEW r \in GridRows, G!Save(r) PROVE GridIInv'
  <2> DEFINE call == [G!Request("save", r, listing.query, display[r].version)
                        EXCEPT !.seen = draft[r]]
  <2>1. /\ draft[r] # NoDraft /\ requests' = requests \union {call}
        /\ UNCHANGED <<cell, changes, display, draft>>
    BY <1>2 DEF G!Save, G!Send
  <2>2. /\ draft[r] \in Record /\ Follows(draft[r], cell[r], changes)
        /\ display[r].version = draft[r].version
    <3>1. draft[r] \in Record
      BY <2>1 DEF GridIInv
    <3>2. Follows(draft[r], cell[r], changes) /\ G!Key(draft[r]) = G!Key(display[r])
      BY <2>1 DEF GridIInv, EditorFits
    <3>3. QED
      BY <3>1, <3>2 DEF G!Key
  <2>3. /\ G!Absent \in Record /\ changes \in Nat /\ draft[r].version \in Nat
        /\ G!Absent.id = 0
    BY <2>2 DEF G!Absent, Record, GridIInv
  <2>4. /\ call.kind = "save" /\ call.row = r /\ call.number = draft[r].version
        /\ call.seen = draft[r]
        /\ \A s \in GridRows : call.cells[s] = G!Absent
        /\ call \in [kind : {"save", "reload", "row", "list", "more"},
                    row : GridRows \union {0}, query : {call.query},
                    number : {call.number}, seen : Record, answered : BOOLEAN,
                    ok : BOOLEAN, cells : [GridRows -> Record]]
    <3>1. PICK req : req = G!Request("save", r, listing.query, display[r].version)
      OBVIOUS
    <3>2. /\ req.kind = "save" /\ req.row = r /\ req.number = draft[r].version
          /\ \A s \in GridRows : req.cells[s] = G!Absent
          /\ req \in [kind : {"save", "reload", "row", "list", "more"},
                     row : GridRows \union {0}, query : {req.query},
                     number : {req.number}, seen : Record, answered : BOOLEAN,
                     ok : BOOLEAN, cells : [GridRows -> Record]]
      BY <2>2, <2>3, <3>1 DEF G!Request
    <3>3. call = [req EXCEPT !.seen = draft[r]]
      BY <3>1
    <3> HIDE DEF call
    <3>4. QED
      BY <2>2, <3>2, <3>3
  <2>5. \A s \in GridRows : Follows(G!Absent, cell[s], changes)
    BY <2>3 DEF GridIInv, Follows, G!Absent, Record
  <2> HIDE DEF call
  <2>6. CallFits(call, cell, changes)
    BY <2>2, <2>4, <2>5 DEF CallFits
  <2>7. QED
    BY <2>1, <2>6, CallSteps
<1>3. ASSUME NEW r \in GridRows, G!PollRow(r) PROVE GridIInv'
  BY <1>3, CallSteps, RequestFresh DEF G!PollRow, G!Send
<1>4. ASSUME NEW query, G!LoadList(query) PROVE GridIInv'
  BY <1>4, CallSteps, RequestFresh DEF G!LoadList, G!Send
<1>5. ASSUME G!LoadMore PROVE GridIInv'
  BY <1>5, CallSteps, RequestFresh DEF G!LoadMore, G!Send
<1>6. ASSUME NEW r \in GridRows, G!OtherWrite(r) \/ G!ReplaceCell(r) PROVE GridIInv'
  <2>1. PICK new \in {G!Rewritten(cell[r]), G!Rewritten(G!Absent), G!Absent} :
          G!Change(r, new) /\ UNCHANGED <<display, draft, requests>>
    BY <1>6 DEF G!OtherWrite, G!ReplaceCell
  <2>2. QED
    BY <2>1, WriteSteps
<1>7. ASSUME NEW call \in requests, G!HandleSave(call) PROVE GridIInv'
  <2> DEFINE answer == [call EXCEPT !.answered = TRUE, !.ok = G!Accepts(call)]
  <2>1. /\ requests' = (requests \ {call}) \union {answer}
        /\ UNCHANGED <<display, draft>>
        /\ \/ G!Change(call.row, G!Rewritten(cell[call.row]))
           \/ UNCHANGED <<cell, changes>>
        /\ call.row \in GridRows
    BY <1>7 DEF G!HandleSave, G!Answer, GridIInv, CallFits
  <2>2. CallFits(answer, cell, changes)
    BY AnswerFits DEF G!Accepts
  <2> HIDE DEF answer
  <2>3. QED
    BY <2>1, <2>2, CallSteps, WriteSteps
<1>8. ASSUME NEW call \in requests, G!HandleRead(call) PROVE GridIInv'
  <2> DEFINE answer == [call EXCEPT !.answered = TRUE, !.cells = cell]
  <2>1. /\ requests' = (requests \ {call}) \union {answer}
        /\ UNCHANGED <<display, draft, cell, changes>>
    BY <1>8 DEF G!HandleRead, G!Answer
  <2>2. CallFits(answer, cell, changes)
    BY <1>8, AnswerFits DEF G!HandleRead
  <2> HIDE DEF answer
  <2>3. QED
    BY <2>1, <2>2, CallSteps
<1>9. ASSUME NEW call \in requests, G!SaveAnswered(call) PROVE GridIInv'
  <2>1. call.row \in GridRows
    BY <1>9 DEF G!SaveAnswered, GridIInv, CallFits
  <2>2. PICK answer :
          /\ answer \in {G!Request("list", 0, "search", 0),
                         G!Request("reload", call.row, call.query, 0)}
          /\ requests' = (requests \ {call}) \union {answer}
          /\ UNCHANGED <<display, draft, cell, changes>>
    BY <1>9 DEF G!SaveAnswered, G!Answer
  <2>3. CallFits(answer, cell, changes)
    BY <2>1, <2>2, RequestFresh
  <2>4. QED
    BY <2>2, <2>3, CallSteps
<1>10. ASSUME NEW call \in requests, NEW rows, NEW cells \in [GridRows -> Record],
              requests' = requests \ {call}, UNCHANGED <<cell, changes>>,
              \A r \in GridRows : cells[r] \in {call.cells[r], display[r], G!Absent},
              G!Show(rows, cells)
       PROVE  GridIInv'
  <2>1. \A r \in GridRows : Follows(cells[r], cell[r], changes)
    <3>1. \A r \in GridRows : Follows(G!Absent, cell[r], changes)
      BY DEF GridIInv, Follows, G!Absent, Record
    <3>2. \A r \in GridRows : /\ Follows(call.cells[r], cell[r], changes)
                              /\ Follows(display[r], cell[r], changes)
      BY DEF GridIInv, CallFits, EditorFits
    <3>3. QED
      BY <1>10, <3>1, <3>2
  <2>2. /\ display' \in [GridRows -> Record]
        /\ draft' \in [GridRows -> Record \union {NoDraft}]
        /\ EditorFits(display', draft', cell, changes)
    BY <1>10, <2>1, ShowSteps
  <2>3. QED
    BY <1>10, <2>2, CallSteps
<1>11. /\ display \in [GridRows -> Record] /\ G!Absent \in Record
       /\ \A call \in requests : call.cells \in [GridRows -> Record]
  BY DEF GridIInv, CallFits, G!Absent, Record
<1>12. ASSUME NEW call \in requests, G!RowAnswered(call) PROVE GridIInv'
  <2>1. CASE call.row \in listing.rows
    <3> DEFINE cells == [display EXCEPT ![call.row] = call.cells[call.row]]
    <3>1. /\ cells \in [GridRows -> Record]
          /\ \A r \in GridRows : cells[r] \in {call.cells[r], display[r], G!Absent}
      BY <1>11
    <3>2. /\ G!Show(listing.rows, cells) /\ requests' = requests \ {call}
          /\ UNCHANGED <<cell, changes>>
      BY <1>12, <2>1 DEF G!RowAnswered
    <3> HIDE DEF cells
    <3>3. QED
      BY <1>10, <3>1, <3>2
  <2>2. CASE call.row \notin listing.rows
    BY <1>12, <2>2, CallSteps DEF G!RowAnswered
  <2>3. QED
    BY <2>1, <2>2
<1>13. ASSUME NEW call \in requests, G!ListAnswered(call) PROVE GridIInv'
  <2>1. PICK rows : rows = listing'.rows
    OBVIOUS
  <2> DEFINE cells == [r \in GridRows |-> IF r \in rows THEN call.cells[r] ELSE G!Absent]
  <2>2. /\ cells \in [GridRows -> Record]
        /\ \A r \in GridRows : cells[r] \in {call.cells[r], display[r], G!Absent}
    BY <1>11
  <2>3. /\ G!Show(rows, cells) /\ requests' = requests \ {call}
        /\ UNCHANGED <<cell, changes>>
    BY <1>13, <2>1 DEF G!ListAnswered
  <2> HIDE DEF cells
  <2>4. QED
    BY <1>10, <2>2, <2>3
<1>14. ASSUME NEW call \in requests, G!MoreAnswered(call) PROVE GridIInv'
  <2>1. PICK rows, new : /\ G!Show(rows, [r \in GridRows |->
                              IF r \in new THEN call.cells[r] ELSE display[r]])
                         /\ requests' = requests \ {call}
                         /\ UNCHANGED <<cell, changes>>
    BY <1>14 DEF G!MoreAnswered
  <2> DEFINE cells == [r \in GridRows |-> IF r \in new THEN call.cells[r] ELSE display[r]]
  <2>2. /\ cells \in [GridRows -> Record]
        /\ \A r \in GridRows : cells[r] \in {call.cells[r], display[r], G!Absent}
    BY <1>11
  <2> HIDE DEF cells
  <2>3. QED
    BY <1>10, <2>1, <2>2 DEF cells
<1>15. ASSUME NEW call \in requests, G!LoseCall(call) PROVE GridIInv'
  BY <1>15, CallSteps DEF G!LoseCall
<1>16. QED
  BY <1>1, <1>2, <1>3, <1>4, <1>5, <1>6, <1>7, <1>8, <1>9, <1>12, <1>13, <1>14, <1>15
     DEF G!GridNext

\* The invariant of the grid editor holds.
LEMMA GridIInvHolds ==
  G!GridParameters /\ G!GridSpec => []GridIInv
<1>1. G!GridParameters /\ G!GridInit => GridIInv
  <2> SUFFICES ASSUME G!GridParameters, G!GridInit PROVE GridIInv
    OBVIOUS
  <2>1. /\ changes = 0 /\ requests = {}
        /\ cell = [r \in GridRows |-> G!Absent]
        /\ display = [r \in GridRows |-> G!Absent]
        /\ draft = [r \in GridRows |-> NoDraft]
        /\ G!Absent \in Record /\ Follows(G!Absent, G!Absent, 0)
    BY DEF G!GridInit, G!Absent, Record, Follows
  <2>2. EditorFits(display, draft, cell, changes)
    BY <2>1 DEF EditorFits
  <2>3. QED
    BY <2>1, <2>2 DEF GridIInv
<1>2. GridIInv /\ [G!GridNext]_(G!gridVars) => GridIInv'
  <2>1. ASSUME GridIInv, UNCHANGED G!gridVars PROVE GridIInv'
    BY <2>1, CallSteps DEF G!gridVars
  <2>2. QED
    BY <2>1, GridIInvKept
<1>3. QED
  BY <1>1, <1>2, PTL DEF G!GridSpec

\* A save that is carried out replaces what was typed over, or another record.
THEOREM SavesReplaceWhatWasSeenHolds ==
  G!GridParameters /\ G!GridSpec => G!SavesReplaceWhatWasSeen
<1>1. ASSUME GridIInv, G!GridNext, NEW call \in requests, G!CarriedOut(call)
      PROVE  \/ cell[call.row] = call.seen
             \/ cell[call.row].id # call.seen.id
  <2>1. /\ call.kind = "save" /\ call \notin requests' /\ changes' # changes
    BY <1>1 DEF G!CarriedOut
  <2>2. G!HandleSave(call) /\ G!Accepts(call)
    <3>1. \A r \in GridRows : ~G!Type(r) /\ ~G!Save(r) /\ ~G!PollRow(r)
      BY <2>1 DEF G!Type, G!Save, G!PollRow
    <3>2. \A r \in GridRows : ~G!OtherWrite(r) /\ ~G!ReplaceCell(r)
      BY <2>1 DEF G!OtherWrite, G!ReplaceCell
    <3>3. (\A query : ~G!LoadList(query)) /\ ~G!LoadMore
      BY <2>1 DEF G!LoadList, G!LoadMore
    <3>4. \A other \in requests :
            /\ ~G!HandleRead(other) /\ ~G!SaveAnswered(other) /\ ~G!RowAnswered(other)
            /\ ~G!ListAnswered(other) /\ ~G!MoreAnswered(other) /\ ~G!LoseCall(other)
      BY <2>1 DEF G!HandleRead, G!SaveAnswered, G!RowAnswered, G!ListAnswered,
                  G!MoreAnswered, G!LoseCall
    <3>5. PICK other \in requests : G!HandleSave(other)
      BY <1>1, <3>1, <3>2, <3>3, <3>4 DEF G!GridNext
    <3>6. other = call
      BY <2>1, <3>5 DEF G!HandleSave, G!Answer
    <3>7. QED
      BY <2>1, <3>5, <3>6 DEF G!HandleSave
  <2>3. /\ Follows(call.seen, cell[call.row], changes)
        /\ call.number = call.seen.version
    BY <1>1, <2>1 DEF GridIInv, CallFits
  <2>4. cell[call.row].version = call.seen.version
    BY <2>2, <2>3 DEF G!Accepts
  <2>5. QED
    BY <2>3, <2>4 DEF Follows
<1>2. GridIInv /\ [G!GridNext]_(G!gridVars) =>
        [\A call \in requests : G!CarriedOut(call) =>
           \/ cell[call.row] = call.seen
           \/ cell[call.row].id # call.seen.id]_(G!gridVars)
  BY <1>1
<1>3. QED
  BY <1>2, GridIInvHolds, PTL DEF G!GridSpec, G!SavesReplaceWhatWasSeen

-----------------------------------------------------------------------------
(* Waterfalls.                                                             *)

\* The call that was made last.
LastCall == calls[Len(calls)]

\* The provider of that number may be called next.
MayCall(index) ==
  \/ Len(calls) = 0 /\ index = 1
  \/ /\ Len(calls) > 0
     /\ index = LastCall.provider + 1
     /\ LastCall.outcome = "no_match"
  \/ /\ Len(calls) > 0
     /\ index = LastCall.provider
     /\ LastCall.outcome = "rate_limited" \/ runFaults > 0

\* While no statement fails, no answer is forgotten.
Unforgotten(attempts) == runFaults = 0 => attempts = calls

\* Where a run is that nobody executes, and where an attempt is.
RunWaits ==
  run.status = "queued" =>
    /\ exec.stage = "none"
    /\ MayCall(saved.next) /\ Unforgotten(saved.attempts)
    /\ run.attempt < MaxRunAttempts

\* What each stage of an attempt knows of the calls.
AttemptIsAt ==
  /\ exec.stage = "none" => exec = W!NoExec
  /\ exec.stage # "none" =>
       /\ run.status \in {"running", "cancelled"}
       /\ exec.index = saved.next
       /\ Unforgotten(exec.attempts)
  /\ exec.stage = "loop" => MayCall(exec.index)
  /\ exec.stage = "answered" =>
       /\ Len(calls) > 0 /\ Len(exec.attempts) > 0
       /\ exec.attempts[Len(exec.attempts)] = LastCall
       /\ LastCall.provider = exec.index /\ exec.index <= Providers
  /\ exec.stage = "finished" =>
       /\ Len(calls) > 0
       /\ \/ LastCall.outcome = "match" /\ LastCall.provider = exec.index
          \/ /\ LastCall.provider = Providers /\ LastCall.outcome = "no_match"
             /\ exec.index > Providers
  /\ exec.stage = "finished" /\ exec.index > Providers => MayCall(exec.index)
  /\ exec.stage = "failed" /\ exec.retryable /\ run.status = "running" =>
       MayCall(saved.next) /\ Unforgotten(saved.attempts)

\* The waterfall's inductive invariant.
WaterfallIInv ==
  /\ W!WaterfallParameters /\ W!WaterfallTypeOK
  /\ RunWaits /\ AttemptIsAt
  /\ W!ChainIsFollowed

\* A call is recorded after the calls before it.
LEMMA Appended ==
  ASSUME NEW T, NEW s \in Seq(T), NEW e \in T
  PROVE  /\ Append(s, e) \in Seq(T)
         /\ Len(Append(s, e)) = Len(s) + 1
         /\ Append(s, e)[Len(s) + 1] = e
         /\ \A i \in 1 .. Len(s) : Append(s, e)[i] = s[i]
OBVIOUS

\* What is in a sequence.
LEMMA InSequence ==
  ASSUME NEW T, NEW s \in Seq(T)
  PROVE  \A i \in 1 .. Len(s) : s[i] \in T
OBVIOUS

\* What is known of the last call, from the type.
LEMMA LastCallType ==
  ASSUME calls \in W!Attempts, Len(calls) > 0
  PROVE  LastCall \in [provider : 1 .. Providers, outcome : W!Outcome]
<1>1. Len(calls) \in 1 .. Len(calls) /\ 1 .. Len(calls) = DOMAIN calls
  BY DEF W!Attempts
<1>2. \A i \in 1 .. Len(calls) :
        calls[i] \in [provider : 1 .. Providers, outcome : W!Outcome]
  BY InSequence DEF W!Attempts
<1>3. QED
  BY <1>1, <1>2 DEF LastCall

\* A call of a provider that may be called follows the chain.
LEMMA CallStep ==
  ASSUME WaterfallIInv, NEW outcome \in W!Outcome, W!CallProvider(outcome)
  PROVE  WaterfallIInv'
<1> DEFINE attempt == [provider |-> exec.index, outcome |-> outcome]
<1>1. /\ Providers \in Nat \ {0} /\ exec.index \in 1 .. Providers
      /\ attempt \in [provider : 1 .. Providers, outcome : W!Outcome]
      /\ attempt.provider = exec.index /\ attempt.outcome = outcome
  BY DEF WaterfallIInv, W!WaterfallParameters, W!WaterfallTypeOK, W!CallProvider
<1> HIDE DEF attempt
<1>2. /\ calls' = Append(calls, attempt)
      /\ exec' = [exec EXCEPT
           !.stage = IF W!Decision(outcome) = "stop_success" THEN "finished"
                     ELSE "answered",
           !.attempts = Append(@, attempt)]
      /\ UNCHANGED <<run, saved, runFaults>>
      /\ exec.stage = "loop"
  BY DEF W!CallProvider, attempt
<1>3. /\ calls' \in W!Attempts
      /\ Len(calls') = Len(calls) + 1 /\ calls'[Len(calls) + 1] = attempt
      /\ Len(calls) \in Nat /\ calls \in W!Attempts
      /\ \A i \in 1 .. Len(calls) : calls'[i] = calls[i]
  BY <1>1, <1>2, Appended DEF WaterfallIInv, W!WaterfallTypeOK, W!Attempts
<1>4. LastCall' = attempt /\ Len(calls') > 0 /\ Len(calls') = Len(calls) + 1
  BY <1>3 DEF LastCall
<1>5. /\ exec.attempts \in W!Attempts
      /\ Append(exec.attempts, attempt) \in W!Attempts
      /\ Len(Append(exec.attempts, attempt)) > 0
      /\ Append(exec.attempts, attempt)[Len(Append(exec.attempts, attempt))] = attempt
  <2>1. exec.attempts \in W!Attempts
    BY DEF WaterfallIInv, W!WaterfallTypeOK
  <2>2. Len(exec.attempts) \in Nat
    BY <2>1 DEF W!Attempts
  <2>3. QED
    BY <1>1, <2>1, <2>2, Appended DEF W!Attempts
<1>6. /\ exec' \in [stage : {"answered", "finished"}, index : 1 .. Providers + 1,
                    attempts : W!Attempts, retryable : BOOLEAN]
      /\ exec'.index = exec.index
      /\ exec'.attempts = Append(exec.attempts, attempt)
      /\ exec'.stage = "finished" => outcome = "match"
  <2>1. W!Decision(outcome) = "stop_success" => outcome = "match"
    BY DEF W!Decision, W!Outcome
  <2>2. QED
    BY <1>2, <1>5, <2>1 DEF WaterfallIInv, W!WaterfallTypeOK
<1>7. W!WaterfallParameters' /\ W!WaterfallTypeOK'
  BY <1>2, <1>3, <1>6 DEF WaterfallIInv, W!WaterfallParameters, W!WaterfallTypeOK
<1>8. RunWaits'
  BY <1>2 DEF WaterfallIInv, RunWaits, AttemptIsAt
<1>9. AttemptIsAt'
  <2>1. Unforgotten(exec.attempts) => Unforgotten(exec.attempts)'
    BY <1>2, <1>6 DEF Unforgotten
  <2>2. exec.attempts = calls => exec'.attempts = calls'
    BY <1>2, <1>6
  <2>3. run.status \in {"running", "cancelled"} /\ exec.index = saved.next
    BY <1>2 DEF WaterfallIInv, AttemptIsAt
  <2>4. Unforgotten(exec.attempts)'
    BY <1>2, <2>2 DEF Unforgotten, WaterfallIInv, AttemptIsAt
  <2>5. exec'.index <= Providers /\ ~(exec'.index > Providers)
    BY <1>1, <1>6
  <2>6. QED
    BY <1>1, <1>2, <1>4, <1>5, <1>6, <2>3, <2>4, <2>5 DEF AttemptIsAt
<1>10. W!ChainIsFollowed'
  <2>1. run'.status # "succeeded"
    BY <1>2 DEF WaterfallIInv, AttemptIsAt
  <2>2. MayCall(exec.index)
    BY <1>2 DEF WaterfallIInv, AttemptIsAt
  <2> SUFFICES ASSUME NEW i \in 1 .. Len(calls')
               PROVE  LET earlier == IF i = 1 THEN 0 ELSE calls'[i - 1].provider
                      IN \/ /\ calls'[i].provider = earlier + 1
                            /\ i > 1 => calls'[i - 1].outcome = "no_match"
                         \/ /\ i > 1
                            /\ calls'[i].provider = earlier
                            /\ calls'[i - 1].outcome = "rate_limited" \/ runFaults' > 0
    BY <2>1 DEF W!ChainIsFollowed
  <2>3. CASE i \in 1 .. Len(calls)
    <3>1. calls'[i] = calls[i] /\ (i # 1 => calls'[i - 1] = calls[i - 1])
      BY <1>3, <2>3
    <3>2. QED
      BY <1>2, <2>3, <3>1 DEF WaterfallIInv, W!ChainIsFollowed
  <2>4. CASE i = Len(calls) + 1
    <3>1. calls'[i] = attempt /\ (i # 1 => calls'[i - 1] = LastCall)
      BY <1>3, <2>4 DEF LastCall
    <3>2. QED
      BY <1>1, <1>2, <1>3, <2>2, <2>4, <3>1 DEF MayCall
  <2>5. QED
    BY <1>3, <2>3, <2>4
<1>11. QED
  BY <1>7, <1>8, <1>9, <1>10 DEF WaterfallIInv

\* A step that calls nobody keeps the chain, and what may be called.
LEMMA SilentStep ==
  ASSUME WaterfallIInv, calls' = calls, runFaults' \in {runFaults, runFaults + 1}
  PROVE  /\ LastCall' = LastCall /\ runFaults \in Nat
         /\ \A index \in 1 .. Providers + 1 : MayCall(index) => MayCall(index)'
         /\ \A i \in 1 .. Len(calls') :
              LET earlier == IF i = 1 THEN 0 ELSE calls'[i - 1].provider
              IN \/ /\ calls'[i].provider = earlier + 1
                    /\ i > 1 => calls'[i - 1].outcome = "no_match"
                 \/ /\ i > 1
                    /\ calls'[i].provider = earlier
                    /\ calls'[i - 1].outcome = "rate_limited" \/ runFaults' > 0
<1>1. runFaults \in Nat /\ (runFaults > 0 => runFaults' > 0)
  BY DEF WaterfallIInv, W!WaterfallParameters, W!WaterfallTypeOK
<1>2. LastCall' = LastCall
  BY DEF LastCall
<1>3. \A index \in 1 .. Providers + 1 : MayCall(index) => MayCall(index)'
  BY <1>1, <1>2 DEF MayCall
<1>4. QED
  BY <1>1, <1>2, <1>3 DEF WaterfallIInv, W!ChainIsFollowed

\* The steps that call nobody.
LEMMA OtherWaterfallSteps ==
  ASSUME WaterfallIInv,
         \/ W!StartRun \/ W!ExhaustPlan \/ W!SaveProgress \/ W!Succeed
         \/ W!FailOrRetry \/ W!StatementFails \/ W!LoseRun \/ W!CancelRun
         \/ UNCHANGED W!waterfallVars
  PROVE  WaterfallIInv'
<1>1. /\ W!WaterfallParameters /\ W!WaterfallTypeOK
      /\ Providers \in Nat \ {0} /\ MaxRunAttempts \in Nat \ {0}
      /\ MaxRunFaults \in Nat
      /\ run.status \in {"queued", "running", "succeeded", "failed", "cancelled"}
      /\ run.attempt \in 0 .. MaxRunAttempts /\ saved.next \in 1 .. Providers + 1
      /\ exec.index \in 1 .. Providers + 1
      /\ saved.attempts \in W!Attempts /\ exec.attempts \in W!Attempts
      /\ exec.stage \in {"none", "loop", "answered", "finished", "failed"}
  BY DEF WaterfallIInv, W!WaterfallParameters, W!WaterfallTypeOK
<1>2. /\ calls' = calls /\ runFaults' \in {runFaults, runFaults + 1}
      /\ runFaults' = runFaults
           \/ (runFaults' = runFaults + 1 /\ runFaults < MaxRunFaults)
  BY DEF W!StartRun, W!ExhaustPlan, W!SaveProgress, W!Succeed, W!FailOrRetry,
         W!StatementFails, W!LoseRun, W!CancelRun, W!RunFault, W!waterfallVars
<1>3. /\ LastCall' = LastCall /\ runFaults \in Nat
      /\ \A index \in 1 .. Providers + 1 : MayCall(index) => MayCall(index)'
  BY <1>2, SilentStep
<1>4. \A attempts : Unforgotten(attempts) => Unforgotten(attempts)'
  BY <1>2, <1>3 DEF Unforgotten
<1>5. calls' \in W!Attempts /\ runFaults' \in 0 .. MaxRunFaults
  BY <1>1, <1>2 DEF W!WaterfallTypeOK
<1> DEFINE Rest == /\ W!WaterfallTypeOK' /\ RunWaits' /\ AttemptIsAt'
                   /\ run'.status = "succeeded" =>
                        /\ run.status = "succeeded" \/ (W!Succeed /\ run.status = "running")
<1>6. ASSUME W!StartRun PROVE Rest
  <2>1. /\ run.status = "queued" /\ exec.stage = "none"
        /\ MayCall(saved.next) /\ Unforgotten(saved.attempts)
        /\ run.attempt < MaxRunAttempts
    BY <1>6 DEF WaterfallIInv, RunWaits, W!StartRun
  <2>2. /\ run' = [status |-> "running", attempt |-> run.attempt + 1]
        /\ exec' = [stage |-> "loop", index |-> saved.next,
                    attempts |-> saved.attempts, retryable |-> FALSE]
        /\ saved' = saved
    BY <1>6 DEF W!StartRun, W!NoExec
  <2>3. W!WaterfallTypeOK'
    BY <1>1, <1>5, <2>1, <2>2 DEF W!WaterfallTypeOK
  <2>4. MayCall(saved.next)' /\ Unforgotten(saved.attempts)'
    BY <1>1, <1>3, <1>4, <2>1, <2>2 DEF MayCall, Unforgotten
  <2>5. RunWaits' /\ AttemptIsAt'
    BY <2>2, <2>4 DEF RunWaits, AttemptIsAt, MayCall, Unforgotten
  <2>6. QED
    BY <2>2, <2>3, <2>5
<1>7. ASSUME W!ExhaustPlan PROVE Rest
  <2>1. /\ exec.stage = "loop" /\ exec.index > Providers /\ MayCall(exec.index)
        /\ exec' = [exec EXCEPT !.stage = "finished"]
        /\ UNCHANGED <<run, saved, calls, runFaults>>
    BY <1>7 DEF WaterfallIInv, AttemptIsAt, W!ExhaustPlan
  <2>2. /\ exec' \in [stage : {"finished"}, index : 1 .. Providers + 1,
                      attempts : W!Attempts, retryable : BOOLEAN]
        /\ exec'.index = exec.index /\ exec'.attempts = exec.attempts
    BY <1>1, <2>1 DEF W!WaterfallTypeOK
  <2>3. Len(calls) > 0 /\ LastCall.provider = Providers /\ LastCall.outcome = "no_match"
    <3>1. Len(calls) > 0
      BY <1>1, <2>1 DEF MayCall
    <3>2. LastCall.provider \in 1 .. Providers
      BY <1>1, <3>1, LastCallType DEF W!WaterfallTypeOK
    <3>3. QED
      BY <1>1, <2>1, <3>1, <3>2 DEF MayCall
  <2>4. RunWaits' /\ AttemptIsAt'
    BY <2>1, <2>2, <2>3 DEF WaterfallIInv, RunWaits, AttemptIsAt, LastCall, MayCall, Unforgotten
  <2>5. QED
    BY <1>5, <2>1, <2>2, <2>4, <1>1 DEF W!WaterfallTypeOK
<1>8. ASSUME W!SaveProgress PROVE Rest
  <2> DEFINE decision == W!Decision(LastCall.outcome)
  <2> DEFINE next == IF decision = "retry_current" THEN exec.index ELSE exec.index + 1
  <2>1. /\ exec.stage = "answered" /\ Len(calls) > 0 /\ Len(exec.attempts) > 0
        /\ exec.attempts[Len(exec.attempts)] = LastCall
        /\ LastCall.provider = exec.index /\ exec.index <= Providers
        /\ Unforgotten(exec.attempts) /\ run.status \in {"running", "cancelled"}
    BY <1>8 DEF WaterfallIInv, AttemptIsAt, W!SaveProgress
  <2>2. /\ saved' = [next |-> next, attempts |-> exec.attempts]
        /\ exec' = [exec EXCEPT
             !.index = next,
             !.stage = IF decision = "continue" THEN "loop" ELSE "failed",
             !.retryable = decision = "retry_current"]
        /\ UNCHANGED <<run, calls, runFaults>>
    BY <1>8, <2>1 DEF W!SaveProgress
  <2>3. /\ decision = "continue" => LastCall.outcome = "no_match"
        /\ decision = "retry_current" => LastCall.outcome = "rate_limited"
    BY DEF W!Decision
  <2>4. next \in 1 .. Providers + 1
    BY <1>1, <2>1
  <2>5. /\ decision = "continue" => MayCall(next)
        /\ decision = "retry_current" => MayCall(next)
    BY <1>1, <2>1, <2>3 DEF MayCall
  <2> HIDE DEF next
  <2>6. (decision = "retry_current") \in BOOLEAN
    OBVIOUS
  <2>7. /\ exec' \in [stage : {"loop", "failed"}, index : 1 .. Providers + 1,
                      attempts : W!Attempts, retryable : BOOLEAN]
        /\ exec'.index = next /\ exec'.attempts = exec.attempts
        /\ exec'.stage = "loop" => decision = "continue"
        /\ exec'.retryable => decision = "retry_current"
    BY <1>1, <2>2, <2>4, <2>6 DEF W!WaterfallTypeOK
  <2> HIDE DEF decision
  <2>8. W!WaterfallTypeOK'
    BY <1>1, <1>5, <2>2, <2>4, <2>7 DEF W!WaterfallTypeOK
  <2>9. RunWaits' /\ AttemptIsAt'
    <3>1. /\ saved'.next = next /\ saved'.attempts = exec.attempts
          /\ run' = run /\ calls' = calls /\ runFaults' = runFaults
      BY <2>2
    <3>2. Unforgotten(saved.attempts)' /\ Unforgotten(exec.attempts)'
      BY <2>1, <2>7, <3>1 DEF Unforgotten
    <3>3. exec'.stage = "loop" => MayCall(exec.index)'
      BY <2>5, <2>7, <3>1 DEF MayCall, LastCall
    <3>4. exec'.retryable => MayCall(saved.next)'
      BY <2>5, <2>7, <3>1 DEF MayCall, LastCall
    <3>5. QED
      BY <2>1, <2>7, <3>1, <3>2, <3>3, <3>4 DEF RunWaits, AttemptIsAt
  <2>10. QED
    BY <2>1, <2>2, <2>8, <2>9
<1>9. ASSUME W!Succeed PROVE Rest
  <2>1. exec.stage = "finished" /\ UNCHANGED <<calls, runFaults>>
    BY <1>9 DEF W!Succeed
  <2>2. CASE run.status = "running"
    <3>1. /\ run' = [run EXCEPT !.status = "succeeded"]
          /\ saved' = [saved EXCEPT !.attempts = exec.attempts]
          /\ exec' = W!NoExec
      BY <1>9, <2>2 DEF W!Succeed
    <3>2. W!NoExec \in [stage : {"none"}, index : 1 .. Providers + 1,
                        attempts : W!Attempts, retryable : BOOLEAN]
      BY <1>1 DEF W!NoExec, W!Attempts
    <3>3. W!WaterfallTypeOK'
      BY <1>1, <1>5, <3>1, <3>2 DEF W!WaterfallTypeOK
    <3>4. RunWaits' /\ AttemptIsAt'
      BY <1>1, <3>1, <3>2 DEF RunWaits, AttemptIsAt, W!WaterfallTypeOK, W!NoExec
    <3>5. QED
      BY <1>9, <2>2, <3>3, <3>4
  <2>3. CASE run.status # "running"
    <3>1. /\ exec' = [exec EXCEPT !.stage = "failed", !.retryable = TRUE]
          /\ UNCHANGED <<run, saved>>
      BY <1>9, <2>3 DEF W!Succeed
    <3>2. /\ exec' \in [stage : {"failed"}, index : 1 .. Providers + 1,
                        attempts : W!Attempts, retryable : BOOLEAN]
          /\ exec'.index = exec.index /\ exec'.attempts = exec.attempts
      BY <1>1, <3>1 DEF W!WaterfallTypeOK
    <3>3. W!WaterfallTypeOK'
      BY <1>1, <1>5, <3>1, <3>2 DEF W!WaterfallTypeOK
    <3>4. RunWaits' /\ AttemptIsAt'
      BY <2>1, <2>3, <3>1, <3>2 DEF WaterfallIInv, RunWaits, AttemptIsAt, Unforgotten
    <3>5. QED
      BY <3>1, <3>3, <3>4
  <2>4. QED
    BY <2>2, <2>3
<1>10. ASSUME W!FailOrRetry PROVE Rest
  <2>1. /\ exec.stage = "failed" /\ exec' = W!NoExec
        /\ UNCHANGED <<saved, calls, runFaults>>
        /\ run.status \in {"running", "cancelled"}
        /\ exec.retryable /\ run.status = "running" =>
             MayCall(saved.next) /\ Unforgotten(saved.attempts)
    BY <1>10 DEF W!FailOrRetry, WaterfallIInv, AttemptIsAt
  <2>2. \/ run' = run /\ run.status = "cancelled"
        \/ /\ run' = [run EXCEPT !.status = "queued"] /\ run.status = "running"
           /\ exec.retryable /\ run.attempt < MaxRunAttempts
        \/ run' = [run EXCEPT !.status = "failed"]
    BY <1>10, <2>1 DEF W!FailOrRetry
  <2>3. W!NoExec \in [stage : {"none"}, index : 1 .. Providers + 1,
                      attempts : W!Attempts, retryable : BOOLEAN]
    BY <1>1 DEF W!NoExec, W!Attempts
  <2>4. W!WaterfallTypeOK'
    BY <1>1, <1>5, <2>1, <2>2, <2>3 DEF W!WaterfallTypeOK
  <2>5. RunWaits' /\ AttemptIsAt'
    BY <1>1, <2>1, <2>2, <2>3
       DEF RunWaits, AttemptIsAt, W!WaterfallTypeOK, MayCall, LastCall, Unforgotten
  <2>6. QED
    BY <1>1, <2>2, <2>4, <2>5 DEF W!WaterfallTypeOK
<1>11. ASSUME W!StatementFails PROVE Rest
  <2>1. /\ exec.stage \in {"answered", "finished"} /\ runFaults' = runFaults + 1
        /\ exec' = [exec EXCEPT !.stage = "failed", !.retryable = TRUE]
        /\ UNCHANGED <<run, saved, calls>>
    BY <1>11 DEF W!StatementFails, W!RunFault
  <2>2. /\ exec' \in [stage : {"failed"}, index : 1 .. Providers + 1,
                      attempts : W!Attempts, retryable : BOOLEAN]
        /\ exec'.index = exec.index /\ exec'.attempts = exec.attempts
    BY <1>1, <2>1 DEF W!WaterfallTypeOK
  <2>3. runFaults' > 0 /\ runFaults' # 0
    BY <1>3, <2>1
  <2>4. run.status \in {"running", "cancelled"} /\ exec.index = saved.next
    BY <2>1 DEF WaterfallIInv, AttemptIsAt
  <2>5. MayCall(saved.next)'
    <3>1. CASE exec.stage = "finished" /\ exec.index > Providers
      BY <1>1, <1>3, <2>1, <2>4, <3>1 DEF WaterfallIInv, AttemptIsAt, MayCall
    <3>2. CASE ~(exec.stage = "finished" /\ exec.index > Providers)
      <4>1. Len(calls) > 0 /\ LastCall.provider = exec.index
        BY <1>1, <2>1, <3>2 DEF WaterfallIInv, AttemptIsAt
      <4>2. QED
        BY <1>3, <2>1, <2>3, <2>4, <4>1 DEF MayCall
    <3>3. QED
      BY <3>1, <3>2
  <2>6. W!WaterfallTypeOK'
    BY <1>1, <1>5, <2>1, <2>2 DEF W!WaterfallTypeOK
  <2>7. RunWaits' /\ AttemptIsAt'
    BY <2>1, <2>2, <2>3, <2>4, <2>5 DEF RunWaits, AttemptIsAt, Unforgotten
  <2>8. QED
    BY <2>1, <2>6, <2>7
<1>12. ASSUME W!LoseRun PROVE Rest
  <2>1. /\ exec # W!NoExec /\ exec' = W!NoExec /\ UNCHANGED <<run, saved, calls>>
    BY <1>12 DEF W!LoseRun
  <2>2. run.status \in {"running", "cancelled"}
    BY <2>1 DEF WaterfallIInv, AttemptIsAt
  <2>3. W!NoExec \in [stage : {"none"}, index : 1 .. Providers + 1,
                      attempts : W!Attempts, retryable : BOOLEAN]
    BY <1>1 DEF W!NoExec, W!Attempts
  <2>4. W!WaterfallTypeOK'
    BY <1>1, <1>5, <2>1, <2>3 DEF W!WaterfallTypeOK
  <2>5. RunWaits' /\ AttemptIsAt'
    BY <2>1, <2>2, <2>3 DEF RunWaits, AttemptIsAt, W!NoExec
  <2>6. QED
    BY <2>1, <2>4, <2>5
<1>13. ASSUME W!CancelRun PROVE Rest
  <2>1. /\ run' = [run EXCEPT !.status = "cancelled"]
        /\ run.status \in {"queued", "running"}
        /\ UNCHANGED <<saved, exec, calls, runFaults>>
    BY <1>13 DEF W!CancelRun
  <2>2. run' \in [status : {"cancelled"}, attempt : 0 .. MaxRunAttempts]
    BY <1>1, <2>1 DEF W!WaterfallTypeOK
  <2>3. W!WaterfallTypeOK'
    BY <1>1, <1>5, <2>1, <2>2 DEF W!WaterfallTypeOK
  <2>4. RunWaits' /\ AttemptIsAt'
    BY <2>1, <2>2
       DEF WaterfallIInv, RunWaits, AttemptIsAt, MayCall, LastCall, Unforgotten
  <2>5. QED
    BY <2>2, <2>3, <2>4
<1>14. ASSUME UNCHANGED W!waterfallVars PROVE Rest
  BY <1>14 DEF W!waterfallVars, WaterfallIInv, W!WaterfallTypeOK, RunWaits,
               AttemptIsAt, MayCall, LastCall, Unforgotten
<1>15. Rest
  BY <1>6, <1>7, <1>8, <1>9, <1>10, <1>11, <1>12, <1>13, <1>14
<1> HIDE DEF Rest
<1>16. W!ChainIsFollowed'
  <2>1. run'.status = "succeeded" =>
          /\ \/ calls'[Len(calls')].outcome = "match"
             \/ W!Asked(Len(calls), Providers, "no_match")'
          /\ runFaults' = 0 => saved'.attempts = calls'
    <3> SUFFICES ASSUME run'.status = "succeeded"
                 PROVE  /\ \/ LastCall.outcome = "match"
                           \/ LastCall.provider = Providers /\ LastCall.outcome = "no_match"
                        /\ runFaults' = 0 => saved'.attempts = calls
      BY <1>2 DEF W!Asked, LastCall
    <3>1. CASE W!Succeed /\ run.status = "running"
      <4>1. /\ exec.stage = "finished" /\ runFaults' = runFaults
            /\ saved' = [saved EXCEPT !.attempts = exec.attempts]
        BY <3>1 DEF W!Succeed
      <4>2. saved'.attempts = exec.attempts
        BY <1>1, <4>1 DEF W!WaterfallTypeOK
      <4>3. QED
        BY <4>1, <4>2 DEF WaterfallIInv, AttemptIsAt, Unforgotten
    <3>2. CASE run.status = "succeeded"
      <4>1. exec.stage = "none" /\ exec = W!NoExec
        BY <3>2 DEF WaterfallIInv, AttemptIsAt
      <4>2. saved' = saved /\ runFaults' = runFaults
        BY <3>2, <4>1
           DEF W!StartRun, W!ExhaustPlan, W!SaveProgress, W!Succeed, W!FailOrRetry,
               W!StatementFails, W!LoseRun, W!CancelRun, W!waterfallVars, W!NoExec
      <4>3. QED
        BY <3>2, <4>2 DEF WaterfallIInv, W!ChainIsFollowed, W!Asked, LastCall
    <3>3. QED
      BY <1>15, <3>1, <3>2 DEF Rest
  <2>2. QED
    BY <1>2, <2>1, SilentStep DEF W!ChainIsFollowed
<1>17. QED
  BY <1>1, <1>15, <1>16 DEF Rest, WaterfallIInv, W!WaterfallParameters

\* A provider is called only where the answers before it lead, in the first
\* attempt of a run as in any other.
THEOREM ProvidersInTurn ==
  W!WaterfallParameters /\ W!WaterfallSpec => []W!ChainIsFollowed
<1>1. W!WaterfallParameters /\ W!WaterfallInit => WaterfallIInv
  <2> SUFFICES ASSUME W!WaterfallParameters, W!WaterfallInit PROVE WaterfallIInv
    OBVIOUS
  <2>1. /\ Providers \in Nat \ {0} /\ MaxRunAttempts \in Nat \ {0}
        /\ MaxRunFaults \in Nat
    BY DEF W!WaterfallParameters
  <2>2. <<>> \in W!Attempts /\ Len(calls) = 0 /\ calls = <<>>
    BY DEF W!Attempts, W!WaterfallInit
  <2>3. W!WaterfallTypeOK
    BY <2>1, <2>2 DEF W!WaterfallInit, W!WaterfallTypeOK, W!NoExec
  <2>4. RunWaits /\ AttemptIsAt
    BY <2>1, <2>2
       DEF W!WaterfallInit, W!NoExec, RunWaits, AttemptIsAt, MayCall, Unforgotten
  <2>5. W!ChainIsFollowed
    BY <2>2 DEF W!WaterfallInit, W!ChainIsFollowed
  <2>6. QED
    BY <2>3, <2>4, <2>5 DEF WaterfallIInv
<1>2. WaterfallIInv /\ [W!WaterfallNext]_(W!waterfallVars) => WaterfallIInv'
  BY CallStep, OtherWaterfallSteps DEF W!WaterfallNext
<1>3. WaterfallIInv => W!ChainIsFollowed
  BY DEF WaterfallIInv
<1>4. QED
  BY <1>1, <1>2, <1>3, PTL DEF W!WaterfallSpec

-----------------------------------------------------------------------------
(* The Airbyte destination.                                                *)

\* The records of a route that were pushed and are applied.
Sent(r) ==
  {m \in 1 .. position :
     /\ Messages[m] # Checkpoint
     /\ Messages[m][1] = r
     /\ m \notin buffer[r]}

\* What is buffered is newer than what is acknowledged or sent.
BufferIsNewest ==
  /\ acked <= position
  /\ \A r \in B!Routes : \A m \in buffer[r] :
       /\ acked < m /\ m <= position
       /\ Messages[m] # Checkpoint /\ Messages[m][1] = r
       /\ \A n \in Sent(r) : n < m

\* The batches of an endpoint are applied in order, the last of them may be
\* under way.
BatchesInOrder ==
  \A i \in DOMAIN accepted :
    /\ \A m \in accepted[i].records :
         Messages[m] # Checkpoint /\ Messages[m][1] = accepted[i].route
    /\ accepted[i].key[1] <= sync.number
    /\ accepted[i].key[1] = sync.number => accepted[i].key[2] <= sequence
    /\ accepted[i].key = B!Identity => i = Len(accepted)
    /\ \A j \in 1 .. i - 1 :
         accepted[j].route = accepted[i].route /\ accepted[i].status # "queued" =>
           accepted[j].status # "queued"

\* The batch under way has what is buffered, and is in the tables if applied.
RequestFits ==
  request.stage # "none" =>
    /\ request.route \in B!Routes
    /\ \A i \in B!AcceptedAs :
         /\ accepted[i].route = request.route
         /\ accepted[i].records = buffer[request.route]
         /\ accepted[i].status = "succeeded" =>
              \A m \in accepted[i].records : written[Messages[m]] >= m

\* What was sent is in the tables, in this version or a later one.
SentIsWritten ==
  \A r \in B!Routes : \A m \in Sent(r) : written[Messages[m]] >= m

\* What is still queued was sent later.
QueuedIsLater ==
  \A i \in DOMAIN accepted : accepted[i].status = "queued" =>
    \A m \in Sent(accepted[i].route), n \in accepted[i].records : m < n

\* The destination's inductive invariant.
AirbyteIInv ==
  /\ B!AirbyteParameters /\ B!AirbyteTypeOK
  /\ BufferIsNewest /\ BatchesInOrder /\ RequestFits
  /\ SentIsWritten /\ QueuedIsLater

\* A batch as the endpoint keeps it.
AcceptedBatch ==
  [key : Nat \X Nat, route : B!Routes, records : B!Records,
   status : {"queued", "succeeded", "failed"}]

\* What the parameters say of the messages.
LEMMA MessagesAre ==
  ASSUME B!AirbyteParameters
  PROVE  /\ Len(Messages) \in Nat /\ DOMAIN Messages = 1 .. Len(Messages)
         /\ \A m \in 1 .. Len(Messages) : Messages[m] # Checkpoint =>
              /\ Messages[m][1] \in B!Routes
              /\ Messages[m] \in B!RecordKeys
BY DEF B!AirbyteParameters, B!Routes, B!RecordKeys

\* What the type invariant says of the batches.
LEMMA BatchTypes ==
  ASSUME AirbyteIInv
  PROVE  /\ Len(accepted) \in Nat /\ DOMAIN accepted = 1 .. Len(accepted)
         /\ \A i \in DOMAIN accepted : accepted[i] \in AcceptedBatch
         /\ accepted \in Seq(AcceptedBatch)
         /\ position \in 0 .. Len(Messages) /\ acked \in 0 .. Len(Messages)
         /\ buffer \in [B!Routes -> B!Records]
         /\ written \in [B!RecordKeys -> 0 .. Len(Messages)]
         /\ sync \in [number : 1 .. MaxSyncs, over : BOOLEAN]
         /\ sequence \in Nat /\ MaxSyncs \in Nat
         /\ B!Records = SUBSET (1 .. Len(Messages))
<1>1. accepted \in Seq(AcceptedBatch)
  BY DEF AirbyteIInv, B!AirbyteTypeOK, AcceptedBatch
<1>2. \A T, s : s \in Seq(T) =>
        Len(s) \in Nat /\ DOMAIN s = 1 .. Len(s) /\ \A i \in DOMAIN s : s[i] \in T
  OBVIOUS
<1>3. B!Records = SUBSET (1 .. Len(Messages))
  BY MessagesAre DEF AirbyteIInv, B!Records
<1>4. QED
  BY <1>1, <1>2, <1>3 DEF AirbyteIInv, B!AirbyteTypeOK, B!AirbyteParameters

\* A request that comes to nothing, or to a new one, while no batch is
\* accepted or applied.
LEMMA RequestSteps ==
  ASSUME AirbyteIInv,
         UNCHANGED <<position, buffer, acked, accepted, written, sequence>>,
         sync' \in [number : {sync.number}, over : BOOLEAN],
         request' \in [stage : {"none", "submit", "wait"},
                       route : B!Routes \union {0}, tries : 0 .. RequestTries],
         \/ request'.stage = "none"
         \/ request.stage # "none" /\ request'.route = request.route
  PROVE  AirbyteIInv'
<1>1. sync'.number = sync.number
  OBVIOUS
<1>2. B!AirbyteTypeOK'
  <2>1. sync' \in [number : 1 .. MaxSyncs, over : BOOLEAN]
    BY BatchTypes
  <2>2. QED
    BY <2>1 DEF AirbyteIInv, B!AirbyteTypeOK
<1>3. B!Identity' = B!Identity /\ B!AcceptedAs' = B!AcceptedAs
  BY <1>1 DEF B!Identity, B!AcceptedAs
<1>4. BufferIsNewest' /\ SentIsWritten' /\ QueuedIsLater'
  BY DEF AirbyteIInv, BufferIsNewest, SentIsWritten, QueuedIsLater, Sent
<1>5. BatchesInOrder'
  BY <1>1, <1>3 DEF AirbyteIInv, BatchesInOrder
<1>6. RequestFits'
  BY <1>3 DEF AirbyteIInv, RequestFits
<1>7. QED
  BY <1>2, <1>4, <1>5, <1>6 DEF AirbyteIInv, B!AirbyteParameters

\* A batch gets a number of its own.
LEMMA StartFlushStep ==
  ASSUME AirbyteIInv, NEW r \in B!Routes, B!StartFlush(r)
  PROVE  AirbyteIInv'
<1>1. /\ sequence' = sequence + 1 /\ sequence \in Nat
      /\ request' = [stage |-> "submit", route |-> r, tries |-> 0]
      /\ UNCHANGED <<sync, position, buffer, acked, accepted, written>>
      /\ RequestTries \in Nat
  BY BatchTypes DEF B!StartFlush, AirbyteIInv, B!AirbyteParameters
<1>2. B!AirbyteTypeOK'
  BY <1>1 DEF AirbyteIInv, B!AirbyteTypeOK
<1>3. \A i \in DOMAIN accepted : accepted[i].key # B!Identity'
  <2> SUFFICES ASSUME NEW i \in DOMAIN accepted, accepted[i].key = <<sync.number, sequence + 1>>
               PROVE  FALSE
    BY <1>1 DEF B!Identity
  <2>1. accepted[i].key[1] = sync.number /\ accepted[i].key[2] = sequence + 1
    OBVIOUS
  <2>2. accepted[i].key[2] <= sequence
    BY <2>1 DEF AirbyteIInv, BatchesInOrder
  <2>3. QED
    BY <1>1, <2>1, <2>2
<1>4. BufferIsNewest' /\ SentIsWritten' /\ QueuedIsLater'
  BY <1>1 DEF AirbyteIInv, BufferIsNewest, SentIsWritten, QueuedIsLater, Sent
<1>5. BatchesInOrder'
  <2>1. \A i \in DOMAIN accepted : accepted[i].key[2] \in Nat
    BY BatchTypes DEF AcceptedBatch
  <2>2. \A i \in DOMAIN accepted :
          accepted[i].key[2] <= sequence => accepted[i].key[2] <= sequence'
    BY <1>1, <2>1
  <2>3. QED
    BY <1>1, <1>3, <2>2 DEF AirbyteIInv, BatchesInOrder
<1>6. RequestFits'
  BY <1>1, <1>3 DEF RequestFits, B!AcceptedAs
<1>7. QED
  BY <1>2, <1>4, <1>5, <1>6 DEF AirbyteIInv, B!AirbyteParameters

\* The endpoint accepts the batch under way.
LEMMA AcceptStep ==
  ASSUME AirbyteIInv, request.stage # "none", B!AcceptBatch,
         UNCHANGED <<position, buffer, acked, written, sequence>>,
         sync' \in [number : {sync.number}, over : BOOLEAN],
         request' \in [stage : {"none", "submit", "wait"},
                       route : B!Routes \union {0}, tries : 0 .. RequestTries],
         request'.stage = "none" \/ request'.route = request.route
  PROVE  AirbyteIInv'
<1>1. CASE B!AcceptedAs # {}
  <2>1. UNCHANGED accepted
    BY <1>1 DEF B!AcceptBatch
  <2>2. QED
    BY <2>1, RequestSteps
<1>2. CASE B!AcceptedAs = {}
  <2> DEFINE batch == [key |-> B!Identity, route |-> request.route,
                       records |-> buffer[request.route], status |-> "queued"]
  <2>1. accepted' = Append(accepted, batch) /\ request.route \in B!Routes
    BY <1>2 DEF B!AcceptBatch, AirbyteIInv, RequestFits
  <2>2. batch \in AcceptedBatch
    BY <2>1, BatchTypes DEF AcceptedBatch, B!Identity
  <2>3. /\ batch.key = B!Identity /\ batch.route = request.route
        /\ batch.records = buffer[request.route] /\ batch.status = "queued"
    OBVIOUS
  <2> HIDE DEF batch
  <2>4. /\ accepted' \in Seq(AcceptedBatch)
        /\ Len(accepted') = Len(accepted) + 1
        /\ DOMAIN accepted' = 1 .. Len(accepted) + 1
        /\ accepted'[Len(accepted) + 1] = batch
        /\ \A i \in DOMAIN accepted : i \in DOMAIN accepted' /\ accepted'[i] = accepted[i]
        /\ \A i \in DOMAIN accepted' : i \in DOMAIN accepted \/ i = Len(accepted) + 1
    BY <2>1, <2>2, BatchTypes
  <2>0. sync'.number = sync.number /\ sync' \in [number : 1 .. MaxSyncs, over : BOOLEAN]
        /\ B!Identity' = B!Identity
    BY BatchTypes DEF B!Identity
  <2>5. B!AirbyteTypeOK'
    BY <2>0, <2>4 DEF AirbyteIInv, B!AirbyteTypeOK, AcceptedBatch
  <2>6. BufferIsNewest' /\ SentIsWritten'
    BY DEF AirbyteIInv, BufferIsNewest, SentIsWritten, Sent
  <2>7. BatchesInOrder'
    <3> SUFFICES ASSUME NEW i \in DOMAIN accepted'
        PROVE
          /\ \A m \in accepted'[i].records :
               Messages[m] # Checkpoint /\ Messages[m][1] = accepted'[i].route
          /\ accepted'[i].key[1] <= sync.number
          /\ accepted'[i].key[1] = sync.number => accepted'[i].key[2] <= sequence
          /\ accepted'[i].key = B!Identity => i = Len(accepted')
          /\ \A j \in 1 .. i - 1 :
               accepted'[j].route = accepted'[i].route /\ accepted'[i].status # "queued"
                 => accepted'[j].status # "queued"
      BY <2>0 DEF BatchesInOrder
    <3>1. CASE i \in DOMAIN accepted
      <4>1. accepted[i].key # B!Identity
        BY <1>2, <3>1 DEF B!AcceptedAs
      <4>2. \A j \in 1 .. i - 1 : j \in DOMAIN accepted
        BY <3>1, BatchTypes
      <4>3. QED
        BY <2>4, <3>1, <4>1, <4>2 DEF AirbyteIInv, BatchesInOrder
    <3>2. CASE i = Len(accepted) + 1
      <4>1. accepted'[i] = batch /\ i = Len(accepted')
        BY <2>4, <3>2
      <4>2. batch.key[1] = sync.number /\ batch.key[2] = sequence
        BY <2>3 DEF B!Identity
      <4>3. sync.number <= sync.number /\ sequence <= sequence
        BY BatchTypes
      <4>4. \A m \in batch.records :
              Messages[m] # Checkpoint /\ Messages[m][1] = batch.route
        BY <2>1, <2>3 DEF AirbyteIInv, BufferIsNewest
      <4>5. QED
        BY <2>3, <4>1, <4>2, <4>3, <4>4
    <3>3. QED
      BY <2>4, <3>1, <3>2
  <2>8. RequestFits'
    <3>1. ASSUME NEW i \in B!AcceptedAs' PROVE accepted'[i] = batch
      BY <1>2, <2>0, <2>4, <3>1 DEF B!AcceptedAs
    <3>2. QED
      BY <2>1, <2>3, <3>1 DEF RequestFits
  <2>9. QueuedIsLater'
    <3> SUFFICES ASSUME NEW i \in DOMAIN accepted', accepted'[i].status = "queued",
                        NEW m \in Sent(accepted'[i].route),
                        NEW n \in accepted'[i].records
                 PROVE  m < n
      BY DEF QueuedIsLater, Sent
    <3>1. CASE i \in DOMAIN accepted
      BY <2>4, <3>1 DEF AirbyteIInv, QueuedIsLater
    <3>2. CASE i = Len(accepted) + 1
      BY <2>1, <2>3, <2>4, <3>2 DEF AirbyteIInv, BufferIsNewest
    <3>3. QED
      BY <2>4, <3>1, <3>2
  <2>10. QED
    BY <2>5, <2>6, <2>7, <2>8, <2>9 DEF AirbyteIInv, B!AirbyteParameters
<1>3. QED
  BY <1>1, <1>2

\* A record is buffered.
LEMMA BufferRecordStep ==
  ASSUME AirbyteIInv, B!BufferRecord
  PROVE  AirbyteIInv'
<1> DEFINE r == B!Message[1]
<1>1. /\ request.stage = "none" /\ position' = position + 1
      /\ position + 1 \in 1 .. Len(Messages)
      /\ Messages[position + 1] # Checkpoint /\ Messages[position + 1][1] = r
      /\ r \in B!Routes /\ Messages[position + 1] \in B!RecordKeys
      /\ buffer' = [buffer EXCEPT ![r] = @ \union {position + 1}]
      /\ UNCHANGED <<sync, sequence, request, acked, accepted, written>>
  <2>1. position + 1 \in 1 .. Len(Messages)
    BY BatchTypes, MessagesAre DEF AirbyteIInv, B!BufferRecord, B!AtEnd
  <2>2. QED
    BY <2>1, MessagesAre
       DEF AirbyteIInv, B!BufferRecord, B!Message, B!Working, B!NoRequest
<1> HIDE DEF r
<1>2. /\ buffer \in [B!Routes -> B!Records] /\ position \in Nat /\ acked \in Nat
      /\ B!Records = SUBSET (1 .. Len(Messages)) /\ Len(Messages) \in Nat
  BY BatchTypes, MessagesAre DEF AirbyteIInv
<1>3. /\ buffer'[r] = buffer[r] \union {position + 1}
      /\ \A q \in B!Routes : q # r => buffer'[q] = buffer[q]
      /\ buffer' \in [B!Routes -> B!Records]
  BY <1>1, <1>2
<1>4. \A q \in B!Routes : Sent(q)' = Sent(q)
  <2> SUFFICES ASSUME NEW q \in B!Routes, NEW m
               PROVE  m \in Sent(q)' <=> m \in Sent(q)
    OBVIOUS
  <2>1. CASE m \in 1 .. position
    <3>1. m \in 1 .. position' /\ m # position + 1
      BY <1>1, <1>2, <2>1
    <3>2. QED
      BY <1>3, <2>1, <3>1 DEF Sent
  <2>2. CASE m \notin 1 .. position
    <3>1. m \in 1 .. position' => m = position + 1
      BY <1>1, <1>2, <2>2
    <3>2. QED
      BY <1>1, <1>3, <2>2, <3>1 DEF Sent
  <2>3. QED
    BY <2>1, <2>2
<1>5. B!AirbyteTypeOK'
  <2>1. position' \in 0 .. Len(Messages)
    BY <1>1
  <2>2. QED
    BY <1>1, <1>3, <2>1 DEF AirbyteIInv, B!AirbyteTypeOK
<1>6. BufferIsNewest'
  <2>1. acked <= position'
    BY <1>1, <1>2 DEF AirbyteIInv, BufferIsNewest
  <2>2. ASSUME NEW q \in B!Routes, NEW m \in buffer'[q]
        PROVE  /\ acked < m /\ m <= position'
               /\ Messages[m] # Checkpoint /\ Messages[m][1] = q
               /\ \A n \in Sent(q) : n < m
    <3>1. CASE m \in buffer[q]
      <4>1. /\ acked < m /\ m <= position
            /\ Messages[m] # Checkpoint /\ Messages[m][1] = q
            /\ \A n \in Sent(q) : n < m
        BY <3>1 DEF AirbyteIInv, BufferIsNewest
      <4>2. m \in Nat
        BY <1>2, <3>1
      <4>3. QED
        BY <1>1, <1>2, <4>1, <4>2
    <3>2. CASE m \notin buffer[q]
      <4>1. m = position + 1 /\ q = r
        BY <1>3, <2>2, <3>2
      <4>2. acked < m /\ m <= position'
        BY <1>1, <1>2, <4>1 DEF AirbyteIInv, BufferIsNewest
      <4>3. \A n \in 1 .. position : n < position + 1
        BY <1>2
      <4>4. \A n \in Sent(q) : n < m
        BY <4>1, <4>3 DEF Sent
      <4>5. QED
        BY <1>1, <4>1, <4>2, <4>4
    <3>3. QED
      BY <3>1, <3>2
  <2>3. QED
    BY <1>1, <1>4, <2>1, <2>2 DEF BufferIsNewest
<1>7. BatchesInOrder'
  BY <1>1 DEF AirbyteIInv, BatchesInOrder, B!Identity
<1>8. RequestFits'
  BY <1>1 DEF RequestFits
<1>9. SentIsWritten' /\ QueuedIsLater'
  <2>1. \A i \in DOMAIN accepted : accepted[i].route \in B!Routes
    BY BatchTypes DEF AcceptedBatch
  <2>2. QED
    BY <1>1, <1>4, <2>1 DEF AirbyteIInv, SentIsWritten, QueuedIsLater
<1>10. QED
  BY <1>5, <1>6, <1>7, <1>8, <1>9 DEF AirbyteIInv, B!AirbyteParameters

\* A batch is seen to be applied.
LEMMA ConfirmStep ==
  ASSUME AirbyteIInv, B!Confirm
  PROVE  AirbyteIInv'
<1>0. PICK r : r = request.route
  OBVIOUS
<1>1. PICK i \in B!AcceptedAs : accepted[i].status = "succeeded"
  BY DEF B!Confirm, B!Applied
<1>2. /\ r \in B!Routes /\ i \in DOMAIN accepted /\ accepted[i].key = B!Identity
      /\ accepted[i].route = r /\ accepted[i].records = buffer[r]
      /\ \A m \in buffer[r] : written[Messages[m]] >= m
      /\ buffer' = [buffer EXCEPT ![r] = {}]
      /\ request' = [stage |-> "none", route |-> 0, tries |-> 0]
      /\ UNCHANGED <<sync, position, sequence, acked, accepted, written>>
  BY <1>0, <1>1 DEF B!Confirm, B!AcceptedAs, B!NoRequest, AirbyteIInv, RequestFits
<1>3. /\ buffer \in [B!Routes -> B!Records] /\ position \in Nat /\ RequestTries \in Nat
      /\ buffer'[r] = {}
      /\ \A q \in B!Routes : q # r => buffer'[q] = buffer[q]
      /\ buffer' \in [B!Routes -> B!Records]
  BY <1>2, BatchTypes DEF AirbyteIInv, B!AirbyteParameters
<1>4. /\ \A q \in B!Routes : q # r => Sent(q)' = Sent(q)
      /\ \A m \in Sent(r)' : m \in Sent(r) \/ m \in buffer[r]
  BY <1>2, <1>3 DEF Sent
<1>5. B!AirbyteTypeOK'
  BY <1>2, <1>3 DEF AirbyteIInv, B!AirbyteTypeOK
<1>6. BufferIsNewest'
  BY <1>2, <1>3, <1>4 DEF AirbyteIInv, BufferIsNewest
<1>7. BatchesInOrder'
  BY <1>2 DEF AirbyteIInv, BatchesInOrder, B!Identity
<1>8. RequestFits'
  BY <1>2 DEF RequestFits
<1>9. SentIsWritten'
  <2> SUFFICES ASSUME NEW q \in B!Routes, NEW m \in Sent(q)'
               PROVE  written[Messages[m]] >= m
    BY <1>2 DEF SentIsWritten
  <2>1. CASE m \in Sent(q)
    BY <2>1 DEF AirbyteIInv, SentIsWritten
  <2>2. CASE m \notin Sent(q)
    BY <1>2, <1>4, <2>2
  <2>3. QED
    BY <2>1, <2>2
<1>10. QueuedIsLater'
  <2> SUFFICES ASSUME NEW j \in DOMAIN accepted, accepted[j].status = "queued",
                      NEW m \in Sent(accepted[j].route)',
                      NEW n \in accepted[j].records
               PROVE  m < n
    BY <1>2 DEF QueuedIsLater, Sent
  <2>1. accepted[j].route # r
    <3> SUFFICES ASSUME accepted[j].route = r PROVE FALSE
      OBVIOUS
    <3>1. i = Len(accepted)
      BY <1>2 DEF AirbyteIInv, BatchesInOrder
    <3>2. j # i
      BY <1>1
    <3>3. j \in 1 .. i - 1
      BY <3>1, <3>2, BatchTypes
    <3>4. accepted[j].status # "queued"
      BY <1>1, <1>2, <3>3 DEF AirbyteIInv, BatchesInOrder
    <3>5. QED
      BY <3>4
  <2>2. m \in Sent(accepted[j].route)
    <3>1. PICK q \in B!Routes : q = accepted[j].route
      BY BatchTypes DEF AcceptedBatch
    <3>2. m \in Sent(q)' /\ q # r
      BY <1>2, <2>1, <3>1 DEF Sent
    <3>3. QED
      BY <1>4, <3>1, <3>2
  <2>3. QED
    BY <2>2 DEF AirbyteIInv, QueuedIsLater
<1>11. QED
  BY <1>5, <1>6, <1>7, <1>8, <1>9, <1>10 DEF AirbyteIInv, B!AirbyteParameters

\* A STATE message is acknowledged.
LEMMA EmitStateStep ==
  ASSUME AirbyteIInv, B!EmitState
  PROVE  AirbyteIInv'
<1>1. /\ position + 1 \in 1 .. Len(Messages) /\ Messages[position + 1] = Checkpoint
      /\ \A r \in B!Routes : buffer[r] = {}
      /\ position' = position + 1 /\ acked' = position + 1
      /\ UNCHANGED <<sync, buffer, sequence, request, accepted, written>>
      /\ request.stage = "none"
      /\ position \in Nat
  BY BatchTypes, MessagesAre
     DEF AirbyteIInv, B!EmitState, B!AtEnd, B!Message, B!FlushedAll, B!Pending,
         B!Working, B!NoRequest
<1>2. \A r \in B!Routes : Sent(r)' = Sent(r)
  <2> SUFFICES ASSUME NEW r \in B!Routes, NEW m
               PROVE  m \in Sent(r)' <=> m \in Sent(r)
    OBVIOUS
  <2>1. m \in 1 .. position + 1 <=> m \in 1 .. position \/ m = position + 1
    BY <1>1
  <2>2. QED
    BY <1>1, <2>1 DEF Sent
<1>3. B!AirbyteTypeOK'
  <2>1. position + 1 \in 0 .. Len(Messages)
    BY <1>1
  <2>2. QED
    BY <1>1, <2>1 DEF AirbyteIInv, B!AirbyteTypeOK
<1>4. BufferIsNewest'
  BY <1>1 DEF BufferIsNewest
<1>5. BatchesInOrder' /\ RequestFits'
  BY <1>1 DEF AirbyteIInv, BatchesInOrder, RequestFits, B!Identity
<1>6. SentIsWritten' /\ QueuedIsLater'
  <2>1. \A i \in DOMAIN accepted : accepted[i].route \in B!Routes
    BY BatchTypes DEF AcceptedBatch
  <2>2. QED
    BY <1>1, <1>2, <2>1 DEF AirbyteIInv, SentIsWritten, QueuedIsLater
<1>7. QED
  BY <1>3, <1>4, <1>5, <1>6 DEF AirbyteIInv, B!AirbyteParameters

\* Another sync begins after the last STATE.
LEMMA ResyncStep ==
  ASSUME AirbyteIInv, B!Resync
  PROVE  AirbyteIInv'
<1>1. /\ sync' = [number |-> sync.number + 1, over |-> FALSE]
      /\ sync.number \in 1 .. MaxSyncs /\ sync.number < MaxSyncs /\ MaxSyncs \in Nat
      /\ position' = acked /\ acked' = acked
      /\ buffer' = [r \in B!Routes |-> {}] /\ sequence' = 0
      /\ UNCHANGED <<request, accepted, written>>
      /\ acked \in 0 .. Len(Messages) /\ position \in 0 .. Len(Messages)
      /\ acked <= position
  BY BatchTypes DEF AirbyteIInv, BufferIsNewest, B!Resync
<1>2. /\ \A r \in B!Routes : \A m \in Sent(r)' : m \in Sent(r)
      /\ sync'.number = sync.number + 1 /\ sync.number + 1 \in 1 .. MaxSyncs
  <2>1. ASSUME NEW r \in B!Routes, NEW m \in Sent(r)' PROVE m \in Sent(r)
    <3>1. /\ m \in 1 .. acked /\ Messages[m] # Checkpoint /\ Messages[m][1] = r
      BY <1>1, <2>1 DEF Sent
    <3>2. m \in 1 .. position /\ ~(acked < m)
      BY <1>1, <3>1
    <3>3. QED
      BY <3>1, <3>2 DEF AirbyteIInv, BufferIsNewest, Sent
  <2>2. QED
    BY <1>1, <2>1
<1>3. B!AirbyteTypeOK'
  <2>1. sync' \in [number : 1 .. MaxSyncs, over : BOOLEAN]
    BY <1>1, <1>2
  <2>2. buffer' \in [B!Routes -> B!Records]
    BY <1>1 DEF B!Records
  <2>3. QED
    BY <1>1, <2>1, <2>2 DEF AirbyteIInv, B!AirbyteTypeOK
<1>4. BufferIsNewest'
  BY <1>1 DEF BufferIsNewest
<1>5. \A i \in DOMAIN accepted :
        /\ accepted[i].key[1] <= sync'.number /\ accepted[i].key[1] # sync'.number
        /\ accepted[i].key # B!Identity'
  <2> SUFFICES ASSUME NEW i \in DOMAIN accepted
               PROVE  /\ accepted[i].key[1] <= sync'.number
                      /\ accepted[i].key[1] # sync'.number
    BY DEF B!Identity
  <2>1. accepted[i].key[1] <= sync.number /\ accepted[i].key[1] \in Nat
    BY BatchTypes DEF AirbyteIInv, BatchesInOrder, AcceptedBatch
  <2>2. QED
    BY <1>1, <1>2, <2>1
<1>6. BatchesInOrder'
  BY <1>1, <1>5 DEF AirbyteIInv, BatchesInOrder
<1>7. RequestFits'
  BY <1>1, <1>5 DEF AirbyteIInv, RequestFits, B!AcceptedAs
<1>8. SentIsWritten' /\ QueuedIsLater'
  <2>1. SentIsWritten'
    BY <1>1, <1>2 DEF AirbyteIInv, SentIsWritten
  <2>2. QueuedIsLater'
    <3> SUFFICES ASSUME NEW j \in DOMAIN accepted, accepted[j].status = "queued",
                        NEW q \in B!Routes, q = accepted[j].route,
                        NEW m \in Sent(q)', NEW n \in accepted[j].records
                 PROVE  m < n
      BY <1>1, BatchTypes DEF QueuedIsLater, AcceptedBatch
    <3>1. QED
      BY <1>2 DEF AirbyteIInv, QueuedIsLater
  <2>3. QED
    BY <2>1, <2>2
<1>9. QED
  BY <1>3, <1>4, <1>6, <1>7, <1>8 DEF AirbyteIInv, B!AirbyteParameters

\* The worker applies a batch, or some of it.
LEMMA ApplyBatchStep ==
  ASSUME AirbyteIInv, NEW i \in DOMAIN accepted, B!ApplyBatch(i)
  PROVE  AirbyteIInv'
<1> DEFINE batch == accepted[i]
<1> DEFINE From(k, rs) == {m \in rs : Messages[m] = k}
<1> DEFINE Latest(k, rs) ==
             IF \E m \in rs : Messages[m] = k
               THEN CHOOSE m \in rs : /\ Messages[m] = k
                                      /\ \A n \in rs : Messages[n] = k => n <= m
               ELSE written[k]
<1>1. PICK status \in {"succeeded", "failed"}, rs \in SUBSET batch.records :
        /\ status = "succeeded" => rs = batch.records
        /\ accepted' = [accepted EXCEPT ![i].status = status]
        /\ written' = [k \in B!RecordKeys |-> Latest(k, rs)]
  BY DEF B!ApplyBatch
<1>2. /\ batch.status = "queued" /\ batch \in AcceptedBatch
      /\ UNCHANGED <<sync, position, buffer, sequence, request, acked>>
      /\ \A j \in 1 .. i - 1 :
           accepted[j].route = batch.route => accepted[j].status # "queued"
      /\ rs \subseteq 1 .. Len(Messages) /\ Len(Messages) \in Nat
      /\ batch.route \in B!Routes
  BY BatchTypes, MessagesAre DEF B!ApplyBatch, AcceptedBatch, AirbyteIInv
<1>3. ASSUME NEW k, NEW m \in rs, Messages[m] = k
      PROVE  /\ Latest(k, rs) \in rs /\ m <= Latest(k, rs)
             /\ Messages[Latest(k, rs)] = k
  <2>1. From(k, rs) # {} /\ From(k, rs) \subseteq 1 .. Len(Messages)
    BY <1>2, <1>3
  <2>2. \E x \in From(k, rs) : \A y \in From(k, rs) : y <= x
    <3> HIDE DEF From
    <3>1. QED
      BY <1>2, <2>1, GreatestElement
  <2>3. \E x \in rs : Messages[x] = k /\ \A n \in rs : Messages[n] = k => n <= x
    BY <2>2
  <2>4. QED
    BY <1>3, <2>3
<1>4. \A k \in B!RecordKeys : (\A m \in rs : Messages[m] # k) => Latest(k, rs) = written[k]
  OBVIOUS
<1> HIDE DEF Latest
<1>5. /\ Len(accepted') = Len(accepted) /\ DOMAIN accepted' = DOMAIN accepted
      /\ accepted' \in Seq(AcceptedBatch)
      /\ accepted'[i] \in AcceptedBatch /\ accepted'[i].status = status
      /\ accepted'[i].key = batch.key /\ accepted'[i].route = batch.route
      /\ accepted'[i].records = batch.records
      /\ \A j \in DOMAIN accepted : j # i => accepted'[j] = accepted[j]
  <2>1. [accepted[i] EXCEPT !.status = status] \in AcceptedBatch
    BY <1>2 DEF AcceptedBatch
  <2>2. accepted' = [accepted EXCEPT ![i] = [accepted[i] EXCEPT !.status = status]]
    BY <1>1
  <2>3. accepted' \in Seq(AcceptedBatch) /\ Len(accepted') = Len(accepted)
        /\ DOMAIN accepted' = DOMAIN accepted
    BY <2>1, <2>2, BatchTypes
  <2>4. accepted'[i] = [accepted[i] EXCEPT !.status = status]
    BY <2>2, BatchTypes
  <2>5. QED
    BY <1>2, <2>1, <2>2, <2>3, <2>4, BatchTypes DEF AcceptedBatch
<1>6. \A j \in DOMAIN accepted :
        /\ accepted'[j].key = accepted[j].key
        /\ accepted'[j].route = accepted[j].route
        /\ accepted'[j].records = accepted[j].records
        /\ accepted'[j].status = "queued" => accepted[j].status = "queued"
        /\ accepted[j].status # "queued" => accepted'[j].status # "queued"
  BY <1>1, <1>5
<1>7. /\ written \in [B!RecordKeys -> 0 .. Len(Messages)]
      /\ written' \in [B!RecordKeys -> 0 .. Len(Messages)]
  <2>1. written \in [B!RecordKeys -> 0 .. Len(Messages)]
    BY BatchTypes
  <2>2. ASSUME NEW k \in B!RecordKeys PROVE Latest(k, rs) \in 0 .. Len(Messages)
    <3>1. CASE \E m \in rs : Messages[m] = k
      <4>1. Latest(k, rs) \in 1 .. Len(Messages)
        BY <1>2, <1>3, <3>1
      <4>2. QED
        BY <1>2, <4>1
    <3>2. CASE \A m \in rs : Messages[m] # k
      BY <1>4, <2>1, <3>2
    <3>3. QED
      BY <3>1, <3>2
  <2>3. QED
    BY <1>1, <2>1, <2>2
<1>8. ASSUME NEW k \in B!RecordKeys, NEW m \in 1 .. Len(Messages),
             written[k] >= m, \A n \in rs : Messages[n] = k => m <= n
      PROVE  written'[k] >= m
  <2>1. CASE \E n \in rs : Messages[n] = k
    <3>1. PICK n \in rs : Messages[n] = k
      BY <2>1
    <3>2. m <= n /\ n <= Latest(k, rs) /\ Latest(k, rs) \in rs
      BY <1>3, <1>8, <3>1
    <3>3. written'[k] = Latest(k, rs) /\ n \in Nat /\ m \in Nat /\ Latest(k, rs) \in Nat
      BY <1>1, <1>2, <3>2
    <3>4. QED
      BY <3>2, <3>3
  <2>2. CASE \A n \in rs : Messages[n] # k
    BY <1>1, <1>4, <1>8, <2>2
  <2>3. QED
    BY <2>1, <2>2
<1>9. B!AirbyteTypeOK'
  BY <1>2, <1>5, <1>7 DEF AirbyteIInv, B!AirbyteTypeOK, AcceptedBatch
<1>10. BufferIsNewest'
  BY <1>2 DEF AirbyteIInv, BufferIsNewest, Sent
<1>11. BatchesInOrder'
  <2>1. ASSUME NEW j \in DOMAIN accepted, NEW l \in 1 .. j - 1,
               accepted'[l].route = accepted'[j].route, accepted'[j].status # "queued"
        PROVE  accepted'[l].status # "queued"
    <3>1. l \in DOMAIN accepted
      BY BatchTypes
    <3>2. accepted[l].status # "queued"
      <4>1. CASE j = i
        BY <1>2, <1>6, <2>1, <3>1, <4>1
      <4>2. CASE j # i
        <5>1. accepted[j].status # "queued" /\ accepted[l].route = accepted[j].route
          BY <1>5, <1>6, <2>1, <3>1, <4>2
        <5>2. QED
          BY <5>1 DEF AirbyteIInv, BatchesInOrder
      <4>3. QED
        BY <4>1, <4>2
    <3>3. QED
      BY <1>6, <3>1, <3>2
  <2>2. QED
    BY <1>2, <1>5, <1>6, <2>1 DEF AirbyteIInv, BatchesInOrder, B!Identity
<1>12. RequestFits'
  <2> SUFFICES ASSUME request.stage # "none", NEW j \in B!AcceptedAs
               PROVE  /\ request.route \in B!Routes
                      /\ accepted'[j].route = request.route
                      /\ accepted'[j].records = buffer[request.route]
                      /\ accepted'[j].status = "succeeded" =>
                           \A m \in accepted'[j].records : written'[Messages[m]] >= m
    <3>1. B!AcceptedAs' = B!AcceptedAs
      BY <1>2, <1>5, <1>6 DEF B!AcceptedAs, B!Identity
    <3>2. QED
      BY <1>2, <3>1 DEF AirbyteIInv, RequestFits
  <2>1. /\ j \in DOMAIN accepted /\ request.route \in B!Routes
        /\ accepted[j].route = request.route
        /\ accepted[j].records = buffer[request.route]
        /\ accepted[j].key = B!Identity /\ j = Len(accepted)
    BY DEF AirbyteIInv, RequestFits, BatchesInOrder, B!AcceptedAs
  <2>2. ASSUME accepted'[j].status = "succeeded", NEW m \in accepted[j].records
        PROVE  written'[Messages[m]] >= m
    <3>1. /\ m \in 1 .. Len(Messages) /\ Messages[m] \in B!RecordKeys
          /\ Messages[m][1] = accepted[j].route
      BY <2>1, BatchTypes, MessagesAre DEF AirbyteIInv, BatchesInOrder, AcceptedBatch
    <3>2. CASE j = i
      <4>1. m \in rs
        BY <1>1, <1>5, <2>2, <3>2
      <4>2. m <= Latest(Messages[m], rs) /\ Latest(Messages[m], rs) \in rs
        BY <1>3, <4>1
      <4>3. /\ written'[Messages[m]] = Latest(Messages[m], rs)
            /\ m \in Nat /\ Latest(Messages[m], rs) \in Nat
        BY <1>1, <1>2, <3>1, <4>2
      <4>4. QED
        BY <4>2, <4>3
    <3>3. CASE j # i
      <4>1. accepted[j].status = "succeeded"
        BY <1>5, <2>1, <2>2, <3>3
      <4>2. written[Messages[m]] >= m
        BY <2>2, <4>1 DEF AirbyteIInv, RequestFits
      <4>3. batch.route # accepted[j].route
        <5>1. i \in 1 .. j - 1
          BY <2>1, <3>3, BatchTypes
        <5>2. QED
          BY <1>2, <2>1, <4>1, <5>1 DEF AirbyteIInv, BatchesInOrder
      <4>4. \A n \in rs : Messages[n] # Messages[m]
        BY <3>1, <4>3 DEF AirbyteIInv, BatchesInOrder
      <4>5. QED
        BY <1>8, <3>1, <4>2, <4>4
    <3>4. QED
      BY <3>2, <3>3
  <2>3. QED
    BY <1>6, <2>1, <2>2
<1>13. SentIsWritten'
  <2> SUFFICES ASSUME NEW r \in B!Routes, NEW m \in Sent(r)
               PROVE  written'[Messages[m]] >= m
    BY <1>2 DEF SentIsWritten, Sent
  <2>1. /\ m \in 1 .. Len(Messages) /\ Messages[m] \in B!RecordKeys
        /\ Messages[m][1] = r
    <3>1. \A n \in 1 .. position : n \in 1 .. Len(Messages)
      BY BatchTypes, MessagesAre DEF AirbyteIInv
    <3>2. QED
      BY <3>1, MessagesAre DEF Sent, AirbyteIInv
  <2>2. written[Messages[m]] >= m
    BY DEF AirbyteIInv, SentIsWritten
  <2>3. ASSUME NEW n \in rs, Messages[n] = Messages[m] PROVE m <= n
    <3>1. batch.route = r
      BY <2>1, <2>3 DEF AirbyteIInv, BatchesInOrder
    <3>2. m < n
      BY <1>2, <3>1 DEF AirbyteIInv, QueuedIsLater
    <3>3. m \in Nat /\ n \in Nat
      BY <1>2, <2>1
    <3>4. QED
      BY <3>2, <3>3
  <2>4. QED
    BY <1>8, <2>1, <2>2, <2>3
<1>14. QueuedIsLater'
  BY <1>2, <1>5, <1>6 DEF AirbyteIInv, QueuedIsLater, Sent
<1>15. QED
  BY <1>9, <1>10, <1>11, <1>12, <1>13, <1>14 DEF AirbyteIInv, B!AirbyteParameters

\* What is acknowledged stays in the tables.
THEOREM AcknowledgedIsWritten ==
  B!AirbyteParameters /\ B!AirbyteSpec => []B!AckedIsWritten
<1>1. B!AirbyteParameters /\ B!AirbyteInit => AirbyteIInv
  <2> SUFFICES ASSUME B!AirbyteParameters, B!AirbyteInit PROVE AirbyteIInv
    OBVIOUS
  <2>1. /\ Len(Messages) \in Nat /\ RequestTries \in Nat /\ 1 \in 1 .. MaxSyncs
        /\ 0 \in 0 .. Len(Messages)
    BY DEF B!AirbyteParameters
  <2>2. B!AirbyteTypeOK
    BY <2>1 DEF B!AirbyteInit, B!AirbyteTypeOK, B!NoRequest, B!Records
  <2>3. \A r : Sent(r) = {}
    BY DEF B!AirbyteInit, Sent
  <2>4. DOMAIN accepted = {}
    BY DEF B!AirbyteInit
  <2>5. QED
    BY <2>2, <2>3, <2>4
       DEF B!AirbyteInit, AirbyteIInv, BufferIsNewest, BatchesInOrder, RequestFits,
           SentIsWritten, QueuedIsLater, B!NoRequest
<1>2. AirbyteIInv /\ [B!AirbyteNext]_(B!airbyteVars) => AirbyteIInv'
  <2> SUFFICES ASSUME AirbyteIInv, [B!AirbyteNext]_(B!airbyteVars) PROVE AirbyteIInv'
    OBVIOUS
  <2>1. /\ request \in [stage : {"none", "submit", "wait"},
                        route : B!Routes \union {0}, tries : 0 .. RequestTries]
        /\ sync \in [number : {sync.number}, over : BOOLEAN]
        /\ RequestTries \in Nat \ {0}
        /\ B!NoRequest \in [stage : {"none", "submit", "wait"},
                            route : B!Routes \union {0}, tries : 0 .. RequestTries]
    BY BatchTypes DEF AirbyteIInv, B!AirbyteTypeOK, B!AirbyteParameters, B!NoRequest
  <2>2. ASSUME B!EndSync
        PROVE  /\ request'.stage = "none"
               /\ request' \in [stage : {"none", "submit", "wait"},
                                route : B!Routes \union {0}, tries : 0 .. RequestTries]
               /\ sync' \in [number : {sync.number}, over : BOOLEAN]
    BY <2>1, <2>2 DEF B!EndSync, B!NoRequest
  <2>3. ASSUME UNCHANGED B!airbyteVars PROVE AirbyteIInv'
    BY <2>1, <2>3, RequestSteps DEF B!airbyteVars
  <2>4. ASSUME B!Submit PROVE AirbyteIInv'
    <3>1. /\ request.stage = "submit" /\ B!AcceptBatch
          /\ UNCHANGED <<position, buffer, acked, written, sequence>>
          /\ B!EndSync \/ /\ request' = [request EXCEPT !.stage = "wait", !.tries = 0]
                          /\ UNCHANGED sync
      BY <2>4 DEF B!Submit
    <3>2. CASE B!EndSync
      BY <2>2, <3>1, <3>2, AcceptStep
    <3>3. CASE request' = [request EXCEPT !.stage = "wait", !.tries = 0] /\ UNCHANGED sync
      <4>1. /\ request' \in [stage : {"none", "submit", "wait"},
                             route : B!Routes \union {0}, tries : 0 .. RequestTries]
            /\ request'.route = request.route
        <5>1. 0 \in 0 .. RequestTries
          BY <2>1
        <5>2. QED
          BY <2>1, <3>3, <5>1
      <4>2. QED
        BY <2>1, <3>1, <3>3, <4>1, AcceptStep
    <3>4. QED
      BY <3>1, <3>2, <3>3
  <2>5. ASSUME B!RequestFails PROVE AirbyteIInv'
    <3>1. /\ request.stage # "none"
          /\ B!AcceptBatch \/ UNCHANGED accepted
          /\ UNCHANGED <<position, buffer, acked, written, sequence>>
          /\ B!EndSync \/ /\ request' = [request EXCEPT !.tries = @ + 1]
                          /\ request.tries + 1 < RequestTries
                          /\ UNCHANGED sync
      BY <2>5 DEF B!RequestFails
    <3>2. /\ request' \in [stage : {"none", "submit", "wait"},
                           route : B!Routes \union {0}, tries : 0 .. RequestTries]
          /\ request'.stage = "none" \/ request'.route = request.route
          /\ sync' \in [number : {sync.number}, over : BOOLEAN]
      <4>1. CASE B!EndSync
        BY <2>2, <4>1
      <4>2. CASE /\ request' = [request EXCEPT !.tries = @ + 1]
                 /\ request.tries + 1 < RequestTries
                 /\ UNCHANGED sync
        <5>1. request.tries + 1 \in 0 .. RequestTries
          BY <2>1, <4>2
        <5>2. QED
          BY <2>1, <4>2, <5>1
      <4>3. QED
        BY <3>1, <4>1, <4>2
    <3>3. QED
      BY <3>1, <3>2, AcceptStep, RequestSteps
  <2>6. ASSUME B!KeepWaiting PROVE AirbyteIInv'
    <3>1. /\ request.stage = "wait"
          /\ request' = [request EXCEPT !.tries = 0]
          /\ UNCHANGED <<sync, position, buffer, sequence, acked, accepted, written>>
      BY <2>6 DEF B!KeepWaiting
    <3>2. /\ request' \in [stage : {"none", "submit", "wait"},
                           route : B!Routes \union {0}, tries : 0 .. RequestTries]
          /\ request'.route = request.route
      BY <2>1, <3>1
    <3>3. QED
      BY <2>1, <3>1, <3>2, RequestSteps
  <2>7. ASSUME B!GiveUpWaiting \/ B!Die PROVE AirbyteIInv'
    BY <2>2, <2>7, RequestSteps DEF B!GiveUpWaiting, B!Die
  <2>8. QED
    BY <2>3, <2>4, <2>5, <2>6, <2>7, BufferRecordStep, StartFlushStep, ConfirmStep,
       EmitStateStep, ResyncStep, ApplyBatchStep DEF B!AirbyteNext
<1>3. AirbyteIInv => B!AckedIsWritten
  <2> SUFFICES ASSUME AirbyteIInv, NEW m \in 1 .. acked, Messages[m] # Checkpoint
               PROVE  written[Messages[m]] >= m
    BY DEF B!AckedIsWritten
  <2>1. /\ acked <= position /\ acked \in Nat /\ position \in Nat
        /\ \A n \in 0 .. Len(Messages) : n <= Len(Messages)
        /\ Len(Messages) \in Nat
    BY BatchTypes, MessagesAre DEF AirbyteIInv, BufferIsNewest
  <2>2. m \in 1 .. position /\ m \in 1 .. Len(Messages) /\ ~(acked < m)
    BY <2>1, BatchTypes
  <2>3. Messages[m][1] \in B!Routes
    BY <2>2, MessagesAre DEF AirbyteIInv
  <2>4. m \in Sent(Messages[m][1])
    BY <2>2, <2>3 DEF AirbyteIInv, BufferIsNewest, Sent
  <2>5. QED
    BY <2>3, <2>4 DEF AirbyteIInv, SentIsWritten
<1>4. QED
  BY <1>1, <1>2, <1>3, PTL DEF B!AirbyteSpec

-----------------------------------------------------------------------------
(* The rows of a step.                                                     *)

\* How many rows of a list come before one.
RowsBefore(L, i) == {j \in L : j < i}
\* Where a row comes in a list.
Rank(L, i) == Cardinality(RowsBefore(L, i))

\* What is done or was left behind has succeeded.
DoneSucceeded ==
  \A x \in Executors, i \in StepRowsGiven :
    thread[x][i].stage = "done" => record[i] = "succeeded"

\* The chunks before the one that is worked on have succeeded.
ChunksSucceeded ==
  \A x \in Executors : at[x] = "working" =>
    \A i \in list[x] :
      Rank(list[x], i) \div ChunkSize < chunk[x] => record[i] = "succeeded"

\* An executor that has not listed its rows has not worked on any.
BeginFresh ==
  \A x \in Executors : at[x] \in {"idle", "queueing"} =>
    list[x] = {} /\ chunk[x] = 0 /\ thread[x] = R!Fresh

\* Before any executor has begun, no row has a record.
NoRecordsYet ==
  (\A x \in Executors : at[x] \in {"idle", "queueing"}) =>
    \A i \in StepRowsGiven : record[i] = "absent"

\* How a record and the thread of the only executor go together.
Agree(status, stage) ==
  CASE stage = "start"    -> status \in {"queued", "succeeded"}
    [] stage = "done"     -> status = "succeeded"
    [] stage = "rejected" -> status = "failed"
    [] OTHER              -> status = "running"

\* No other executor has begun.
Alone(x) == \A y \in Executors : at[y] # "idle" => y = x

\* While nothing fails, the records of an executor that is alone go together
\* with its threads, and it fails by a row that has failed.
AloneFits ==
  stepFaults = 0 =>
    \A x \in Executors : Alone(x) =>
      /\ at[x] = "working" =>
           \A i \in list[x] : Agree(record[i], thread[x][i].stage)
      /\ at[x] = "failing" /\ step = "running" /\ claim = x /\ list[x] # {} =>
           \E i \in list[x] : record[i] = "failed"

\* The inductive invariant of a step's rows.
StepIInv ==
  /\ R!StepRowsParameters /\ R!StepRowsTypeOK
  /\ DoneSucceeded /\ ChunksSucceeded
  /\ BeginFresh /\ NoRecordsYet /\ AloneFits

\* The rank of a row is a natural, and the next row has the next rank.
LEMMA RankType ==
  ASSUME NEW L, L \subseteq Nat, NEW i \in Nat
  PROVE  IsFiniteSet(RowsBefore(L, i)) /\ Rank(L, i) \in Nat
<1>1. RowsBefore(L, i) \subseteq 0 .. (i - 1)
  <2> SUFFICES ASSUME NEW j \in L, j < i PROVE j \in 0 .. (i - 1)
    BY DEF RowsBefore
  <2>1. j \in Nat
    OBVIOUS
  <2>2. QED
    BY <2>1
<1>2. IsFiniteSet(0 .. (i - 1))
  BY FS_Interval
<1>3. QED
  BY <1>1, <1>2, FS_Subset, FS_CardinalityType DEF Rank

\* No rank is left out below that of a row.
LEMMA RanksFollow ==
  ASSUME NEW L, L \subseteq Nat, NEW i \in L, NEW n \in Nat, n <= Rank(L, i)
  PROVE  \E j \in L : Rank(L, j) = n
<1> DEFINE T == {j \in L : n <= Rank(L, j)}
<1>1. PICK j \in T : \A k \in T : j <= k
  <2>1. T \subseteq Nat /\ T # {}
    OBVIOUS
  <2> HIDE DEF T
  <2>2. QED
    BY <2>1, LeastElement
<1>2. j \in L /\ j \in Nat /\ n <= Rank(L, j)
  BY <1>1
<1>3. ASSUME Rank(L, j) # n PROVE FALSE
  <2>1. Rank(L, j) \in Nat /\ Rank(L, j) > n
    <3>1. Rank(L, j) \in Nat
      BY <1>2, RankType
    <3>2. QED
      BY <1>2, <1>3, <3>1
  <2>2. RowsBefore(L, j) # {}
    BY <2>1, FS_EmptySet DEF Rank
  <2> DEFINE distances == {j - k : k \in RowsBefore(L, j)}
  <2>3. PICK d \in distances : \A e \in distances : d <= e
    <3>1. distances \subseteq Nat /\ distances # {}
      <4>1. \A k \in RowsBefore(L, j) : k \in Nat /\ k < j
        BY DEF RowsBefore
      <4>2. \A k \in RowsBefore(L, j) : j - k \in Nat
        BY <1>2, <4>1
      <4>3. QED
        BY <2>2, <4>2
    <3> HIDE DEF distances
    <3>2. QED
      BY <3>1, LeastElement
  <2>4. PICK m \in RowsBefore(L, j) : d = j - m
    BY <2>3
  <2>5. /\ m \in L /\ m \in Nat /\ m < j
        /\ \A k \in RowsBefore(L, j) : k \in Nat /\ k <= m
    <3>1. m \in L /\ m \in Nat /\ m < j
      BY <2>4 DEF RowsBefore
    <3>2. ASSUME NEW k \in RowsBefore(L, j) PROVE k \in Nat /\ k <= m
      <4>1. k \in Nat /\ j - k \in distances
        BY <3>2 DEF RowsBefore
      <4>2. d <= j - k
        BY <2>3, <4>1
      <4>3. QED
        BY <1>2, <2>4, <3>1, <4>1, <4>2
    <3>3. QED
      BY <3>1, <3>2
  <2>6. RowsBefore(L, m) = RowsBefore(L, j) \ {m}
    BY <1>2, <2>5 DEF RowsBefore
  <2>7. Rank(L, m) = Rank(L, j) - 1
    <3>1. IsFiniteSet(RowsBefore(L, j))
      BY <1>2, RankType
    <3>2. Cardinality(RowsBefore(L, j) \ {m}) = Cardinality(RowsBefore(L, j)) - 1
      BY <2>4, <3>1, FS_RemoveElement
    <3>3. QED
      BY <2>6, <3>2 DEF Rank
  <2>8. m \in T
    BY <2>1, <2>5, <2>7
  <2>9. QED
    BY <1>1, <1>2, <2>5, <2>8
<1>4. QED
  BY <1>2, <1>3

\* The chunks of a list, by rank.
LEMMA ChunkIs ==
  ASSUME NEW x \in Executors
  PROVE  R!Chunk(x) = {i \in list[x] : Rank(list[x], i) \div ChunkSize = chunk[x]}
<1>1. \A rows : R!Cardinality(rows) = Cardinality(rows)
  BY DEF R!Cardinality, Cardinality
<1>2. QED
  BY <1>1 DEF R!Chunk, Rank, RowsBefore

\* An executor without a chunk has left every row behind.
LEMMA NoChunkLeft ==
  ASSUME StepIInv, NEW x \in Executors, at[x] = "working", R!Chunk(x) = {}
  PROVE  \A i \in list[x] : record[i] = "succeeded"
<1>1. /\ list[x] \subseteq Nat /\ ChunkSize \in Nat \ {0} /\ chunk[x] \in Nat
      /\ list[x] \subseteq StepRowsGiven
  BY DEF StepIInv, R!StepRowsParameters, R!StepRowsTypeOK
<1> SUFFICES ASSUME NEW i \in list[x]
             PROVE  Rank(list[x], i) \div ChunkSize < chunk[x]
  BY DEF StepIInv, ChunksSucceeded
<1>2. Rank(list[x], i) \in Nat
  BY <1>1, RankType
<1>3. ASSUME ~(Rank(list[x], i) \div ChunkSize < chunk[x]) PROVE FALSE
  <2> DEFINE n == chunk[x] * ChunkSize
  <2>1. \A r \in Nat, c \in Nat, s \in Nat \ {0} :
          /\ ~(r \div s < c) => c * s <= r
          /\ (c * s) \div s = c /\ c * s \in Nat
    OBVIOUS
  <2>2. n \in Nat /\ n <= Rank(list[x], i) /\ n \div ChunkSize = chunk[x]
    BY <1>1, <1>2, <1>3, <2>1
  <2> HIDE DEF n
  <2>3. PICK j \in list[x] : Rank(list[x], j) = n
    BY <1>1, <2>2, RanksFollow
  <2>4. j \in R!Chunk(x)
    BY <2>2, <2>3, ChunkIs
  <2>5. QED
    BY <2>4
<1>4. QED
  BY <1>3

\* What the records and threads of rows may be.
RowStatus == {"absent", "queued", "running", "succeeded", "failed"}
Thread == [stage : R!Stage, retries : 0 .. ItemRetries]

\* What the invariant says of the types of the variables.
LEMMA StepTypes ==
  ASSUME StepIInv
  PROVE  /\ StepRowsGiven \subseteq Nat /\ NoExecutor \notin Executors
         /\ ChunkSize \in Nat \ {0} /\ ItemRetries \in Nat /\ MaxStepFaults \in Nat
         /\ record \in [StepRowsGiven -> RowStatus]
         /\ at \in [Executors -> {"idle", "queueing", "working", "failing", "over"}]
         /\ list \in [Executors -> SUBSET StepRowsGiven]
         /\ chunk \in [Executors -> Nat]
         /\ thread \in [Executors -> [StepRowsGiven -> Thread]]
         /\ stepFaults \in 0 .. MaxStepFaults
         /\ R!Fresh \in [StepRowsGiven -> Thread]
         /\ \A i \in StepRowsGiven : R!Fresh[i].stage = "start"
<1>1. ItemRetries \in Nat
  BY DEF StepIInv, R!StepRowsParameters
<1>2. R!Fresh \in [StepRowsGiven -> Thread]
  BY <1>1 DEF R!Fresh, Thread, R!Stage
<1>3. \A i \in StepRowsGiven : R!Fresh[i].stage = "start"
  BY DEF R!Fresh
<1>4. QED
  BY <1>1, <1>2, <1>3
     DEF StepIInv, R!StepRowsParameters, R!StepRowsTypeOK, RowStatus, Thread

\* An executor that is alone after its step was alone before.
LEMMA AloneBefore ==
  ASSUME StepIInv, NEW x \in Executors, NEW place, place # "idle",
         at' = [at EXCEPT ![x] = place], NEW z \in Executors, Alone(z)'
  PROVE  z = x /\ (at[x] # "idle" => Alone(x)) /\ at'[x] = place
         /\ \A y \in Executors : y # x => at[y] = "idle"
BY StepTypes DEF Alone

\* A step with one record: what it has to establish of that record alone.
LEMMA RowStep ==
  ASSUME StepIInv, NEW x \in Executors, at[x] = "working", NEW i \in list[x],
         NEW status \in RowStatus, NEW t \in Thread,
         record' = [record EXCEPT ![i] = status],
         thread' = [thread EXCEPT ![x][i] = t],
         UNCHANGED <<kind, step, claim, at, list, chunk>>,
         stepFaults' \in 0 .. MaxStepFaults, stepFaults' = 0 => stepFaults = 0,
         record[i] = "succeeded" => status = "succeeded",
         t.stage = "done" => status = "succeeded",
         stepFaults' = 0 /\ Agree(record[i], thread[x][i].stage) =>
           Agree(status, t.stage)
  PROVE  StepIInv'
<1>1. /\ i \in StepRowsGiven
      /\ record' \in [StepRowsGiven -> RowStatus] /\ record'[i] = status
      /\ \A j \in StepRowsGiven : j # i => record'[j] = record[j]
      /\ thread' \in [Executors -> [StepRowsGiven -> Thread]]
      /\ thread'[x][i] = t
      /\ \A y \in Executors, j \in StepRowsGiven :
           y # x \/ j # i => thread'[y][j] = thread[y][j]
      /\ \A y \in Executors : y # x => thread'[y] = thread[y]
  BY StepTypes
<1>2. R!StepRowsTypeOK'
  BY <1>1 DEF StepIInv, R!StepRowsTypeOK, RowStatus, Thread
<1>3. \A j \in StepRowsGiven : record[j] = "succeeded" => record'[j] = "succeeded"
  BY <1>1
<1>4. DoneSucceeded'
  BY <1>1, <1>3 DEF StepIInv, DoneSucceeded
<1>5. ChunksSucceeded'
  BY <1>3, StepTypes DEF StepIInv, ChunksSucceeded
<1>6. BeginFresh'
  BY <1>1 DEF StepIInv, BeginFresh
<1>7. NoRecordsYet'
  BY DEF NoRecordsYet
<1>8. AloneFits'
  <2> SUFFICES ASSUME stepFaults' = 0, NEW z \in Executors, Alone(z)'
               PROVE  /\ at[z] = "working" =>
                           \A j \in list[z] : Agree(record'[j], thread'[z][j].stage)
                      /\ at[z] = "failing" /\ step = "running" /\ claim = z
                           /\ list[z] # {} =>
                           \E j \in list[z] : record'[j] = "failed"
    BY DEF AloneFits
  <2>1. z = x /\ Alone(x)
    BY DEF Alone
  <2>2. ASSUME NEW j \in list[x] PROVE Agree(record'[j], thread'[x][j].stage)
    <3>1. j \in StepRowsGiven /\ Agree(record[j], thread[x][j].stage)
      BY <2>1, StepTypes DEF StepIInv, AloneFits
    <3>2. CASE j = i
      BY <1>1, <3>1, <3>2
    <3>3. CASE j # i
      BY <1>1, <3>1, <3>3
    <3>4. QED
      BY <3>2, <3>3
  <2>3. QED
    BY <2>1, <2>2
<1>9. QED
  BY <1>2, <1>4, <1>5, <1>6, <1>7, <1>8 DEF StepIInv, R!StepRowsParameters

\* How the thread of a record changes.
LEMMA GoesIs ==
  ASSUME StepIInv, NEW x \in Executors, NEW i \in StepRowsGiven,
         NEW stage \in R!Stage, R!Goes(x, i, stage)
  PROVE  \E t \in Thread : thread' = [thread EXCEPT ![x][i] = t] /\ t.stage = stage
<1> DEFINE t == [thread[x][i] EXCEPT !.stage = stage]
<1>1. thread[x][i] \in Thread
  BY StepTypes
<1>2. t \in Thread /\ t.stage = stage
  BY <1>1 DEF Thread
<1>3. thread' = [thread EXCEPT ![x][i] = t]
  BY StepTypes DEF R!Goes
<1> HIDE DEF t
<1>4. QED
  BY <1>2, <1>3

\* What a thread is after its work has thrown.
LEMMA ThrowsIs ==
  ASSUME StepIInv, NEW x \in Executors, NEW i \in StepRowsGiven, R!Throws(x, i)
  PROVE  \E t \in Thread :
           /\ thread' = [thread EXCEPT ![x][i] = t]
           /\ t.stage = IF thread[x][i].retries < ItemRetries THEN "start"
                        ELSE "rejected"
<1> DEFINE old == thread[x][i]
<1> DEFINE t == IF old.retries < ItemRetries
                  THEN [stage |-> "start", retries |-> old.retries + 1]
                  ELSE [old EXCEPT !.stage = "rejected"]
<1>1. old \in Thread /\ ItemRetries \in Nat
  BY StepTypes
<1>2. t \in Thread
  BY <1>1 DEF Thread, R!Stage
<1>3. t.stage = IF old.retries < ItemRetries THEN "start" ELSE "rejected"
  BY <1>1 DEF Thread
<1>4. thread' = [thread EXCEPT ![x][i] = t]
  BY StepTypes DEF R!Throws
<1> HIDE DEF t
<1>5. QED
  BY <1>2, <1>3, <1>4

\* What an executor does with one record.
LEMMA ExecuteRowStep ==
  ASSUME StepIInv, NEW x \in Executors, NEW i \in StepRowsGiven, R!ExecuteRow(x, i)
  PROVE  StepIInv'
<1> DEFINE stage == thread[x][i].stage
<1>1. /\ at[x] = "working" /\ i \in list[x] /\ i \in StepRowsGiven
      /\ record[i] \in RowStatus /\ thread[x][i] \in Thread
      /\ UNCHANGED <<kind, step, claim, at, list, chunk>>
      /\ stepFaults \in 0 .. MaxStepFaults /\ MaxStepFaults \in Nat
  <2>1. at[x] = "working" /\ i \in R!Chunk(x)
    BY DEF R!ExecuteRow, R!Start, R!Call, R!Record, R!Fail, R!StatementFails,
           R!SucceedsThenFails, R!Executes
  <2>2. UNCHANGED <<kind, step, claim, at, list, chunk>>
    BY DEF R!ExecuteRow, R!Start, R!Call, R!Record, R!Fail, R!StatementFails,
           R!SucceedsThenFails, R!ledger
  <2>3. QED
    BY <2>1, <2>2, ChunkIs, StepTypes
<1>2. ASSUME stepFaults' = stepFaults, NEW status \in RowStatus, NEW t \in Thread,
             record' = [record EXCEPT ![i] = status],
             thread' = [thread EXCEPT ![x][i] = t],
             record[i] = "succeeded" => status = "succeeded",
             t.stage = "done" => status = "succeeded",
             Agree(record[i], stage) => Agree(status, t.stage)
      PROVE  StepIInv'
  BY <1>1, <1>2, RowStep
<1>3. ASSUME stepFaults' = stepFaults + 1, stepFaults < MaxStepFaults,
             NEW status \in RowStatus, NEW t \in Thread,
             record' = [record EXCEPT ![i] = status],
             thread' = [thread EXCEPT ![x][i] = t],
             record[i] = "succeeded" => status = "succeeded",
             t.stage = "done" => status = "succeeded"
      PROVE  StepIInv'
  <2>1. stepFaults' \in 0 .. MaxStepFaults /\ stepFaults' # 0
    BY <1>1, <1>3
  <2>2. QED
    BY <1>1, <1>3, <2>1, RowStep
<1>4. record' = record => record' = [record EXCEPT ![i] = record[i]]
  BY StepTypes
<1>5. CASE R!Start(x, i)
  <2>1. stage = "start" /\ stepFaults' = stepFaults
    BY <1>5 DEF R!Start, R!Executes
  <2>2. CASE R!Startable(i) /\ record' = [record EXCEPT ![i] = "running"]
               /\ R!Goes(x, i, "calling")
    <3>1. PICK t \in Thread :
            thread' = [thread EXCEPT ![x][i] = t] /\ t.stage = "calling"
      BY <2>2, GoesIs DEF R!Stage
    <3>2. record[i] # "succeeded" /\ "running" \in RowStatus
      BY <2>2 DEF R!Startable, RowStatus
    <3>3. Agree("running", t.stage)
      BY <3>1 DEF Agree
    <3>4. QED
      BY <1>2, <2>1, <2>2, <3>1, <3>2, <3>3
  <2>3. CASE R!Satisfied(i) /\ R!Goes(x, i, "done") /\ record' = record
    <3>1. PICK t \in Thread :
            thread' = [thread EXCEPT ![x][i] = t] /\ t.stage = "done"
      BY <2>3, GoesIs DEF R!Stage
    <3>2. record[i] = "succeeded"
      BY <2>3 DEF R!Satisfied
    <3>3. Agree(record[i], t.stage)
      BY <3>1, <3>2 DEF Agree
    <3>4. QED
      BY <1>1, <1>2, <1>4, <2>1, <2>3, <3>1, <3>2, <3>3
  <2>4. CASE ~R!Startable(i) /\ ~R!Satisfied(i) /\ R!Throws(x, i) /\ record' = record
    <3>1. PICK t \in Thread :
            /\ thread' = [thread EXCEPT ![x][i] = t]
            /\ t.stage \in {"start", "rejected"}
      BY <2>4, ThrowsIs
    <3>2. ~Agree(record[i], stage)
      BY <2>1, <2>4 DEF Agree, R!Startable, R!Satisfied
    <3>3. QED
      BY <1>1, <1>2, <1>4, <2>1, <2>4, <3>1, <3>2
  <2>5. QED
    BY <1>5, <2>2, <2>3, <2>4 DEF R!Start
<1>6. ASSUME NEW answer \in {"accepted", "retryable", "fatal"}, R!Call(x, i, answer)
      PROVE  StepIInv'
  <2>1. /\ stage = "calling" /\ stepFaults' = stepFaults /\ record' = record
        /\ R!Goes(x, i, answer)
    BY <1>6 DEF R!Call, R!Executes
  <2>2. PICK t \in Thread :
          thread' = [thread EXCEPT ![x][i] = t] /\ t.stage = answer
    BY <2>1, GoesIs DEF R!Stage
  <2>3. Agree(record[i], stage) => Agree(record[i], t.stage)
    BY <2>1, <2>2 DEF Agree
  <2>4. QED
    BY <1>1, <1>2, <1>4, <2>1, <2>2, <2>3
<1>7. CASE R!Record(x, i)
  <2>1. stage = "accepted" /\ stepFaults' = stepFaults
    BY <1>7 DEF R!Record, R!Executes
  <2>2. CASE record[i] = "running"
    <3>1. record' = [record EXCEPT ![i] = "succeeded"] /\ R!Goes(x, i, "done")
      BY <1>7, <2>2 DEF R!Record
    <3>2. PICK t \in Thread :
            thread' = [thread EXCEPT ![x][i] = t] /\ t.stage = "done"
      BY <3>1, GoesIs DEF R!Stage
    <3>3. Agree("succeeded", t.stage) /\ "succeeded" \in RowStatus
      BY <3>2 DEF Agree, RowStatus
    <3>4. QED
      BY <1>2, <2>1, <3>1, <3>2, <3>3
  <2>3. CASE record[i] # "running"
    <3>1. record' = record /\ R!Goes(x, i, "retryable")
      BY <1>7, <2>3 DEF R!Record
    <3>2. PICK t \in Thread :
            thread' = [thread EXCEPT ![x][i] = t] /\ t.stage = "retryable"
      BY <3>1, GoesIs DEF R!Stage
    <3>3. ~Agree(record[i], stage)
      BY <2>1, <2>3 DEF Agree
    <3>4. QED
      BY <1>1, <1>2, <1>4, <2>1, <3>1, <3>2, <3>3
  <2>4. QED
    BY <2>2, <2>3
<1>8. CASE R!Fail(x, i)
  <2> DEFINE retrying == stage = "retryable" /\ thread[x][i].retries < ItemRetries
  <2> DEFINE status == IF record[i] \notin {"queued", "running"} THEN record[i]
                       ELSE IF retrying THEN "queued" ELSE "failed"
  <2>1. /\ stage \in {"retryable", "fatal"} /\ stepFaults' = stepFaults
        /\ record' = [record EXCEPT ![i] = status]
        /\ IF stage = "fatal" THEN R!Goes(x, i, "rejected") ELSE R!Throws(x, i)
    BY <1>8, StepTypes DEF R!Fail
  <2>2. PICK t \in Thread :
          /\ thread' = [thread EXCEPT ![x][i] = t]
          /\ t.stage = IF retrying THEN "start" ELSE "rejected"
    <3>1. CASE stage = "fatal"
      BY <2>1, <3>1, GoesIs DEF R!Stage
    <3>2. CASE stage = "retryable"
      BY <2>1, <3>2, ThrowsIs
    <3>3. QED
      BY <2>1, <3>1, <3>2
  <2>3. status \in RowStatus /\ (record[i] = "succeeded" => status = "succeeded")
    BY <1>1 DEF RowStatus
  <2>4. Agree(record[i], stage) => Agree(status, t.stage)
    BY <2>1, <2>2 DEF Agree
  <2>5. t.stage # "done"
    BY <2>2
  <2> HIDE DEF status
  <2>6. QED
    BY <1>2, <2>1, <2>2, <2>3, <2>4, <2>5
<1>9. CASE R!StatementFails(x, i)
  <2>1. /\ stepFaults < MaxStepFaults /\ stepFaults' = stepFaults + 1
        /\ record' = record
        /\ R!Throws(x, i) \/ R!Goes(x, i, "retryable")
    BY <1>9 DEF R!StatementFails, R!Strikes
  <2>2. PICK t \in Thread :
          /\ thread' = [thread EXCEPT ![x][i] = t]
          /\ t.stage # "done"
    BY <2>1, GoesIs, ThrowsIs DEF R!Stage
  <2>3. QED
    BY <1>1, <1>3, <1>4, <2>1, <2>2
<1>10. CASE R!SucceedsThenFails(x, i)
  <2>1. /\ stepFaults < MaxStepFaults /\ stepFaults' = stepFaults + 1
        /\ record' = [record EXCEPT ![i] = "succeeded"]
        /\ R!Goes(x, i, "retryable")
    BY <1>10 DEF R!SucceedsThenFails, R!Strikes
  <2>2. PICK t \in Thread :
          /\ thread' = [thread EXCEPT ![x][i] = t]
          /\ t.stage = "retryable"
    BY <2>1, GoesIs DEF R!Stage
  <2>3. "succeeded" \in RowStatus
    BY DEF RowStatus
  <2>4. QED
    BY <1>3, <2>1, <2>2, <2>3
<1>11. QED
  BY <1>5, <1>6, <1>7, <1>8, <1>9, <1>10 DEF R!ExecuteRow

\* An executor begins to work on its list.
LEMMA QueueStep ==
  ASSUME StepIInv, NEW x \in Executors, at[x] = "queueing",
         NEW rows \in SUBSET StepRowsGiven,
         NEW threads \in [StepRowsGiven -> Thread],
         list' = [list EXCEPT ![x] = rows],
         at' = [at EXCEPT ![x] = "working"],
         thread' = [thread EXCEPT ![x] = threads],
         record' \in [StepRowsGiven -> RowStatus],
         UNCHANGED <<kind, step, claim, chunk, stepFaults>>,
         \A i \in StepRowsGiven :
           /\ record[i] = "succeeded" => record'[i] = "succeeded"
           /\ threads[i].stage = "done" => record'[i] = "succeeded",
         (\A i \in StepRowsGiven : record[i] = "absent") =>
           \A i \in rows : Agree(record'[i], threads[i].stage)
  PROVE  StepIInv'
<1>1. /\ list'[x] = rows /\ at'[x] = "working" /\ thread'[x] = threads
      /\ \A y \in Executors : y # x =>
           list'[y] = list[y] /\ at'[y] = at[y] /\ thread'[y] = thread[y]
      /\ chunk[x] = 0
  BY StepTypes DEF StepIInv, BeginFresh
<1>2. R!StepRowsTypeOK'
  <2>1. /\ list' \in [Executors -> SUBSET StepRowsGiven]
        /\ at' \in [Executors -> {"idle", "queueing", "working", "failing", "over"}]
        /\ thread' \in [Executors -> [StepRowsGiven -> Thread]]
    BY StepTypes
  <2>2. QED
    BY <2>1 DEF StepIInv, R!StepRowsTypeOK, RowStatus, Thread
<1>3. DoneSucceeded'
  BY <1>1 DEF StepIInv, DoneSucceeded
<1>4. ChunksSucceeded'
  <2> SUFFICES ASSUME NEW y \in Executors, at'[y] = "working", NEW i \in list'[y],
                      Rank(list'[y], i) \div ChunkSize < chunk[y]
               PROVE  record'[i] = "succeeded"
    BY DEF ChunksSucceeded, Rank, RowsBefore
  <2>1. CASE y = x
    <3>1. i \in rows /\ Rank(rows, i) \div ChunkSize < 0 /\ ChunkSize \in Nat \ {0}
      BY <1>1, <2>1, StepTypes
    <3>2. Rank(rows, i) \in Nat
      BY <3>1, RankType, StepTypes
    <3>3. QED
      BY <3>1, <3>2
  <2>2. CASE y # x
    BY <1>1, <2>2, StepTypes DEF StepIInv, ChunksSucceeded
  <2>3. QED
    BY <2>1, <2>2
<1>5. BeginFresh'
  BY <1>1 DEF StepIInv, BeginFresh
<1>6. NoRecordsYet'
  BY <1>1 DEF NoRecordsYet
<1>7. AloneFits'
  <2> SUFFICES ASSUME stepFaults' = 0, NEW z \in Executors, Alone(z)'
               PROVE  /\ at'[z] = "working" =>
                           \A i \in list'[z] : Agree(record'[i], thread'[z][i].stage)
                      /\ at'[z] # "failing"
    BY DEF AloneFits
  <2>1. z = x /\ \A y \in Executors : y # x => at[y] = "idle"
    BY AloneBefore
  <2>2. \A i \in StepRowsGiven : record[i] = "absent"
    BY <2>1 DEF StepIInv, NoRecordsYet
  <2>3. QED
    BY <1>1, <2>1, <2>2
<1>8. QED
  BY <1>2, <1>3, <1>4, <1>5, <1>6, <1>7 DEF StepIInv, R!StepRowsParameters

\* An executor leaves its rows, or the step.
LEMMA LeaveStep ==
  ASSUME StepIInv, NEW x \in Executors, at[x] # "idle",
         NEW place \in {"failing", "over"},
         at' = [at EXCEPT ![x] = place],
         \/ UNCHANGED <<chunk, thread>>
         \/ /\ chunk' = [chunk EXCEPT ![x] = 0]
            /\ thread' = [thread EXCEPT ![x] = R!Fresh],
         UNCHANGED <<kind, record, list>>,
         R!StepRowsTypeOK',
         stepFaults' = 0 => stepFaults = 0,
         stepFaults' = 0 /\ place = "failing" /\ step' = "running" /\ claim' = x
           /\ list[x] # {} /\ Alone(x) => \E i \in list[x] : record[i] = "failed"
  PROVE  StepIInv'
<1>1. /\ at'[x] = place
      /\ \A y \in Executors : y # x =>
           chunk'[y] = chunk[y] /\ at'[y] = at[y] /\ thread'[y] = thread[y]
      /\ thread'[x] \in {thread[x], R!Fresh}
      /\ \A i \in StepRowsGiven : R!Fresh[i].stage = "start"
  BY StepTypes
<1>2. DoneSucceeded'
  BY <1>1 DEF StepIInv, DoneSucceeded
<1>3. ChunksSucceeded'
  <2> SUFFICES ASSUME NEW y \in Executors, at'[y] = "working", NEW i \in list[y],
                      Rank(list[y], i) \div ChunkSize < chunk'[y]
               PROVE  record[i] = "succeeded"
    BY DEF ChunksSucceeded, Rank, RowsBefore
  <2>1. y # x
    BY <1>1
  <2>2. QED
    BY <1>1, <2>1 DEF StepIInv, ChunksSucceeded
<1>4. BeginFresh'
  BY <1>1 DEF StepIInv, BeginFresh
<1>5. NoRecordsYet'
  BY <1>1 DEF NoRecordsYet
<1>6. AloneFits'
  <2> SUFFICES ASSUME stepFaults' = 0, NEW z \in Executors, Alone(z)'
               PROVE  /\ at'[z] # "working"
                      /\ at'[z] = "failing" /\ step' = "running" /\ claim' = z
                           /\ list[z] # {} => \E i \in list[z] : record[i] = "failed"
    BY DEF AloneFits
  <2>1. z = x /\ Alone(x)
    BY <1>1, AloneBefore
  <2>2. QED
    BY <1>1, <2>1
<1>7. QED
  BY <1>2, <1>3, <1>4, <1>5, <1>6 DEF StepIInv, R!StepRowsParameters

\* An executor leaves its chunk: for the next one, or at a rejection.
LEMMA NextChunkStep ==
  ASSUME StepIInv, NEW x \in Executors, R!NextChunk(x)
  PROVE  StepIInv'
<1>1. /\ at[x] = "working" /\ R!Chunk(x) \subseteq list[x]
      /\ list[x] \subseteq StepRowsGiven
      /\ \A i \in R!Chunk(x) : thread[x][i].stage \in {"done", "rejected"}
      /\ UNCHANGED <<kind, step, claim, record, list, stepFaults>>
  BY ChunkIs, StepTypes DEF R!NextChunk, R!Settled, R!ledger
<1>2. CASE R!Rejected(x)
  <2>1. /\ at' = [at EXCEPT ![x] = "failing"]
        /\ chunk' = [chunk EXCEPT ![x] = 0]
        /\ thread' = [thread EXCEPT ![x] = R!Fresh]
    BY <1>2 DEF R!NextChunk, R!Leaves
  <2>2. R!StepRowsTypeOK'
    <3>1. /\ at' \in [Executors -> {"idle", "queueing", "working", "failing", "over"}]
          /\ chunk' \in [Executors -> Nat]
          /\ thread' \in [Executors -> [StepRowsGiven -> Thread]]
      BY <2>1, StepTypes
    <3>2. QED
      BY <1>1, <3>1 DEF StepIInv, R!StepRowsTypeOK, RowStatus, Thread
  <2>3. ASSUME stepFaults = 0, Alone(x) PROVE \E i \in list[x] : record[i] = "failed"
    <3>1. PICK i \in R!Chunk(x) : thread[x][i].stage = "rejected"
      BY <1>2 DEF R!Rejected
    <3>2. i \in list[x] /\ Agree(record[i], "rejected")
      BY <1>1, <2>3, <3>1 DEF StepIInv, AloneFits
    <3>3. QED
      BY <3>2 DEF Agree
  <2>4. QED
    BY <1>1, <2>1, <2>2, <2>3, LeaveStep
<1>3. CASE ~R!Rejected(x)
  <2>1. /\ chunk' = [chunk EXCEPT ![x] = @ + 1]
        /\ UNCHANGED <<at, thread>>
        /\ \A i \in R!Chunk(x) : record[i] = "succeeded"
    BY <1>1, <1>3 DEF R!NextChunk, R!Rejected, StepIInv, DoneSucceeded
  <2>2. R!StepRowsTypeOK'
    <3>1. chunk' \in [Executors -> Nat]
      BY <2>1, StepTypes
    <3>2. QED
      BY <1>1, <2>1, <3>1 DEF StepIInv, R!StepRowsTypeOK
  <2>3. ChunksSucceeded'
    <3> SUFFICES ASSUME NEW y \in Executors, at[y] = "working", NEW i \in list[y],
                        Rank(list[y], i) \div ChunkSize < chunk'[y]
                 PROVE  record[i] = "succeeded"
      BY <1>1, <2>1 DEF ChunksSucceeded, Rank, RowsBefore
    <3>1. CASE Rank(list[y], i) \div ChunkSize < chunk[y]
      BY <3>1 DEF StepIInv, ChunksSucceeded
    <3>2. CASE ~(Rank(list[y], i) \div ChunkSize < chunk[y])
      <4>1. y = x /\ chunk'[x] = chunk[x] + 1 /\ chunk[x] \in Nat
        BY <2>1, <3>2, StepTypes
      <4>2. Rank(list[x], i) \in Nat /\ ChunkSize \in Nat \ {0}
        BY <4>1, RankType, StepTypes
      <4>3. \A r, c \in Nat, s \in Nat \ {0} :
              r \div s < c + 1 /\ ~(r \div s < c) => r \div s = c
        OBVIOUS
      <4>4. Rank(list[x], i) \div ChunkSize = chunk[x]
        BY <3>2, <4>1, <4>2, <4>3
      <4>5. i \in R!Chunk(x)
        BY <4>1, <4>4, ChunkIs
      <4>6. QED
        BY <2>1, <4>5
    <3>3. QED
      BY <3>1, <3>2
  <2>4. /\ DoneSucceeded' /\ NoRecordsYet' /\ AloneFits'
    BY <1>1, <2>1
       DEF StepIInv, DoneSucceeded, NoRecordsYet, AloneFits, Alone
  <2>5. BeginFresh'
    <3>1. \A y \in Executors : y # x => chunk'[y] = chunk[y]
      BY <2>1, StepTypes
    <3>2. QED
      BY <1>1, <2>1, <3>1 DEF StepIInv, BeginFresh
  <2>6. QED
    BY <2>2, <2>3, <2>4, <2>5 DEF StepIInv, R!StepRowsParameters
<1>4. QED
  BY <1>2, <1>3

\* Every step of the rows of a step keeps the invariant.
LEMMA StepIInvKept ==
  ASSUME StepIInv, R!StepRowsNext
  PROVE  StepIInv'
<1>1. ASSUME UNCHANGED <<record, at, list, chunk, thread, stepFaults>>,
             step' # "running", R!StepRowsTypeOK'
      PROVE  StepIInv'
  <2>1. DoneSucceeded' /\ ChunksSucceeded' /\ BeginFresh' /\ NoRecordsYet'
    BY <1>1 DEF StepIInv, DoneSucceeded, ChunksSucceeded, Rank, RowsBefore,
                BeginFresh, NoRecordsYet
  <2>2. AloneFits'
    BY <1>1 DEF StepIInv, AloneFits, Alone
  <2>3. QED
    BY <1>1, <2>1, <2>2 DEF StepIInv, R!StepRowsParameters
<1>2. ASSUME R!CancelStep PROVE StepIInv'
  <2>1. /\ UNCHANGED <<kind, record, at, list, chunk, thread, stepFaults>>
        /\ step' = "cancelled" /\ claim' = NoExecutor
    BY <1>2 DEF R!CancelStep, R!executor
  <2>2. R!StepRowsTypeOK'
    BY <2>1 DEF StepIInv, R!StepRowsTypeOK
  <2>3. QED
    BY <1>1, <2>1, <2>2
<1>3. ASSUME NEW x \in Executors, R!Take(x) PROVE StepIInv'
  <2>1. /\ at[x] = "idle" /\ at' = [at EXCEPT ![x] = "queueing"]
        /\ claim' = x /\ step' = "running"
        /\ UNCHANGED <<kind, record, list, chunk, thread, stepFaults>>
    BY <1>3 DEF R!Take
  <2>2. /\ at'[x] = "queueing"
        /\ \A y \in Executors : y # x => at'[y] = at[y]
        /\ at' \in [Executors -> {"idle", "queueing", "working", "failing", "over"}]
    BY <2>1, StepTypes
  <2>3. R!StepRowsTypeOK'
    BY <2>1, <2>2 DEF StepIInv, R!StepRowsTypeOK
  <2>4. DoneSucceeded' /\ ChunksSucceeded'
    BY <2>1, <2>2 DEF StepIInv, DoneSucceeded, ChunksSucceeded, Rank, RowsBefore
  <2>5. BeginFresh' /\ NoRecordsYet'
    <3>1. \A y \in Executors : at'[y] \in {"idle", "queueing"} =>
            at[y] \in {"idle", "queueing"}
      BY <2>1, <2>2
    <3>2. QED
      BY <2>1, <3>1 DEF StepIInv, BeginFresh, NoRecordsYet
  <2>6. AloneFits'
    <3> SUFFICES ASSUME NEW z \in Executors, Alone(z)'
                 PROVE  at'[z] \notin {"working", "failing"}
      BY DEF AloneFits
    <3>1. z = x
      BY <2>2 DEF Alone
    <3>2. QED
      BY <2>2, <3>1
  <2>7. QED
    BY <2>3, <2>4, <2>5, <2>6 DEF StepIInv, R!StepRowsParameters
<1>4. ASSUME NEW x \in Executors, NEW selected \in SUBSET StepRowsGiven,
             R!QueueCellRuns(x, selected)
      PROVE  StepIInv'
  <2> DEFINE existing == {i \in StepRowsGiven : record[i] # "absent"}
  <2>1. /\ at[x] = "queueing" /\ selected \intersect existing = {}
        /\ list' = [list EXCEPT ![x] = existing \union selected]
        /\ at' = [at EXCEPT ![x] = "working"]
        /\ record' = [i \in StepRowsGiven |->
             IF i \in selected THEN "queued" ELSE record[i]]
        /\ UNCHANGED <<kind, step, claim, chunk, thread, stepFaults>>
    BY <1>4 DEF R!QueueCellRuns, R!Begins, R!ledger
  <2>2. thread[x] = R!Fresh /\ thread' = [thread EXCEPT ![x] = R!Fresh]
    BY <2>1, StepTypes DEF StepIInv, BeginFresh
  <2>3. /\ record' \in [StepRowsGiven -> RowStatus]
        /\ \A i \in StepRowsGiven :
             /\ record[i] = "succeeded" => record'[i] = "succeeded"
             /\ i \in selected => record'[i] = "queued"
    BY <2>1, StepTypes DEF RowStatus
  <2>4. (\A i \in StepRowsGiven : record[i] = "absent") =>
          \A i \in existing \union selected : Agree(record'[i], R!Fresh[i].stage)
    BY <2>3, StepTypes DEF Agree
  <2>5. existing \union selected \in SUBSET StepRowsGiven
    OBVIOUS
  <2> HIDE DEF existing
  <2>6. PICK rows \in SUBSET StepRowsGiven : rows = existing \union selected
    BY <2>5
  <2>7. QED
    BY <2>1, <2>2, <2>3, <2>4, <2>6, QueueStep, StepTypes
<1>5. ASSUME NEW x \in Executors, R!QueueDeliveries(x) PROVE StepIInv'
  <2>1. /\ at[x] = "queueing"
        /\ list' = [list EXCEPT ![x] = StepRowsGiven]
        /\ at' = [at EXCEPT ![x] = "working"]
        /\ record' = [i \in StepRowsGiven |->
             IF record[i] = "absent" THEN "queued" ELSE record[i]]
        /\ UNCHANGED <<kind, step, claim, chunk, thread, stepFaults>>
    BY <1>5 DEF R!QueueDeliveries, R!Begins, R!ledger
  <2>2. thread[x] = R!Fresh /\ thread' = [thread EXCEPT ![x] = R!Fresh]
    BY <2>1, StepTypes DEF StepIInv, BeginFresh
  <2>3. /\ record' \in [StepRowsGiven -> RowStatus]
        /\ \A i \in StepRowsGiven :
             /\ record[i] = "succeeded" => record'[i] = "succeeded"
             /\ record[i] = "absent" => record'[i] = "queued"
    BY <2>1, StepTypes DEF RowStatus
  <2>4. (\A i \in StepRowsGiven : record[i] = "absent") =>
          \A i \in StepRowsGiven : Agree(record'[i], R!Fresh[i].stage)
    BY <2>3, StepTypes DEF Agree
  <2>5. QED
    BY <2>1, <2>2, <2>3, <2>4, QueueStep, StepTypes
<1>6. ASSUME NEW x \in Executors, R!WriteRows(x) PROVE StepIInv'
  <2> DEFINE threads == [i \in StepRowsGiven |-> [stage |-> "done", retries |-> 0]]
  <2>1. /\ at[x] = "queueing"
        /\ list' = [list EXCEPT ![x] = StepRowsGiven]
        /\ at' = [at EXCEPT ![x] = "working"]
        /\ record' = [i \in StepRowsGiven |-> "succeeded"]
        /\ thread' = [thread EXCEPT ![x] = threads]
        /\ UNCHANGED <<kind, step, claim, chunk, stepFaults>>
    BY <1>6 DEF R!WriteRows, R!Begins, R!ledger
  <2>2. /\ threads \in [StepRowsGiven -> Thread]
        /\ \A i \in StepRowsGiven : threads[i].stage = "done"
    BY StepTypes DEF Thread, R!Stage
  <2> HIDE DEF threads
  <2>3. /\ record' \in [StepRowsGiven -> RowStatus]
        /\ \A i \in StepRowsGiven : record'[i] = "succeeded"
    BY <2>1 DEF RowStatus
  <2>4. \A i \in StepRowsGiven : Agree(record'[i], threads[i].stage)
    BY <2>2, <2>3 DEF Agree
  <2>5. QED
    BY <2>1, <2>2, <2>3, <2>4, QueueStep
<1>7. ASSUME NEW x \in Executors, R!Refuse(x) PROVE StepIInv'
  <2>1. /\ at[x] = "queueing" /\ at' = [at EXCEPT ![x] = "failing"]
        /\ UNCHANGED <<kind, step, claim, record, list, chunk, thread, stepFaults>>
    BY <1>7 DEF R!Refuse, R!ledger
  <2>2. list[x] = {}
    BY <2>1 DEF StepIInv, BeginFresh
  <2>3. R!StepRowsTypeOK'
    <3>1. at' \in [Executors -> {"idle", "queueing", "working", "failing", "over"}]
      BY <2>1, StepTypes
    <3>2. QED
      BY <2>1, <3>1 DEF StepIInv, R!StepRowsTypeOK
  <2>4. QED
    BY <2>1, <2>2, <2>3, LeaveStep
<1>8. ASSUME NEW x \in Executors, NEW i \in StepRowsGiven, R!ExecuteRow(x, i)
      PROVE  StepIInv'
  BY <1>8, ExecuteRowStep
<1>9. ASSUME NEW x \in Executors, R!NextChunk(x) PROVE StepIInv'
  BY <1>9, NextChunkStep
<1>10. ASSUME NEW x \in Executors, NEW place \in {"failing", "over"}, at[x] # "idle",
              R!Leaves(x, place), UNCHANGED <<kind, record, list>>,
              step' \in {"ready", "running", "succeeded", "failed", "cancelled"},
              claim' \in Executors \union {NoExecutor},
              stepFaults' \in 0 .. MaxStepFaults,
              stepFaults' = 0 => stepFaults = 0,
              stepFaults' = 0 =>
                ~(place = "failing" /\ step' = "running" /\ claim' = x)
       PROVE  StepIInv'
  <2>1. /\ at' = [at EXCEPT ![x] = place]
        /\ chunk' = [chunk EXCEPT ![x] = 0]
        /\ thread' = [thread EXCEPT ![x] = R!Fresh]
    BY <1>10 DEF R!Leaves
  <2>2. R!StepRowsTypeOK'
    <3>1. /\ at' \in [Executors -> {"idle", "queueing", "working", "failing", "over"}]
          /\ chunk' \in [Executors -> Nat]
          /\ thread' \in [Executors -> [StepRowsGiven -> Thread]]
      BY <2>1, StepTypes
    <3>2. QED
      BY <1>10, <3>1 DEF StepIInv, R!StepRowsTypeOK, RowStatus, Thread
  <2>3. QED
    BY <1>10, <2>1, <2>2, LeaveStep
<1>11. ASSUME NEW x \in Executors, R!Complete(x) PROVE StepIInv'
  <2>1. /\ at[x] = "working" /\ UNCHANGED <<kind, record, list, stepFaults>>
        /\ \/ /\ step' = "succeeded" /\ claim' = NoExecutor
              /\ R!Leaves(x, "over")
           \/ /\ ~(step = "running" /\ claim = x) /\ step' = step /\ claim' = claim
              /\ R!Leaves(x, "failing")
    BY <1>11 DEF R!Complete, R!ledger
  <2>2. /\ step' \in {"ready", "running", "succeeded", "failed", "cancelled"}
        /\ claim' \in Executors \union {NoExecutor}
        /\ stepFaults' \in 0 .. MaxStepFaults
    BY <2>1 DEF StepIInv, R!StepRowsTypeOK
  <2>3. QED
    BY <1>10, <2>1, <2>2
<1>12. ASSUME NEW x \in Executors, R!FailStep(x) PROVE StepIInv'
  <2>1. /\ at[x] = "failing" /\ at' = [at EXCEPT ![x] = "over"]
        /\ UNCHANGED <<kind, record, list, chunk, thread, stepFaults>>
        /\ \/ step' = "failed" /\ claim' = NoExecutor
           \/ step' = step /\ claim' = claim
    BY <1>12 DEF R!FailStep, R!ledger
  <2>2. R!StepRowsTypeOK'
    <3>1. at' \in [Executors -> {"idle", "queueing", "working", "failing", "over"}]
      BY <2>1, StepTypes
    <3>2. QED
      BY <2>1, <3>1 DEF StepIInv, R!StepRowsTypeOK
  <2>3. QED
    BY <2>1, <2>2, LeaveStep
<1>13. ASSUME NEW x \in Executors, NEW place \in {"failing", "over"}, at[x] # "idle",
              R!Strikes, R!Leaves(x, place), UNCHANGED <<kind, step, claim, record, list>>
       PROVE  StepIInv'
  <2>1. /\ step' \in {"ready", "running", "succeeded", "failed", "cancelled"}
        /\ claim' \in Executors \union {NoExecutor}
        /\ stepFaults' \in 0 .. MaxStepFaults /\ stepFaults' # 0
    BY <1>13 DEF StepIInv, R!StepRowsTypeOK, R!StepRowsParameters, R!Strikes
  <2>2. QED
    BY <1>10, <1>13, <2>1
<1>14. ASSUME NEW x \in Executors, R!StepStatementFails(x) PROVE StepIInv'
  <2>1. /\ at[x] # "idle" /\ R!Strikes
        /\ R!Leaves(x, IF at[x] = "failing" THEN "over" ELSE "failing")
        /\ UNCHANGED <<kind, step, claim, record, list>>
    BY <1>14 DEF R!StepStatementFails, R!ledger
  <2>2. QED
    BY <1>13, <2>1
<1>15. ASSUME NEW x \in Executors, R!Dies(x) PROVE StepIInv'
  <2>1. /\ at[x] # "idle" /\ R!Strikes /\ R!Leaves(x, "over")
        /\ UNCHANGED <<kind, step, claim, record, list>>
    BY <1>15 DEF R!Dies, R!ledger
  <2>2. QED
    BY <1>13, <2>1
<1>16. QED
  BY <1>2, <1>3, <1>4, <1>5, <1>6, <1>7, <1>8, <1>9, <1>11, <1>12, <1>14, <1>15
     DEF R!StepRowsNext

\* The invariant of the rows of a step holds.
LEMMA StepIInvHolds ==
  R!StepRowsParameters /\ R!StepRowsSpec => []StepIInv
<1>1. R!StepRowsParameters /\ R!StepRowsInit => StepIInv
  <2> SUFFICES ASSUME R!StepRowsParameters, R!StepRowsInit PROVE StepIInv
    OBVIOUS
  <2>1. /\ ItemRetries \in Nat /\ MaxStepFaults \in Nat
        /\ \A i \in StepRowsGiven : record[i] = "absent" /\ R!Fresh[i].stage = "start"
        /\ \A x \in Executors :
             at[x] = "idle" /\ list[x] = {} /\ chunk[x] = 0 /\ thread[x] = R!Fresh
    BY DEF R!StepRowsInit, R!StepRowsParameters, R!Fresh
  <2>2. R!Fresh \in [StepRowsGiven -> Thread]
    BY <2>1 DEF R!Fresh, Thread, R!Stage
  <2>3. R!StepRowsTypeOK
    BY <2>1, <2>2 DEF R!StepRowsInit, R!StepRowsTypeOK, Thread
  <2>4. QED
    BY <2>1, <2>3 DEF StepIInv, DoneSucceeded, ChunksSucceeded, BeginFresh,
                      NoRecordsYet, AloneFits
<1>2. StepIInv /\ [R!StepRowsNext]_(R!stepRowsVars) => StepIInv'
  <2> SUFFICES ASSUME StepIInv, UNCHANGED R!stepRowsVars PROVE StepIInv'
    BY StepIInvKept
  <2>1. UNCHANGED <<kind, step, claim, record, at, list, chunk, thread, stepFaults>>
    BY DEF R!stepRowsVars, R!ledger, R!executor
  <2>2. R!StepRowsTypeOK'
    BY <2>1 DEF StepIInv, R!StepRowsTypeOK
  <2>3. /\ DoneSucceeded' /\ ChunksSucceeded' /\ BeginFresh' /\ NoRecordsYet'
        /\ AloneFits'
    BY <2>1 DEF StepIInv, DoneSucceeded, ChunksSucceeded, Rank, RowsBefore,
                BeginFresh, NoRecordsYet, AloneFits, Alone
  <2>4. QED
    BY <2>2, <2>3 DEF StepIInv, R!StepRowsParameters
<1>3. QED
  BY <1>1, <1>2, PTL DEF R!StepRowsSpec

\* An executor that completes the step has left only successes behind, and one
\* that fails it, undisturbed, a failure.
THEOREM StepsEndAsTheirRows ==
  R!StepRowsParameters /\ R!StepRowsSpec => R!StepEndsAsItsRows
<1> DEFINE ends == (step = "running" /\ step' \in {"succeeded", "failed"}) =>
       IF step' = "succeeded"
         THEN \A i \in list[claim] : record[i] = "succeeded"
         ELSE (R!Undisturbed /\ list[claim] # {}) =>
                \E i \in list[claim] : record[i] = "failed"
<1>1. StepIInv /\ [R!StepRowsNext]_(R!stepRowsVars) => [ends]_(R!stepRowsVars)
  <2> SUFFICES ASSUME StepIInv, R!StepRowsNext,
                      step = "running", step' \in {"succeeded", "failed"}
               PROVE  IF step' = "succeeded"
                        THEN \A i \in list[claim] : record[i] = "succeeded"
                        ELSE (R!Undisturbed /\ list[claim] # {}) =>
                               \E i \in list[claim] : record[i] = "failed"
    OBVIOUS
  <2>1. PICK x \in Executors : R!Complete(x) \/ R!FailStep(x)
    <3>1. ~R!CancelStep
      BY DEF R!CancelStep
    <3>2. ASSUME NEW x \in Executors PROVE ~R!Take(x)
      BY DEF R!Take
    <3>3. ASSUME NEW x \in Executors, NEW selected \in SUBSET StepRowsGiven
          PROVE  ~R!QueueCellRuns(x, selected)
      BY DEF R!QueueCellRuns, R!ledger
    <3>4. ASSUME NEW x \in Executors
          PROVE  ~R!QueueDeliveries(x) /\ ~R!WriteRows(x) /\ ~R!Refuse(x)
      BY DEF R!QueueDeliveries, R!WriteRows, R!Refuse, R!ledger
    <3>5. ASSUME NEW x \in Executors, NEW i \in StepRowsGiven
          PROVE  ~R!ExecuteRow(x, i)
      BY DEF R!ExecuteRow, R!Start, R!Call, R!Record, R!Fail, R!StatementFails,
             R!SucceedsThenFails, R!ledger
    <3>6. ASSUME NEW x \in Executors
          PROVE  ~R!NextChunk(x) /\ ~R!StepStatementFails(x) /\ ~R!Dies(x)
      BY DEF R!NextChunk, R!StepStatementFails, R!Dies, R!ledger
    <3>7. QED
      BY <3>1, <3>2, <3>3, <3>4, <3>5, <3>6 DEF R!StepRowsNext
  <2>2. CASE R!Complete(x)
    <3>1. /\ at[x] = "working" /\ R!Chunk(x) = {}
          /\ claim = x /\ step' = "succeeded"
      BY <2>2 DEF R!Complete, R!ledger
    <3>2. QED
      BY <3>1, NoChunkLeft
  <2>3. CASE R!FailStep(x)
    <3>1. at[x] = "failing" /\ claim = x /\ step' = "failed"
      BY <2>3 DEF R!FailStep, R!ledger
    <3>2. ASSUME R!Undisturbed, list[x] # {}
          PROVE  \E i \in list[x] : record[i] = "failed"
      <4>1. stepFaults = 0 /\ Alone(x)
        BY <3>1, <3>2 DEF R!Undisturbed, Alone
      <4>2. QED
        BY <3>1, <3>2, <4>1 DEF StepIInv, AloneFits
    <3>3. QED
      BY <3>1, <3>2
  <2>4. QED
    BY <2>1, <2>2, <2>3
<1>2. QED
  BY <1>1, StepIInvHolds, PTL DEF R!StepRowsSpec, R!StepEndsAsItsRows

-----------------------------------------------------------------------------
(* The drafts of a workflow.                                               *)

\* What the server has and what it has told the pages.
Told == {workflow} \union {known[p] : p \in Pages} \union {t.answer : t \in tasks}

\* A task names the draft that its answer shows: before the save the one that
\* is replaced, after it the one that was submitted.
TaskFits(t) ==
  /\ t.phase = "save" => t.answer.revision = t.expected /\ t.answer.draft = t.base
  /\ t.phase = "saved" => t.answer.draft = t.content
  /\ t.phase = "publish" =>
       t.answer.revision = t.expected /\ t.answer.draft = t.content

\* A revision has one draft, whoever was told of it.
RevisionsAgree ==
  \A a, b \in Told :
    /\ a.revision <= workflow.revision
    /\ a.revision = b.revision => a.draft = b.draft

\* The drafts' inductive invariant.
DraftsIInv ==
  /\ D!WorkflowDraftsParameters /\ D!WorkflowDraftsTypeOK
  /\ RevisionsAgree
  /\ \A p \in Pages : canvas[p].base = known[p].draft
  /\ \A t \in tasks : TaskFits(t)

\* Nothing that was told is forgotten for a draft of another kind.
LEMMA ToldTypes ==
  ASSUME DraftsIInv
  PROVE  /\ \A a \in Told : a \in D!Draft
         /\ \A t \in tasks : t \in D!Task /\ t.answer \in D!Draft
         /\ workflow \in D!Draft /\ workflow.revision \in Nat
         /\ known \in [Pages -> D!Draft]
         /\ canvas \in [Pages -> [content : D!Content, base : D!Content]]
         /\ busy \in [Pages -> BOOLEAN]
BY DEF DraftsIInv, D!WorkflowDraftsTypeOK, Told, D!Task, D!Draft

\* A step that changes no draft: pages and tasks know what was told before.
LEMMA ReadSteps ==
  ASSUME DraftsIInv, workflow' = workflow, version' = version,
         known' \in [Pages -> D!Draft],
         canvas' \in [Pages -> [content : D!Content, base : D!Content]],
         busy' \in [Pages -> BOOLEAN], edits' \in D!Content,
         \A p \in Pages : known'[p] \in Told /\ canvas'[p].base = known'[p].draft,
         \A t \in tasks' : t \in D!Task /\ t.answer \in Told /\ TaskFits(t)
  PROVE  DraftsIInv'
<1>1. \A a \in Told' : a \in Told
  BY DEF Told
<1>2. RevisionsAgree'
  BY <1>1 DEF DraftsIInv, RevisionsAgree
<1>3. D!WorkflowDraftsTypeOK'
  BY DEF DraftsIInv, D!WorkflowDraftsTypeOK
<1>4. \A t \in tasks' : TaskFits(t)
  OBVIOUS
<1>5. QED
  BY <1>2, <1>3, <1>4 DEF DraftsIInv, D!WorkflowDraftsParameters, TaskFits

\* A task of which only changes who waits for it.
LEMMA WaitsFor ==
  ASSUME DraftsIInv, NEW t \in D!Task, t.answer \in Told, TaskFits(t),
         NEW waiting \in {"editor", "page", "nobody"}
  PROVE  /\ [t EXCEPT !.waits = waiting] \in D!Task
         /\ [t EXCEPT !.waits = waiting].answer \in Told
         /\ TaskFits([t EXCEPT !.waits = waiting])
<1> DEFINE u == [t EXCEPT !.waits = waiting]
<1>1. /\ u \in D!Task /\ u.phase = t.phase /\ u.answer = t.answer
      /\ u.expected = t.expected /\ u.base = t.base /\ u.content = t.content
  BY DEF D!Task
<1> HIDE DEF u
<1>2. QED
  BY <1>1 DEF TaskFits, u

\* A page turns to what it was told, and its editor is mounted on it.
LEMMA MountSteps ==
  ASSUME DraftsIInv, UNCHANGED <<workflow, version, edits>>,
         NEW p \in Pages, NEW answer \in Told, NEW rest,
         \A t \in rest : t \in D!Task /\ t.answer \in Told /\ TaskFits(t),
         known' = [known EXCEPT ![p] = answer],
         D!Mounts(p, answer, rest)
  PROVE  DraftsIInv'
<1>1. /\ answer \in D!Draft /\ answer.draft \in D!Content
      /\ canvas' = [canvas EXCEPT ![p] =
           [content |-> answer.draft, base |-> answer.draft]]
      /\ busy' = [busy EXCEPT ![p] = FALSE]
      /\ tasks' = {IF t.page = p /\ t.waits = "editor"
                     THEN [t EXCEPT !.waits = "page"] ELSE t : t \in rest}
  BY ToldTypes DEF D!Mounts, D!Draft
<1>2. /\ known' \in [Pages -> D!Draft]
      /\ canvas' \in [Pages -> [content : D!Content, base : D!Content]]
      /\ busy' \in [Pages -> BOOLEAN]
  BY <1>1, ToldTypes
<1>3. \A s \in Pages : known'[s] \in Told /\ canvas'[s].base = known'[s].draft
  <2>1. known'[p] = answer /\ canvas'[p].base = answer.draft
    BY <1>1, ToldTypes
  <2>2. \A s \in Pages : s # p => known'[s] = known[s] /\ canvas'[s] = canvas[s]
    BY <1>1, ToldTypes
  <2>3. QED
    BY <2>1, <2>2 DEF DraftsIInv, Told
<1>4. \A t \in tasks' : t \in D!Task /\ t.answer \in Told /\ TaskFits(t)
  <2> SUFFICES ASSUME NEW t \in rest
               PROVE  /\ t \in D!Task /\ t.answer \in Told /\ TaskFits(t)
                      /\ [t EXCEPT !.waits = "page"] \in D!Task
                      /\ [t EXCEPT !.waits = "page"].answer \in Told
                      /\ TaskFits([t EXCEPT !.waits = "page"])
    BY <1>1
  <2>1. QED
    BY WaitsFor
<1>5. edits' \in D!Content
  BY DEF DraftsIInv, D!WorkflowDraftsTypeOK
<1>6. QED
  BY <1>2, <1>3, <1>4, <1>5, ReadSteps

\* A page takes over an answer.
LEMMA ReplaceSteps ==
  ASSUME DraftsIInv, UNCHANGED <<workflow, version, edits>>,
         NEW t \in tasks, NEW rest, NEW ends \in BOOLEAN,
         \A u \in rest : u \in D!Task /\ u.answer \in Told /\ TaskFits(u),
         D!Replaces(t, rest, ends)
  PROVE  DraftsIInv'
<1>1. /\ t.page \in Pages /\ t.answer \in Told /\ t.answer \in D!Draft
      /\ known' = [known EXCEPT ![t.page] = t.answer]
  BY ToldTypes DEF D!Replaces, D!Task, Told
<1>2. PICK p \in Pages, answer \in Told : p = t.page /\ answer = t.answer
  BY <1>1
<1>3. CASE answer.revision # known[p].revision
  <2>1. D!Mounts(p, answer, rest) /\ known' = [known EXCEPT ![p] = answer]
    BY <1>1, <1>2, <1>3 DEF D!Replaces
  <2>2. QED
    BY <2>1, MountSteps
<1>4. CASE answer.revision = known[p].revision
  <2>1. /\ tasks' = rest /\ canvas' = canvas
        /\ known' = [known EXCEPT ![p] = answer]
        /\ busy' = [busy EXCEPT ![p] = @ /\ ~(ends /\ t.waits = "editor")]
    BY <1>1, <1>2, <1>4 DEF D!Replaces
  <2>2. /\ known' \in [Pages -> D!Draft] /\ known'[p] = answer
        /\ busy' \in [Pages -> BOOLEAN]
        /\ \A s \in Pages : s # p => known'[s] = known[s]
    BY <1>1, <1>2, <2>1, ToldTypes
  <2>3. answer.draft = known[p].draft
    BY <1>4 DEF DraftsIInv, RevisionsAgree, Told
  <2>4. \A s \in Pages : known'[s] \in Told /\ canvas'[s].base = known'[s].draft
    BY <2>1, <2>2, <2>3 DEF DraftsIInv, Told
  <2>5. /\ canvas' \in [Pages -> [content : D!Content, base : D!Content]]
        /\ edits' \in D!Content
    BY <2>1, ToldTypes DEF DraftsIInv, D!WorkflowDraftsTypeOK
  <2>6. QED
    BY <2>1, <2>2, <2>4, <2>5, ReadSteps
<1>5. QED
  BY <1>3, <1>4

\* The server saves a draft, or refuses it.
LEMMA SaveDraftStep ==
  ASSUME DraftsIInv, NEW t \in tasks, D!SaveDraft(t)
  PROVE  DraftsIInv'
<1>1. /\ t \in D!Task /\ t.answer \in Told /\ TaskFits(t) /\ t.phase = "save"
      /\ UNCHANGED <<version, known, canvas, busy, edits>>
      /\ workflow \in D!Draft /\ workflow.revision \in Nat /\ t.content \in D!Content
  BY ToldTypes DEF D!SaveDraft, DraftsIInv, Told, D!Task
<1>2. CASE D!Current(t)
  <2>1. workflow' = [draft |-> t.content, revision |-> workflow.revision + 1]
    BY <1>2 DEF D!SaveDraft
  <2>2. /\ workflow' \in D!Draft /\ workflow'.revision = workflow.revision + 1
        /\ workflow'.draft = t.content
    BY <1>1, <2>1 DEF D!Draft
  <2> DEFINE after == [t EXCEPT !.phase = "saved", !.answer = workflow']
  <2>3. \A u \in tasks' : u \in tasks \/ u = after
    BY <1>2 DEF D!SaveDraft, D!Becomes
  <2>4. /\ after \in D!Task /\ after.phase = "saved" /\ after.answer = workflow'
        /\ after.content = t.content
    BY <1>1, <2>2 DEF D!Task, D!Phase
  <2> HIDE DEF after
  <2>5. TaskFits(after)
    BY <2>2, <2>4 DEF TaskFits
  <2>6. \A a \in Told' : a = workflow' \/ a \in Told
    BY <1>1, <2>3, <2>4 DEF Told
  <2>7. RevisionsAgree'
    <3>1. \A a \in Told : a.revision \in Nat /\ a.revision <= workflow.revision
      BY ToldTypes DEF DraftsIInv, RevisionsAgree, D!Draft
    <3>2. \A a \in Told : a.revision <= workflow'.revision /\ a.revision # workflow'.revision
      BY <1>1, <2>2, <3>1
    <3>3. workflow'.revision <= workflow'.revision
      BY <1>1, <2>2
    <3>4. QED
      BY <2>6, <3>2, <3>3 DEF DraftsIInv, RevisionsAgree
  <2>8. D!WorkflowDraftsTypeOK'
    BY <1>1, <2>2, <2>3, <2>4 DEF DraftsIInv, D!WorkflowDraftsTypeOK
  <2>9. \A u \in tasks' : TaskFits(u)
    BY <2>3, <2>5 DEF DraftsIInv
  <2>10. QED
    BY <1>1, <2>7, <2>8, <2>9 DEF DraftsIInv, D!WorkflowDraftsParameters, TaskFits
<1>3. CASE ~D!Current(t)
  <2> DEFINE refused == [t EXCEPT !.phase = "refused"]
  <2>1. workflow' = workflow /\ \A u \in tasks' : u \in tasks \/ u = refused
    BY <1>3 DEF D!SaveDraft, D!Becomes
  <2>2. /\ refused \in D!Task /\ refused.phase = "refused"
        /\ refused.answer = t.answer
    BY <1>1 DEF D!Task, D!Phase
  <2> HIDE DEF refused
  <2>3. \A u \in tasks' : u \in D!Task /\ u.answer \in Told /\ TaskFits(u)
    BY <1>1, <2>1, <2>2, ToldTypes DEF TaskFits, Told, DraftsIInv
  <2>4. \A p \in Pages : known'[p] \in Told /\ canvas'[p].base = known'[p].draft
    BY <1>1 DEF DraftsIInv, Told
  <2>5. QED
    BY <1>1, <2>1, <2>3, <2>4, ReadSteps, ToldTypes DEF DraftsIInv, D!WorkflowDraftsTypeOK
<1>4. QED
  BY <1>2, <1>3

\* The server publishes a draft, or refuses to.
LEMMA PublishDraftStep ==
  ASSUME DraftsIInv, NEW t \in tasks, D!PublishDraft(t)
  PROVE  DraftsIInv'
<1>1. /\ t \in D!Task /\ t.answer \in Told /\ TaskFits(t) /\ t.phase = "publish"
      /\ UNCHANGED <<workflow, known, canvas, busy, edits>>
      /\ workflow \in D!Draft
  BY ToldTypes DEF D!PublishDraft, DraftsIInv, Told
<1>2. \A u \in tasks' : \/ u \in tasks
                        \/ u = [t EXCEPT !.phase = "refused"]
                        \/ u = [t EXCEPT !.phase = "published", !.answer = workflow]
  BY DEF D!PublishDraft, D!Becomes
<1>3. /\ [t EXCEPT !.phase = "refused"] \in D!Task
      /\ [t EXCEPT !.phase = "refused"].phase = "refused"
      /\ [t EXCEPT !.phase = "refused"].answer = t.answer
  BY <1>1 DEF D!Task, D!Phase
<1>4. /\ [t EXCEPT !.phase = "published", !.answer = workflow] \in D!Task
      /\ [t EXCEPT !.phase = "published", !.answer = workflow].phase = "published"
      /\ [t EXCEPT !.phase = "published", !.answer = workflow].answer = workflow
  BY <1>1 DEF D!Task, D!Phase
<1>5. \A u \in tasks' : u \in D!Task /\ u.answer \in Told /\ TaskFits(u)
  <2> SUFFICES ASSUME NEW u \in tasks'
               PROVE  u \in D!Task /\ u.answer \in Told /\ TaskFits(u)
    OBVIOUS
  <2>1. CASE u \in tasks
    BY <2>1, ToldTypes DEF DraftsIInv, Told
  <2>2. CASE u = [t EXCEPT !.phase = "refused"]
    BY <1>1, <1>3, <2>2 DEF TaskFits
  <2>3. CASE u = [t EXCEPT !.phase = "published", !.answer = workflow]
    BY <1>4, <2>3 DEF TaskFits, Told
  <2>4. QED
    BY <1>2, <2>1, <2>2, <2>3
<1>6. \/ version' = version
      \/ version' = [number |-> version.number + 1, graph |-> workflow.draft]
  BY DEF D!PublishDraft
<1>7. D!WorkflowDraftsTypeOK'
  <2>1. version' \in [number : Nat, graph : D!Content]
    <3>1. version \in [number : Nat, graph : D!Content] /\ workflow.draft \in D!Content
      BY <1>1 DEF DraftsIInv, D!WorkflowDraftsTypeOK, D!Draft
    <3>2. version.number + 1 \in Nat
      BY <3>1
    <3>3. QED
      BY <1>6, <3>1, <3>2
  <2>2. QED
    BY <1>1, <1>5, <2>1 DEF DraftsIInv, D!WorkflowDraftsTypeOK
<1>8. RevisionsAgree'
  <2>1. \A a \in Told' : a \in Told
    BY <1>1, <1>5 DEF Told
  <2>2. QED
    BY <1>1, <2>1 DEF DraftsIInv, RevisionsAgree
<1>9. QED
  BY <1>1, <1>5, <1>7, <1>8 DEF DraftsIInv, D!WorkflowDraftsParameters, TaskFits

\* A save or a publication is asked for.
LEMMA SubmitStep ==
  ASSUME DraftsIInv, NEW p \in Pages, NEW publishes \in BOOLEAN, D!Submit(p, publishes)
  PROVE  DraftsIInv'
<1> DEFINE t == [page |-> p, waits |-> "editor", publishes |-> publishes,
                 content |-> canvas[p].content, base |-> canvas[p].base,
                 phase |-> "save", expected |-> known[p].revision,
                 answer |-> known[p]]
<1>1. /\ busy' = [busy EXCEPT ![p] = TRUE] /\ tasks' = tasks \union {t}
      /\ UNCHANGED <<workflow, version, known, canvas, edits>>
  BY DEF D!Submit
<1>2. /\ t.phase = "save" /\ t.answer = known[p] /\ t.expected = known[p].revision
      /\ t.base = canvas[p].base
  OBVIOUS
<1>3. t \in D!Task
  BY ToldTypes DEF D!Task, D!Phase, D!Draft
<1> HIDE DEF t
<1>4. t.answer \in Told /\ TaskFits(t)
  BY <1>2 DEF DraftsIInv, Told, TaskFits
<1>5. \A u \in tasks' : u \in D!Task /\ u.answer \in Told /\ TaskFits(u)
  BY <1>1, <1>3, <1>4, ToldTypes DEF DraftsIInv, Told
<1>6. busy' \in [Pages -> BOOLEAN]
  BY <1>1, ToldTypes
<1>7. \A s \in Pages : known'[s] \in Told /\ canvas'[s].base = known'[s].draft
  BY <1>1 DEF DraftsIInv, Told
<1>8. QED
  BY <1>1, <1>5, <1>6, <1>7, ReadSteps, ToldTypes DEF DraftsIInv, D!WorkflowDraftsTypeOK

\* Every step of pages and server keeps the invariant.
LEMMA DraftsIInvKept ==
  ASSUME DraftsIInv, D!WorkflowDraftsNext
  PROVE  DraftsIInv'
<1>1. \A t \in tasks : t \in D!Task /\ t.answer \in Told /\ TaskFits(t)
  BY ToldTypes DEF DraftsIInv, Told
<1>2. ASSUME UNCHANGED <<workflow, version, known, canvas, edits>>,
             busy' \in [Pages -> BOOLEAN],
             \A u \in tasks' : u \in D!Task /\ u.answer \in Told /\ TaskFits(u)
      PROVE  DraftsIInv'
  <2>1. \A s \in Pages : known'[s] \in Told /\ canvas'[s].base = known'[s].draft
    BY <1>2 DEF DraftsIInv, Told
  <2>2. QED
    BY <1>2, <2>1, ReadSteps, ToldTypes DEF DraftsIInv, D!WorkflowDraftsTypeOK
<1>3. ASSUME NEW p \in Pages, D!Edit(p) PROVE DraftsIInv'
  <2>1. /\ edits' = edits + 1 /\ edits < MaxEdits
        /\ canvas' = [canvas EXCEPT ![p].content = edits']
        /\ UNCHANGED <<workflow, version, known, busy, tasks>>
        /\ edits \in 0 .. MaxEdits /\ MaxEdits \in Nat
    BY <1>3 DEF D!Edit, DraftsIInv, D!WorkflowDraftsTypeOK, D!Content,
                D!WorkflowDraftsParameters
  <2>2. edits' \in D!Content
    BY <2>1 DEF D!Content
  <2>3. /\ canvas' \in [Pages -> [content : D!Content, base : D!Content]]
        /\ \A s \in Pages : canvas'[s].base = canvas[s].base
    BY <2>1, <2>2, ToldTypes
  <2>4. \A s \in Pages : known'[s] \in Told /\ canvas'[s].base = known'[s].draft
    BY <2>1, <2>3 DEF DraftsIInv, Told
  <2>5. QED
    BY <1>1, <2>1, <2>2, <2>3, <2>4, ReadSteps, ToldTypes
<1>4. ASSUME NEW p \in Pages, D!Reload(p) PROVE DraftsIInv'
  <2> DEFINE orphan(t) == [t EXCEPT !.waits = "nobody"]
  <2> DEFINE rest == {t \in tasks : t.page # p} \union
                       {orphan(t) : t \in {u \in tasks : /\ u.page = p
                                              /\ u.phase \in {"save", "publish"}}}
  <2>1. \A t \in rest : t \in D!Task /\ t.answer \in Told /\ TaskFits(t)
    <3>1. \A t \in tasks : /\ orphan(t) \in D!Task /\ orphan(t).answer \in Told
                           /\ TaskFits(orphan(t))
      BY <1>1, WaitsFor
    <3> HIDE DEF orphan
    <3>2. QED
      BY <1>1, <3>1
  <2>2. /\ known' = [known EXCEPT ![p] = workflow] /\ D!Mounts(p, workflow, rest)
        /\ UNCHANGED <<workflow, version, edits>>
    BY <1>4 DEF D!Reload
  <2> HIDE DEF rest
  <2>3. workflow \in Told
    BY DEF Told
  <2>4. QED
    BY <2>1, <2>2, <2>3, MountSteps
<1>5. ASSUME NEW p \in Pages, D!Revisit(p) PROVE DraftsIInv'
  <2>1. /\ D!Mounts(p, known[p], tasks) /\ UNCHANGED <<workflow, version, known, edits>>
    BY <1>5 DEF D!Revisit
  <2>2. known[p] \in Told /\ known' = [known EXCEPT ![p] = known[p]]
    BY <2>1, ToldTypes DEF Told
  <2>3. PICK answer \in Told : answer = known[p]
    BY <2>2
  <2>4. QED
    BY <1>1, <2>1, <2>2, <2>3, MountSteps
<1>6. ASSUME NEW t \in tasks, D!ReadSaved(t) PROVE DraftsIInv'
  <2> DEFINE next == [t EXCEPT !.phase = "publish", !.expected = t.answer.revision]
  <2>1. t.phase = "saved" /\ UNCHANGED <<workflow, version, edits>>
    BY <1>6 DEF D!ReadSaved
  <2>2. /\ next \in D!Task /\ next.answer = t.answer /\ next.phase = "publish"
        /\ next.expected = t.answer.revision /\ next.content = t.content
    BY <1>1, ToldTypes DEF D!Task, D!Phase, D!Draft
  <2>3. D!Replaces(t, IF t.publishes THEN (tasks \ {t}) \union {next} ELSE tasks \ {t},
                   ~t.publishes)
    BY <1>6 DEF D!ReadSaved
  <2> HIDE DEF next
  <2>4. next.answer \in Told /\ TaskFits(next)
    BY <1>1, <2>1, <2>2 DEF TaskFits
  <2>5. PICK ends \in BOOLEAN : ends = ~t.publishes
    OBVIOUS
  <2>6. PICK rest : rest = IF t.publishes THEN (tasks \ {t}) \union {next} ELSE tasks \ {t}
    OBVIOUS
  <2>7. /\ \A u \in rest : u \in tasks \/ u = next
        /\ D!Replaces(t, rest, ends)
    BY <2>3, <2>5, <2>6
  <2>8. \A u \in rest : u \in D!Task /\ u.answer \in Told /\ TaskFits(u)
    BY <1>1, <2>2, <2>4, <2>7
  <2>9. QED
    BY <2>1, <2>7, <2>8, ReplaceSteps
<1>7. ASSUME NEW t \in tasks, D!ReadPublished(t) PROVE DraftsIInv'
  <2>1. D!Replaces(t, tasks \ {t}, TRUE) /\ UNCHANGED <<workflow, version, edits>>
    BY <1>7 DEF D!ReadPublished
  <2>2. PICK rest : rest = tasks \ {t}
    OBVIOUS
  <2>3. QED
    BY <1>1, <2>1, <2>2, ReplaceSteps
<1>8. ASSUME NEW t \in tasks, D!ReadError(t) PROVE DraftsIInv'
  <2>1. /\ \A u \in tasks' : u \in tasks \/ u = [t EXCEPT !.waits = "nobody"]
        /\ busy' = [busy EXCEPT ![t.page] = @ /\ t.waits # "editor"]
        /\ UNCHANGED <<workflow, version, known, canvas, edits>>
    BY <1>8 DEF D!ReadError, D!Becomes
  <2>2. busy' \in [Pages -> BOOLEAN]
    BY <2>1, ToldTypes
  <2>3. /\ [t EXCEPT !.waits = "nobody"] \in D!Task
        /\ [t EXCEPT !.waits = "nobody"].answer \in Told
        /\ TaskFits([t EXCEPT !.waits = "nobody"])
    BY <1>1, WaitsFor
  <2>4. QED
    BY <1>1, <1>2, <2>1, <2>2, <2>3
<1>9. ASSUME NEW t \in tasks, D!Vanish(t) PROVE DraftsIInv'
  BY <1>1, <1>2, <1>9, ToldTypes DEF D!Vanish
<1>10. QED
  BY <1>3, <1>4, <1>5, <1>6, <1>7, <1>8, <1>9, SubmitStep, SaveDraftStep, PublishDraftStep
     DEF D!WorkflowDraftsNext

\* A save replaces the draft that its editor showed, and a version is what was
\* submitted for publication.
THEOREM DraftsAreAsSubmitted ==
  D!WorkflowDraftsParameters /\ D!WorkflowDraftsSpec => D!DraftsAsSubmitted
<1> DEFINE submitted ==
      /\ workflow' # workflow =>
           \E t \in tasks : /\ t.phase = "save"
                            /\ t.base = workflow.draft
                            /\ t.content = workflow'.draft
      /\ version' # version =>
           \E t \in tasks : /\ t.phase = "publish"
                            /\ t.content = version'.graph
<1>1. D!WorkflowDraftsParameters /\ D!WorkflowDraftsInit => DraftsIInv
  <2> SUFFICES ASSUME D!WorkflowDraftsParameters, D!WorkflowDraftsInit PROVE DraftsIInv
    OBVIOUS
  <2>1. /\ 0 \in D!Content /\ workflow = [draft |-> 0, revision |-> 1] /\ tasks = {}
        /\ \A p \in Pages : known[p] = workflow /\ canvas[p].base = 0
    BY DEF D!WorkflowDraftsInit, D!WorkflowDraftsParameters, D!Content
  <2>2. workflow \in D!Draft /\ workflow.draft = 0 /\ workflow.revision = 1
    BY <2>1 DEF D!Draft
  <2>3. D!WorkflowDraftsTypeOK
    BY <2>1, <2>2 DEF D!WorkflowDraftsInit, D!WorkflowDraftsTypeOK
  <2>4. \A a \in Told : a = workflow
    BY <2>1 DEF Told
  <2>5. RevisionsAgree
    BY <2>2, <2>4 DEF RevisionsAgree
  <2>6. QED
    BY <2>1, <2>2, <2>3, <2>5 DEF DraftsIInv
<1>2. DraftsIInv /\ [D!WorkflowDraftsNext]_(D!workflowDraftsVars) => DraftsIInv'
  <2> SUFFICES ASSUME DraftsIInv, UNCHANGED D!workflowDraftsVars PROVE DraftsIInv'
    BY DraftsIInvKept
  <2>1. UNCHANGED <<workflow, version, known, canvas, busy, tasks, edits>>
    BY DEF D!workflowDraftsVars
  <2>2. RevisionsAgree' /\ D!WorkflowDraftsTypeOK'
    BY <2>1 DEF DraftsIInv, RevisionsAgree, Told, D!WorkflowDraftsTypeOK
  <2>3. QED
    BY <2>1, <2>2 DEF DraftsIInv, D!WorkflowDraftsParameters, TaskFits
<1>3. DraftsIInv /\ [D!WorkflowDraftsNext]_(D!workflowDraftsVars) =>
        [submitted]_(D!workflowDraftsVars)
  <2> SUFFICES ASSUME DraftsIInv, D!WorkflowDraftsNext PROVE submitted
    OBVIOUS
  <2>1. ASSUME workflow' # workflow
        PROVE  \E t \in tasks : /\ t.phase = "save"
                                /\ t.base = workflow.draft
                                /\ t.content = workflow'.draft
    <3>1. PICK t \in tasks : D!SaveDraft(t)
      BY <2>1 DEF D!WorkflowDraftsNext, D!Edit, D!Submit, D!Reload, D!Revisit,
         D!PublishDraft, D!ReadSaved, D!ReadPublished, D!ReadError, D!Vanish
    <3>2. /\ t.phase = "save" /\ t.expected = workflow.revision
          /\ workflow'.draft = t.content
      BY <2>1, <3>1 DEF D!SaveDraft, D!Current
    <3>3. t.answer.revision = workflow.revision /\ t.answer.draft = t.base
      BY <3>2 DEF DraftsIInv, TaskFits
    <3>4. t.base = workflow.draft
      BY <3>3 DEF DraftsIInv, RevisionsAgree, Told
    <3>5. QED
      BY <3>2, <3>4
  <2>2. ASSUME version' # version
        PROVE  \E t \in tasks : t.phase = "publish" /\ t.content = version'.graph
    <3>1. PICK t \in tasks : D!PublishDraft(t)
      BY <2>2 DEF D!WorkflowDraftsNext, D!Edit, D!Submit, D!Reload, D!Revisit,
         D!SaveDraft, D!ReadSaved, D!ReadPublished, D!ReadError, D!Vanish
    <3>2. /\ t.phase = "publish" /\ t.expected = workflow.revision
          /\ version'.graph = workflow.draft
      BY <2>2, <3>1 DEF D!PublishDraft, D!Current
    <3>3. t.answer.revision = workflow.revision /\ t.answer.draft = t.content
      BY <3>2 DEF DraftsIInv, TaskFits
    <3>4. t.content = workflow.draft
      BY <3>3 DEF DraftsIInv, RevisionsAgree, Told
    <3>5. QED
      BY <3>2, <3>4
  <2>3. QED
    BY <2>1, <2>2
<1>4. QED
  BY <1>1, <1>2, <1>3, PTL DEF D!WorkflowDraftsSpec, D!DraftsAsSubmitted

-----------------------------------------------------------------------------
(* Formulas: a write recomputes all that depends on it.                    *)

\* The formulas that a change reaches are formulas, and all those that depend
\* on what is changed or reached.
LEMMA ReachedClosed ==
  ASSUME NEW changed, NEW uses
  PROVE  /\ F!Reached(changed, uses) \subseteq Formula
         /\ \A f \in Formula :
              uses[f] \intersect (changed \union F!Reached(changed, uses)) # {} =>
                f \in F!Reached(changed, uses)
<1> DEFINE Closed(set) ==
      \A f \in Formula : uses[f] \intersect (changed \union set) # {} => f \in set
<1> DEFINE least ==
      {f \in Formula : \A set \in SUBSET Formula : Closed(set) => f \in set}
<1>1. least \in SUBSET Formula
  OBVIOUS
<1>2. Closed(least)
  <2> SUFFICES ASSUME NEW f \in Formula, NEW c \in uses[f] \intersect (changed \union least),
                      NEW set \in SUBSET Formula, Closed(set)
               PROVE  f \in set
    OBVIOUS
  <2>1. c \in changed \union set
    OBVIOUS
  <2>2. QED
    BY <2>1
<1>3. \A other \in SUBSET Formula : Closed(other) => least \subseteq other
  OBVIOUS
<1> HIDE DEF least
<1> DEFINE IsLeast(set) ==
      Closed(set) /\ \A other \in SUBSET Formula : Closed(other) => set \subseteq other
<1>4. F!Reached(changed, uses) = CHOOSE set \in SUBSET Formula : IsLeast(set)
  BY DEF F!Reached
<1>5. \E set \in SUBSET Formula : IsLeast(set)
  BY <1>1, <1>2, <1>3
<1> HIDE DEF IsLeast
<1>6. F!Reached(changed, uses) \in SUBSET Formula /\ IsLeast(F!Reached(changed, uses))
  BY <1>4, <1>5
<1>7. QED
  BY <1>6 DEF IsLeast

\* The value of a formula is made of the values it refers to.
LEMMA EvaluateSame ==
  ASSUME NEW g, NEW h, NEW on, \A c \in on : g[c] = h[c]
  PROVE  F!Evaluate(g, on) = F!Evaluate(h, on)
<1>1. [c \in on |-> g[c]] = [c \in on |-> h[c]]
  OBVIOUS
<1>2. QED
  BY <1>1 DEF F!Evaluate

\* Columns are ranked: a formula comes after the columns it refers to.
Ranked(rank, uses, N) ==
  /\ rank \in [F!AllColumns -> 0 .. N]
  /\ \A f \in Formula : \A c \in uses[f] : rank[c] < rank[f]

\* What the recomputation of a row gives to a column.
Result(cells, changed, uses, active, after, c) ==
  IF c \in F!Reached(changed, uses) \intersect active
    THEN F!Evaluate(after, uses[c]) ELSE cells[c]

\* The recursive function of Recomputed exists, and fits its equation.
LEMMA RecomputedFits ==
  ASSUME NEW cells, NEW changed, NEW uses \in [Formula -> SUBSET F!AllColumns], NEW active,
         NEW N \in Nat, NEW rank, Ranked(rank, uses, N),
         NEW after, after = F!Recomputed(cells, changed, uses, active)
  PROVE  after = [c \in F!AllColumns |-> Result(cells, changed, uses, active, after, c)]
<1> DEFINE Cell(g, c) == Result(cells, changed, uses, active, g, c)
<1> DEFINE Fits(g, n) == /\ g = [c \in F!AllColumns |-> g[c]]
                         /\ \A c \in F!AllColumns : rank[c] < n => g[c] = Cell(g, c)
<1>1. after = CHOOSE g : g = [c \in F!AllColumns |-> Cell(g, c)]
  BY DEF F!Recomputed, Result
<1>2. ASSUME NEW n \in Nat, NEW g, Fits(g, n)
      PROVE  \E h : Fits(h, n + 1)
  <2> DEFINE h == [c \in F!AllColumns |-> IF rank[c] = n THEN Cell(g, c) ELSE g[c]]
  <2>1. h = [c \in F!AllColumns |-> h[c]]
    OBVIOUS
  <2>2. ASSUME NEW c \in F!AllColumns, rank[c] < n + 1 PROVE h[c] = Cell(h, c)
    <3>1. ASSUME NEW d \in F!AllColumns, rank[d] < rank[c] PROVE g[d] = h[d]
      BY <2>2, <3>1 DEF Ranked
    <3>2. Cell(g, c) = Cell(h, c)
      <4>1. CASE c \in F!Reached(changed, uses) \intersect active
        <5>1. c \in Formula
          BY <4>1, ReachedClosed
        <5>2. \A d \in uses[c] : g[d] = h[d]
          BY <3>1, <5>1 DEF Ranked
        <5> HIDE DEF h
        <5>3. QED
          BY <4>1, <5>2, EvaluateSame DEF Result
      <4>2. CASE c \notin F!Reached(changed, uses) \intersect active
        BY <4>2 DEF Result
      <4>3. QED
        BY <4>1, <4>2
    <3>3. h[c] = Cell(g, c)
      <4>1. CASE rank[c] = n
        BY <4>1
      <4>2. CASE rank[c] # n
        <5>1. rank[c] < n
          BY <2>2, <4>2 DEF Ranked
        <5>2. QED
          BY <1>2, <4>2, <5>1
      <4>3. QED
        BY <4>1, <4>2
    <3>4. QED
      BY <3>2, <3>3
  <2> HIDE DEF h
  <2>3. QED
    BY <2>1, <2>2
<1>3. \E g : Fits(g, 0)
  <2>1. Fits([c \in F!AllColumns |-> 0], 0)
    BY DEF Ranked
  <2>2. QED
    BY <2>1
<1> HIDE DEF Fits
<1>4. \A n \in Nat : \E g : Fits(g, n)
  <2> DEFINE T == {n \in Nat : ~ \E g : Fits(g, n)}
  <2> SUFFICES ASSUME T # {} PROVE FALSE
    OBVIOUS
  <2>1. PICK n \in T : \A m \in T : n <= m
    BY LeastElement
  <2>2. n # 0
    BY <1>3
  <2>3. n - 1 \in Nat /\ n - 1 \notin T
    BY <2>1, <2>2
  <2>4. PICK g : Fits(g, n - 1)
    BY <2>3
  <2>5. \E h : Fits(h, (n - 1) + 1)
    BY <1>2, <2>3, <2>4
  <2>6. QED
    BY <2>1, <2>5
<1>5. PICK g : Fits(g, N + 1)
  BY <1>4
<1>6. g = [c \in F!AllColumns |-> Cell(g, c)]
  <2>1. \A c \in F!AllColumns : rank[c] < N + 1
    BY DEF Ranked
  <2>2. g = [c \in F!AllColumns |-> g[c]] /\ \A c \in F!AllColumns : g[c] = Cell(g, c)
    BY <1>5, <2>1 DEF Fits
  <2> HIDE DEF Cell
  <2>3. QED
    BY <2>2
<1> HIDE DEF Cell
<1>7. QED
  BY <1>1, <1>6 DEF Cell

\* A formula at the end of a path of formulas from what changed is reached.
LEMMA DownstreamReached ==
  ASSUME F!FormulaParameters, NEW f \in Formula, NEW changed,
         NEW columns, columns \subseteq changed, F!Downstream(f, columns)
  PROVE  f \in F!Reached(changed, refs)
<1>1. F!Cardinality(Formula) \in Nat
  <2>1. F!Cardinality(Formula) = Cardinality(Formula)
    BY DEF F!Cardinality, Cardinality
  <2>2. IsFiniteSet(Formula)
    BY DEF F!FormulaParameters, F!IsFiniteSet, IsFiniteSet
  <2>3. QED
    BY <2>1, <2>2, FS_CardinalityType
<1> DEFINE IsPath(i, path) ==
        /\ path[i] = f
        /\ refs[path[1]] \intersect columns # {}
        /\ \A j \in 2 .. i : path[j - 1] \in refs[path[j]]
<1>0. PICK i \in 1 .. F!Cardinality(Formula) : \E path \in [1 .. i -> Formula] : IsPath(i, path)
  BY DEF F!Downstream
<1>2. PICK path \in [1 .. i -> Formula] : IsPath(i, path)
  BY <1>0
<1> DEFINE reached == F!Reached(changed, refs)
<1>3. \A g \in Formula : refs[g] \intersect (changed \union reached) # {} => g \in reached
  BY ReachedClosed
<1> HIDE DEF reached
<1> DEFINE T == {j \in 1 .. i : path[j] \notin reached}
<1>4. T = {}
  <2> SUFFICES ASSUME T # {} PROVE FALSE
    OBVIOUS
  <2>1. T \subseteq Nat
    BY <1>1
  <2>2. PICK j \in T : \A k \in T : j <= k
    <3> HIDE DEF T
    <3>1. QED
      BY <2>1, LeastElement
  <2>3. path[j] \in Formula /\ j \in 1 .. i
    BY <1>2
  <2>4. CASE j = 1
    BY <1>2, <1>3, <2>2, <2>3, <2>4
  <2>5. CASE j # 1
    <3>1. j \in 2 .. i /\ j - 1 \in 1 .. i /\ ~(j <= j - 1)
      BY <1>1, <2>3, <2>5
    <3>2. path[j - 1] \in refs[path[j]] /\ path[j - 1] \in reached
      BY <1>2, <2>2, <3>1
    <3>3. QED
      BY <1>3, <2>2, <2>3, <3>2
  <2>6. QED
    BY <2>4, <2>5
<1>5. i \in 1 .. i
  BY <1>1
<1>6. QED
  BY <1>2, <1>4, <1>5 DEF reached

\* A column that was never created refers to nothing, and none refers to it.
Unmade ==
  \A f \in Formula : life[f] = "none" =>
    refs[f] = {} /\ \A g \in Formula : f \notin refs[g]

\* The formulas' inductive invariant.
FormulaIInv ==
  /\ F!FormulaParameters
  /\ life \in [F!AllColumns -> {"none", "active", "archived"}]
  /\ refs \in [Formula -> SUBSET F!AllColumns]
  /\ shown \subseteq TableRows
  /\ value = [r \in TableRows |-> value[r]]
  /\ Unmade
  /\ \E N \in Nat : \E rank : Ranked(rank, refs, N)

\* A column that is written to has the value that is written or the old one.
LEMMA WrittenKept ==
  ASSUME FormulaIInv, NEW cells, NEW changed,
         NEW uses \in [Formula -> SUBSET F!AllColumns], NEW active,
         NEW N \in Nat, NEW rank, Ranked(rank, uses, N)
  PROVE  \A c \in Written : F!Recomputed(cells, changed, uses, active)[c] = cells[c]
<1>1. \A c \in Written : c \in F!AllColumns /\ c \notin F!Reached(changed, uses)
  BY ReachedClosed DEF F!AllColumns, FormulaIInv, F!FormulaParameters
<1>2. \A c \in Written : F!Recomputed(cells, changed, uses, active)[c]
                          = Result(cells, changed, uses, active,
                                   F!Recomputed(cells, changed, uses, active), c)
  BY <1>1, RecomputedFits
<1>3. QED
  BY <1>1, <1>2 DEF Result

\* A formula that is reached and in use has the value of its expression.
LEMMA ReachedCurrent ==
  ASSUME NEW cells, NEW changed,
         NEW uses \in [Formula -> SUBSET F!AllColumns], NEW active,
         NEW N \in Nat, NEW rank, Ranked(rank, uses, N),
         NEW f \in F!Reached(changed, uses) \intersect active,
         NEW after, after = F!Recomputed(cells, changed, uses, active)
  PROVE  after[f] = F!Evaluate(after, uses[f])
<1>1. f \in F!AllColumns
  BY ReachedClosed DEF F!AllColumns
<1>2. after[f] = Result(cells, changed, uses, active, after, f)
  BY <1>1, RecomputedFits
<1>3. f \in F!Reached(changed, uses) \intersect active
  OBVIOUS
<1>4. QED
  BY <1>2, <1>3 DEF Result

\* The promise to a row of a step.
RowFollows(r) ==
  /\ \A f \in Formula \intersect F!InUse :
       F!Downstream(f, F!Changed(r)) => F!Current(r, f)'
  /\ r \in shown => \A f \in Formula :
       life[f] = "none" /\ life'[f] = "active" => F!Current(r, f)'

\* Nothing is downstream of nothing.
LEMMA NothingDownstream ==
  ASSUME NEW r \in TableRows, F!Changed(r) = {}
  PROVE  \A f \in Formula : ~F!Downstream(f, F!Changed(r))
BY DEF F!Downstream

\* A write brings everything that depends on it up to date.
LEMMA WriteFollows ==
  ASSUME FormulaIInv, NEW r \in TableRows, NEW new, UNCHANGED <<life, refs>>,
         shown' \subseteq TableRows,
         value' = [value EXCEPT ![r] = F!After(r, new)]
  PROVE  FormulaIInv' /\ \A q \in TableRows : RowFollows(q)
<1>1. FormulaIInv'
  BY DEF FormulaIInv, F!FormulaParameters, F!AllColumns, Unmade, Ranked
<1>2. PICK N \in Nat : \E rank : Ranked(rank, refs, N)
  BY DEF FormulaIInv
<1>3. PICK rank : Ranked(rank, refs, N)
  BY <1>2
<1>4. \A q \in TableRows : value'[q] = IF q = r THEN F!After(r, new) ELSE value[q]
  BY DEF FormulaIInv
<1>5. ASSUME NEW q \in TableRows, q # r PROVE RowFollows(q)
  <2>1. F!Changed(q) = {}
    BY <1>4, <1>5 DEF F!Changed
  <2>2. QED
    BY <2>1, NothingDownstream DEF RowFollows
<1>6. RowFollows(r)
  <2> DEFINE cells == [c \in F!AllColumns |->
                        IF c \in DOMAIN new THEN new[c] ELSE value[r][c]]
  <2>1. value'[r] = F!Recomputed(cells, DOMAIN new, refs, F!InUse)
    BY <1>4 DEF F!After
  <2>2. F!Changed(r) \subseteq DOMAIN new
    <3>1. \A c \in Written : value'[r][c] = cells[c]
      BY <1>3, <2>1, WrittenKept DEF FormulaIInv
    <3>2. \A c \in Written : c \notin DOMAIN new => cells[c] = value[r][c]
      BY DEF F!AllColumns
    <3> HIDE DEF cells
    <3>3. QED
      BY <3>1, <3>2 DEF F!Changed
  <2> HIDE DEF cells
  <2>3. ASSUME NEW f \in Formula \intersect F!InUse, F!Downstream(f, F!Changed(r))
        PROVE  F!Current(r, f)'
    <3>1. f \in F!Reached(DOMAIN new, refs)
      BY <2>2, <2>3, DownstreamReached DEF FormulaIInv
    <3>2. value'[r][f] = F!Evaluate(value'[r], refs[f])
      BY <1>3, <2>1, <2>3, <3>1, ReachedCurrent DEF FormulaIInv
    <3>3. QED
      BY <3>2 DEF F!Current, F!Evaluate
  <2>4. QED
    BY <2>3 DEF RowFollows
<1>7. QED
  BY <1>1, <1>5, <1>6

\* A step that writes to no cell and creates no column.
LEMMA RestFollows ==
  ASSUME FormulaIInv, UNCHANGED <<refs, value>>, shown' \subseteq TableRows,
         life' \in [F!AllColumns -> {"none", "active", "archived"}],
         \A c \in F!AllColumns : life[c] = "none" <=> life'[c] = "none"
  PROVE  FormulaIInv' /\ \A q \in TableRows : RowFollows(q)
<1>1. FormulaIInv'
  BY DEF FormulaIInv, F!FormulaParameters, F!AllColumns, Unmade, Ranked
<1>2. \A q \in TableRows : F!Changed(q) = {}
  BY DEF F!Changed
<1>3. QED
  BY <1>1, <1>2, NothingDownstream DEF RowFollows, F!AllColumns

\* A new formula comes after the columns it refers to and starts with its value.
LEMMA CreateFollows ==
  ASSUME FormulaIInv, NEW f \in Formula, NEW on \in SUBSET F!InUse,
         F!CreateFormula(f, on)
  PROVE  FormulaIInv' /\ \A q \in TableRows : RowFollows(q)
<1>1. PICK N \in Nat : \E rank : Ranked(rank, refs, N)
  BY DEF FormulaIInv
<1>2. PICK rank : Ranked(rank, refs, N)
  BY <1>1
<1>3. /\ on \subseteq F!AllColumns /\ f \notin on /\ f \in F!AllColumns
      /\ refs' = [refs EXCEPT ![f] = on] /\ life' = [life EXCEPT ![f] = "active"]
      /\ life[f] = "none"
  BY DEF F!CreateFormula, F!InUse, F!AllColumns
<1>4. refs' \in [Formula -> SUBSET F!AllColumns]
  BY <1>3 DEF FormulaIInv
<1> DEFINE rerank == [rank EXCEPT ![f] = N + 1]
<1>5. Ranked(rerank, refs', N + 1)
  <2>1. rerank \in [F!AllColumns -> 0 .. N + 1]
    <3>1. \A c \in F!AllColumns : rank[c] \in 0 .. N + 1
      BY <1>2 DEF Ranked
    <3>2. N + 1 \in 0 .. N + 1
      OBVIOUS
    <3>3. rank = [c \in F!AllColumns |-> rank[c]]
      BY <1>2 DEF Ranked
    <3>4. QED
      BY <3>1, <3>2, <3>3
  <2>2. ASSUME NEW g \in Formula, NEW c \in refs'[g] PROVE rerank[c] < rerank[g]
    <3>1. CASE g = f
      BY <1>2, <1>3, <2>2, <3>1 DEF Ranked, FormulaIInv
    <3>2. CASE g # f
      <4>1. c \in refs[g] /\ c # f /\ rank[c] < rank[g] /\ c \in F!AllColumns
            /\ g \in F!AllColumns
        BY <1>2, <1>3, <2>2, <3>2 DEF Ranked, FormulaIInv, Unmade, F!AllColumns
      <4>2. QED
        BY <1>2, <3>2, <4>1 DEF Ranked
    <3>3. QED
      BY <3>1, <3>2
  <2>3. QED
    BY <2>1, <2>2 DEF Ranked
<1>6. FormulaIInv'
  <2>1. Unmade'
    BY <1>3 DEF Unmade, FormulaIInv, F!InUse, F!AllColumns
  <2>2. value' = [r \in TableRows |-> value'[r]]
    BY DEF F!CreateFormula
  <2>3. life' \in [F!AllColumns -> {"none", "active", "archived"}]
    BY <1>3 DEF FormulaIInv
  <2>4. \E M \in Nat : \E ranks : Ranked(ranks, refs', M)
    BY <1>5
  <2>6. shown' \subseteq TableRows
    BY DEF F!CreateFormula, FormulaIInv
  <2>5. QED
    BY <1>4, <2>1, <2>2, <2>3, <2>4, <2>6 DEF FormulaIInv, F!FormulaParameters, Ranked, F!AllColumns
<1> HIDE DEF rerank
<1>7. ASSUME NEW q \in TableRows PROVE RowFollows(q)
  <2> DEFINE after == F!Recomputed(value[q], on, refs', F!InUse \union {f})
  <2>1. value'[q] = IF q \in shown THEN after ELSE value[q]
    BY DEF F!CreateFormula
  <2>2. F!Changed(q) = {}
    <3>1. \A c \in Written : after[c] = value[q][c]
      BY <1>4, <1>5, WrittenKept
    <3> HIDE DEF after
    <3>2. QED
      BY <2>1, <3>1 DEF F!Changed
  <2>3. f \in F!Reached(on, refs')
    <3>1. refs'[f] = on /\ on # {}
      BY <1>3 DEF FormulaIInv, F!CreateFormula
    <3>2. QED
      BY <3>1, ReachedClosed
  <2>4. after[f] = F!Evaluate(after, refs'[f])
    BY <1>4, <1>5, <2>3, ReachedCurrent
  <2> HIDE DEF after
  <2>5. q \in shown => F!Current(q, f)'
    BY <2>1, <2>4 DEF F!Current, F!Evaluate
  <2>6. \A g \in Formula : life[g] = "none" /\ life'[g] = "active" => g = f
    BY <1>3 DEF FormulaIInv, F!AllColumns
  <2>7. QED
    BY <2>2, <2>5, <2>6, NothingDownstream DEF RowFollows
<1>8. QED
  BY <1>6, <1>7

\* Each step keeps the invariant, and its promise to every row.
LEMMA FormulaStep ==
  ASSUME FormulaIInv, [F!FormulasNext]_(F!formulaVars)
  PROVE  FormulaIInv' /\ (F!FormulasNext => \A q \in TableRows : RowFollows(q))
<1>1. ASSUME NEW r \in TableRows, NEW new \in F!Writes,
             F!WriteRow(r, new) \/ F!SourceRow(r, new)
      PROVE  FormulaIInv' /\ \A q \in TableRows : RowFollows(q)
  BY <1>1, WriteFollows DEF F!WriteRow, F!SourceRow, FormulaIInv
<1>2. ASSUME NEW r \in TableRows, F!HideRow(r)
      PROVE  FormulaIInv' /\ \A q \in TableRows : RowFollows(q)
  BY <1>2, RestFollows DEF F!HideRow, FormulaIInv
<1>3. ASSUME NEW f \in Formula, NEW on \in SUBSET F!InUse, F!CreateFormula(f, on)
      PROVE  FormulaIInv' /\ \A q \in TableRows : RowFollows(q)
  BY <1>3, CreateFollows
<1>4. ASSUME NEW c \in F!AllColumns,
             F!ArchiveFormulaColumn(c) \/ F!RestoreFormulaColumn(c)
      PROVE  FormulaIInv' /\ \A q \in TableRows : RowFollows(q)
  <2>1. life[c] # "none" /\ life' \in {[life EXCEPT ![c] = "archived"],
                                       [life EXCEPT ![c] = "active"]}
    BY <1>4 DEF F!ArchiveFormulaColumn, F!RestoreFormulaColumn, F!InUse
  <2>2. /\ life' \in [F!AllColumns -> {"none", "active", "archived"}]
        /\ \A d \in F!AllColumns : life[d] = "none" <=> life'[d] = "none"
    BY <2>1 DEF FormulaIInv
  <2>3. UNCHANGED <<refs, value, shown>>
    BY <1>4 DEF F!ArchiveFormulaColumn, F!RestoreFormulaColumn
  <2>4. QED
    BY <2>2, <2>3, RestFollows DEF FormulaIInv
<1>5. CASE UNCHANGED F!formulaVars
  <2>1. UNCHANGED <<life, refs, value, shown>>
    BY <1>5 DEF F!formulaVars
  <2>2. QED
    BY <2>1, RestFollows DEF FormulaIInv
<1>6. QED
  BY <1>1, <1>2, <1>3, <1>4, <1>5 DEF F!FormulasNext

\* Formulas follow the columns they depend on, at any distance (formulas.ts).
THEOREM FormulasAreFollowed ==
  ASSUME F!FormulaParameters
  PROVE  F!FormulaSpec => F!FormulasFollow
<1>1. F!FormulaInit => FormulaIInv
  <2> SUFFICES ASSUME F!FormulaInit PROVE FormulaIInv
    OBVIOUS
  <2>1. Ranked([c \in F!AllColumns |-> 0], refs, 0)
    BY DEF F!FormulaInit, Ranked
  <2>2. \E N \in Nat : \E rank : Ranked(rank, refs, N)
    BY <2>1
  <2>3. QED
    BY <2>2 DEF F!FormulaInit, FormulaIInv, Unmade
<1>2. FormulaIInv /\ [F!FormulasNext]_(F!formulaVars) => FormulaIInv'
  BY FormulaStep
<1>3. FormulaIInv /\ [F!FormulasNext]_(F!formulaVars) =>
        [/\ \A r \in TableRows, f \in Formula \intersect F!InUse :
              F!Downstream(f, F!Changed(r)) => F!Current(r, f)'
         /\ \A r \in shown, f \in Formula :
              life[f] = "none" /\ life'[f] = "active" => F!Current(r, f)'
        ]_(F!formulaVars)
  <2> SUFFICES ASSUME FormulaIInv, F!FormulasNext
               PROVE
        /\ \A r \in TableRows, f \in Formula \intersect F!InUse :
              F!Downstream(f, F!Changed(r)) => F!Current(r, f)'
        /\ \A r \in shown, f \in Formula :
              life[f] = "none" /\ life'[f] = "active" => F!Current(r, f)'
    OBVIOUS
  <2>1. \A r \in TableRows : RowFollows(r)
    BY FormulaStep
  <2>2. shown \subseteq TableRows
    BY DEF FormulaIInv
  <2>3. QED
    BY <2>1, <2>2 DEF RowFollows
<1>4. QED
  BY <1>1, <1>2, <1>3, PTL DEF F!FormulaSpec, F!FormulasFollow

-----------------------------------------------------------------------------
(* The graph of a workflow: how it is searched.                            *)

\* A graph has finitely many nodes and edges.
Finite(g) ==
  /\ IsFiniteSet(g.edges)
  /\ IsFiniteSet(C!Nodes(g)) /\ C!Nodes(g) \subseteq Nat

\* Nodes that are closed under successors.
ClosedOnward(g, set) == \A e \in g.edges : e.from \in set => e.to \in set

\* The graph counts as its proofs do.
LEMMA SameCardinality == \A these : C!Cardinality(these) = Cardinality(these)
BY DEF C!Cardinality, Cardinality

\* How a search of a graph goes on.
Searching(g) == [pending : SUBSET C!Nodes(g), reached : SUBSET C!Nodes(g)]

\* The next state of a search.
Beyond(g, here) ==
  LET node == CHOOSE n \in here.pending : n \notin here.reached
  IN [pending |-> here.pending \union {e.to : e \in C!OutOf(g, node)},
      reached |-> here.reached \union {node}]

\* What a search comes to from a state, if f is what it comes to from others.
Search(g, f, here) ==
  IF here.pending \subseteq here.reached THEN here.reached ELSE f[Beyond(g, here)]

\* Nodes that a search has still to reach.
Left(g, here) == Cardinality(C!Nodes(g) \ here.reached)

\* A step of a search reaches a node that had not been.
LEMMA SearchGoesOn ==
  ASSUME NEW g, Finite(g), C!EdgesFit(g), NEW here \in Searching(g),
         ~(here.pending \subseteq here.reached)
  PROVE  /\ Beyond(g, here) \in Searching(g)
         /\ Left(g, here) \in Nat /\ Left(g, Beyond(g, here)) \in Nat
         /\ Left(g, Beyond(g, here)) < Left(g, here)
<1> DEFINE node == CHOOSE n \in here.pending : n \notin here.reached
<1>1. node \in here.pending /\ node \notin here.reached
  OBVIOUS
<1>2. node \in C!Nodes(g)
  BY <1>1 DEF Searching
<1>3. {e.to : e \in C!OutOf(g, node)} \subseteq C!Nodes(g)
  BY DEF C!OutOf, C!EdgesFit
<1> HIDE DEF node
<1>4. Beyond(g, here) = [pending |-> here.pending \union {e.to : e \in C!OutOf(g, node)},
                       reached |-> here.reached \union {node}]
  BY DEF Beyond, node
<1>5. Beyond(g, here) \in Searching(g)
  BY <1>2, <1>3, <1>4 DEF Searching
<1>6. C!Nodes(g) \ Beyond(g, here).reached = (C!Nodes(g) \ here.reached) \ {node}
  BY <1>4
<1>7. IsFiniteSet(C!Nodes(g) \ here.reached)
  BY FS_Difference DEF Finite
<1>8. Left(g, here) \in Nat
  BY <1>7, FS_CardinalityType DEF Left
<1>9. node \in C!Nodes(g) \ here.reached
  BY <1>1, <1>2
<1>10. Left(g, Beyond(g, here)) = Left(g, here) - 1
  <2> DEFINE these == C!Nodes(g) \ here.reached
  <2>1. IsFiniteSet(these) /\ node \in these
    BY <1>7, <1>9
  <2> HIDE DEF these
  <2>2. Cardinality(these \ {node}) = Cardinality(these) - 1
    BY <2>1, FS_RemoveElement
  <2>3. QED
    BY <1>6, <2>2 DEF Left, these
<1>11. IsFiniteSet((C!Nodes(g) \ here.reached) \ {node})
  BY <1>7, FS_RemoveElement
<1>12. Left(g, Beyond(g, here)) \in Nat
  BY <1>6, <1>11, FS_CardinalityType DEF Left
<1>13. QED
  BY <1>5, <1>8, <1>10, <1>12

\* The recursive function of Reachable exists.
LEMMA SearchExists ==
  ASSUME NEW g, Finite(g), C!EdgesFit(g)
  PROVE  \E f : f = [here \in Searching(g) |-> Search(g, f, here)]
<1> DEFINE Fits(f, n) ==
      /\ f = [here \in Searching(g) |-> f[here]]
      /\ \A here \in Searching(g) : Left(g, here) < n => f[here] = Search(g, f, here)
<1>1. \A here \in Searching(g) : Left(g, here) \in Nat /\ Left(g, here) <= Cardinality(C!Nodes(g))
  <2> SUFFICES ASSUME NEW here \in Searching(g)
               PROVE  Left(g, here) \in Nat /\ Left(g, here) <= Cardinality(C!Nodes(g))
    OBVIOUS
  <2>1. C!Nodes(g) \ here.reached \in SUBSET C!Nodes(g)
    OBVIOUS
  <2>2. QED
    BY <2>1, FS_Subset, FS_CardinalityType DEF Left, Finite
<1>2. ASSUME NEW n \in Nat, NEW f, Fits(f, n)
      PROVE  \E h : Fits(h, n + 1)
  <2> DEFINE h == [here \in Searching(g) |->
                     IF Left(g, here) = n THEN Search(g, f, here) ELSE f[here]]
  <2>1. h = [here \in Searching(g) |-> h[here]]
    OBVIOUS
  <2>2. ASSUME NEW here \in Searching(g), Left(g, here) < n + 1 PROVE h[here] = Search(g, h, here)
    <3>1. Search(g, f, here) = Search(g, h, here)
      <4>1. CASE here.pending \subseteq here.reached
        BY <4>1 DEF Search
      <4>2. CASE ~(here.pending \subseteq here.reached)
        <5>1. Beyond(g, here) \in Searching(g) /\ Left(g, Beyond(g, here)) < n
          BY <1>1, <2>2, <4>2, SearchGoesOn
        <5>2. h[Beyond(g, here)] = f[Beyond(g, here)]
          BY <1>1, <5>1
        <5> HIDE DEF h
        <5>3. QED
          BY <4>2, <5>2 DEF Search
      <4>3. QED
        BY <4>1, <4>2
    <3>2. h[here] = Search(g, f, here)
      <4>1. CASE Left(g, here) = n
        BY <4>1
      <4>2. CASE Left(g, here) # n
        <5>1. Left(g, here) < n
          BY <1>1, <2>2, <4>2
        <5>2. QED
          BY <1>2, <4>2, <5>1
      <4>3. QED
        BY <4>1, <4>2
    <3>3. QED
      BY <3>1, <3>2
  <2> HIDE DEF h
  <2>3. QED
    BY <2>1, <2>2
<1>3. \E f : Fits(f, 0)
  <2>1. Fits([here \in Searching(g) |-> {}], 0)
    BY <1>1
  <2>2. QED
    BY <2>1
<1>4. Cardinality(C!Nodes(g)) \in Nat
  BY FS_CardinalityType DEF Finite
<1>5. \E f : Fits(f, Cardinality(C!Nodes(g)) + 1)
  <2> HIDE DEF Fits
  <2> DEFINE T == {n \in Nat : ~ \E f : Fits(f, n)}
  <2>1. T = {}
    <3> SUFFICES ASSUME T # {} PROVE FALSE
      OBVIOUS
    <3>1. PICK n \in T : \A m \in T : n <= m
      BY LeastElement
    <3>2. n # 0
      BY <1>3
    <3>3. n - 1 \in Nat /\ n - 1 \notin T
      BY <3>1, <3>2
    <3>4. PICK f : Fits(f, n - 1)
      BY <3>3
    <3>5. \E h : Fits(h, (n - 1) + 1)
      BY <1>2, <3>3, <3>4
    <3>6. QED
      BY <3>1, <3>5
  <2>2. QED
    BY <1>4, <2>1
<1>6. PICK f : Fits(f, Cardinality(C!Nodes(g)) + 1)
  BY <1>5
<1>7. \A here \in Searching(g) : f[here] = Search(g, f, here)
  BY <1>1, <1>4, <1>6
<1>8. f = [here \in Searching(g) |-> f[here]]
  BY <1>6
<1> HIDE DEF Fits
<1>9. f = [here \in Searching(g) |-> Search(g, f, here)]
  BY <1>7, <1>8
<1>10. QED
  BY <1>9

\* What is reachable is in every set that contains the start and is closed.
LEMMA ReachableWithin ==
  ASSUME NEW g, Finite(g), C!EdgesFit(g), NEW nodes, NEW set,
         nodes \subseteq set, set \subseteq C!Nodes(g), ClosedOnward(g, set)
  PROVE  C!Reachable(g, nodes) \subseteq set
<1> DEFINE f == CHOOSE f : f = [here \in Searching(g) |-> Search(g, f, here)]
<1> DEFINE first == [pending |-> nodes, reached |-> {}]
<1>1. C!Reachable(g, nodes) = f[first]
  BY DEF C!Reachable, Search, Searching, Beyond
<1>2. f = [here \in Searching(g) |-> Search(g, f, here)]
  BY SearchExists
<1> HIDE DEF f
<1> DEFINE Inside(here) == here.pending \subseteq set /\ here.reached \subseteq set
<1> DEFINE T == {Left(g, here) : here \in {b \in Searching(g) : Inside(b) /\ ~(f[b] \subseteq set)}}
<1>3. ASSUME NEW here \in Searching(g), Inside(here), ~(f[here] \subseteq set)
      PROVE  \E b \in Searching(g) :
               /\ Inside(b) /\ ~(f[b] \subseteq set)
               /\ Left(g, here) \in Nat /\ Left(g, b) < Left(g, here)
  <2>1. f[here] = Search(g, f, here)
    BY <1>2
  <2>2. ~(here.pending \subseteq here.reached)
    BY <1>3, <2>1 DEF Search
  <2>3. f[here] = f[Beyond(g, here)]
    BY <2>1, <2>2 DEF Search
  <2>4. Inside(Beyond(g, here))
    <3> DEFINE node == CHOOSE n \in here.pending : n \notin here.reached
    <3>1. node \in set
      BY <1>3, <2>2
    <3> HIDE DEF node
    <3>2. {e.to : e \in C!OutOf(g, node)} \subseteq set
      BY <3>1 DEF C!OutOf, ClosedOnward
    <3>3. Beyond(g, here) = [pending |-> here.pending \union {e.to : e \in C!OutOf(g, node)},
                           reached |-> here.reached \union {node}]
      BY DEF Beyond, node
    <3>4. QED
      BY <1>3, <3>1, <3>2, <3>3
  <2>5. QED
    BY <1>3, <2>2, <2>3, <2>4, SearchGoesOn
<1>4. T = {}
  <2> SUFFICES ASSUME T # {} PROVE FALSE
    OBVIOUS
  <2>1. T \subseteq Nat
    BY <1>3
  <2>2. PICK n \in T : \A m \in T : n <= m
    <3> HIDE DEF T
    <3>1. QED
      BY <2>1, LeastElement
  <2>3. PICK here \in Searching(g) : Inside(here) /\ ~(f[here] \subseteq set) /\ n = Left(g, here)
    BY <2>2
  <2>4. PICK b \in Searching(g) : /\ Inside(b) /\ ~(f[b] \subseteq set)
                                  /\ Left(g, b) < Left(g, here)
    BY <1>3, <2>3
  <2>5. Left(g, b) \in T /\ Left(g, b) \in Nat
    BY <2>1, <2>4
  <2>6. QED
    BY <2>1, <2>2, <2>3, <2>4, <2>5
<1>5. first \in Searching(g) /\ Inside(first)
  BY DEF Searching
<1>6. QED
  BY <1>1, <1>4, <1>5

-----------------------------------------------------------------------------
(* The graph of a workflow: Kahn's algorithm comes to an end.              *)

\* How Kahn's algorithm goes on when it always takes the least node.
Line(g, f, here) ==
  IF here.ready = {} THEN <<>>
  ELSE LET node == C!Min(here.ready) IN <<node>> \o f[C!Take(g, node, here)]

\* Nodes that wait, and the steps which a round of Kahn's algorithm has still
\* to make at most.
Counted(g, here) == {n \in C!Nodes(g) : here.incoming[n] > 0}
Ahead(g, here) == Cardinality(here.ready) + Cardinality(Counted(g, here))

\* The edges from a node to another.
Joining(g, node, n) == {e \in C!OutOf(g, node) : e.to = n}

\* They are counted.
LEMMA JoiningCounted ==
  ASSUME NEW g, Finite(g), NEW node, NEW n
  PROVE  C!Cardinality(Joining(g, node, n)) \in Nat
<1>1. Joining(g, node, n) \in SUBSET g.edges
  BY DEF Joining, C!OutOf
<1>2. IsFiniteSet(Joining(g, node, n))
  BY <1>1, FS_Subset DEF Finite
<1>3. QED
  BY <1>2, FS_CardinalityType, SameCardinality

\* There is a least node among the ones that wait for none.
LEMMA LeastReady ==
  ASSUME NEW g, Finite(g), NEW here \in C!Rounds(g), here.ready # {}
  PROVE  /\ C!Min(here.ready) \in here.ready
         /\ \A n \in here.ready : C!Min(here.ready) <= n
<1>1. here.ready \subseteq Nat
  BY DEF Finite, C!Rounds
<1>2. \E x \in here.ready : \A y \in here.ready : x <= y
  BY <1>1, LeastElement
<1>3. QED
  BY <1>2 DEF C!Min

\* Taking a node brings Kahn's algorithm closer to its end.
LEMMA TakeGoesOn ==
  ASSUME NEW g, Finite(g), NEW here \in C!Rounds(g), NEW node \in here.ready
  PROVE  /\ C!Take(g, node, here) \in C!Rounds(g)
         /\ Ahead(g, here) \in Nat /\ Ahead(g, C!Take(g, node, here)) \in Nat
         /\ Ahead(g, C!Take(g, node, here)) < Ahead(g, here)
<1> DEFINE freed == C!Freed(g, node, here.incoming)
           left == C!Without(g, node, here.incoming)
           before == Counted(g, here)
           after == Counted(g, C!Take(g, node, here))
<1>1. \A n \in C!Nodes(g) : here.incoming[n] \in Int /\ left[n] \in Int /\ left[n] <= here.incoming[n]
  <2> SUFFICES ASSUME NEW n \in C!Nodes(g)
               PROVE  here.incoming[n] \in Int /\ left[n] \in Int /\ left[n] <= here.incoming[n]
    OBVIOUS
  <2>1. here.incoming[n] \in Int
    BY DEF C!Rounds
  <2>2. left[n] = here.incoming[n] - C!Cardinality(Joining(g, node, n))
    BY DEF C!Without, Joining
  <2>3. C!Cardinality(Joining(g, node, n)) \in Nat
    BY JoiningCounted
  <2> HIDE DEF left
  <2>4. QED
    BY <2>1, <2>2, <2>3
<1>2. left = [n \in C!Nodes(g) |-> left[n]]
  BY DEF C!Without
<1>3. freed = {n \in C!Nodes(g) : here.incoming[n] > 0 /\ left[n] = 0}
  BY DEF C!Freed
<1>4. C!Take(g, node, here) = [ready |-> (here.ready \ {node}) \union freed, incoming |-> left]
  BY DEF C!Take
<1> HIDE DEF freed, left
<1>5. here.ready \in SUBSET C!Nodes(g)
  BY DEF C!Rounds
<1>6. C!Take(g, node, here) \in C!Rounds(g)
  <2>1. (here.ready \ {node}) \union freed \in SUBSET C!Nodes(g)
    BY <1>3, <1>5
  <2>2. left \in [C!Nodes(g) -> Int]
    BY <1>1, <1>2
  <2>3. QED
    BY <1>4, <2>1, <2>2 DEF C!Rounds
<1>7. freed \in SUBSET before
  BY <1>3 DEF Counted
<1>8. after \in SUBSET (before \ freed)
  BY <1>1, <1>3, <1>4 DEF Counted
<1>9. before \in SUBSET C!Nodes(g)
  BY DEF Counted
<1> DEFINE kept == here.ready \ {node}
           ready == C!Take(g, node, here).ready
<1>10. ready = kept \union freed
  BY <1>4
<1> HIDE DEF before, after, kept, ready
<1>11. /\ IsFiniteSet(here.ready) /\ IsFiniteSet(before)
  BY <1>5, <1>9, FS_Subset DEF Finite
<1>12. IsFiniteSet(freed) /\ IsFiniteSet(before \ freed)
  BY <1>7, <1>11, FS_Subset, FS_Difference
<1>13. IsFiniteSet(after) /\ Cardinality(after) <= Cardinality(before \ freed)
  BY <1>8, <1>12, FS_Subset
<1>14. Cardinality(before \ freed) = Cardinality(before) - Cardinality(freed)
  <2>1. before \cap freed = freed
    BY <1>7
  <2>2. QED
    BY <1>11, <2>1, FS_Difference
<1>15. IsFiniteSet(kept) /\ Cardinality(kept) = Cardinality(here.ready) - 1
  BY <1>11, FS_RemoveElement DEF kept
<1>16. /\ IsFiniteSet(ready)
       /\ Cardinality(ready) <= Cardinality(kept) + Cardinality(freed)
  <2>1. /\ IsFiniteSet(kept \union freed)
        /\ Cardinality(kept \union freed)
             = Cardinality(kept) + Cardinality(freed) - Cardinality(kept \cap freed)
    BY <1>12, <1>15, FS_Union
  <2>2. IsFiniteSet(kept \cap freed)
    BY <1>12, FS_Subset
  <2>3. QED
    BY <1>10, <1>12, <1>15, <2>1, <2>2, FS_CardinalityType
<1>17. /\ Ahead(g, here) = Cardinality(here.ready) + Cardinality(before)
       /\ Ahead(g, C!Take(g, node, here)) = Cardinality(ready) + Cardinality(after)
  BY DEF Ahead, before, after, ready
<1>18. \A these : IsFiniteSet(these) => Cardinality(these) \in Nat
  BY FS_CardinalityType
<1>19. QED
  BY <1>6, <1>11, <1>12, <1>13, <1>14, <1>15, <1>16, <1>17, <1>18

\* The recursive function of Ordered exists.
LEMMA LineExists ==
  ASSUME NEW g, Finite(g)
  PROVE  \E f : f = [here \in C!Rounds(g) |-> Line(g, f, here)]
<1> DEFINE Fits(f, n) ==
      /\ f = [here \in C!Rounds(g) |-> f[here]]
      /\ \A here \in C!Rounds(g) : Ahead(g, here) < n => f[here] = Line(g, f, here)
<1>1. \A here \in C!Rounds(g) : Ahead(g, here) \in Nat /\ Ahead(g, here) <= 2 * Cardinality(C!Nodes(g))
  <2> SUFFICES ASSUME NEW here \in C!Rounds(g)
               PROVE  Ahead(g, here) \in Nat /\ Ahead(g, here) <= 2 * Cardinality(C!Nodes(g))
    OBVIOUS
  <2>1. here.ready \in SUBSET C!Nodes(g) /\ Counted(g, here) \in SUBSET C!Nodes(g)
    BY DEF C!Rounds, Counted
  <2>2. /\ IsFiniteSet(here.ready) /\ Cardinality(here.ready) <= Cardinality(C!Nodes(g))
        /\ IsFiniteSet(Counted(g, here)) /\ Cardinality(Counted(g, here)) <= Cardinality(C!Nodes(g))
    BY <2>1, FS_Subset DEF Finite
  <2>3. \A these : IsFiniteSet(these) => Cardinality(these) \in Nat
    BY FS_CardinalityType
  <2>4. QED
    BY <2>2, <2>3 DEF Ahead, Finite
<1>2. ASSUME NEW n \in Nat, NEW f, Fits(f, n)
      PROVE  \E h : Fits(h, n + 1)
  <2> DEFINE h == [here \in C!Rounds(g) |->
                     IF Ahead(g, here) = n THEN Line(g, f, here) ELSE f[here]]
  <2>1. h = [here \in C!Rounds(g) |-> h[here]]
    OBVIOUS
  <2>2. ASSUME NEW here \in C!Rounds(g), Ahead(g, here) < n + 1 PROVE h[here] = Line(g, h, here)
    <3>1. Line(g, f, here) = Line(g, h, here)
      <4>1. CASE here.ready = {}
        BY <4>1 DEF Line
      <4>2. CASE here.ready # {}
        <5> DEFINE next == C!Take(g, C!Min(here.ready), here)
        <5>1. C!Min(here.ready) \in here.ready
          BY <4>2, LeastReady
        <5>2. next \in C!Rounds(g) /\ Ahead(g, next) < n
          BY <1>1, <2>2, <5>1, TakeGoesOn
        <5>3. h[next] = f[next]
          <6> HIDE DEF next
          <6>1. QED
            BY <1>1, <5>2
        <5> HIDE DEF h
        <5>4. QED
          BY <4>2, <5>3 DEF Line
      <4>3. QED
        BY <4>1, <4>2
    <3>2. h[here] = Line(g, f, here)
      <4>1. CASE Ahead(g, here) = n
        BY <4>1
      <4>2. CASE Ahead(g, here) # n
        <5>1. Ahead(g, here) < n
          BY <1>1, <2>2, <4>2
        <5>2. QED
          BY <1>2, <4>2, <5>1
      <4>3. QED
        BY <4>1, <4>2
    <3>3. QED
      BY <3>1, <3>2
  <2> HIDE DEF h
  <2>3. QED
    BY <2>1, <2>2
<1>3. \E f : Fits(f, 0)
  <2>1. Fits([here \in C!Rounds(g) |-> {}], 0)
    BY <1>1
  <2>2. QED
    BY <2>1
<1> DEFINE all == 2 * Cardinality(C!Nodes(g)) + 1
<1>4. all \in Nat
  BY FS_CardinalityType DEF Finite
<1>5. \A here \in C!Rounds(g) : Ahead(g, here) < all
  BY <1>1, FS_CardinalityType DEF Finite
<1> HIDE DEF all
<1>6. \E f : Fits(f, all)
  <2> HIDE DEF Fits
  <2> DEFINE T == {n \in Nat : ~ \E f : Fits(f, n)}
  <2>1. T = {}
    <3> SUFFICES ASSUME T # {} PROVE FALSE
      OBVIOUS
    <3>1. PICK n \in T : \A m \in T : n <= m
      BY LeastElement
    <3>2. n # 0
      BY <1>3
    <3>3. n - 1 \in Nat /\ n - 1 \notin T
      BY <3>1, <3>2
    <3>4. PICK f : Fits(f, n - 1)
      BY <3>3
    <3>5. \E h : Fits(h, (n - 1) + 1)
      BY <1>2, <3>3, <3>4
    <3>6. QED
      BY <3>1, <3>5
  <2>2. QED
    BY <1>4, <2>1
<1>7. PICK f : Fits(f, all)
  BY <1>6
<1>8. \A here \in C!Rounds(g) : f[here] = Line(g, f, here)
  BY <1>5, <1>7
<1>9. f = [here \in C!Rounds(g) |-> f[here]]
  BY <1>7
<1> HIDE DEF Fits
<1>10. f = [here \in C!Rounds(g) |-> Line(g, f, here)]
  BY <1>8, <1>9
<1>11. QED
  BY <1>10

-----------------------------------------------------------------------------
(* The graph of a workflow: what Kahn's algorithm has taken.               *)

\* A set of nodes to which no edge leads from outside it.
ClosedBack(g, set) == \A e \in g.edges : e.to \in set => e.from \in set

\* The nodes that wait for one outside the set.
Behind(g, set) ==
  {n \in C!Nodes(g) : \E e \in C!Into(g, n) : e.from \notin set}

\* Where Kahn's algorithm is when it has taken the nodes of the set.
Having(g, set) ==
  [ready    |-> C!Nodes(g) \ (set \union Behind(g, set)),
   incoming |-> [n \in C!Nodes(g) |-> IF n \in Behind(g, set) THEN 1 ELSE 0]]

\* No edge leads to a node, or one.
LEMMA OneInput ==
  ASSUME NEW g, Finite(g), C!InputsSingle(g), NEW n \in C!Nodes(g)
  PROVE  \/ C!Into(g, n) = {} /\ C!Cardinality(C!Into(g, n)) = 0
         \/ \E e : C!Into(g, n) = {e} /\ C!Cardinality(C!Into(g, n)) = 1
<1>1. C!Into(g, n) \in SUBSET g.edges
  BY DEF C!Into
<1>2. IsFiniteSet(C!Into(g, n))
  BY <1>1, FS_Subset DEF Finite
<1>3. Cardinality(C!Into(g, n)) \in Nat
  BY <1>2, FS_CardinalityType
<1>4. C!Cardinality(C!Into(g, n)) = Cardinality(C!Into(g, n))
  BY SameCardinality
<1>5. Cardinality(C!Into(g, n)) <= 1
  BY <1>4 DEF C!InputsSingle
<1>6. Cardinality(C!Into(g, n)) = 0 \/ Cardinality(C!Into(g, n)) = 1
  BY <1>3, <1>5
<1>7. QED
  BY <1>2, <1>4, <1>6, FS_EmptySet, FS_Singleton

\* A node is joined to another by one edge, or by none.
LEMMA JoiningSingle ==
  ASSUME NEW g, Finite(g), C!EdgesFit(g), C!InputsSingle(g),
         NEW node, NEW n \in C!Nodes(g)
  PROVE  C!Cardinality(Joining(g, node, n))
           = IF \E e \in C!Into(g, n) : e.from = node THEN 1 ELSE 0
<1>1. Joining(g, node, n) = {e \in C!Into(g, n) : e.from = node}
  BY DEF Joining, C!OutOf, C!Into
<1>2. CASE \E e \in C!Into(g, n) : e.from = node
  <2>1. PICK e \in C!Into(g, n) : e.from = node
    BY <1>2
  <2>2. Joining(g, node, n) = {e}
    BY <1>1, <2>1, OneInput
  <2>3. QED
    BY <1>2, <2>2, FS_Singleton, SameCardinality
<1>3. CASE ~ \E e \in C!Into(g, n) : e.from = node
  <2>1. Joining(g, node, n) = {}
    BY <1>1, <1>3
  <2>2. QED
    BY <1>3, <2>1, FS_EmptySet, SameCardinality
<1>4. QED
  BY <1>2, <1>3

\* Kahn's algorithm starts when it has taken no node.
LEMMA StartsWithNone ==
  ASSUME NEW g, Finite(g), C!InputsSingle(g)
  PROVE  C!Start(g) = Having(g, {})
<1>1. \A n \in C!Nodes(g) :
        /\ C!Incoming(g)[n] = IF n \in Behind(g, {}) THEN 1 ELSE 0
        /\ C!Incoming(g)[n] = 0 <=> n \notin Behind(g, {})
  BY OneInput DEF C!Incoming, Behind
<1>2. C!Incoming(g) = [n \in C!Nodes(g) |-> C!Incoming(g)[n]]
  BY DEF C!Incoming
<1>3. QED
  BY <1>1, <1>2 DEF C!Start, Having

\* Taking a node that waits for none adds it to the ones taken.
LEMMA TakesOneMore ==
  ASSUME NEW g, Finite(g), C!EdgesFit(g), C!InputsSingle(g),
         NEW set, set \subseteq C!Nodes(g), ClosedBack(g, set),
         NEW node \in Having(g, set).ready
  PROVE  /\ C!Take(g, node, Having(g, set)) = Having(g, set \union {node})
         /\ set \union {node} \subseteq C!Nodes(g)
         /\ ClosedBack(g, set \union {node})
<1>1. node \in C!Nodes(g) /\ node \notin set /\ node \notin Behind(g, set)
  BY DEF Having
<1>2. \A e \in C!Into(g, node) : e.from \in set
  BY <1>1 DEF Behind
<1>3. ClosedBack(g, set \union {node})
  BY <1>2 DEF ClosedBack, C!Into
<1> DEFINE more == set \union {node}
           here == Having(g, set)
           left == C!Without(g, node, here.incoming)
<1>4. \A n \in C!Nodes(g) :
        /\ n \in Behind(g, more) => n \in Behind(g, set)
        /\ (\E e \in C!Into(g, n) : e.from = node) <=>
             n \in Behind(g, set) /\ n \notin Behind(g, more)
  <2> SUFFICES ASSUME NEW n \in C!Nodes(g)
               PROVE  /\ n \in Behind(g, more) => n \in Behind(g, set)
                      /\ (\E e \in C!Into(g, n) : e.from = node) <=>
                           n \in Behind(g, set) /\ n \notin Behind(g, more)
    OBVIOUS
  <2>1. n \in Behind(g, more) => n \in Behind(g, set)
    BY DEF Behind
  <2>2. (\E e \in C!Into(g, n) : e.from = node) =>
           n \in Behind(g, set) /\ n \notin Behind(g, more)
    BY <1>1, OneInput DEF Behind
  <2>3. n \in Behind(g, set) /\ n \notin Behind(g, more) =>
           \E e \in C!Into(g, n) : e.from = node
    BY DEF Behind
  <2>4. QED
    BY <2>1, <2>2, <2>3
<1>5. \A n \in C!Nodes(g) :
        /\ here.incoming[n] = IF n \in Behind(g, set) THEN 1 ELSE 0
        /\ left[n] = IF n \in Behind(g, more) THEN 1 ELSE 0
  <2> SUFFICES ASSUME NEW n \in C!Nodes(g)
               PROVE  /\ here.incoming[n] = IF n \in Behind(g, set) THEN 1 ELSE 0
                      /\ left[n] = IF n \in Behind(g, more) THEN 1 ELSE 0
    OBVIOUS
  <2>1. here.incoming[n] = IF n \in Behind(g, set) THEN 1 ELSE 0
    BY DEF Having
  <2>2. left[n] = here.incoming[n] - C!Cardinality(Joining(g, node, n))
    BY DEF C!Without, Joining
  <2>3. C!Cardinality(Joining(g, node, n))
           = IF n \in Behind(g, set) /\ n \notin Behind(g, more) THEN 1 ELSE 0
    BY <1>4, JoiningSingle
  <2> HIDE DEF here, left, more
  <2>4. QED
    BY <1>4, <2>1, <2>2, <2>3
<1>6. left = [n \in C!Nodes(g) |-> left[n]]
  BY DEF C!Without
<1>7. C!Freed(g, node, here.incoming)
        = {n \in C!Nodes(g) : here.incoming[n] > 0 /\ left[n] = 0}
  BY DEF C!Freed
<1>8. C!Take(g, node, here)
        = [ready |-> (here.ready \ {node}) \union C!Freed(g, node, here.incoming), incoming |-> left]
  BY DEF C!Take
<1> HIDE DEF left
<1>9. C!Freed(g, node, here.incoming) = Behind(g, set) \ Behind(g, more)
  <2>1. \A n \in C!Nodes(g) : (here.incoming[n] > 0 /\ left[n] = 0)
           <=> n \in Behind(g, set) \ Behind(g, more)
    <3> HIDE DEF here, more
    <3>1. QED
      BY <1>5
  <2>2. Behind(g, set) \subseteq C!Nodes(g)
    BY DEF Behind
  <2>3. QED
    BY <1>7, <2>1, <2>2
<1>10. left = Having(g, more).incoming
  BY <1>5, <1>6 DEF Having
<1>11. Behind(g, set) \cap set = {}
  BY DEF Behind, ClosedBack, C!Into
<1>12. (here.ready \ {node}) \union (Behind(g, set) \ Behind(g, more)) = Having(g, more).ready
  <2>1. Behind(g, set) \subseteq C!Nodes(g) /\ Behind(g, more) \subseteq Behind(g, set)
    BY <1>4 DEF Behind
  <2>2. QED
    BY <1>1, <1>11, <2>1 DEF Having
<1>13. C!Take(g, node, here) = Having(g, more)
  BY <1>8, <1>9, <1>10, <1>12 DEF Having
<1>14. QED
  BY <1>1, <1>3, <1>13

\* Kahn's algorithm stops when it has all nodes.
LEMMA EndsWithAll ==
  ASSUME NEW g, Finite(g), C!PublishableGraph(g),
         NEW set, set \subseteq C!Nodes(g), ClosedBack(g, set),
         Having(g, set).ready = {}
  PROVE  set = C!Nodes(g)
<1>1. C!EdgesFit(g) /\ C!InputsSingle(g)
  BY DEF C!PublishableGraph, C!DraftGraph
<1>2. \A n \in C!Nodes(g) : n \in set \/ n \in Behind(g, set)
  BY DEF Having
<1>3. C!Triggers(g) \subseteq set
  BY <1>1, <1>2 DEF C!Triggers, Behind, C!Into, C!EdgesFit, C!HasInput
<1>4. ClosedOnward(g, set)
  <2> SUFFICES ASSUME NEW e \in g.edges, e.from \in set
               PROVE  e.to \in set
    BY DEF ClosedOnward
  <2>1. e.to \in C!Nodes(g) /\ e \in C!Into(g, e.to)
    BY <1>1 DEF C!EdgesFit, C!Into
  <2>2. C!Into(g, e.to) = {e}
    BY <1>1, <2>1, OneInput
  <2>3. e.to \notin Behind(g, set)
    BY <2>2 DEF Behind
  <2>4. QED
    BY <1>2, <2>1, <2>3
<1>5. C!Reachable(g, C!Triggers(g)) \subseteq set
  BY <1>1, <1>3, <1>4, ReachableWithin
<1>6. QED
  BY <1>5 DEF C!PublishableGraph

-----------------------------------------------------------------------------
(* The graph of a workflow: what is publishable compiles to a plan.        *)

\* An order of the nodes outside the set, as Kahn's algorithm makes it: each of
\* them once, after the nodes it waits for, and the least first that may be.
Orders(g, set, s) ==
  /\ s \in Seq(C!Nodes(g) \ set)
  /\ Len(s) = Cardinality(C!Nodes(g) \ set)
  /\ \A n \in C!Nodes(g) \ set : \E k \in 1 .. Len(s) : s[k] = n
  /\ \A k \in 1 .. Len(s) : \A e \in C!Into(g, s[k]) :
       e.from \in set \/ \E j \in 1 .. k - 1 : s[j] = e.from
  /\ \A k, j \in 1 .. Len(s) :
       (j < k /\ s[k] < s[j]) =>
         \E i \in j .. k - 1 : \E e \in C!Into(g, s[k]) : e.from = s[i]

\* An order of what is left after the least node, with that node before it.
LEMMA OrderGrows ==
  ASSUME NEW g, Finite(g), NEW set, set \subseteq C!Nodes(g),
         NEW node \in Having(g, set).ready,
         \A n \in Having(g, set).ready : node <= n,
         NEW t, Orders(g, set \union {node}, t)
  PROVE  Orders(g, set, <<node>> \o t)
<1> DEFINE rest == C!Nodes(g) \ set
           s == <<node>> \o t
<1>1. node \in rest /\ node \notin Behind(g, set)
  BY DEF Having
<1>2. C!Nodes(g) \ (set \union {node}) = rest \ {node}
  OBVIOUS
<1>3. t \in Seq(rest \ {node}) /\ Len(t) = Cardinality(rest \ {node})
  BY <1>2 DEF Orders
<1>4. IsFiniteSet(rest) /\ Cardinality(rest) \in Nat
  BY FS_Difference, FS_CardinalityType DEF Finite
<1>5. \A n \in rest : n \in Nat
  BY DEF Finite
<1>6. t \in Seq(rest) /\ <<node>> \in Seq(rest)
  BY <1>1, <1>3
<1>7. Len(t) \in Nat /\ \A k \in 1 .. Len(t) : t[k] \in rest \ {node}
  <2> DEFINE others == rest \ {node}
  <2>1. t \in Seq(others)
    BY <1>3
  <2> HIDE DEF others
  <2>2. Len(t) \in Nat /\ \A k \in 1 .. Len(t) : t[k] \in others
    BY <2>1, ElementOfSeq
  <2>3. QED
    BY <2>2 DEF others
<1>8. /\ s \in Seq(rest) /\ Len(s) = 1 + Len(t)
      /\ s[1] = node /\ \A k \in 2 .. Len(s) : s[k] = t[k - 1]
  <2>1. /\ s \in Seq(rest) /\ Len(s) = Len(<<node>>) + Len(t)
        /\ \A i \in 1 .. Len(<<node>>) + Len(t) :
             s[i] = IF i <= Len(<<node>>) THEN <<node>>[i] ELSE t[i - Len(<<node>>)]
    BY <1>6, ConcatProperties
  <2>2. Len(<<node>>) = 1 /\ <<node>>[1] = node
    OBVIOUS
  <2> HIDE DEF s
  <2>3. QED
    BY <1>7, <2>1, <2>2
<1> HIDE DEF s
<1>9. Len(s) = Cardinality(rest)
  <2>1. Cardinality(rest \ {node}) = Cardinality(rest) - 1
    <3> HIDE DEF rest
    <3>1. QED
      BY <1>1, <1>4, FS_RemoveElement
  <2>2. QED
    BY <1>3, <1>4, <1>8, <2>1
<1>10. \A n \in rest : \E k \in 1 .. Len(s) : s[k] = n
  <2> SUFFICES ASSUME NEW n \in rest PROVE \E k \in 1 .. Len(s) : s[k] = n
    OBVIOUS
  <2>1. CASE n = node
    BY <1>7, <1>8, <2>1
  <2>2. CASE n # node
    <3>1. PICK k \in 1 .. Len(t) : t[k] = n
      BY <2>2 DEF Orders
    <3>2. k + 1 \in 2 .. Len(s) /\ s[k + 1] = n
      BY <1>7, <1>8, <3>1
    <3>3. QED
      BY <3>2
  <2>3. QED
    BY <2>1, <2>2
<1>11. \A k \in 1 .. Len(s) : \A e \in C!Into(g, s[k]) :
         e.from \in set \/ \E j \in 1 .. k - 1 : s[j] = e.from
  <2> SUFFICES ASSUME NEW k \in 1 .. Len(s), NEW e \in C!Into(g, s[k]), e.from \notin set
               PROVE  \E j \in 1 .. k - 1 : s[j] = e.from
    OBVIOUS
  <2>1. k # 1
    BY <1>1, <1>8 DEF Behind
  <2>2. k - 1 \in 1 .. Len(t) /\ s[k] = t[k - 1]
    BY <1>7, <1>8, <2>1
  <2>3. e.from = node \/ \E j \in 1 .. (k - 1) - 1 : t[j] = e.from
    BY <2>2 DEF Orders
  <2>4. CASE e.from = node
    BY <1>8, <2>2, <2>4
  <2>5. CASE \E j \in 1 .. (k - 1) - 1 : t[j] = e.from
    <3>1. PICK j \in 1 .. (k - 1) - 1 : t[j] = e.from
      BY <2>5
    <3>2. j + 1 \in 2 .. Len(s) /\ j + 1 \in 1 .. k - 1 /\ s[j + 1] = e.from
      BY <1>7, <1>8, <2>2, <3>1
    <3>3. QED
      BY <3>2
  <2>6. QED
    BY <2>3, <2>4, <2>5
<1>12. \A k, j \in 1 .. Len(s) :
         (j < k /\ s[k] < s[j]) =>
           \E i \in j .. k - 1 : \E e \in C!Into(g, s[k]) : e.from = s[i]
  <2> SUFFICES ASSUME NEW k \in 1 .. Len(s), NEW j \in 1 .. Len(s), j < k, s[k] < s[j]
               PROVE  \E i \in j .. k - 1 : \E e \in C!Into(g, s[k]) : e.from = s[i]
    OBVIOUS
  <2>1. k - 1 \in 1 .. Len(t) /\ k \in 2 .. Len(s) /\ s[k] = t[k - 1]
    BY <1>7, <1>8
  <2>2. CASE j = 1
    <3>1. s[k] \in rest /\ s[k] \in Nat /\ node \in Nat /\ s[k] < node
      BY <1>1, <1>5, <1>7, <1>8, <2>1, <2>2
    <3>2. s[k] \notin Having(g, set).ready
      BY <3>1
    <3>3. s[k] \in Behind(g, set)
      BY <3>1, <3>2 DEF Having
    <3>4. PICK e \in C!Into(g, s[k]) : e.from \notin set
      BY <3>3 DEF Behind
    <3>5. PICK i \in 1 .. k - 1 : s[i] = e.from
      BY <1>11, <3>4
    <3>6. QED
      BY <2>2, <3>4, <3>5
  <2>3. CASE j # 1
    <3>1. j - 1 \in 1 .. Len(t) /\ s[j] = t[j - 1] /\ j - 1 < k - 1
      BY <1>7, <1>8, <2>1, <2>3
    <3>2. \E i \in j - 1 .. (k - 1) - 1 : \E e \in C!Into(g, t[k - 1]) : e.from = t[i]
      BY <2>1, <3>1 DEF Orders
    <3>3. PICK i \in j - 1 .. (k - 1) - 1 : \E e \in C!Into(g, t[k - 1]) : e.from = t[i]
      BY <3>2
    <3>4. i + 1 \in j .. k - 1 /\ i + 1 \in 2 .. Len(s) /\ s[i + 1] = t[i]
      BY <1>7, <1>8, <2>1, <2>3, <3>3
    <3>5. QED
      BY <2>1, <3>3, <3>4
  <2>4. QED
    BY <2>2, <2>3
<1>13. Orders(g, set, s)
  BY <1>8, <1>9, <1>10, <1>11, <1>12 DEF Orders
<1>14. QED
  BY <1>13 DEF s

\* What Ordered is: whatever has been taken, the rest comes out in order.
LEMMA OrderMade ==
  ASSUME NEW g, Finite(g), C!PublishableGraph(g)
  PROVE  Orders(g, {}, C!Ordered(g))
<1> DEFINE f == CHOOSE f : f = [here \in C!Rounds(g) |-> Line(g, f, here)]
<1>1. C!Ordered(g) = f[C!Start(g)]
  BY DEF C!Ordered, Line
<1>2. f = [here \in C!Rounds(g) |-> Line(g, f, here)]
  BY LineExists
<1> HIDE DEF f
<1>3. C!EdgesFit(g) /\ C!InputsSingle(g)
  BY DEF C!PublishableGraph, C!DraftGraph
<1> DEFINE Taken == {set \in SUBSET C!Nodes(g) : ClosedBack(g, set)}
           Made(set) == Orders(g, set, f[Having(g, set)])
           Rest(set) == Cardinality(C!Nodes(g) \ set)
           T == {Rest(set) : set \in {d \in Taken : ~Made(d)}}
<1>4. \A set \in Taken : Rest(set) \in Nat
  BY FS_Difference, FS_CardinalityType DEF Finite
<1>5. ASSUME NEW set \in Taken, ~Made(set)
      PROVE  \E more \in Taken : ~Made(more) /\ Rest(more) < Rest(set)
  <2> DEFINE here == Having(g, set)
             node == C!Min(here.ready)
             more == set \union {node}
  <2>1. here \in C!Rounds(g)
    BY DEF Having, C!Rounds
  <2>2. f[here] = Line(g, f, here)
    BY <1>2, <2>1
  <2>3. here.ready # {}
    <3> SUFFICES ASSUME here.ready = {} PROVE FALSE
      OBVIOUS
    <3>1. C!Nodes(g) \ set = {}
      BY EndsWithAll
    <3>2. f[here] = <<>>
      BY <2>2 DEF Line
    <3>3. <<>> \in Seq({}) /\ Len(<<>>) = 0 /\ Cardinality({}) = 0
      BY FS_EmptySet
    <3>4. Orders(g, set, <<>>)
      BY <3>1, <3>3 DEF Orders
    <3>5. QED
      BY <1>5, <3>2, <3>4
  <2>4. node \in here.ready /\ \A n \in here.ready : node <= n
    BY <2>1, <2>3, LeastReady
  <2>5. f[here] = <<node>> \o f[C!Take(g, node, here)]
    BY <2>2, <2>3 DEF Line
  <2> HIDE DEF node
  <2>6. C!Take(g, node, here) = Having(g, more) /\ more \in Taken
    BY <1>3, <2>4, TakesOneMore
  <2>7. ~Made(more)
    BY <1>5, <2>4, <2>5, <2>6, OrderGrows
  <2>8. Rest(more) < Rest(set)
    <3> DEFINE rest == C!Nodes(g) \ set
    <3>1. node \in rest /\ IsFiniteSet(rest)
      BY <2>4, FS_Difference DEF Having, Finite
    <3>2. C!Nodes(g) \ more = rest \ {node}
      OBVIOUS
    <3> HIDE DEF rest
    <3>3. Cardinality(rest \ {node}) = Cardinality(rest) - 1 /\ Cardinality(rest) \in Nat
      BY <3>1, FS_RemoveElement, FS_CardinalityType
    <3>4. Rest(more) = Cardinality(rest \ {node}) /\ Rest(set) = Cardinality(rest)
      BY <3>2 DEF rest
    <3> HIDE DEF Rest, more
    <3>5. QED
      BY <3>3, <3>4
  <2>9. QED
    BY <2>6, <2>7, <2>8
<1>6. T = {}
  <2> SUFFICES ASSUME T # {} PROVE FALSE
    OBVIOUS
  <2>1. T \subseteq Nat
    BY <1>4
  <2>2. PICK n \in T : \A m \in T : n <= m
    <3> HIDE DEF T
    <3>1. QED
      BY <2>1, LeastElement
  <2>3. PICK set \in Taken : ~Made(set) /\ n = Rest(set)
    BY <2>2
  <2> HIDE DEF Made, Rest
  <2>4. PICK more \in Taken : ~Made(more) /\ Rest(more) < Rest(set)
    BY <1>5, <2>3
  <2>5. Rest(more) \in T
    BY <2>4
  <2>6. QED
    BY <1>4, <2>2, <2>3, <2>4, <2>5
<1>7. {} \in Taken
  BY DEF ClosedBack
<1>8. Made({})
  BY <1>6, <1>7
<1>9. QED
  BY <1>1, <1>3, <1>8, StartsWithNone

\* An order of all nodes is a plan.
LEMMA PublishableMakesPlan ==
  ASSUME Finite(graph)
  PROVE  C!PublishableIsPlan
<1> SUFFICES ASSUME C!PublishableGraph(graph)
             PROVE  LET plan == C!CompiledPlan(graph) IN
                    /\ Len(plan.steps) = C!Cardinality(C!Nodes(graph))
                    /\ {plan.steps[k] : k \in C!Positions(plan)} = C!Nodes(graph)
                    /\ plan.entries = C!Triggers(graph)
                    /\ C!RoutedFromEarlier(graph, plan)
                    /\ C!LeastOrder(plan)
  BY DEF C!PublishableIsPlan
<1> DEFINE s == C!Ordered(graph)
           plan == C!CompiledPlan(graph)
<1>1. Orders(graph, {}, s)
  BY OrderMade
<1> HIDE DEF s
<1>2. /\ plan.steps = s
      /\ plan.entries = {n \in C!Nodes(graph) : C!Into(graph, n) = {}}
      /\ plan.inbound = [n \in C!Nodes(graph) |-> C!Into(graph, n)]
  BY DEF C!CompiledPlan, s
<1> HIDE DEF plan
<1>3. C!EdgesFit(graph) /\ C!InputsSingle(graph)
  BY DEF C!PublishableGraph, C!DraftGraph
<1>4. /\ s \in Seq(C!Nodes(graph)) /\ Len(s) = Cardinality(C!Nodes(graph))
      /\ C!Positions(plan) = 1 .. Len(s) /\ Len(s) \in Nat
      /\ \A k \in 1 .. Len(s) : s[k] \in C!Nodes(graph)
  BY <1>1, <1>2 DEF Orders, C!Positions
<1>5. Len(plan.steps) = C!Cardinality(C!Nodes(graph))
  BY <1>2, <1>4, SameCardinality
<1>6. {plan.steps[k] : k \in C!Positions(plan)} = C!Nodes(graph)
  <2>1. \A n \in C!Nodes(graph) : \E k \in 1 .. Len(s) : s[k] = n
    BY <1>1 DEF Orders
  <2>2. QED
    BY <1>2, <1>4, <2>1
<1>7. plan.entries = C!Triggers(graph)
  <2>1. \A n \in C!Triggers(graph) : C!Into(graph, n) = {}
    BY <1>3 DEF C!Triggers, C!Into, C!EdgesFit, C!HasInput
  <2>2. \A n \in C!Nodes(graph) \ C!Triggers(graph) : C!Into(graph, n) # {}
    BY DEF C!PublishableGraph
  <2>3. C!Triggers(graph) \subseteq C!Nodes(graph)
    BY DEF C!Triggers
  <2>4. QED
    BY <1>2, <2>1, <2>2, <2>3
<1>8. \A n \in C!Nodes(graph) : C!Into(graph, n) = {} \/ \E e : C!Into(graph, n) = {e}
  BY <1>3, OneInput
<1>9. plan.steps = s /\ C!Positions(plan) = 1 .. Len(s)
  BY <1>2, <1>4
<1>10. C!RoutedFromEarlier(graph, plan)
  <2> DEFINE Routed(k, n) ==
        IF n \in plan.entries THEN plan.inbound[n] = {}
        ELSE \E e \in plan.inbound[n], j \in 1 .. k - 1 :
               /\ plan.inbound[n] = {e}
               /\ e.from = plan.steps[j]
               /\ e.handle \in C!Outputs(graph.nodes[e.from])
  <2>1. (\A k \in C!Positions(plan) : Routed(k, plan.steps[k]))
          => C!RoutedFromEarlier(graph, plan)
    BY DEF C!RoutedFromEarlier
  <2> HIDE DEF Routed
  <2> SUFFICES ASSUME NEW k \in 1 .. Len(s) PROVE Routed(k, s[k])
    BY <1>9, <2>1
  <2> USE DEF Routed
  <2>2. CASE s[k] \in plan.entries
    BY <1>2, <2>2
  <2>3. CASE s[k] \notin plan.entries
    <3> SUFFICES \E e \in plan.inbound[s[k]], j \in 1 .. k - 1 :
                   /\ plan.inbound[s[k]] = {e}
                   /\ e.from = plan.steps[j]
                   /\ e.handle \in C!Outputs(graph.nodes[e.from])
      BY <2>3
    <3>1. s[k] \in C!Nodes(graph) /\ plan.inbound[s[k]] = C!Into(graph, s[k])
      BY <1>2, <1>4
    <3>2. C!Into(graph, s[k]) # {}
      BY <1>2, <2>3, <3>1
    <3>3. PICK e : C!Into(graph, s[k]) = {e}
      BY <1>8, <3>1, <3>2
    <3>4. PICK j \in 1 .. k - 1 : s[j] = e.from
      BY <1>1, <3>3 DEF Orders
    <3>5. e \in graph.edges
      BY <3>3 DEF C!Into
    <3>6. e.handle \in C!Outputs(graph.nodes[e.from])
      BY <1>3, <3>5 DEF C!EdgesFit
    <3>7. QED
      BY <1>9, <3>1, <3>3, <3>4, <3>6
  <2>4. QED
    BY <2>2, <2>3
<1>11. C!LeastOrder(plan)
  <2>1. (\A k, j \in C!Positions(plan) :
           (j < k /\ plan.steps[k] < plan.steps[j]) =>
             \E i \in j .. k - 1, e \in plan.inbound[plan.steps[k]] : e.from = plan.steps[i])
          => C!LeastOrder(plan)
    BY DEF C!LeastOrder
  <2> SUFFICES ASSUME NEW k \in 1 .. Len(s), NEW j \in 1 .. Len(s), j < k, s[k] < s[j]
               PROVE  \E i \in j .. k - 1, e \in plan.inbound[s[k]] : e.from = s[i]
    BY <1>9, <2>1
  <2>2. plan.inbound[s[k]] = C!Into(graph, s[k])
    BY <1>2, <1>4
  <2>3. \E i \in j .. k - 1 : \E e \in C!Into(graph, s[k]) : e.from = s[i]
    BY <1>1 DEF Orders
  <2>4. QED
    BY <2>2, <2>3
<1>12. QED
  BY <1>5, <1>6, <1>7, <1>10, <1>11 DEF plan

\* The canvas stays finite.
LEMMA CanvasFinite ==
  ASSUME C!WorkflowGraphParameters
  PROVE  /\ C!WorkflowGraphInit => Finite(graph)
         /\ Finite(graph) /\ [C!WorkflowGraphNext]_graph => Finite(graph)'
<1>1. C!WorkflowGraphInit => Finite(graph)
  <2> SUFFICES ASSUME C!WorkflowGraphInit PROVE Finite(graph)
    OBVIOUS
  <2>1. C!Nodes(graph) = {} /\ graph.edges = {}
    BY DEF C!WorkflowGraphInit, C!Nodes
  <2>2. QED
    BY <2>1, FS_EmptySet DEF Finite
<1>2. ASSUME Finite(graph), [C!WorkflowGraphNext]_graph PROVE Finite(graph')
  <2>1. ASSUME NEW n \in NodeIds, NEW made \in NodeKinds, C!AddNode(n, made)
        PROVE  Finite(graph')
    <3>1. graph'.edges = graph.edges /\ C!Nodes(graph') = C!Nodes(graph) \union {n}
      BY <2>1, <1>2 DEF C!AddNode, C!Nodes
    <3>2. IsFiniteSet(C!Nodes(graph) \union {n})
      BY <1>2, FS_AddElement DEF Finite
    <3>3. n \in Nat
      BY DEF C!WorkflowGraphParameters
    <3>4. QED
      BY <1>2, <3>1, <3>2, <3>3 DEF Finite
  <2>2. ASSUME NEW n \in NodeIds, C!RemoveNode(n)
        PROVE  Finite(graph')
    <3>1. graph'.edges \in SUBSET graph.edges /\ C!Nodes(graph') = C!Nodes(graph) \ {n}
      BY <2>2 DEF C!RemoveNode, C!Nodes
    <3>2. IsFiniteSet(C!Nodes(graph) \ {n}) /\ IsFiniteSet(graph'.edges)
      BY <1>2, <3>1, FS_RemoveElement, FS_Subset DEF Finite
    <3>3. QED
      BY <1>2, <3>1, <3>2 DEF Finite
  <2>3. ASSUME NEW e \in C!Edges, C!Connect(e)
        PROVE  Finite(graph')
    <3>1. graph'.edges = graph.edges \union {e} /\ C!Nodes(graph') = C!Nodes(graph)
      BY <2>3 DEF C!Connect, C!Nodes
    <3>2. IsFiniteSet(graph.edges \union {e})
      BY <1>2, FS_AddElement DEF Finite
    <3>3. QED
      BY <1>2, <3>1, <3>2 DEF Finite
  <2>4. ASSUME NEW e \in C!Edges, C!Disconnect(e)
        PROVE  Finite(graph')
    <3>1. graph'.edges = graph.edges \ {e} /\ C!Nodes(graph') = C!Nodes(graph)
      BY <2>4 DEF C!Disconnect, C!Nodes
    <3>2. IsFiniteSet(graph.edges \ {e})
      BY <1>2, FS_RemoveElement DEF Finite
    <3>3. QED
      BY <1>2, <3>1, <3>2 DEF Finite
  <2>5. CASE UNCHANGED graph
    BY <1>2, <2>5
  <2>6. QED
    BY <1>2, <2>1, <2>2, <2>3, <2>4, <2>5 DEF C!WorkflowGraphNext
<1>3. QED
  BY <1>1, <1>2

\* Whatever is publishable compiles to a plan.
THEOREM GraphsArePlans ==
  ASSUME C!WorkflowGraphParameters
  PROVE  C!WorkflowGraphInit /\ [][C!WorkflowGraphNext]_graph => []C!PublishableIsPlan
<1>1. C!WorkflowGraphInit /\ [][C!WorkflowGraphNext]_graph => []Finite(graph)
  BY CanvasFinite, PTL
<1>2. Finite(graph) => C!PublishableIsPlan
  BY PublishableMakesPlan
<1>3. QED
  BY <1>1, <1>2, PTL

\* The step that the single route of step n comes from, as a run of the plan
\* reads it; none for an entry.
RouteFrom(plan, n, none) ==
  IF n \in plan.entries THEN none
  ELSE CHOOSE m : \E e \in plan.inbound[n] : e.from = m

\* What WorkflowRun and WorkflowExecution assume of the plan of a run: steps
\* with one parent or none, some without, and no step that is its own
\* ancestor; and that a route is by a handle its source can activate.
PlanIsForest ==
  C!PublishableGraph(graph) =>
    LET plan == C!CompiledPlan(graph)
        steps == C!Nodes(graph)
    IN \A none : none \notin steps =>
         LET parent == [n \in steps |-> RouteFrom(plan, n, none)] IN
         /\ parent \in [steps -> steps \union {none}]
         /\ \E n \in steps : parent[n] = none
         /\ \A set \in SUBSET steps :
              set # {} => \E n \in set : parent[n] \notin set
         /\ \A n \in steps : parent[n] # none =>
              \E e \in plan.inbound[n] :
                /\ plan.inbound[n] = {e}
                /\ e.from = parent[n]
                /\ e.handle \in C!Outputs(graph.nodes[parent[n]])

\* An order of the steps in which routes come from earlier ones leaves no
\* cycle: of any set of steps, the first comes from outside.
LEMMA PublishableMakesForest ==
  ASSUME Finite(graph)
  PROVE  PlanIsForest
<1> DEFINE plan == C!CompiledPlan(graph)
           steps == C!Nodes(graph)
<1> SUFFICES ASSUME C!PublishableGraph(graph), NEW none, none \notin steps
             PROVE  LET parent == [n \in steps |-> RouteFrom(plan, n, none)] IN
                    /\ parent \in [steps -> steps \union {none}]
                    /\ \E n \in steps : parent[n] = none
                    /\ \A set \in SUBSET steps :
                         set # {} => \E n \in set : parent[n] \notin set
                    /\ \A n \in steps : parent[n] # none =>
                         \E e \in plan.inbound[n] :
                           /\ plan.inbound[n] = {e}
                           /\ e.from = parent[n]
                           /\ e.handle \in C!Outputs(graph.nodes[parent[n]])
  BY DEF PlanIsForest
<1> DEFINE order == C!Ordered(graph)
           parent == [n \in steps |-> RouteFrom(plan, n, none)]
<1>1. /\ order \in Seq(steps) /\ Len(order) \in Nat
      /\ \A n \in steps : \E k \in 1 .. Len(order) : order[k] = n
  BY OrderMade DEF Orders
<1>2. /\ plan.steps = order /\ C!Positions(plan) = 1 .. Len(order)
      /\ \A k \in 1 .. Len(order) : order[k] \in steps
  BY <1>1 DEF C!CompiledPlan, C!Positions
<1>3. /\ plan.entries = C!Triggers(graph)
      /\ C!RoutedFromEarlier(graph, plan)
  BY PublishableMakesPlan DEF C!PublishableIsPlan
<1>4. \E n \in steps : n \in plan.entries
  BY <1>3 DEF C!PublishableGraph, C!Triggers
<1> HIDE DEF plan, order, steps
<1>5. ASSUME NEW k \in 1 .. Len(order), order[k] \notin plan.entries
      PROVE  \E e \in plan.inbound[order[k]], j \in 1 .. k - 1 :
               /\ plan.inbound[order[k]] = {e}
               /\ e.from = order[j] /\ RouteFrom(plan, order[k], none) = order[j]
               /\ e.handle \in C!Outputs(graph.nodes[e.from])
  <2>1. PICK e \in plan.inbound[order[k]], j \in 1 .. k - 1 :
               /\ plan.inbound[order[k]] = {e}
               /\ e.from = order[j]
               /\ e.handle \in C!Outputs(graph.nodes[e.from])
    BY <1>2, <1>3, <1>5 DEF C!RoutedFromEarlier
  <2>2. RouteFrom(plan, order[k], none) = order[j]
    BY <1>5, <2>1 DEF RouteFrom
  <2>3. QED
    BY <2>1, <2>2
<1>6. ASSUME NEW n \in steps
      PROVE  /\ n \in plan.entries => RouteFrom(plan, n, none) = none
             /\ RouteFrom(plan, n, none) # none =>
                  /\ RouteFrom(plan, n, none) \in steps
                  /\ \E e \in plan.inbound[n] :
                       /\ plan.inbound[n] = {e}
                       /\ e.from = RouteFrom(plan, n, none)
                       /\ e.handle \in C!Outputs(graph.nodes[e.from])
  <2>1. PICK k \in 1 .. Len(order) : order[k] = n
    BY <1>1
  <2>2. \A j \in 1 .. k - 1 : order[j] \in steps
    BY <1>1, <1>2
  <2>3. n \in plan.entries => RouteFrom(plan, n, none) = none
    BY DEF RouteFrom
  <2>4. CASE n \notin plan.entries
    BY <1>5, <2>1, <2>2, <2>3, <2>4
  <2>5. CASE n \in plan.entries
    BY <2>3, <2>5
  <2>6. QED
    BY <2>4, <2>5
<1>7. ASSUME NEW set \in SUBSET steps, set # {}
      PROVE  \E n \in set : RouteFrom(plan, n, none) \notin set
  <2> DEFINE Places == {k \in 1 .. Len(order) : order[k] \in set}
  <2>1. Places # {} /\ Places \subseteq Nat
    BY <1>1, <1>7
  <2>2. PICK k \in Places : \A j \in Places : k <= j
    BY <2>1, LeastElement
  <2>3. k \in 1 .. Len(order) /\ order[k] \in set
    BY <2>2
  <2>4. \A j \in 1 .. k - 1 : order[j] \notin set
    BY <1>1, <2>2, <2>3
  <2>5. RouteFrom(plan, order[k], none) \notin set
    <3>1. CASE order[k] \in plan.entries
      BY <1>6, <2>3, <3>1
    <3>2. CASE order[k] \notin plan.entries
      BY <1>5, <2>3, <2>4, <3>2
    <3>3. QED
      BY <3>1, <3>2
  <2>6. QED
    BY <2>3, <2>5
<1>8. QED
  BY <1>4, <1>6, <1>7

\* Whatever is built and is publishable compiles to a forest.
THEOREM PlansAreForests ==
  ASSUME C!WorkflowGraphParameters
  PROVE  C!WorkflowGraphInit /\ [][C!WorkflowGraphNext]_graph => []PlanIsForest
<1>1. C!WorkflowGraphInit /\ [][C!WorkflowGraphNext]_graph => []Finite(graph)
  BY CanvasFinite, PTL
<1>2. Finite(graph) => PlanIsForest
  BY PublishableMakesForest
<1>3. QED
  BY <1>1, <1>2, PTL

-----------------------------------------------------------------------------
(* The tables: they start as each of their parts does, and each step is    *)
(* one of a part's or leaves the part as it is.                            *)

\* What leaves a part's variables alone leaves them alone as the part names
\* them.
LEMMA PartVariables ==
  /\ UNCHANGED schemaVars => UNCHANGED S!schemaVars
  /\ UNCHANGED formulaVars => UNCHANGED F!formulaVars
  /\ UNCHANGED gridVars => UNCHANGED G!gridVars
  /\ UNCHANGED waterfallVars => UNCHANGED W!waterfallVars
  /\ UNCHANGED airbyteVars => UNCHANGED B!airbyteVars
  /\ UNCHANGED stepVars => UNCHANGED R!stepRowsVars
  /\ UNCHANGED draftsVars => UNCHANGED D!workflowDraftsVars
BY DEF schemaVars, formulaVars, F!formulaVars, gridVars, waterfallVars, airbyteVars, stepVars, draftsVars,
       S!schemaVars, G!gridVars, W!waterfallVars, B!airbyteVars,
       R!stepRowsVars, R!ledger, R!executor, D!workflowDraftsVars

\* A step of the tables is a step of the part that is followed.
LEMMA PartSteps ==
  ASSUME [TablesNext]_tablesVars
  PROVE  /\ [S!SchemaNext]_(S!schemaVars)
         /\ [F!FormulasNext]_(F!formulaVars)
         /\ [C!WorkflowGraphNext]_graph
         /\ [G!GridNext]_(G!gridVars)
         /\ [W!WaterfallNext]_(W!waterfallVars)
         /\ [B!AirbyteNext]_(B!airbyteVars)
         /\ [R!StepRowsNext]_(R!stepRowsVars)
         /\ [D!WorkflowDraftsNext]_(D!workflowDraftsVars)
<1>1. \/ S!SchemaNext
      \/ UNCHANGED schemaVars
  BY DEF TablesNext, tablesVars
<1>2. \/ G!GridNext
      \/ UNCHANGED gridVars
  BY DEF TablesNext, tablesVars
<1>3. \/ W!WaterfallNext
      \/ UNCHANGED waterfallVars
  BY DEF TablesNext, tablesVars
<1>4. \/ B!AirbyteNext
      \/ UNCHANGED airbyteVars
  BY DEF TablesNext, tablesVars
<1>5. \/ R!StepRowsNext
      \/ UNCHANGED stepVars
  BY DEF TablesNext, tablesVars
<1>6. \/ D!WorkflowDraftsNext
      \/ UNCHANGED draftsVars
  BY DEF TablesNext, tablesVars
<1>7. \/ F!FormulasNext
      \/ UNCHANGED formulaVars
  BY DEF TablesNext, tablesVars
<1>8. \/ C!WorkflowGraphNext
      \/ UNCHANGED graph
  BY DEF TablesNext, tablesVars
<1>9. QED
  BY <1>1, <1>2, <1>3, <1>4, <1>5, <1>6, <1>7, <1>8, PartVariables

\* The tables behave as each of their parts promises on its own.
THEOREM PartsBehave ==
  TablesSpec => /\ S!SchemaSpec
                /\ F!FormulaSpec
                /\ C!WorkflowGraphInit /\ [][C!WorkflowGraphNext]_graph
                /\ G!GridSpec
                /\ W!WaterfallSpec
                /\ B!AirbyteSpec
                /\ R!StepRowsSpec
                /\ D!WorkflowDraftsSpec
<1>1. TablesInit => /\ S!SchemaInit /\ G!GridInit /\ W!WaterfallInit
                    /\ B!AirbyteInit /\ R!StepRowsInit
                    /\ D!WorkflowDraftsInit
                    /\ F!FormulaInit /\ C!WorkflowGraphInit
  BY DEF TablesInit
<1>2. [TablesNext]_tablesVars =>
         /\ [S!SchemaNext]_(S!schemaVars)
         /\ [G!GridNext]_(G!gridVars)
         /\ [W!WaterfallNext]_(W!waterfallVars)
         /\ [B!AirbyteNext]_(B!airbyteVars)
         /\ [R!StepRowsNext]_(R!stepRowsVars)
         /\ [D!WorkflowDraftsNext]_(D!workflowDraftsVars)
         /\ [F!FormulasNext]_(F!formulaVars)
         /\ [C!WorkflowGraphNext]_graph
  BY PartSteps
<1>3. QED
  BY <1>1, <1>2, PTL
  DEF TablesSpec, S!SchemaSpec, G!GridSpec, W!WaterfallSpec, B!AirbyteSpec,
      R!StepRowsSpec, D!WorkflowDraftsSpec, F!FormulaSpec

\* What a column, a view, an import, a source or a writeback refers to is in
\* use (sqlite/schema.ts).
THEOREM ReferencesAreActive == TablesSpec => []ReferencesActive
BY PartsBehave, UseActiveColumns, TablesAssumption, PTL DEF ReferencesActive

\* A save replaces what its user saw, or another record (grid-editor.tsx and
\* updateCell).
THEOREM SavesReplaceTheSeen == TablesSpec => SavesReplaceWhatWasSeen
BY PartsBehave, SavesReplaceWhatWasSeenHolds, TablesAssumption, PTL
DEF SavesReplaceWhatWasSeen

\* Providers are called in the order of the plan, and none that was not
\* reached (sqlite/enrichments.ts).
THEOREM ProvidersFollowThePlan == TablesSpec => []ChainIsFollowed
BY PartsBehave, ProvidersInTurn, TablesAssumption, PTL DEF ChainIsFollowed

\* A record before an acknowledged checkpoint is in the tables (the Airbyte
\* destination).
THEOREM AcknowledgedRecordsAreWritten == TablesSpec => []AckedIsWritten
BY PartsBehave, AcknowledgedIsWritten, TablesAssumption, PTL DEF AckedIsWritten

\* A step that succeeds has succeeded on every row, and one that fails without
\* a fault has a row that failed (workflow execution).
THEOREM StepsEndAsRows == TablesSpec => StepEndsAsItsRows
BY PartsBehave, StepsEndAsTheirRows, TablesAssumption, PTL
DEF StepEndsAsItsRows

\* A save replaces the draft that its editor showed, and a version is what was
\* submitted for publication (sqlite/workflows.ts and the workflow page).
THEOREM DraftsFollowSubmissions == TablesSpec => DraftsAsSubmitted
BY PartsBehave, DraftsAreAsSubmitted, TablesAssumption, PTL
DEF DraftsAsSubmitted

\* A write recomputes each formula downstream of it, from what the columns it
\* depends on hold after the write (sqlite/formulas.ts).
THEOREM FormulasFollowChanges == TablesSpec => FormulasFollow
BY PartsBehave, FormulasAreFollowed, TablesAssumption, PTL DEF FormulasFollow

\* A graph that passes for publishable compiles to a plan: every node once, in
\* an order of its routes (workflow-policy.ts and workflow-compiler.ts).
THEOREM PublishedGraphsArePlans == TablesSpec => []PublishableIsPlan
BY PartsBehave, GraphsArePlans, TablesAssumption, PTL DEF PublishableIsPlan

\* A published graph gives a run what its proofs assume of a plan: entries,
\* one parent for every other step, and no cycle (workflow-compiler.ts under
\* createSqliteWorkflowRun).
THEOREM PublishedPlansAreForests == TablesSpec => []PlanIsForest
BY PartsBehave, PlansAreForests, TablesAssumption, PTL

=============================================================================
