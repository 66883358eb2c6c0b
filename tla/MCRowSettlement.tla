--------------------------- MODULE MCRowSettlement ---------------------------
(***************************************************************************)
(* A table for TLC: two inputs, a formula of the first, and two            *)
(* connectors: a reads the formula, b reads a and the second input.        *)
(***************************************************************************)
EXTENDS RowSettlement

InputColumns == {"x", "y"}
FormulaColumns == {"f"}
ConnectorColumns == {"a", "b"}
OnlyA == {"a"}
None == {}

Dependencies == [c \in {"f", "a", "b"} |->
  CASE c = "f" -> {"x"} [] c = "a" -> {"f"} [] c = "b" -> {"a", "y"}]

TwoDestinations == {"crm", "mail"}
RelevantToTwo == [d \in TwoDestinations |->
  IF d = "crm" THEN {"y", "b"} ELSE {"b"}]
RelevantToNone == [d \in None |-> {}]

=============================================================================
