-------------------------- MODULE ResultValidation --------------------------
(***************************************************************************)
(* validateResultMetadata() of prepared_statement_base.hpp: the bindings   *)
(* of a statement's result against what the server says of its columns.    *)
(*                                                                         *)
(* A binding is a record [set, type, unsigned, nullable], a column a       *)
(* record [type, unsigned, nullable]; `set' is false for a binding that    *)
(* nobody initialized.                                                     *)
(***************************************************************************)
EXTENDS MetadataModes, Sequences

Shorter(s, t) == IF Len(s) <= Len(t) THEN Len(s) ELSE Len(t)

\* Fault: a column that may be NULL is accepted by every binding.
ValidateTypesOnly(binding, column, mode, ignoreNullable) ==
  IF ~binding.set THEN "uninitialized"
  ELSE IF ~isCompatible(mode, column.type, column.unsigned, binding.type, binding.unsigned)
  THEN "types"
  ELSE "ok"

\* One turn of the loop: "hang" is its `continue' that steps nothing.
ValidateItem(binding, column, mode, ignoreNullable) ==
  IF ~binding.set THEN "uninitialized"
  ELSE IF toFieldTypeThrows(binding.type) \/ toFieldTypeThrows(column.type) THEN "unknown"
  ELSE IF binding.type = "Null" THEN "hang"
  ELSE IF ~isCompatible(mode, column.type, column.unsigned, binding.type, binding.unsigned)
  THEN "types"
  ELSE IF column.nullable /\ ~binding.nullable /\ ~ignoreNullable /\ mode # "Disabled"
  THEN "nullable"
  ELSE "ok"

\* The first item that is refused decides, then the counts.  With both modes
\* disabled nothing is looked at; a warning alone refuses nothing.
validateResultMetadata(bindings, metadata, mode, warnMode, ignoreNullable) ==
  IF mode = "Disabled" /\ warnMode = "Disabled" THEN "ok"
  ELSE LET outcome(i) == ValidateItem(bindings[i], metadata[i], mode, ignoreNullable)
           bad == {i \in 1 .. Shorter(bindings, metadata) : outcome(i) # "ok"}
       IN  IF bad # {} THEN outcome(CHOOSE i \in bad : \A j \in bad : i <= j)
           ELSE IF Len(bindings) # Len(metadata) THEN "count"
           ELSE "ok"
=============================================================================
