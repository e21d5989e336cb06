-------------------------- MODULE DynamicStatement --------------------------
(***************************************************************************)
(* dynamic_prepared_statement.hpp over prepared_statement_base.hpp: the    *)
(* user binds variables of his own, one by one, after execute(), and the   *)
(* C library writes rows into them.                                        *)
(*                                                                         *)
(* A statement may have several results, as a CALL of a procedure has.     *)
(***************************************************************************)
EXTENDS ResultValidation, SequencesExt

CONSTANTS
  Variables,      \* the user's variables
  BindingOf,      \* [Variables -> bindings], what initializeResultBinding makes
  Answers,        \* what execute() may get: sequences of results, each one a
                  \* sequence of columns, <<>> for a result without columns
  Data,           \* values of a column
  NULL,           \* the SQL value
  Unset,          \* no variable: a binding that was not initialized
  IgnoreNullable  \* the template's flag

\* Bound: columns of a result.
MaxColumns == 2

ASSUME DynamicAssumption ==
  /\ \A v \in Variables : BindingOf[v].set /\ BindingOf[v].nullable \in BOOLEAN
  /\ {NULL, Unset} \cap (Data \cup Variables) = {} /\ NULL # Unset /\ Data # {}
  /\ \A answer \in Answers :
       /\ answer # <<>>
       /\ answer \in Seq(BoundedSeq([type : FieldTypes \cup OtherTypes, unsigned : BOOLEAN,
                                     nullable : BOOLEAN], MaxColumns))

VARIABLES
  validateMode,      \* the template's mode; warnMode is the same
  resultFieldCount,  \* -1 before the first execute()
  resultBindings,    \* for each column the variable or Unset
  nullableBindings,  \* the variables to engage
  resultMetadata,    \* cached: <<the columns>>, or <<>> when it is not filled
  columns,           \* external: the columns of the current result
  pending,           \* external: the results after it
  bound,             \* external: what the library writes to, <<>> if nothing
  outOfBounds,       \* the library was given fewer bindings than it reads
  value,             \* the variables: the payload,
  null,              \* and for a Nullable its flags
  engaged,
  row                \* the row last fetched, <<>> if something happened since

stmtClassVars ==
  <<validateMode, resultFieldCount, resultBindings, nullableBindings, resultMetadata>>
libraryVars == <<columns, pending, bound, outOfBounds>>
userVars == <<value, null, engaged>>
dynamicVars == <<stmtClassVars, libraryVars, userVars, row>>

IsNullable(v) == BindingOf[v].nullable

DynamicTypeOK ==
  /\ validateMode \in Modes
  /\ resultFieldCount \in -1 .. MaxColumns
  /\ resultBindings \in BoundedSeq(Variables \cup {Unset}, MaxColumns)
  /\ nullableBindings \subseteq {v \in Variables : IsNullable(v)}
  /\ Len(resultMetadata) <= 1
  /\ bound \in BoundedSeq(Variables \cup {Unset}, MaxColumns)
  /\ value \in [Variables -> Data]
  /\ null \in [Variables -> BOOLEAN]
  /\ engaged \in [Variables -> BOOLEAN]
  /\ Len(row) <= MaxColumns

DynamicInit ==
  /\ validateMode \in {"Disabled", "ArithmeticPromotions"}
  /\ resultFieldCount = -1
  /\ resultBindings = <<>> /\ nullableBindings = {} /\ resultMetadata = <<>>
  /\ columns = <<>> /\ pending = <<>> /\ bound = <<>> /\ outOfBounds = FALSE
  /\ value \in [Variables -> {CHOOSE d \in Data : TRUE}]
  /\ null = [v \in Variables |-> IsNullable(v)]
  /\ engaged = [v \in Variables |-> ~IsNullable(v)]
  /\ row = <<>>

\* What the user reads from a variable: the payload, or none when isValid() is not.
ShownBy(v) == IF engaged[v] /\ ~null[v] THEN value[v] ELSE NULL

-----------------------------------------------------------------------------

resized(s, n) == [i \in 1 .. n |-> IF i <= Len(s) THEN s[i] ELSE Unset]

\* execute(), which throws and changes nothing when the server refuses it or
\* results are pending.  The library keeps its bindings when the count is the same.
Execute(answer) ==
  /\ pending = <<>> /\ ~outOfBounds
  /\ columns' = Head(answer) /\ pending' = Tail(answer)
  /\ resultFieldCount' = Len(Head(answer))
  /\ resultBindings' =
       IF Head(answer) = <<>> THEN resultBindings
       ELSE resized(resultBindings, Len(Head(answer)))
  /\ bound' = IF Len(Head(answer)) = Len(columns) THEN bound ELSE <<>>
  /\ nullableBindings' = {}
  /\ row' = <<>>
  /\ UNCHANGED <<validateMode, resultMetadata, outOfBounds, userVars>>

\* bindResult() throws before execute() and for an index out of range.
bindResult(i, v) ==
  /\ resultFieldCount >= 0 /\ i \in DOMAIN resultBindings
  /\ resultBindings' = [resultBindings EXCEPT ![i] = v]
  /\ nullableBindings' = IF IsNullable(v) THEN nullableBindings \cup {v} ELSE nullableBindings
  /\ row' = <<>>
  /\ UNCHANGED <<validateMode, resultFieldCount, resultMetadata, libraryVars, userVars>>

\* getResultMetadata() asks the server the first time only.
getResultMetadata == IF resultMetadata = <<>> THEN columns ELSE resultMetadata[1]

\* The user calls it: after execute(), or before the first one, when the library has
\* the description of the prepared statement.  Without columns it throws.
RetrieveResultMetadata ==
  /\ ~outOfBounds
  /\ \E fields \in IF resultFieldCount = -1 THEN {Head(answer) : answer \in Answers}
                    ELSE {columns} :
       /\ fields # <<>>
       /\ resultMetadata' = IF resultMetadata = <<>> THEN <<fields>> ELSE resultMetadata
  /\ UNCHANGED <<validateMode, resultFieldCount, resultBindings, nullableBindings,
                 libraryVars, userVars, row>>

Uninitialized == [set |-> FALSE]
BindingAt(i) ==
  IF resultBindings[i] = Unset THEN Uninitialized ELSE BindingOf[resultBindings[i]]

Verdict ==
  validateResultMetadata([i \in DOMAIN resultBindings |-> BindingAt(i)],
                         getResultMetadata, validateMode, validateMode, IgnoreNullable)

\* updateResultBindings(): mysql_stmt_bind_result copies as many bindings as the
\* current result has columns, from an array of resultBindings.size().
updateResultBindings ==
  /\ resultFieldCount > 0 /\ ~outOfBounds
  /\ resultMetadata' = IF validateMode = "Disabled" THEN resultMetadata ELSE <<getResultMetadata>>
  /\ IF Verdict # "ok" THEN UNCHANGED <<bound, outOfBounds>>
     ELSE IF Len(columns) > Len(resultBindings)
     THEN outOfBounds' = TRUE /\ UNCHANGED bound
     ELSE bound' = SubSeq(resultBindings, 1, Len(columns)) /\ UNCHANGED outOfBounds
  /\ row' = <<>>
  /\ UNCHANGED <<validateMode, resultFieldCount, resultBindings, nullableBindings,
                 columns, pending, userVars>>

\* The rows the server may send.
Rows ==
  {r \in [1 .. Len(columns) -> Data \cup {NULL}] :
     \A i \in DOMAIN columns : r[i] = NULL => columns[i].nullable}

\* Fault: nothing is engaged.
EngageNone(nulls) == engaged

\* engageNullables(), for the flags that the library has just written.
engageNullables(nulls) ==
  [v \in Variables |-> engaged[v] \/ (v \in nullableBindings /\ ~nulls[v])]

\* fetch() and fetchWithStatus() of a row: later columns are written last.
WrittenBy(v, r) ==
  LET at == {i \in DOMAIN bound : bound[i] = v}
  IN  IF at = {} THEN Unset ELSE r[CHOOSE i \in at : \A j \in at : j <= i]

Fetch(r) ==
  /\ columns # <<>> /\ ~outOfBounds
  /\ LET nulls == [v \in Variables |->
                     IF WrittenBy(v, r) = Unset \/ ~IsNullable(v) THEN null[v]
                     ELSE WrittenBy(v, r) = NULL]
     IN  /\ null' = nulls
         /\ engaged' = engageNullables(nulls)
  /\ value' = [v \in Variables |->
                 IF WrittenBy(v, r) \in {Unset, NULL} THEN value[v] ELSE WrittenBy(v, r)]
  /\ row' = r
  /\ UNCHANGED <<stmtClassVars, libraryVars>>

\* A row whose data was truncated: fetch() throws, fetchWithStatus() reports it, and
\* neither engages anything.
FetchTruncated(r) ==
  /\ columns # <<>> /\ ~outOfBounds
  /\ null' = [v \in Variables |->
                IF WrittenBy(v, r) = Unset \/ ~IsNullable(v) THEN null[v]
                ELSE WrittenBy(v, r) = NULL]
  /\ value' = [v \in Variables |->
                 IF WrittenBy(v, r) \in {Unset, NULL} THEN value[v] ELSE WrittenBy(v, r)]
  /\ row' = <<>>
  /\ UNCHANGED <<engaged, stmtClassVars, libraryVars>>

\* nextResult() and, but for its exception, nextResultOrFail(): the class keeps the
\* count, the bindings and the metadata of the result before.
nextResult ==
  /\ pending # <<>> /\ ~outOfBounds
  /\ columns' = Head(pending) /\ pending' = Tail(pending)
  /\ bound' = <<>>
  /\ row' = <<>>
  /\ UNCHANGED <<stmtClassVars, outOfBounds, userVars>>

\* The user makes one of his Nullables empty.
Reset(v) ==
  /\ IsNullable(v)
  /\ null' = [null EXCEPT ![v] = TRUE]
  /\ engaged' = [engaged EXCEPT ![v] = FALSE]
  /\ row' = <<>>
  /\ UNCHANGED <<stmtClassVars, libraryVars, value>>

DynamicNext ==
  \/ \E answer \in Answers : Execute(answer)
  \/ \E i \in 1 .. MaxColumns, v \in Variables : bindResult(i, v)
  \/ RetrieveResultMetadata \/ updateResultBindings \/ nextResult
  \/ \E r \in Rows : Fetch(r) \/ FetchTruncated(r)
  \/ \E v \in Variables : Reset(v)

DynamicSpec == DynamicInit /\ [][DynamicNext]_dynamicVars

-----------------------------------------------------------------------------

\* "Validates metadata for given ResultBindings compared to metadata recieved from
\* the server" (prepared_statement_base.hpp): bindings that were accepted fit the
\* result they are bound to.
FitsResult ==
  /\ ~outOfBounds
  /\ bound # <<>> /\ validateMode # "Disabled" =>
       validateResultMetadata([i \in DOMAIN bound |-> BindingOf[bound[i]]],
                              columns, validateMode, validateMode, IgnoreNullable) = "ok"

\* A row that was fetched is what the user sees, whatever the variables held before:
\* in each variable bound to one column, if it is a Nullable bound since the last
\* execute(), or if the column had a value.
FetchShowsRow ==
  row # <<>> /\ bound # <<>> =>
    \A i \in DOMAIN bound :
      LET v == bound[i]
      IN  /\ v # Unset
          /\ \A j \in DOMAIN bound \ {i} : bound[j] # v
          /\ IF IsNullable(v) THEN v \in nullableBindings ELSE row[i] # NULL
          => ShownBy(v) = row[i]
=============================================================================
