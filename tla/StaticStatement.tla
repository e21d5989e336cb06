--------------------------- MODULE StaticStatement ---------------------------
(***************************************************************************)
(* prepared_statement.hpp with initialize_bindings.hpp and the loops of    *)
(* extras/prepared_statement_utils.hpp: a prepared statement that holds    *)
(* its parameters and its result itself, here one of each.                 *)
(*                                                                         *)
(* The bindings point into the object, and the C library has copies of     *)
(* them.  Objects are named by their memory.                               *)
(***************************************************************************)
EXTENDS ResultValidation

CONSTANTS
  Slots,        \* memory for PreparedStatement objects
  ResultValues, \* values of the column
  Arguments,    \* values of the parameter
  Null,         \* the SQL value
  Unwritten,    \* what is read through a binding that was not initialized
  Nowhere,      \* no object
  MaxRows       \* bound: rows of a result

ASSUME StaticAssumption ==
  /\ {Null, Unwritten, Nowhere} \cap (ResultValues \cup Arguments \cup Slots) = {}
  /\ Null # Unwritten /\ Null # Nowhere /\ Unwritten # Nowhere
  /\ MaxRows \in Nat

Cells == ResultValues \cup {Null}
Params == Arguments \cup {Null}

VARIABLES
  template,    \* the result is a Nullable; ignoreNullable; fixed for a type
  owner,       \* the object that has the statement's handle, or Nowhere
  param,       \* the parameter of each object, a Nullable
  result,      \* the result of each object: [payload, null, engaged]
  bindings,    \* of each object: the memory they point into, for the result and
               \* for the parameter, and whether the parameter's buffer is set
  validated,   \* hasValidatedResultMetadata
  library,     \* external: the library's copies of the bindings
  rows,        \* external: the rows not fetched yet
  column,      \* external: whether the column may be NULL
  described,   \* external: whether the server last described it so, to the library
  cached,      \* resultMetadata: <<what it says of that>>, <<>> if it is not filled
  sent,        \* the parameter last sent, Nowhere before that
  fetched,     \* the row last fetched, Nowhere if something happened since
  utility,     \* which step of psQuery() or psReadValues() is next, or "none"
  updated,     \* history: the parameter's binding is up to date
  moved,       \* history: the statement was moved
  altered,     \* history: the column changed since that description
  disengaged   \* history: a result given to the constructor was empty

metadataVars == <<described, cached, altered>>
staticVars ==
  <<template, owner, param, result, bindings, validated, library, rows, column,
    metadataVars, sent, fetched, utility, updated, moved, disengaged>>

StaticTypeOK ==
  /\ template \in [nullable : BOOLEAN, ignoreNullable : BOOLEAN]
  /\ owner \in Slots \cup {Nowhere}
  /\ param \in [Slots -> Params]
  /\ result \in [Slots -> [payload : ResultValues \cup {Unwritten},
                           null : BOOLEAN, engaged : BOOLEAN]]
  /\ bindings \in [Slots -> [result : Slots \cup {Nowhere}, param : Slots \cup {Nowhere},
                             ready : BOOLEAN]]
  /\ library \in [result : Slots \cup {Nowhere}, param : Slots \cup {Nowhere}, ready : BOOLEAN]
  /\ sent \in Params \cup {Unwritten, Nowhere}
  /\ fetched \in Cells \cup {Nowhere}
  /\ utility \in {"none", "params", "execute", "rows", "read"}
  /\ cached \in {<<>>} \cup {<<nullable>> : nullable \in BOOLEAN}
  /\ {validated, column, described, updated, moved, altered, disengaged} \subseteq BOOLEAN

NoResult == [payload |-> Unwritten, null |-> FALSE, engaged |-> FALSE]
Unbound == [result |-> Nowhere, param |-> Nowhere, ready |-> FALSE]

StaticInit ==
  /\ template \in [nullable : BOOLEAN, ignoreNullable : BOOLEAN]
  /\ owner = Nowhere
  /\ param = [o \in Slots |-> Null] /\ result = [o \in Slots |-> NoResult]
  /\ bindings = [o \in Slots |-> Unbound] /\ library = Unbound
  /\ validated = FALSE /\ rows = <<>> /\ column \in BOOLEAN
  /\ sent = Nowhere /\ fetched = Nowhere /\ utility = "none"
  /\ described = FALSE /\ cached = <<>>
  /\ updated = FALSE /\ moved = FALSE /\ altered = FALSE /\ disengaged = FALSE

Exists == owner # Nowhere

\* Nothing is kept of objects that are gone.
Cleared ==
  /\ param' = [o \in Slots |-> Null] /\ result' = [o \in Slots |-> NoResult]
  /\ bindings' = [o \in Slots |-> Unbound]
  /\ validated' = FALSE /\ updated' = FALSE /\ moved' = FALSE /\ disengaged' = FALSE
  /\ described' = FALSE /\ cached' = <<>> /\ altered' = FALSE

-----------------------------------------------------------------------------
(* initialize_bindings.hpp                                                  *)

\* A parameter that is NULL sets the pointer to its flag and nothing else.
initializeParamBinding(b, o) ==
  [b EXCEPT !.param = o, !.ready = @ \/ param'[o] # Null]

initializeResultBinding(b, o) == [b EXCEPT !.result = o]

\* Bindings::update() of both.
BindingsOf(o) == initializeResultBinding(initializeParamBinding(Unbound, o), o)

-----------------------------------------------------------------------------

\* InitializeResult() engages a Nullable; the constructors with FullInitTag leave
\* the values they are given.  The statement is prepared, and so described.
Construct(o, p, engaged) ==
  /\ ~Exists
  /\ owner' = o
  /\ param' = [param EXCEPT ![o] = p]
  /\ result' = [result EXCEPT ![o] =
       [payload |-> Unwritten, null |-> template.nullable /\ ~engaged, engaged |-> engaged]]
  /\ bindings' = [bindings EXCEPT ![o] = BindingsOf(o)]
  /\ library' = [BindingsOf(o) EXCEPT !.result = Nowhere]
  /\ validated' = FALSE /\ rows' = <<>>
  /\ sent' = Nowhere /\ fetched' = Nowhere
  /\ described' = column /\ cached' = <<>> /\ altered' = FALSE
  /\ updated' = TRUE /\ moved' = FALSE /\ disengaged' = ~engaged
  /\ UNCHANGED <<template, column, utility>>

\* PreparedStatement(PreparedStatement&&) = default copies the bindings as they are.
\* One move is enough to see what that does.
MoveStatement(o) ==
  /\ Exists /\ o # owner /\ utility = "none" /\ ~moved
  /\ owner' = o
  /\ param' = [param EXCEPT ![o] = param[owner]]
  /\ result' = [result EXCEPT ![o] = result[owner]]
  /\ bindings' = [bindings EXCEPT ![o] = bindings[owner]]
  /\ moved' = TRUE /\ fetched' = Nowhere
  /\ UNCHANGED <<template, validated, library, rows, column, metadataVars, sent, utility,
                 updated, disengaged>>

\* ~PreparedStatement(), and the moved-from object goes too.
Destroy ==
  /\ Exists
  /\ owner' = Nowhere /\ library' = Unbound /\ rows' = <<>>
  /\ Cleared
  /\ sent' = Nowhere /\ fetched' = Nowhere /\ utility' = "none"
  /\ UNCHANGED <<template, column>>

\* setParams(), and assignments through getParams().
setParams(p) ==
  /\ Exists /\ utility = "none"
  /\ param' = [param EXCEPT ![owner] = p]
  /\ updated' = FALSE /\ sent' = Nowhere
  /\ UNCHANGED <<template, owner, result, bindings, validated, library, rows, column,
                 metadataVars, fetched, utility, moved, disengaged>>

\* Fault: the library keeps its copy of the bindings.
UpdateOwnOnly ==
  /\ bindings' = [bindings EXCEPT ![owner] = initializeParamBinding(@, owner)]
  /\ updated' = TRUE /\ sent' = Nowhere
  /\ UNCHANGED library

updateParamsBindings ==
  /\ bindings' = [bindings EXCEPT ![owner] = initializeParamBinding(@, owner)]
  /\ library' = [library EXCEPT !.param = bindings'[owner].param,
                                !.ready = bindings'[owner].ready]
  /\ updated' = TRUE /\ sent' = Nowhere

UpdateParams ==
  /\ Exists /\ utility = "none"
  /\ param' = param
  /\ updateParamsBindings
  /\ UNCHANGED <<template, owner, result, validated, rows, column, metadataVars,
                 fetched, utility, moved, disengaged>>

\* What the library reads through its copy of the parameter's binding.
Sent ==
  IF param[library.param] = Null THEN Null
  ELSE IF library.ready THEN param[library.param] ELSE Unwritten

\* getResultMetadata() asks the library the first time only, also before execute().
Retrieved(fresh) == IF cached = <<>> THEN <<fresh>> ELSE cached

RetrieveMetadata ==
  /\ Exists /\ utility = "none"
  /\ cached' = Retrieved(described)
  /\ UNCHANGED <<template, owner, param, result, bindings, validated, library, rows, column,
                 described, altered, sent, fetched, utility, updated, moved, disengaged>>

Binding ==
  [set |-> TRUE, type |-> "Long", unsigned |-> FALSE, nullable |-> template.nullable]
ColumnOf(metadata) == [type |-> "Long", unsigned |-> FALSE, nullable |-> metadata[1]]

\* What is validated is what was retrieved the first time.
Refused ==
  /\ ~validated
  /\ validateResultMetadata(<<Binding>>, <<ColumnOf(Retrieved(column))>>,
                            "ArithmeticPromotions", "Same", template.ignoreNullable) # "ok"

\* execute(), when the server answers and describes the column anew; it is validated
\* until it was accepted once.  A refusal leaves the metadata retrieved.
execute(answer) ==
  /\ \A i \in DOMAIN answer : answer[i] = Null => column
  /\ sent' = Sent /\ fetched' = Nowhere /\ rows' = answer
  /\ described' = column
  /\ cached' = IF validated THEN cached ELSE Retrieved(column)
  /\ altered' = (altered /\ cached # <<>>)
  /\ validated' = ~Refused
  /\ library' = IF Refused THEN library
                ELSE [library EXCEPT !.result = bindings[owner].result]

\* Fault: the flag of a NULL is not taken back.
FetchKeepsFlag ==
  /\ rows # <<>>
  /\ rows' = Tail(rows)
  /\ fetched' = Head(rows)
  /\ result' =
       [o \in Slots |->
          IF o # library.result THEN result[o]
          ELSE [result[o] EXCEPT !.payload = IF Head(rows) = Null THEN @ ELSE Head(rows),
                                 !.null = @ \/ (template.nullable /\ Head(rows) = Null)]]

\* A row is written through the library's copy of the result's binding.
fetch ==
  /\ rows # <<>>
  /\ rows' = Tail(rows)
  /\ fetched' = Head(rows)
  /\ result' =
       [o \in Slots |->
          IF o # library.result THEN result[o]
          ELSE [result[o] EXCEPT !.payload = IF Head(rows) = Null THEN @ ELSE Head(rows),
                                 !.null = template.nullable /\ Head(rows) = Null]]

Unexecuted == <<template, owner, param, result, bindings, column, updated, moved, disengaged>>
Unfetched ==
  <<template, owner, param, bindings, validated, library, column, metadataVars, sent,
    updated, moved, disengaged>>

RowSequences == UNION {[1 .. n -> Cells] : n \in 0 .. MaxRows}

UserExecute(answer) ==
  /\ Exists /\ utility = "none"
  /\ execute(answer)
  /\ UNCHANGED <<Unexecuted, utility>>

UserFetch ==
  /\ Exists /\ utility = "none" /\ library.result # Nowhere
  /\ fetch
  /\ UNCHANGED <<Unfetched, utility>>

\* ALTER TABLE by somebody else.
AlterColumn ==
  /\ rows = <<>>
  /\ column' = ~column
  /\ altered' = Exists
  /\ fetched' = Nowhere
  /\ UNCHANGED <<template, owner, param, result, bindings, validated, library, rows,
                 described, cached, sent, utility, updated, moved, disengaged>>

-----------------------------------------------------------------------------
(* psQuery() of a statement that it has just made, and psReadValues().      *)

PsStart(step) ==
  /\ Exists /\ utility = "none" /\ ~moved /\ sent = Nowhere
  /\ utility' = step
  /\ UNCHANGED <<Unexecuted, validated, library, rows, metadataVars, sent, fetched>>

\* The setter fills in the parameter, or ends the loop.
PsParams ==
  /\ utility = "params"
  /\ \/ /\ \E p \in Params : param' = [param EXCEPT ![owner] = p]
        /\ updateParamsBindings
        /\ utility' = "execute"
     \/ UNCHANGED <<param, bindings, library, updated, sent>> /\ utility' = "none"
  /\ fetched' = Nowhere
  /\ UNCHANGED <<template, owner, result, validated, rows, column, metadataVars, moved,
                 disengaged>>

PsExecute(answer) ==
  /\ utility = "execute"
  /\ execute(answer)
  /\ utility' = IF Refused THEN "none" ELSE "rows"
  /\ UNCHANGED Unexecuted

\* One turn of the inner loop, and its end.
PsRow ==
  /\ utility = "rows"
  /\ IF rows = <<>> THEN UNCHANGED <<rows, result, fetched>> /\ utility' = "params"
     ELSE fetch /\ UNCHANGED utility
  /\ UNCHANGED Unfetched

PsReadExecute(answer) ==
  /\ utility = "read" /\ sent = Nowhere
  /\ execute(answer)
  /\ utility' = IF Refused THEN "none" ELSE "read"
  /\ UNCHANGED Unexecuted

\* UnexpectedRowCountError unless there is one row.
PsReadValues ==
  /\ utility = "read" /\ sent # Nowhere
  /\ utility' = "none"
  /\ IF Len(rows) = 1 THEN fetch ELSE UNCHANGED <<rows, result, fetched>>
  /\ UNCHANGED Unfetched

StaticNext ==
  \/ \E o \in Slots, p \in Params, engaged \in BOOLEAN : Construct(o, p, engaged)
  \/ \E o \in Slots : MoveStatement(o)
  \/ Destroy \/ UpdateParams \/ RetrieveMetadata \/ UserFetch \/ AlterColumn
  \/ \E p \in Params : setParams(p)
  \/ \E answer \in RowSequences : UserExecute(answer) \/ PsExecute(answer) \/ PsReadExecute(answer)
  \/ \E step \in {"params", "read"} : PsStart(step)
  \/ PsParams \/ PsRow \/ PsReadValues

StaticSpec == StaticInit /\ [][StaticNext]_staticVars

-----------------------------------------------------------------------------

\* What getResult() shows: none when a Nullable is not valid.
ShownResult ==
  IF template.nullable /\ (~result[owner].engaged \/ result[owner].null) THEN Null
  ELSE result[owner].payload

\* The row that was fetched is what the user sees, also when the row before it was
\* NULL, if the statement was not moved; a Nullable that was given to the constructor
\* empty stays so.
ResultShowsRow ==
  /\ fetched # Nowhere /\ ~moved
  /\ ~(template.nullable /\ disengaged)
  /\ template.nullable \/ fetched # Null
  => ShownResult = fetched

\* NULL is read into a variable that cannot hold it only when that was asked for, or
\* when the column has changed since the description that was validated: that is the
\* first one the statement retrieved (prepared_statement_base.hpp:225), which may be
\* older than the execution, and it is validated once.
NullIsRefused ==
  fetched = Null => template.nullable \/ template.ignoreNullable \/ altered

\* The parameter that is sent is the one that was set, if the bindings were updated.
ParamIsSent == sent # Nowhere /\ updated /\ ~moved => sent = param[owner]
=============================================================================
