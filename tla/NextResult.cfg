SPECIFICATION MCSpec

CONSTANTS
  optional = optional
  integer = integer
  Variables <- MCVariables
  BindingOf <- MCBindingOf
  Answers <- MCProcedureAnswers
  Data = {x, y}
  NULL = NULL
  Unset = Unset
  IgnoreNullable = FALSE
  Slots = {o1, o2}
  ResultValues = {1}
  Arguments = {p}
  Null = Null
  Unwritten = Unwritten
  Nowhere = Nowhere
  MaxRows = 2
  Nullables = {n1, n2}
  Payloads = {0, 1}
  Nothing = Nothing
  Unspecified = Unspecified
  DisengagedPairs = FALSE
  Arrays = {w1, w2}
  N = 2
  Chars = {a, b}
  Zero = Zero
  Garbage = Garbage
  Minus = Minus
  Letter = Letter
  NullText = NullText
  Thrown = Thrown
  Undefined = Undefined
  Widths = {8, 16}
  NoSample = NoSample
  FieldValues = {0, 1}

INVARIANTS
  FitsResult
