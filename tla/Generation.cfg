\* Requests of all sizes around a context of three tokens, one after
\* another on the same session.  Four query heads share two KV heads, so that
\* groups, and rows of different heads, can be confused.  The largest int as
\* maxTokens passes the check of the sum by overflow.
CONSTANTS
  a = a
  e = e
  Tokens = {a, e}
  Nil = Nil
  Layers = 2
  QueryHeads = 4
  KVHeads = 2
  Capacity = 3
  EOG = {e}
  Prompts <- MCPrompts
  MaxNews = {0, 1, 2, 7}
  MaxInt = 7
SPECIFICATION Spec
INVARIANTS
  GenerationTypeOK
  RowsAgree
  AttendsToOwnContext
  SamplesFromOwnContext
  AnswersAsAsked
PROPERTIES
  IsContext
  RequestReturns
