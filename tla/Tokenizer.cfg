\* The largest numbers each width holds, the next ones, and numbers that are
\* a small id again when they are cut to a narrower width; the empty
\* vocabulary, small ones, the largest one and one too many.  A file that
\* New rejects ends the behaviour.
CONSTANTS
  MaxInt32 = 7
  MaxInt64 = 31
  Models = {"gpt2", "llama"}
  Sizes = {0, 2, 7, 8}
  Numbers <- MCNumbers
  Templates <- MCTemplates
  Conversations <- MCConversations
SPECIFICATION Spec
INVARIANTS
  RendersTemplate
  KeepsMessages
PROPERTY
  SpecialTokensExact
CHECK_DEADLOCK FALSE
