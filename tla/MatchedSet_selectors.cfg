\* Every page of a list, two items and a box, with two calls and one change;
\* pages with hidden elements, with up to three changes and one call.
CONSTANTS
  MaxNodes = 4
  Kinds <- MCKinds
  Pages <- MCPages
  Selectors <- MCSelectors
  Qualifiers <- MCQualifiers
  Class = {"on"}
  MaxCalls = 2
  MaxChanges = 3
SPECIFICATION Spec
CHECK_DEADLOCK FALSE
INVARIANTS TypeOK AnswersRight OnceInOrder ShownShows
