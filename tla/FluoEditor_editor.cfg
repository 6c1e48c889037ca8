\* The editor and the canvas, three changes of four expressions at most, and
\* larger definitions that are only drawn.
SPECIFICATION EditorSpec
CONSTANTS
  Flows <- Opened
  Name = {"if", "sequence"}
  TextWidth = 40
  MaxNodes = 4
  MaxChanges = 3
INVARIANTS EditorTypeOK HoverRight SizesFresh BoxesFit
PROPERTY UndoRestores
