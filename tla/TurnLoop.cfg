\* Sessions of each role, two events, an event of three turns and two calls
SPECIFICATION Spec
CONSTANTS
  Roles = {"pm", "implementer", "reviewer"}
  MaxTurns = 3
  MaxErrors = 2
  GateTurn = 2
  ReflectEvery = 2
  CommentLimit = 1
  KeepMessages = 2
  MaxCalls = 2
  MaxNotes = 1
  MaxEvents = 2
INVARIANTS CallsAnswered
PROPERTIES CommentStaysHidden NoWorkWhileBlocked
CHECK_DEADLOCK FALSE
