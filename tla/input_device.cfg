SPECIFICATION Spec
CONSTANTS
  WidgetType = "buffer"
  GbarType = "script"
  Uses <- Viewers
  Slots = {0, 1}
  MaxItems = 2
  MaxTime = 3
  Rare = {}
INVARIANTS Orderly ItemsMatch Answered
CHECK_DEADLOCK FALSE
