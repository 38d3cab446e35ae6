SPECIFICATION Spec
CONSTANTS
  NULL = NULL
  Timers = {recurring, oneshot}
  Recurrent = {recurring}
  wheel_size = 2
  Intervals = {1, 3}
  MaxTicks = 5
CHECK_DEADLOCK FALSE
INVARIANTS NeverOverdue ElemsKept
PROPERTIES FiresWhenDue
