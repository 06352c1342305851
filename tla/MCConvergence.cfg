\* Bounds: three edits, one foreign change, two failed calls and one restart of
\* the operator; at most three messages on a connection, five bytes per read.
CONSTANTS
  None = None
  Idle = Idle
SPECIFICATION Spec
PROPERTIES
  RequestsAnswered
  RolledOut
\* The client and the users may stop.
CHECK_DEADLOCK FALSE
