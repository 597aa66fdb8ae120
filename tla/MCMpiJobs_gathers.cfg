SPECIFICATION Spec
CONSTANTS
  Jobs <- MCGathers
  UnsignedWrap = 8
PROPERTIES
  LeavesTogether
CHECK_DEADLOCK FALSE
