SPECIFICATION Spec
CONSTANTS
  MaxDepth = 4
  Features = {}
CHECK_DEADLOCK FALSE
PROPERTY FinallyBeforeLeaving
PROPERTY ErrorsAreNotLost
PROPERTY RefinesStructuredControl
