SPECIFICATION Spec
CONSTANTS
  Item <- MCItem
  weight <- MCweight
  NULL = NULL
PROPERTY
  IsPriorityQueue
