\* Two requests and two periods that are closed meanwhile.
SPECIFICATION Spec
CONSTANTS
  o1 = o1
  e1 = e1
  e2 = e2
  h1 = h1
  h2 = h2
  none = none
  Orders = {o1}
  Edits = {}
  Handlers = {h1, h2}
  Amounts = {1}
  Periods = {1, 2}
  IncreaseIsFree = TRUE
  DecreaseIsHeld = TRUE
  DueDates = {1, 2, none}
  MaxFailures = 1
  None = none
  Endpoints = {"decide", "bill", "amend", "move", "void", "allocate", "close", "settings"}
SYMMETRY Interchangeable
CONSTRAINT Undisturbed
PROPERTIES
  ClosedPeriodIsFrozen
