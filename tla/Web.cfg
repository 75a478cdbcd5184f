\* Two users of one browser, pages of two rows, two requests of a page at once.
SPECIFICATION Spec
CONSTANTS
  Rows = {r1, r2}
  NoRow = NoRow
  MaxCalls = 2
  Users = {u1, u2}
  NoUser = NoUser
INVARIANTS SelectionIsShown RowsAreFresh OrgOfUser
PROPERTIES ControlsReturn
CHECK_DEADLOCK FALSE
