CONSTANTS
  None = None
  Id = {1, 2, 3, 4}
  Adopted = {2, 3}
SPECIFICATION Spec
INVARIANTS TypeOK KeyKept OrphansExplained ClosedStaysClosed
