CONSTANTS
  Ents = 4
  Sector = {0, 1}
  Data = {0, 1}
SPECIFICATION Spec
INVARIANTS
  Performed
