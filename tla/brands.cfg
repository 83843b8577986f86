SPECIFICATION Spec
CONSTANTS
  None = None
  Default = Default
  Requests = {q1, q2, q3, q4}
  Required = {"defaultTone"}
  Optional = {"ragEnabled"}
SYMMETRY Symmetry
INVARIANTS UpdatesSurvive DeactivatedStays
