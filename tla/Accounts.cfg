SPECIFICATION Spec
CONSTANTS
  p1 = p1
  p2 = p2
  i1 = i1
  i2 = i2
  h1 = h1
  Procs = {p1, p2}
  Ids = {i1, i2}
  NoId = NoId
  Hosts = {h1}
  Form = Form
  Edits = 3
  Kills = 1
  Talking = {p1}
INVARIANTS
  OwnChoiceHolds
  SavedUnlessOverlapped
  SecretsStayReadable
CHECK_DEADLOCK FALSE
SYMMETRY Symmetry
