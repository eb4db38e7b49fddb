SPECIFICATION Spec
CONSTANTS
  Users = {alice, bob}
  ChatIds = {c1, c2}
  MessageIds = {m1, m2}
  Requests = {r1, r2}
  MaxClock = 5
  None = None
SYMMETRY Interchangeable
PROPERTY
  MarkersNeverMoveBack
