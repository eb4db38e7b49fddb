SPECIFICATION MigrationSpec
CONSTANTS
  alice = alice
  bob = bob
  c1 = c1
  c2 = c2
  m1 = m1
  m2 = m2
  carol = carol
  Users = {alice, bob, carol}
  ChatIds = {c1, c2}
  MessageIds = {m1, m2}
  Requests = {r1}
  MaxClock = 3
  None = None
  Readers = {d1}
  Limits = {1}
  OldDatabases <- MCOldDatabases
  OldClock = 2
INVARIANTS
  ReadersTypeOK
  StoreInv
  ItemCoherent
  PagesComplete
PROPERTIES
  NotFoundOnlyAfterDeletion
