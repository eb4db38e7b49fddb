SPECIFICATION Spec
CONSTANTS
  Users = {alice, bob}
  ChatIds = {c1, c2}
  MessageIds = {m1, m2}
  Requests = {r1, r2}
  MaxClock = 5
  None = None
SYMMETRY Interchangeable
INVARIANTS
  TypeOK
  OneChatPerPair
  TwoMarkersPerChat
  MessagesHaveHome
  FreshChatUnread
PROPERTIES
  SoftDeletion
  ImplementsChats
  MarkCoversShown
