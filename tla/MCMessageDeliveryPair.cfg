SPECIFICATION DeliverySpec
CONSTANTS
  alice = alice
  bob = bob
  chat = chat
  otherChat = otherChat
  bobEvents = bobEvents
  bobChat = bobChat
  r1 = r1
  r2 = r2
  Events = Events
  NoKey = NoKey
  NoUser = NoUser
  Users <- MCUsers
  Chats <- MCChats
  Members <- MCMembers
  Requests <- TwoRequests
  Sockets <- EventSocket
  Owner <- EventOwner
  Room <- EventRoom
SYMMETRY Interchangeable
CHECK_DEADLOCK FALSE
PROPERTY
  ListCatchesUp
