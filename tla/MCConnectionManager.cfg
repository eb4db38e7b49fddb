SPECIFICATION Spec
CONSTANTS
  alice = alice
  bob = bob
  chat = chat
  aliceEvents = aliceEvents
  aliceChat = aliceChat
  bobChat = bobChat
  Events = Events
  NoKey = NoKey
  post = post
  Requests <- MCRequests
  Users <- MCUsers
  Chats <- MCChats
  Sockets <- MCSockets
  Owner <- MCOwner
  Room <- MCRoom
INVARIANTS
  TypeOK
  RegistryConsistent
  LiveSocketsRegistered
  PresenceExact
PROPERTIES
  ImplementsRooms
  DeadTargetsPruned
