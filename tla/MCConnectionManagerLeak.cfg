SPECIFICATION Spec
CONSTANTS
  alice = alice
  bob = bob
  chat = chat
  aliceEvents = aliceEvents
  aliceChat = aliceChat
  bobChat = bobChat
  Events = Events
  NoKey = NoKey
  post = post
  Requests <- MCRequests
  Users <- MCUsers
  Chats <- MCChats
  Sockets <- LiveSockets
  Owner <- LiveOwner
  Room <- LiveRoom
INVARIANT
  NoSocketOutlivesHandler
