CONSTANTS
  Descriptor <- MCDescriptor
  Width = 3
  MaxId = 2
  MaxLength = 5
  MaxStack = 2
  LuaTable <- MCLuaTable
  PeerMessage <- MCPeerMessage
  CtxValue <- MCCtxValue
  EventKind = {"start", "lost"}
  None = None
SPECIFICATION Spec
INVARIANT StackAccounted
PROPERTIES LuaGetsWhatWasGiven ResponseHandled
