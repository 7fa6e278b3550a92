CONSTANTS
  Name = {"a", "b"}
  Script <- MCScript
  NoScript = NoScript
  NoBody = NoBody
  MaxCalls = 4
SPECIFICATION LuaSpec
INVARIANT LuaTypeOK
PROPERTIES LatestDecides MessageEnds Recovers
