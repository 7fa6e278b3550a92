CONSTANTS
  Name = {"a", "b"}
  Script <- MCScript
  NoScript = NoScript
  NoBody = NoBody
  MaxCalls = 4
SPECIFICATION LuaSpec

PROPERTY BrokenDoesNothing
