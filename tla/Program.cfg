SPECIFICATION Spec
CONSTANTS
  Colours <- MCColours
  Pens <- MCPens
  TextPen = 1
  OtherUse = 1
  Unreplied = 1
INVARIANTS
  AllReleased
  NeededHeld
  MessagesReplied
