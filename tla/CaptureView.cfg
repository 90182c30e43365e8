SPECIFICATION Spec
CONSTANTS
  Kinds <- MCKinds
  Conversation <- MCConversation
  Filters <- MCFilters
  Matches <- MCMatches
  Parse <- MCParse
  Patterns <- MCPatterns
  Overlays = {"flows"}
  Chars <- MCChars
  Width <- MCWidth
  RingCap = 2
  Page = 2
  Near = 1
  MaxPackets = 3
  MaxInput = 2
  None = None
INVARIANTS ListOK SelectionOnARow SearchFinds OnlyWideCharsCrash
PROPERTY NeverBackwards
