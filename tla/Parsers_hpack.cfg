SPECIFICATION ParsersSpec
CONSTANTS
  Formats <- HpackOnly
  Starts <- MCStarts
  Pieces <- MCPieces
  MaxLen <- MCMaxLen
  MaxJumps = 2
  Nothing = Nothing
INVARIANT IndexesDecode
