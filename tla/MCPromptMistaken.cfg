SPECIFICATION EditorSpec
CONSTANTS
  Alphabet <- MCAlphabet
  HexDigits <- MCHexDigits
  Chars <- MCChars
  Commands <- MCCommands
  Peers <- MCPeers
  Known <- MCKnown
  History <- MCHistory
  MaxLine = 4
  Heights = {3, 11, 12}
INVARIANT NoneMistaken
