CONSTANTS
  a = a
  b = b
  A = A
  dot = dot
  bracket = bracket
  garbage = garbage
  Separator = Separator
  Newline = Newline
  Null = Null
  Char <- MCChar
  Word <- MCWord
  Listed <- MCListed
  Unlisted <- MCUnlisted
  Lower <- MCLower
  Programs <- MCPrograms
  BufferSize = 8
  LineSize = 16
  FirstSize = 6
  Residues <- MCResidues
  UndefinedIds <- MCUndefinedIds
  Lines <- MCBracketLines
  MaxLines = 1
SPECIFICATION Spec
INVARIANTS NamesItsWords
CHECK_DEADLOCK FALSE
