SPECIFICATION PSpec
CONSTANTS
  Quoted <- MCQuoted
  Apostrophe <- MCApostrophe
  Digits <- MCDigits
  Huge <- MCHuge
  Printed <- MCPrinted
  Programs <- MCPrograms
INVARIANTS
  PTypeOK
  Lossless
  AcceptsItsGrammar
