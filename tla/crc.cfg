SPECIFICATION Spec
CONSTANTS
  Builds = {"x86_64", "i386", "portable"}
  Texts <- MCTexts
INVARIANTS
  ReturnsRemainder
  LoadsInBuffer
