\* Three documents and all that is one edit away from them.
CONSTANTS
  Texts <- MCTexts
  Paths <- MCPaths
SPECIFICATION Spec
INVARIANTS TypeOK AcceptedIsBalanced FindsWhatIsWritten
PROPERTY AlwaysAdvances
