SPECIFICATION Spec
CONSTANTS
  WordParts <- MCWordParts
  RequestLines <- MCRequestLines
  FileNames <- MCFileNames
  EstateLines <- MCEstateLines
  MaxLines = 3
  requestCapacity = 2
  Hole = Hole
INVARIANTS
  TypeOK
  FilesRead
  RequestArrives
PROPERTY
  DamageIsLocal
\* The model ends when the files have been read.
CHECK_DEADLOCK FALSE
