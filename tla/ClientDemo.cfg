\* Every kind of directory, configuration and number of images.
SPECIFICATION Spec
CONSTANTS
  Missing = Missing
  Garbage = Garbage
  Zero = Zero
  Width = 256
  ImageFiles <- MCImageFiles
  LabelFiles <- MCLabelFiles
  Powers <- MCPowers
  NumLabels = 2
  MaxImages = 7
INVARIANTS
  UndisturbedRowsAreRight
  CrashHasACause
CHECK_DEADLOCK FALSE
