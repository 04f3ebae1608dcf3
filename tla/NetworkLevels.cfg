\* Every trained structure, optimization and activation, at 5 to 21 levels.
SPECIFICATION Spec
CONSTANTS
  Names <- MCNames
  Functions <- MCFunctions
  Models <- MCModels
  OptLevels = {0, 1, 2, 3, 4}
  Activations <- MCActivations
  Levels = {5, 8, 11, 15, 19, 21}
INVARIANTS
  LevelsAgree
  ThrowsOnlyOnZero
  SafeResultExact
  DepthIsRequired
  BuildFailureHasACause
CHECK_DEADLOCK FALSE
