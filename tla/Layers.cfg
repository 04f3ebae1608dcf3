\* Three networks of any structure in turn, or of two at once; or one layer
\* alone, its parallel iterations in every order.
SPECIFICATION Spec
CONSTANTS
  SizeMod = 4096
  IntMod = 64
  th1 = th1
  th2 = th2
  Threads = {th1, th2}
  Models <- MCModels
  FuseLayers = {TRUE, FALSE}
  MaxNetworks = 3
  Layers <- MCLayers
INVARIANTS
  AloneIsTrained
  ConvolutionIsTrained
  PoolingIsTrained
  HeadingIsTrained
CHECK_DEADLOCK FALSE
