CONSTANTS
  loading = loading
  control = control
  marker = marker
  none = none
  Loading <- loading
  Marker <- marker
  None <- none
  Controls <- MCControls
  MaxEvents = 1
SPECIFICATION Spec
INVARIANTS
  Inv
  ScreenTrue
PROPERTIES
  Progress
