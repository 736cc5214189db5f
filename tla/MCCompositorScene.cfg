SPECIFICATION Spec
CONSTANTS
  SurfaceCapacity = 2
  Width = 2
  Height = 2
  Picture <- Pictures
  Styles <- ScaleAndOpacity
  Position <- Corners
  CursorPosition <- Tips
  CursorPicture <- Cursors
  DamageRequests <- Declared
  OutputDamageCapacity = 1
  SurfaceDamageCapacity = 1
INVARIANTS ScreenIsCurrent CoverageExact
