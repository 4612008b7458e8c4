SPECIFICATION Spec
CONSTANTS
  r1 = r1
  r2 = r2
  Reservations = {r1, r2}
  Span <- Apart
  MaxGeneration = 3
  MaxPages = 2
INVARIANTS TableIsImports PiecesTile 
