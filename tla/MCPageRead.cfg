SPECIFICATION Spec
CONSTANTS
  p1 = p1
  p2 = p2
  Pages = {p1, p2}
  Torn <- FirstTorn
  Shapes <- MCShapes
INVARIANTS
  OneFinisher
  
  RunlistFresh
PROPERTY
  PageUnlocked
