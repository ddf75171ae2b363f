SPECIFICATION Spec
CONSTANTS
  p1 = p1
  p2 = p2
  Points = {p1, p2}
  Shapes <- MCShapes
  DefaultItems <- MCItems
  MaxMenus = 2
  MaxItems = 2
  MaxWindows = 2
PROPERTY FocusIsExclusive
