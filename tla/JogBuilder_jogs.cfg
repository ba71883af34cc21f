CONSTANTS
  Dofs = {"elbow", "yaw", "shoulder_pan"}
  OddGroup = "third_arm"
  Wires <- Robots
  Asked <- SomeRates
  Places <- Positions
  Full = 2
  MaxSet = 2
  None = None
  NaN = NaN
SPECIFICATION Spec
INVARIANTS NothingDropped Calibrated
