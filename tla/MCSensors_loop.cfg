SPECIFICATION Spec
CONSTANTS
  Coefficients <- TwoCoefficients
  LastStep = 9
INVARIANTS SamplesFreshOrReported PressureFreshOrReported ConversionsKeptApart InitConfigures
