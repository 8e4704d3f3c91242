\* The four values of the BME680, three measurements.
CONSTANTS
    NumValues = 4
    MaxSamples = 3
SPECIFICATION Spec
INVARIANTS TornAtOnePlace SensorsInv
PROPERTY ReadingsGoForward
