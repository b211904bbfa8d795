CONSTANT Sensor = {s1, s2}
SPECIFICATION RegistrySpec
SYMMETRY Symmetry
PROPERTIES ImplementsAtomic
CHECK_DEADLOCK FALSE
