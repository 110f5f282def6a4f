\* Two qubits, every circuit.
SPECIFICATION Spec
CONSTANT NumQubits = 2
INVARIANTS
  RowsGenerate
  RandomWhenOpen
  Repeatable
