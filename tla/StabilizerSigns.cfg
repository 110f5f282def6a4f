\* The sign bits of products of rows.
SPECIFICATION Spec
CONSTANT NumQubits = 2
INVARIANT OutcomesExact
