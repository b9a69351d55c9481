CONSTANT Schemas <- NullNestedSchemas
SPECIFICATION Spec
\* One encode and one decode of a struct run to completion and stop.
CHECK_DEADLOCK FALSE
INVARIANT UnionCellBound
