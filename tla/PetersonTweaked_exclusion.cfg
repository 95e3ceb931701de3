SPECIFICATION Spec
INVARIANTS MutualExclusion
