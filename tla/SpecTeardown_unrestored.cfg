\* A scale-down that fails halfway, with nothing registered to undo it.
SPECIFICATION Spec
CONSTANT Scripts <- LateOrNoRestore
INVARIANT Restored
