\* Every failure point and partial effect, in the specs that hand back the environment
\* and those whose cleanups wait only for what can happen.
SPECIFICATION Spec
CONSTANT Scripts <- TidyAndPrompt
INVARIANTS
  TypeOK
  GuardedRestored
  RulesKept
  PromptNeverDoomed
PROPERTIES
  UninstalledAfterRestore
  ClusterNotLeaked
  TeardownEnds
