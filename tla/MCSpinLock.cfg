SPECIFICATION Spec
CONSTANT CPUs = {c1, c2, c3}
INVARIANT MutualExclusion
INVARIANT HolderNotPreempted
INVARIANT DaifRestored
PROPERTY SomeoneProceeds
