CONSTANT Names <- Apart
SPECIFICATION Spec
INVARIANTS CapturesReduceAlike CallsAreRecognised StoredIsReplayed ChainsHold
           MergeIsFaithful DeclarationsMeanOneThing
CHECK_DEADLOCK FALSE
