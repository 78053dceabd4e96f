CONSTANT Names <- Nested
SPECIFICATION Spec
INVARIANT PublishedIsServed
CHECK_DEADLOCK FALSE
