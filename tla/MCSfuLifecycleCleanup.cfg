SPECIFICATION Spec
INVARIANT CleanupOnLoopThread
