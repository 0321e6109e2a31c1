SPECIFICATION Spec
INVARIANT TypeOK
INVARIANT StunEndsFirst
INVARIANT StopIsFinal
 
