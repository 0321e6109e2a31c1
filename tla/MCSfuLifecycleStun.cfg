SPECIFICATION Spec
INVARIANT StunServes
