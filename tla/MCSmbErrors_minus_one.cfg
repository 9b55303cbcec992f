CONSTANT NoStatus = NoStatus
SPECIFICATION Spec
INVARIANT MinusOneIsLost
