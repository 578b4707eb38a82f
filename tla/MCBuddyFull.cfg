SPECIFICATION Spec
CONSTANT MaxOrder = 1
INVARIANT RefusalIsNull
