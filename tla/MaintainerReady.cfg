SPECIFICATION Spec
CONSTANT MaxExits = 2
INVARIANT BeatingIsReady
