\* The number of packets barrierTreeSize gives, against its comment.
CONSTANT MaxPreds = 100
SPECIFICATION Spec
INVARIANT TreeSizeAsDocumented
CHECK_DEADLOCK FALSE
