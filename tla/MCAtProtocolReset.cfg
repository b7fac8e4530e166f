CONSTANT MaxSent = 4
SPECIFICATION Spec
INVARIANT NoAnswerAfterUnparsed
