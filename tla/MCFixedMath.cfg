CONSTANT Fraction = 3
SPECIFICATION MathSpec
INVARIANT NoSignedOverflow
