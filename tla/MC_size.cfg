CONSTANTS
    MaxInt <- MCMaxInt
    BytesOfGiB <- MCBytesOfGiB
SPECIFICATION Spec
INVARIANT SizeWithinLimit
