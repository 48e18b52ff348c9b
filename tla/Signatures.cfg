SPECIFICATION Spec
CONSTANTS
    Q = 7
    Even = {1, 2, 4}
INVARIANT BatchesVerify
INVARIANT AdaptorsLockTheOrder
INVARIANT CommitmentsOpen
INVARIANT AttestationsBind
INVARIANT SighashCommits
