CONSTANTS
    Undef = Undef
    Bytes = {0, 1, 2}
    HeaderLen = 1
    MemberLen <- MCMemberLen

SPECIFICATION Spec

INVARIANT TypeOK
