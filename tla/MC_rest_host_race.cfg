CONSTANTS
    r1 = r1
    r2 = r2
    a1 = a1
    a2 = a2
    Reqs <- MCReqs
    Arrays <- MCArrays
    HostOf <- MCHostOf
    Replies <- MCReplies
SPECIFICATION Spec
INVARIANT SentToOwnArray
