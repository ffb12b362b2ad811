SPECIFICATION Spec
CONSTANTS
    Handlers = {h1, h2}
    Contexts = {c1, c2, c3}
    alice = alice
    bob = bob
    Nil = Nil
    Users <- MCUsers
    Requests <- FewRequests
    services <- MCServices
    getServices <- MCGets
INVARIANTS TypeOK ExclusiveContext PoolExact OwnIdentity ReplyKeptWhileHeld
SYMMETRY Interchangeable
PROPERTY LeaseSpec
