SPECIFICATION Spec
CONSTANTS
    Handlers = {h1, h2}
    Contexts = {c1, c2}
    alice = alice
    bob = bob
    Nil = Nil
    Users <- MCUsers
    Requests <- Renew
    services <- MCServices
    getServices <- MCGets
INVARIANT ReplyIntegrity
