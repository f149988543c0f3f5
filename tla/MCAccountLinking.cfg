CONSTANTS
    Users = {u1, u2}
    Services = {telegram, residents}
    First = telegram
    Tokens = {t1, t2}
    NoToken = NoToken
    NoOwner = NoOwner
    Accounts = {a1, a2}
    NoAccount = NoAccount
    Streams = {st1, st2}
    NoStream = NoStream
    Calls = {c1}
SYMMETRY MCSymmetry
SPECIFICATION MCSpec
INVARIANTS LinkingIsSound SecondLinkIsContested
PROPERTY SuccessorStays
