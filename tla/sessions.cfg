\* Tokens across deletion, new registration of the same name, and restart.
SPECIFICATION AuthSpec
CONSTANTS
    Call = {c1, c2, c3}
    AccountId = {a1, a2, a3}
    Name = {n1}
    Password = {p1, p2}
    DeviceName = {d}
    Oversize = {}
    NoPrincipal = NoPrincipal
    BlankName = BlankName
    NotUUID = NotUUID
    Woven = FALSE
    MaxRestarts = 1
    TokenCall = {k1, k2}
    NotAToken = NotAToken
    OddToken = OddToken
    Lifetime = 1
    TicksPerSecond = 1
    MaxClock = 2
SYMMETRY Symmetry
INVARIANTS
    AuthTypeOK
    TokenOpensItsOwnAccount
    NoPrincipalIsMissing
    AuthInv
PROPERTIES
    ServiceSpec
    AdmittedWhileValid
    TokenServiceSpec
    OnlyOwnerRemoves
