\* Two token calls; a clock that outlasts tokens of two seconds of three ticks.
SPECIFICATION Spec
CONSTANTS
    AccountId = {a1}
    Call = {}
    Name = {n1}
    Password = {p1, p2}
    DeviceName = {d}
    Oversize = {}
    NoPrincipal = NoPrincipal
    BlankName = BlankName
    NotUUID = NotUUID
    TokenCall = {k1, k2}
    NotAToken = NotAToken
    OddToken = OddToken
    Lifetime = 6
    TicksPerSecond = 3
    MaxClock = 11
SYMMETRY Symmetry
INVARIANTS
    TypeOK
    TokenLifetime
    CookieOutlivesToken
