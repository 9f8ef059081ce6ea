\* Every request is answered: no symmetry, which TLC's liveness check does not
\* support; three requests cover two deletions that race after a creation.
SPECIFICATION FairSpec
CONSTANTS
    Call = {c1, c2, c3}
    AccountId = {a1, a2, a3}
    Name = {n1}
    Password = {p}
    DeviceName = {d}
    Oversize = {}
    NoPrincipal = NoPrincipal
    BlankName = BlankName
    NotUUID = NotUUID
    Woven = FALSE
    MaxRestarts = 1
PROPERTIES
    EveryCallAnswered
