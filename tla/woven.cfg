\* The same service with @Transactional woven in, over names of which one does
\* not fit its column: a refused creation may surface as a data exception.
SPECIFICATION Spec
CONSTANTS
    Call = {c1, c2, c3}
    AccountId = {a1, a2, a3}
    Name = {n1, n2}
    Password = {p}
    DeviceName = {d}
    Oversize = {n2}
    NoPrincipal = NoPrincipal
    BlankName = BlankName
    NotUUID = NotUUID
    Woven = TRUE
    MaxRestarts = 1
SYMMETRY SymmetryOfCalls
INVARIANTS
    RegistrySound
PROPERTIES
    RegistrySpec
