\* Four concurrent requests over one name: an email and a vendor id that are
\* the same string, in different tables.
SPECIFICATION Spec
CONSTANTS
    Call = {c1, c2, c3, c4}
    AccountId = {a1, a2, a3, a4}
    Name = {n1}
    Password = {p}
    DeviceName = {d}
    Oversize = {}
    NoPrincipal = NoPrincipal
    BlankName = BlankName
    NotUUID = NotUUID
    Woven = FALSE
    MaxRestarts = 1
SYMMETRY Symmetry
INVARIANTS
    TypeOK
    UniqueLogin
    AccountsLinked
    AnsweredDeleteMeansGone
    IInv
    ServerErrorIsLostRace
PROPERTIES
    ConflictMeansLinked
    OnlyOwnDeleteRemoves
    RegistrySpec
