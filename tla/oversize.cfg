\* Names that bean validation accepts and a varchar(255) column does not.
SPECIFICATION Spec
CONSTANTS
    Call = {c1, c2}
    AccountId = {a1, a2}
    Name = {n1, n2}
    Password = {p}
    DeviceName = {d}
    Oversize = {n2}
    NoPrincipal = NoPrincipal
    BlankName = BlankName
    NotUUID = NotUUID
    Woven = FALSE
    MaxRestarts = 0
PROPERTIES
    ConflictMeansLinked
