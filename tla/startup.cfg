\* The start with and without -javaagent, and classes loaded in any order.
SPECIFICATION Spec
CONSTANTS
    Class <- Classes
    PackageOf <- Packages
    MainClass = "AuthenticationServiceApplicationKt"
    Transactional = {"AccountService", "AccountApi"}
INVARIANTS
    NoClassEscapes
    ServiceIsNotWoven
    StartInv
