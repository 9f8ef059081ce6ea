\* README.md:20 against aop.xml:4.
SPECIFICATION Spec
CONSTANTS
    Class <- Classes
    PackageOf <- Packages
    MainClass = "AuthenticationServiceApplicationKt"
    Transactional = {"AccountService", "AccountApi"}
INVARIANT TransactionalIsWoven
