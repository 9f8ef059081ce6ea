----------------------------- MODULE AccountApi -----------------------------
(***************************************************************************)
(* The requests of AccountApi and their answers: what a client of the      *)
(* service sees.  The values are what bean validation lets through: an     *)
(* email of at most 256 characters, a password of 8 to 256, a vendor id    *)
(* and a device name that are not blank.                                   *)
(***************************************************************************)

CONSTANTS
    Call,         \* one request each
    AccountId,    \* values of UUID.randomUUID(), BaseEntity.id
    Name,         \* emails and vendor ids: one set of strings serves as both
    Password,
    DeviceName,
    Oversize,     \* valid strings that do not fit a varchar(255)
    NoPrincipal,  \* the security context holds no principal
    BlankName,    \* a principal whose name is null or blank
    NotUUID       \* a principal whose name is not a UUID

MalformedPrincipal == {NoPrincipal, BlankName, NotUUID}

ASSUME OversizeAssumption == Oversize \subseteq Name \cup DeviceName
ASSUME PrincipalAssumption == MalformedPrincipal \cap AccountId = {}

Principal == AccountId \cup MalformedPrincipal

-----------------------------------------------------------------------------
EmailRequest ==
    [op : {"createEmailAccount"}, email : Name, password : Password]

IOSDeviceRequest ==
    [op : {"createAccountForIOSDevice"}, vendorId : Name, deviceName : DeviceName]

CreateRequest == EmailRequest \cup IOSDeviceRequest

InfoRequest == [op : {"getAccountInfo"}, principal : Principal]

DeleteRequest == [op : {"deleteAccount"}, principal : Principal]

ListRequest == [op : {"getAccounts"}]

Request == CreateRequest \cup InfoRequest \cup DeleteRequest \cup ListRequest

NoRequest == [op |-> "none"]

\* The column that identifies the user, with the table it is unique in.
EmailLogin(email) == [kind |-> "email", name |-> email]
VendorIdLogin(vendorId) == [kind |-> "vendorId", name |-> vendorId]

Login == [kind : {"email", "vendorId"}, name : Name]

LoginOf(req) ==
    IF req.op = "createEmailAccount"
    THEN EmailLogin(req.email)
    ELSE VendorIdLogin(req.vendorId)

\* Some value of the request is longer than the column it is stored in.
TooLong(req) ==
    \/ LoginOf(req).name \in Oversize
    \/ req \in IOSDeviceRequest /\ req.deviceName \in Oversize

-----------------------------------------------------------------------------
\* What a resource method throws.
Exception ==
    {"ConflictException", "DataIntegrityViolationException",
     "JpaObjectRetrievalFailureException", "NotAuthorizedException",
     "NotFoundException", "ObjectOptimisticLockingFailureException"}

\* "lost" stands for a request the server was stopped under.
Outcome == {"pending", "returned", "lost"} \cup Exception

Answer == [outcome : Outcome, accounts : SUBSET AccountId]

\* AccountDTO carries the id of an account and nothing else.
Returned(ids) == [outcome |-> "returned", accounts |-> ids]
Without(outcome) == [outcome |-> outcome, accounts |-> {}]
=============================================================================
