---------------------------- MODULE AccountStore ----------------------------
(***************************************************************************)
(* The tables behind the JPA entities and their repositories:              *)
(*                                                                         *)
(*   accounts     the ids of the rows of table account                     *)
(*   credentials  the rows of credential_password and of                   *)
(*                credential_ios_device, told apart by the kind of login   *)
(*                                                                         *)
(* Hibernate creates both tables with the constraints the annotations ask  *)
(* for.  Each repository call runs in a transaction of its own, and the    *)
(* database makes what a transaction flushes visible in one step; the      *)
(* operators here are the statements such a transaction flushes.           *)
(*                                                                         *)
(* Left out: the dates of the rows, the ids of the credential rows (a      *)
(* credential is never updated, so account and login identify it), and the *)
(* table of CredentialFacebook, which no operation writes or reads.        *)
(***************************************************************************)
EXTENDS AccountApi

VARIABLES accounts, credentials

storeVars == <<accounts, credentials>>

-----------------------------------------------------------------------------
(***************************************************************************)
(* Entities                                                                *)
(***************************************************************************)

\* PasswordService: scrypt is one-way, and distinct passwords verify against
\* distinct hashes.  The salt is left out: it makes two hashes of a password
\* differ and changes no verification.
Hash(password) == [scrypt |-> password]
Verify(password, hash) == hash = Hash(password)

Credential ==
    [account : AccountId,
     login   : Login,
     detail  : {Hash(p) : p \in Password} \cup DeviceName]

\* An Account object in memory, with the credentials its list holds.
Account == [id : AccountId, credentials : SUBSET Credential]

CredentialPassword(id, email, password) ==
    [account |-> id, login |-> EmailLogin(email), detail |-> Hash(password)]

CredentialIOSDevice(id, vendorId, deviceName) ==
    [account |-> id, login |-> VendorIdLogin(vendorId), detail |-> deviceName]

-----------------------------------------------------------------------------
(***************************************************************************)
(* Repositories                                                            *)
(***************************************************************************)

\* Variant: the lookup searches the names of both tables.
FindByName(login) == {row \in credentials : row.login.name = login.name}

\* The row alone: the account it belongs to is fetched with it (@ManyToOne is
\* eager), but by a second SELECT, LoadAccount of the callers.
FindByLogin(login) == {row \in credentials : row.login = login}

Linked(login) == FindByLogin(login) # {}

CredentialsOf(id) == {row \in credentials : row.account = id}

\* Every string column is a varchar(255), Hibernate's default length, which
\* always holds the hash of a password.
Fits(row) ==
    /\ row.login.name \notin Oversize
    /\ row.login.kind = "vendorId" => row.detail \notin Oversize

\* Variant: the columns are not declared unique.
ViolatesIntegrityNoUnique(account) == \E row \in account.credentials : ~Fits(row)

\* The INSERTs of an account with its cascaded credentials fail as a whole,
\* with a DataIntegrityViolationException, when one of them breaks a unique
\* constraint or does not fit its column.
ViolatesIntegrity(account) ==
    \E row \in account.credentials : Linked(row.login) \/ ~Fits(row)

InsertAccount(account) ==
    /\ accounts' = accounts \cup {account.id}
    /\ credentials' = credentials \cup account.credentials

\* Variants: the cascade is missing, and deleteAll is called for delete.
DeleteAccountNoCascade(account) ==
    /\ accounts' = accounts \ {account.id}
    /\ UNCHANGED credentials

DeleteAllAccounts(account) ==
    /\ accounts' = {}
    /\ credentials' = {}

\* EntityManager.remove cascades to the credentials that were loaded.
DeleteAccount(account) ==
    /\ accounts' = accounts \ {account.id}
    /\ credentials' = credentials \ account.credentials

\* Every DELETE of the cascade must find its row: Hibernate counts the rows.
RowsToDelete(account) ==
    account.id \in accounts /\ account.credentials \subseteq credentials

\* ddl-auto = create-drop: a start drops the tables and creates them empty.
CreateDrop ==
    /\ accounts' = {}
    /\ credentials' = {}

StoreInit ==
    /\ accounts = {}
    /\ credentials = {}

StoreTypeOK ==
    /\ accounts \subseteq AccountId
    /\ credentials \subseteq Credential
=============================================================================
