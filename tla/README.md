# Verification of authentication-server

TLA+ specifications of the authentication server in this repository, the TLC
configurations that model-check them, and theorems about them that the TLA+
proof system checks.

## The system

The server (`authentication-service`, with the entities in
`authentication-model`) keeps accounts in a database. A user creates an account
for an email and a password, or for the vendor id of an iOS device; exchanges
the credential for a JWT, which comes back in a cookie; and with the cookie
reads or deletes the account. It is one Spring Boot process with Jersey
resources, JPA repositories and Spring Security.

| Component | State | Operations | Hard behaviour | What makes it correct |
|---|---|---|---|---|
| Account operations: `AccountApi`, `AccountService` | none of its own; each request thread holds entities between its repository calls | create for email, create for iOS device, info, delete, list | several transactions per request, and two SELECTs in a lookup, interleaved with those of other requests; a detached entity is deleted | a login has one account; an operation takes its whole effect or none; a deletion is final |
| Entities, repositories, database | tables `account`, `credential_password`, `credential_ios_device` | save, delete, finders | cascades, unique constraints, column widths, merge of rows that are gone, schema dropped at a restart | accounts and credentials agree |
| Tokens: `TokenApi`, `JWTService`, `PasswordService` | none: tokens are only in the hands of clients | create a token, validate a token | two database reads, then slow hash, then clock read; dates of whole seconds; a constant key | a token lives its lifetime; its cookie lives as long |
| Filter and access rules: `JWTAuthenticationFilter`, `SecurityConfig` | the security context of a request | authenticate, admit, refuse | no, one or several cookies; expired tokens; tokens of deleted accounts; exceptions that the parser is not expected to throw | a token opens the account it was issued for, while it is valid |
| CSRF protection: `SecurityConfig`, `index.html` | cookie in the browser | copy the cookie into a header, check, renew | the token is renewed while requests are on their way; responses are lost or overtake each other | a page is refused only when its cookie changed under it, and always has a token |
| Transaction weaving: `aop.xml`, `@Transactional` | - | decides where transactions begin and end | flush inside or outside of a catch clause | operations stay atomic either way |
| Error responses: the exception mappers | one shared `Response` object | map an exception to a response | the object is shared by all threads, with its headers and a stream that is closed once it was used | no client gets the answer to another request |
| Jersey filters: `TimeFilter`, `CORSFilter`; `TimeService` | request attributes, headers of the shared response | set the request time, add headers | order within a request; lists that all threads append to | the time is the request's own; repeated headers reach nobody whose request did not fail |
| `InstantAttributeConverter` | - | Instant to Date and back | precision | a date loses less than a millisecond, once |
| Start-up: `AuthenticationServiceApplication` | agent loaded or not | attach AspectJ, start Spring | order; every way to fail | weaver attached before classes are loaded |
| Index page, Swagger UI, API documents, build files | - | - | - | - |

How they interact: a request passes the security filters, where
`JWTAuthenticationFilter` asks `JWTService` about the cookie, then Jersey calls
a resource; the resource calls a service; the service calls repositories, each
call a transaction of its own. Account operations and token operations meet
only in the database. Tokens travel through the clients. What a resource throws
becomes a response in an exception mapper; the response passes `CORSFilter` on
its way out. A request that a filter refuses or fails on is dispatched a second
time, to the error page of `IndexController`, through the same security chain.

## The modules

    AccountApi         requests and answers: what a client sees
    AccountStore       entities, tables and the statements on them
    AccountRegistry    abstract specification of the account operations
    AccountService     the account operations on concurrent request threads
    JWTService         tokens and their cookies
    AuthServer         filter + AccountService + JWTService over one database
    ErrorResponses     which response an exception becomes
    AccountResponses   AccountService behind the exception mappers
    RequestAnswers     abstract specification of the answering of requests
    RequestPipeline    a request on its thread: filters, resource, mapper, response
    CsrfProtection     the CSRF cookie between page, browser and server
    InstantConversion  dates of an entity and of its columns
    Startup            agent, class loading, and what aop.xml selects
    MC*                the same for TLC, with symmetry sets
    *Proofs            theorems and their proofs

`AccountService` and `JWTService` both extend `AccountStore`; `AuthServer`
extends `AccountService` and takes `JWTService` as an instance that shares the
store's variables. `AccountResponses` extends `AccountService` and takes
`ErrorResponses`, which `RequestPipeline` extends. `Startup` gives the constant
`Woven` of `AccountService` its value. `CsrfProtection` and `InstantConversion`
stand by themselves: the one is in front of every operation and changes none,
the other is about values that no operation looks at.

### AccountStore

`accounts` is the set of ids in table `account`; `credentials` holds the rows
of both credential tables, told apart by the kind of login. `InsertAccount` and
`DeleteAccount` follow the `CascadeType.ALL` of `Account.credentials`.
`ViolatesIntegrity` is what makes the database refuse an insert: a duplicate in
a unique column, or a value longer than a `varchar(255)` (Hibernate's default;
the constant `Oversize` holds the values that do not fit). A hash is the record
of its password, so that verification is equality. Dates are left out.

### AccountService

`pc[c]` names the repository call the thread of request `c` makes next,
`entity[c]` the account it holds, `answer[c]` what the resource returned or
threw. One action is one repository call with the local work after it, except
that the lookup of a login is two actions, one for each of its SELECTs:

| Action | Code |
|---|---|
| `Arrive` | Jersey calls the resource method with its parameters |
| `FindByEmail` | `createAccountForEmailInternal` up to the save, or up to a row for the email |
| `FindAllByVendorId` | `createAccountForIOSDeviceInternal` up to the save, or up to a row for the vendor id |
| `LoadAccount` | the second SELECT of either lookup: the account of the row that was found |
| `Save` | `accountRepository.save(account)` to the commit, with the catch clauses around it |
| `FindById` | `getAccountOfSecurityContext`; `getAccountInfo` ends here |
| `Merge` | first half of `accountRepository.delete`: the detached account is merged |
| `Remove` | commit of the DELETEs, or a rollback because a row is gone |
| `InsertAndRemove` | commit when the account was already gone at the merge: its copy is inserted and deleted again |
| `FindAll` | `getAccounts` |
| `Restart` | the process stops and starts; `ddl-auto=create-drop` empties the tables |

Why transactions are cut there: `aop.xml` includes `com.pixelbumper.*`, which
in AspectJ selects the classes directly in that package and none below it, so
the `@Transactional` annotations of the service and of the API have no effect
as built and every repository call has its own transaction. The constant
`Woven` states the intent of the README ("to be able to use annotations like
`@Transactional` on private methods"); module `Startup` shows which value is true. Weaving moves one visible thing: the
transaction of `AccountApi.createEmailAccount` then ends after the catch clause
of the service, and a refused insert leaves as `DataIntegrityViolationException`.
In both cases the lookup and the save of a creation stay two steps, since the
database at its default isolation does not keep a row that was not found from
being inserted by somebody else.

`Credential.account` is a `@ManyToOne`, which is eager, and the lookups are
queries: Hibernate selects the credential and then, by a SELECT of its own, the
account. The database is read at READ COMMITTED, so a deletion may commit
between the two. Hibernate then throws an `EntityNotFoundException`, which Spring
turns into a `JpaObjectRetrievalFailureException`; the catch clauses of the
service are for another exception, so a creation ends in status 500. The same
lookup begins the issuing of a token.

`persisted` (ids ever committed) is history: it says which principals can
exist, and that `UUID.randomUUID()` does not repeat. The service itself assumes
nothing about principals; requests bring an id that was once committed, or none,
or a malformed one, and `AuthServer` shows that the filter brings no others.

### AccountRegistry

What the operations promise, each in one atomic step: `links` maps logins to
accounts, `retired` are ids out of use. `AccountService` implements it under
`links <- {[login, account] of the credentials}` and
`retired <- persisted \ accounts`; the linearisation point of every operation
is the step that answers it. A creation may be refused only for a login that is
linked at that moment, or a value too long; it may fail (`Fail`) when the account
that was found under its login is retired; an information or a deletion may be
missed (not found, or a lost race) only when the account is gone for good: its
principal is retired or malformed, never an id that somebody may still get.

`Sound` is what whoever relies on the registry may conclude from these steps
alone: links are one to one, no linked id is a retired one, and the principal of
an answered deletion stays retired. `RegistrySound` is `Sound` of the tables.

### JWTService

`clock` counts ticks finer than a second; `tokenCall[k]` is a request for a
token: the request, the credential found, and the cookie it was answered with.
The row of the credential is read (`FindCredential`), then its account
(`LoadAccount`, with the check of the password), then the token is built
(`BuildToken`): the account may go at any time in between, and the hash is slow
on purpose. `GetTokenIfValid` compares the clock with the expiration date, which
the token holds in whole seconds. A value that the parser rejects (malformed,
unsupported, or with another signature) is the one value `NotAToken`; one on
which it throws an exception that `getTokenIfValid` passes on (the branch
`else -> throw e`, `Rethrows`) is `OddToken`. By itself
the module runs in an `Environment` that inserts an account with its credential
if the constraints allow it, or deletes an account with all of its credentials;
a restart of that environment empties the tables and loses the calls
(`LoseTokenCalls`). Unlike AccountService it may use an id again, so that what
is shown of JWTService alone does not rest on ids being fresh.

The user name `deviceId` makes `createToken` take the password for a vendor id;
such a request is one with a vendor id login.

### AuthServer

A request brings none, one or two cookies named `jwt`, each with a token that
was ever issued, with `NotAToken` or with `OddToken`. Exactly one valid cookie
authenticates (`Authentication`); open paths are the two creations and the token
resource, the others need authentication (`Admit`) or are refused (`Forbid`); an
exception of the parser ends the request in the filter (`FailFilter`).
The action `RestartServer` ends the calls of both services and empties the
tables, while issued tokens stay with the clients. The server implements both of
its halves: `ServiceSpec` (the filter lets only known principals through) and
`TokenServiceSpec` (the account operations, a restart included, are steps of
the `Environment` of JWTService).

### ErrorResponses and AccountResponses

`ToResponse(e)` is the response the mapper of exception `e` returns:
`WebApplicationExceptionMapper` and `ValidationExceptionMapper` build one,
`AllExceptionMapper` (and the second branch of `ValidationExceptionMapper`)
returns the one object `INTERNAL_SERVER_ERROR`. A response is its status and
the number of values that its CORS headers have. A method without a result is
answered with 204, which `deleteAccount` is. `AccountResponses` says with
which status each call of `AccountService` is answered.

### RequestPipeline

`stage[r]` is where request `r` stands, `bound[t]` the request that Spring's
`RequestContextHolder` finds on thread `t`, `requestTime[r]` the attribute
`REQUEST_TIME`, `shared` the content of `INTERNAL_SERVER_ERROR`, and `stream` the
output stream that this object carries, with the request it would write to.

| Action | Code |
|---|---|
| `Accept`, `Leave` | the container gives a request a thread, `RequestContextFilter` binds and unbinds it |
| `Pass`, `Forbid`, `FailFilter` | the security chain lets the request through, denies it, or throws |
| `ErrorPage` | the ERROR dispatch of a refused or failed request to `/error` |
| `MissRoute`, `Route` | Jersey finds a resource for the path, method and media types, or throws (404, 405, 406, 415) |
| `TimeFilter` | `TimeFilter.filter`, with its own check |
| `Invalid`, `Valid` | bean validation of the parameters |
| `Return`, `Fail` | the resource reads the time, and returns or throws |
| `GetHeaders`, `AddHeaders` | `CORSFilter.filter`: the list is looked up, then appended to |
| `Write` | Jersey writes a response of the request's own |
| `OpenStream`, `OpenClosedStream` | Jersey hands the request to the stream of the shared object, or finds it closed |
| `Commit`, `FailToCommit`, `CloseAgain` | the stream of the shared object is closed, which sends the answer, the first time |

`response.headers.add` is cut in two steps because the headers of the shared
object are plain lists: two threads that add to them may lose an addition.

The shared object is written in two steps because Jersey 2.27 does it in two, and
a `Response` is not made to be returned twice. The object carries a
`CommittingOutputStream`. `setStreamProvider` points it to the request to be
answered, even when another request that it was pointed to is not answered yet;
the closing of it sends status and headers to the request it points to, and
leaves it closed and committed for good. A later use of the object fails in
`setStreamProvider`; `ServerRuntime` only logs that for a committed stream, sets
no status, and the container sends an empty 200. When the stream was closed but
not committed, because the headers could not be read while another thread was
adding to them, Jersey answers with a bare 500. `Commit` and `CloseAgain` are
also the way in which one thread sends the answer of another one, whose status
is the same 500.

A refused request has status 403 on either way to the error page. Spring's
`AccessDeniedHandler` calls `sendError(403)`, and an exception of
`JWTAuthenticationFilter` makes the container set 500; both are dispatched to
`/error`. In that dispatch the filter, which runs once per request, does not run
again. A request whose access was already decided keeps its 403 and gets the
page; one on which the filter threw is decided now, is not authenticated, and is
denied `/error`, which is none of the open paths: its 500 becomes 403.

RequestAnswers is what clients see of this: `phase[r]` is `waiting`, `served`,
`answered` or `done`, the operator `Phase` maps `stage[r]` to it, and threads,
stamps, headers and the shared object are gone. At most as many requests are
served as the pool has threads; an outcome is settled once; an answer is given
once and has the status of the outcome (`Answer`), or is an empty 200, where the
request failed unexpectedly and so did another one (`AnswerNothing`).

### CsrfProtection

The server stores no CSRF token: a write passes if its header `X-XSRF-TOKEN`
equals its cookie `XSRF-TOKEN`. `exchange[q]` is one request of the page with
its response. The page copies the cookie into the header (`Build`,
`requestInterceptor` of `index.html`), the browser attaches the cookie (`Send`),
the server refuses or admits (`Refuse`, `Admit`) and the response changes the
cookie (`Deliver`) or is lost (`Lose`). A request without a token gets one; as
sessions are `STATELESS`, Spring Security takes every authenticated request for
a login and renews its token. `overtaken` is history: the exchanges that were
built when the cookie changed, and not yet sent.

### InstantConversion

A row's date: `stamped`, the time of the request that made it; `attribute`, the
field in memory; `column`, what `InstantAttributeConverter` made of it. `Flush`
and `Load` repeat in any order, as the merge before a deletion flushes an entity
that was loaded before (`lastTimeSeen` is an updatable column).

### Startup

`main` insists on the agent: it finds it (`FindAgent`), or attaches it
(`MissAgent`, `Attach`), or throws (`MissAspectJ`, `FailToAttach`); only then
does it start Spring, and classes load in any order (`Load`). That is the
start from a class path, by the build or an IDE. `Include` are the
two patterns of `aop.xml`, over packages as sequences of their parts.

## Properties and runs

| Run | Question | Bounds |
|---|---|---|
| `accounts` | Do logins stay unique, tables agree, deletions stay final, and does the service implement the registry? | 4 calls, 4 ids, 1 name as email and vendor id, 1 restart |
| `woven` | Is the registry still implemented with `@Transactional` woven and names that do not fit, and do the tables have what follows from it? | 3 calls, 3 ids, 2 names, one too long, 1 restart |
| `liveness` | Is every request answered? | 3 calls, 1 name, 1 restart; no symmetry |
| `oversize` | Does `ConflictException` always mean what its comment says? **No** | 2 calls, 2 names, one too long |
| `tokens` | Do tokens and cookies live as long as they should? | 2 token calls, 3 ticks a second, a lifetime of 2 seconds, 11 ticks |
| `startup` | Does the weaver see every class that `aop.xml` selects, and none of the service? | 8 classes in 6 packages, every start |
| `transactional` | Are the classes with `@Transactional` woven, as the README intends? **No** | the same |
| `pipeline` | Does every client get one answer, the one to its own request, and every resource its own time? | 3 requests, 2 threads, 1 tick, 2 exceptions a resource throws besides those of routing, validation and the filters |
| `servererror` | Is every request that ends in an unexpected exception told of it? **No** | 2 requests, 1 thread |
| `csrf` | When is a write of the page refused, and has the page always a token? | 4 exchanges, lost and reordered |
| `dates` | Do dates drift? | 41 instants of 5 to a millisecond |
| `sessions` | Does a token open only its account, are accounts removed only for their owners, and does the server implement both services? | 3 calls, 2 token calls, 2 passwords, lifetime 1, 2 ticks, 1 restart |

The properties, by module:

- AccountService: `UniqueLogin`, `AccountsLinked` and `AnsweredDeleteMeansGone`
  are invariants; `ConflictMeansLinked` and `OnlyOwnDeleteRemoves` are action
  properties; `RegistrySpec` is the refinement, and `RegistrySound` the
  invariant it brings; `EveryCallAnswered` is the liveness property; `IInv` is
  the inductive invariant of the proofs.
- JWTService: `TokenLifetime`, `CookieOutlivesToken`.
- AuthServer: `TokenOpensItsOwnAccount` and `NoPrincipalIsMissing` are
  invariants; `AdmittedWhileValid` and `OnlyOwnerRemoves` (behind every removal
  stands a token issued to a call that knew the login and the password) are
  action properties; `ServiceSpec` and `TokenServiceSpec` are the refinements of
  AccountService and JWTService; `AuthInv` is the inductive invariant.
- AccountResponses: `ServerErrorIsLostRace`, status 500 is only the answer to a
  deletion or a creation that lost a race against the deletion of the account it
  had in hand, and that account is gone for good.
- RequestPipeline: `AnswersOwnOutcome`, `OnlyServerErrorsRepeatHeaders` and
  `TimeIsOwn` are invariants; `AnswersSpec` is the refinement of RequestAnswers;
  `UnexpectedIsServerError`, which fails, is what the shared object says of
  itself; `PipelineInv` is the inductive invariant.
- CsrfProtection: `RefusedOnlyIfOvertaken`, `PageHoldsToken`; `CsrfInv` is the
  inductive invariant.
- InstantConversion: `StoredJustBefore` is an invariant, `DateIsFinal` an action
  property; `DateInv` is the inductive invariant.
- Startup: `NoClassEscapes`, `ServiceIsNotWoven`; `StartInv` is the inductive
  invariant.

Why the bounds are enough. Two calls race for a login or an account; the third
and the fourth make the account that two deletions race for, and the one that
takes its login afterwards. One name is enough for accounts to compete, and it
serves as email and vendor id at once, so that a mix-up of the tables shows;
that names do not interfere is what the theorems add, which hold for any sets.
A second restart finds the same empty tables as the first. In `tokens` the clock
passes the end of a token built at any offset within a second. In `sessions` two
passwords tell the user of an old token from the user of the same login later,
and the clock passes the end of a token. In `pipeline` two requests meet at the
shared response while a third follows on the thread of one of them, with a later
time. In `csrf` the page is opened by one exchange, a second renews the token, a
third is overtaken by it, and the fourth is sent again after the refusal. In
`dates` every offset within a millisecond occurs in eight of them.

`NoMoreRequests`, `Quiet` and `NoMoreTime` stutter where the bounded sets of
requests and ticks are used up, so that TLC's deadlock check stays on: every
other state without a successor would be a thread that is stuck. The
definitions marked "Variant" are forms a plausible bug would give an operation;
no specification uses them, and each property is known to fail under one of
them.

Fairness: `FairSpec` asks weak fairness of `Step(c)` of each request, which is
that the servlet container schedules the thread of a request and the database
answers it. Nothing is asked of arrivals and restarts. Database locks and the
connection pool, where calls do wait for each other, are not modelled, so what
`EveryCallAnswered` shows is that no race makes a call start over.

### What the runs found

`transactional` is a divergence of documentation and code. `README.md:20` of the
repository names AspectJ as the means "to be able to use annotations like
@Transactional on private methods", but the pattern `com.pixelbumper.*` of
`aop.xml:4` selects the classes of that one package, which has none; with two
dots, as in the line below it, it would select the service. The agent is
attached, Spring starts, and the classes with `@Transactional` stay unwoven. The
runs `accounts` and `woven` show that the operations are atomic either way.

`servererror` is a bug of the code. `AllExceptionMapper.kt:11` builds one
`Response`, `.serverError()` with the message "Internal Server Error", for the
life of the process, and line 25 returns it for every unexpected exception. The
first request that fails gets it; each later one finds its stream closed and
committed and gets an empty 200, so that a client takes a failed operation for a
successful one. A response built in `toResponse`, as the two other mappers do it,
would not. What does hold is `AnswersOwnOutcome`: nobody whose request did not
fail is affected, and nobody is told of the outcome of another request.

`oversize` is a divergence of code and comment. Every
`DataIntegrityViolationException` becomes a `ConflictException`
(`AccountService.kt:44` and `:75`; the TODOs above them know of it), but the
constraint need not be the unique one: `AccountApi.kt:86` accepts an email of
256 characters, a vendor id or a device name of any length is accepted too, and
the columns are `varchar(255)`. The client is told that the email "is already
linked to another account" when it is not. `ConflictMeansLinked` holds when
everything fits (`accounts`, and theorem `ConflictsAreTrue`).

## What is proved

TLAPS checks the following for all values of the constants.

| Theorem | Says |
|---|---|
| `TypeCorrect` | `Spec => []TypeOK` |
| `LoginsAreUnique` | `Spec => []UniqueLogin` |
| `AccountsStayLinked` | `Spec => []AccountsLinked` |
| `DeletedAccountsStayGone` | `Spec => []AnsweredDeleteMeansGone` |
| `ConflictsAreTrue` | `Oversize = {} => (Spec => ConflictMeansLinked)` |
| `RemovalIsOwn` | `Spec => OnlyOwnDeleteRemoves` |
| `ServiceImplementsRegistry` | `Spec => RegistrySpec` |
| `RegistryIsSound` | `RegistrySpec => []RegistrySound`, from the abstract operations alone |
| `ServiceIsSound` | `Spec => []RegistrySound` |
| `TokensLiveTheirLifetime` | JWTService: `Spec => []TokenLifetime` |
| `CookiesOutliveTokens` | JWTService: `Spec => []CookieOutlivesToken` |
| `ServerImplementsService` | `AuthSpec => ServiceSpec` |
| `ServerImplementsTokens` | `AuthSpec => TokenServiceSpec` |
| `ServerImplementsRegistry` | `AuthSpec => RegistrySpec /\ []RegistrySound` |
| `ServerKeepsTables` | `AuthSpec => [](UniqueLogin /\ AccountsLinked /\ AnsweredDeleteMeansGone)` |
| `OwnersAloneRemove` | `AuthSpec => OnlyOwnerRemoves` |
| `ServerHonoursLifetime`, `ServerCookiesOutliveTokens` | `AuthSpec => []JWT!TokenLifetime`, `AuthSpec => []JWT!CookieOutlivesToken` |
| `TokensOpenTheirOwnAccount` | `AuthSpec => []TokenOpensItsOwnAccount` |
| `PrincipalsArePresent` | `AuthSpec => []NoPrincipalIsMissing` |
| `Invariance`, `AuthInvariance` | `Spec => []IInv`, `AuthSpec => []AuthInv` |
| `ServerTypeCorrect` | `AuthSpec => []AuthTypeOK` |
| `AdmissionsAreTimely` | `AuthSpec => AdmittedWhileValid` |
| `TokensTypeCorrect` | JWTService: `Spec => []TypeOK` |
| `ServerErrorsAreLostRaces` | AccountResponses: `~Woven => (Spec => []ServerErrorIsLostRace)` |
| `PipelineInvariance`, `AnswersAreOwn`, `RepeatedHeadersStayWithServerErrors`, `RequestTimeIsOwn` | RequestPipeline: `Spec => []PipelineInv`, and its three properties |
| `PromiseKept` | RequestPipeline: `Spec => AnswersSpec` |
| `CsrfInvariance`, `OnlyOvertakenAreRefused`, `PagesHoldTokens` | CsrfProtection: `Spec => []CsrfInv`, and its two properties |
| `DateInvariance`, `DatesAreJustBefore`, `DatesAreFinal` | InstantConversion: `Spec => []DateInv`, and its two properties |
| `OrderIsKept` | the conversion keeps the order of instants |
| `StartInvariance`, `NothingEscapesTheWeaver`, `ServiceRunsUnwoven` | Startup: `Spec => []StartInv`, and its two properties |

Assumptions: `OversizeAssumption` and `PrincipalAssumption` (an id is neither a
missing nor a malformed principal), `WovenAssumption`,
`MaxRestartsAssumption`; of time, `TicksAssumption`, `LifetimeAssumption` (the
lifetime is a whole number of seconds, as `EXPIRATION_TIME` is),
`MaxClockAssumption`, `NotATokenAssumption`, and `TimeAssumption` for the same
constants of AuthServer; of requests, `ThrownAssumption` (what a resource may
throw), `ObjectAssumption` (the shared response is an object of its own),
`NoRequestAssumption`, `PoolAssumption` (the pool has threads, and finitely
many) and `ClockAssumption`; `NoTokenAssumption` and, in the server,
`ForgeryAssumption` (a value that was never issued is none of the tokens);
of dates, `NanosAssumption`, `MaxInstantAssumption` and `NoDateAssumption`;
`ClassAssumption`. That fresh ids are fresh
is part of the model (`FreshIds`), not of the proofs.

The argument for AccountService. None of the properties is inductive, because a
thread acts on what it read earlier. `IInv` adds what stays true of it: `pc`
fits the request (`ControlInv`); an account about to be saved has an id that no
table and no other thread knows and exactly the credential the request asked for
(`SaveInv`), so committing it cannot give an old account a second credential;
a merged account still covers every row of its account (`MergeInv`), since
nothing is added to an account after its creation, so a successful cascade
leaves no orphan; a merge that found no row finds none at its commit either,
since ids never return (`LinkInv`, `accounts \subseteq persisted`); and while the
account that a lookup found exists, its credential is the one of the login
(`LoadInv`), so that the conflict is a true one. There is one
lemma per action and `NextIInv` combines them. The refinement proof uses `IInv`:
a successful `Remove` removes all links of its account because the merged
credentials cover them; an unsuccessful one is a miss because some other
deletion took the account as a whole, and the id is retired, since a principal
names an account that was committed (`PrincipalInv`). A lookup whose account was
deleted before its second SELECT is a `Fail` of the registry: the id was
committed (`ControlInv`) and is retired.

The argument for the registry. `Sound` is inductive over the operations of
AccountRegistry, with no fact about threads or tables: a creation links a free
login to an id outside `Ids \cup retired` and answers no deletion; a deletion
retires the id it unlinks, or finds it retired; a miss is one of a retired or
malformed principal; nothing takes an id out of `retired`. `RegistryIsSound` is
about the registry as the service instantiates it, but its lemmas expand only
what AccountRegistry defines. With the refinement it becomes `ServiceIsSound`,
and with the refinement below that one of the server.

The argument for AuthServer. `AuthInv` adds that a token call holds a credential
of an account that was committed and, as long as that account has a credential,
it is this one; and that a call that goes on to build a token proved to own it
(`CredentialInv`). It is preserved because rows are only ever
added for ids that were never committed (`NewRows`, from `SaveInv`). From it
follows that what the filter admits is what AccountService assumes of its
clients, hence `ServerImplementsService`, and with it every theorem about
AccountService is one about the server (`ServerImplementsRegistry`,
`ServerKeepsTables`). `ServerImplementsTokens` needs the other direction: what
a `Save` commits is a `NewAccount` that violates no constraint, what a `Remove`
commits deletes an account with `CredentialsOf` it (`SaveInv`, `MergeInv`,
`LinkInv`), and the other account steps leave the tables alone.

For `OwnersAloneRemove`, `AuthInv` also says that the principal of every admitted
request is the subject of an issued token (`PrincipalsHoldTokens`), which lasts
because nothing takes an issued token back (`TokensStay`). A removal is the
deletion its own principal asked for (`RemovingStep`), so a token names the
account; by `CredentialInv` the call it was issued to proved to own the credential
the account has.

The argument for JWTService. `JWTInv` records when a token was built and what
its dates are; `SecondsBound` and `WholeLifetime` are the arithmetic of integer
division.

Time in the server: `TimedInv` (in the proof module) adds to `AuthTypeOK` what
JWTService's own invariant says of each token call, here with steps of
AccountService in between: they change the store and leave token calls and clock
alone. `AdmittedWhileValid` follows, since the date of an issued token is
`builtAt + Lifetime` cut off to seconds, and so do `ServerHonoursLifetime`
(`HonouredTokens`) and `ServerCookiesOutliveTokens` (`WholeSeconds`: the lifetime
is a whole number of seconds, so the division of the cookie loses nothing).

The argument for RequestPipeline. `PipelineInv` says that a thread is bound to
at most one request, a request to at most one thread, and a request in progress
to one (`BoundInv`), that a
response that is not the shared object has the status of its request's outcome
and exactly the headers of one pass through `CORSFilter`, and that the shared
object has status 500 whatever became of its headers (`ResponseInv`). Only
outcomes with status 500 are mapped to it (`Mapped`). `StreamInv` follows its
stream: while it is open, the request it points to has still to close it, so the
answer sent to that request is the first one it gets; and once it is closed,
there is a request that failed unexpectedly and was answered, so that whoever
finds it closed is not the only one (`SomebodyElse`), which is what
`AnswersOwnOutcome` allows the empty 200 for.

The argument for `PromiseKept`. The steps between a settled outcome and the
answer stutter (`UnseenSteps`). A step that ends in an answer touches no answer
already given, not even where `Commit` answers another request than its own, by
`StreamInv`; and the status it leaves its request with is one that
`AnswersOwnOutcome`, which the step preserves, allows (`AnsweringSteps`). That `Accept` finds room
(`PoolHasRoom`) is a counting argument: each request being served is bound to a
thread, so the threads other than the free one map onto these requests, and
there are fewer of them than threads (`FS_Surjection`, for a finite pool).

The argument for CsrfProtection. `CsrfInv` says that a request that was built
and not overtaken has the cookie in its header, so that header and cookie agree
when it is sent; and that a request in flight left the browser with a token, or
its response brings one.

The argument for InstantConversion. `DateInv`: field and column convert to the
same date as the stamp. `FloorUnique` gives the round trip, that an instant
converted to a date and back converts to the same date.

The argument for Startup. `StartInv`: without the agent only `MainClass` is
loaded, so that every later load goes through it;
`PatternsSelectNothingBelow` is about the two patterns.

The argument for `ServerErrorsAreLostRaces`: an outcome with status 500 is
one without a mapper of its own (`UnmappedStatus`); with `Woven = FALSE` a
refused insert is a conflict, and what remains is the lost race of a deletion,
or of a lookup between its two SELECTs. In both the thread holds an account that
was committed and is no longer there, and ids never return.

Only model-checked: `EveryCallAnswered` (liveness under fairness is out of
TLAPS's reach). The runs `oversize`, `transactional` and `servererror` are
counterexamples and need no proof.

## What is not modelled

- The X-Frame-Options header, which `SecurityConfig` switches off, and the
  contents of the CORS headers.
- Bean validation rule by rule: requests of AccountService are those it lets
  through, and RequestPipeline has both outcomes. Where it lets more
  through than the columns hold is what `Oversize` is for.
- Dates in the tables of AccountStore: no operation reads them.
  `InstantConversion` is about one of them.
- `CredentialFacebook`: no operation uses it.
- The bodies of responses, the one of the shared object included: only its
  status and headers are followed. How Jersey, Spring and Hibernate behave is
  taken from the versions the build names, as their code is not part of the
  repository.
- The start from the executable jar: its launcher loads classes before `main`
  runs, which `Startup` takes for the first class. They are in
  `org.springframework.boot.loader`, which `Include` selects, so that
  `NoClassEscapes` says nothing of that start.
- `@PreAuthorize("hasRole('USER')")` at `AccountApi.kt:60`: method security is
  not enabled in `SecurityConfig`, so the annotation has no effect, and
  `AuthServer` admits every authenticated request to `getAccounts`.
- Database locks and the connection pool.
- The Swagger UI, which is vendored third-party code in minified form, and the
  example document `swagger.yaml`; build files. They keep no state.
- Signatures and hashes beyond "an issued token is authentic, another string is
  not" and "a hash verifies its own password".

## Plan

Done, in this order: AccountApi, AccountStore, AccountService and its
inductive invariant; AccountRegistry and the refinement; JWTService;
AuthServer; ErrorResponses, RequestPipeline and AccountResponses;
CsrfProtection; InstantConversion; Startup; the proofs of each; the server as an
implementation of JWTService, with the lifetime of its tokens; RequestAnswers and
what RequestPipeline implements of it; what follows from AccountRegistry alone.
Left: RequestPipeline composed with AccountService, with its `outcome` given by
the calls. Nothing in one depends on the other but the outcome, so the
composition is expected to show nothing new.
