----------------------------- MODULE MCStartup ------------------------------
(***************************************************************************)
(* Startup for TLC: the classes that matter, each in its package.          *)
(***************************************************************************)
EXTENDS Startup, TLC

Auth == <<"com", "pixelbumper", "auth">>
Boot == <<"org", "springframework", "boot">>

Packages ==
    "AuthenticationServiceApplicationKt" :> Auth
    @@ "AuthenticationServiceApplication" :> Auth
    @@ "AccountService"    :> Auth \o <<"services">>
    @@ "AccountApi"        :> Auth \o <<"jersey", "api">>
    @@ "JWTService"        :> Auth \o <<"services">>
    @@ "SpringApplication" :> Boot
    @@ "JerseyAutoConfiguration" :> Boot \o <<"autoconfigure", "jersey">>
    @@ "HttpSecurity" :> <<"org", "springframework", "security", "config">>

Classes == DOMAIN Packages
=============================================================================
