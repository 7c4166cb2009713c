------------------------------ MODULE Identity ------------------------------
(***************************************************************************)
(* Accounts, sessions and sign-on, and the processes that start: requests  *)
(* of all these kinds, made of the API and of the SAML/SCIM agent.         *)
(***************************************************************************)
EXTENDS SignOn, Startup

\* What a request can be: a request about a user bears the user's name.
ASSUME OperationAssumption ==
    \A w \in Workloads :
        /\ Nothing \notin w
        /\ \A o \in w : /\ DOMAIN o = {"does", "name", "item"}
                        /\ o.does \in DOMAIN UserOps => o.name \in Users

identityVars == <<requestVars, directory, token, signOnVars, startupVars>>

IdentityInit ==
    RequestsInit /\ AccountsInit /\ SessionsInit /\ SignOnInit /\ StartupInit

IdentityNext ==
    \E r \in Requests :
        \/ AccountHandlers(r) /\ UNCHANGED <<token, signOnVars, startupVars>>
        \/ SessionHandlers(r) /\ UNCHANGED <<signOnVars, startupVars>>
        \/ SignOnHandlers(r) /\ UNCHANGED startupVars
        \/ StartupHandlers(r) /\ UNCHANGED <<directory, token, signOnVars>>

IdentitySpec == IdentityInit /\ [][IdentityNext]_identityVars
=============================================================================
