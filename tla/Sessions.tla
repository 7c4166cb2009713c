------------------------------ MODULE Sessions ------------------------------
(***************************************************************************)
(* Sessions: src/api/internal/auth with its calls on OpenBao, and the Auth *)
(* middleware that every other handler is behind.  A session is an OpenBao *)
(* token; each request that bears one looks up the token and then the      *)
(* entity it belongs to, in two calls.                                     *)
(***************************************************************************)
EXTENDS Accounts

VARIABLE token  \* for each login the entity its token belongs to; Nothing
                \* when there is no token, or no more

Stranger == 0   \* the entity OpenBao makes for a login without alias

ASSUME SessionAssumption == Nothing # Stranger

SessionsInit == token = [r \in Requests |-> Nothing]

\* The entity that logs in as n: none if it is disabled.
Subjects(n) ==
    LET own == {i \in Named(entities, n) : entities[i].linked}
    IN  IF n \notin logins THEN {}
        ELSE IF own = {} THEN {Stranger} ELSE {i \in own : ~entities[i].disabled}

Deletions == {"deleteUser", "scimDeleteUser"}

\* What was over when a request began: it is there for OverIsOver only.
Ended == {s \in Requests : at[s] = "done" /\ op[s].does \in Deletions \cup {"logout"}}

BearerOps == {"me", "refresh", "logout"}

\* A client uses the token of a login that was answered.
SessionRequest(r) ==
    /\ \E o \in workload :
           \/ o.does = "login" /\ Begin(r, o, "login")
           \/ /\ o.does \in BearerOps
              /\ \E s \in Requests :
                     /\ at[s] = "done" /\ op[s].does = "login" /\ op[s].name = o.name
                     /\ Begin(r, [o EXCEPT !.item = [of |-> s, after |-> Ended]], "token")
    /\ UNCHANGED <<directory, token, seen>>

\* handleLogin without a second factor.  The entity is looked up next, with
\* the new token, for the answer only: without it, the login's own data do.
Login(r) ==
    LET who == Subjects(op[r].name)
    IN  /\ at[r] = "login"
        /\ \/ \E i \in who : token' = [token EXCEPT ![r] = i] /\ Proceed(r, "done")
           \/ who = {} /\ Proceed(r, "refused") /\ UNCHANGED token
           \/ /\ \/ \E i \in who : token' = [token EXCEPT ![r] = i]
                 \/ UNCHANGED token
              /\ Fail(r, "refused")
        /\ UNCHANGED <<directory, seen>>

\* lookupTokenSelf, in the middleware and again in handleRefresh.
LookUpToken(r) ==
    LET i == token[op[r].item.of]
    IN  /\ at[r] \in {"token", "tokenAgain"}
        /\ \/ /\ i # Nothing
              /\ Proceed(r, IF at[r] = "token" THEN "entity" ELSE "entityAgain")
           \/ i = Nothing /\ Proceed(r, "refused")
           \/ Fail(r, "refused")
        /\ UNCHANGED <<directory, token, seen>>

\* What the token's entity is now.
Resolves(i) ==
    \/ i = Stranger
    \/ i # Nothing /\ Known(entities, i) /\ ~entities[i].disabled

Admitted == [me |-> "done", refresh |-> "tokenAgain", logout |-> "revoke"]

\* lookupEntity: the principal is what it finds, and there is no other way in.
LookUpEntity(r) ==
    LET i == token[op[r].item.of]
    IN  /\ at[r] \in {"entity", "entityAgain"}
        /\ \/ /\ Resolves(i)
              /\ Proceed(r, IF at[r] = "entity" THEN Admitted[op[r].does] ELSE "done")
              /\ Remember(r, [principal |-> i, revoked |-> FALSE])
           \/ ~Resolves(i) /\ Proceed(r, "refused") /\ UNCHANGED seen
           \/ Fail(r, "refused") /\ UNCHANGED seen
        /\ UNCHANGED <<directory, token>>

\* Best effort: the answer is the same if it fails.
Logout(r) ==
    LET revoke == token' = [token EXCEPT ![op[r].item.of] = Nothing]
    IN  /\ at[r] = "revoke"
        /\ \/ revoke /\ Remember(r, [seen[r] EXCEPT !.revoked = TRUE]) /\ Proceed(r, "done")
           \/ (revoke \/ UNCHANGED token) /\ UNCHANGED seen /\ Fail(r, "done")
        /\ UNCHANGED directory

\* The lease of a token ends; no handler renews one.
TokenEnds(r) ==
    /\ token[r] # Nothing
    /\ token' = [token EXCEPT ![r] = Nothing]
    /\ UNCHANGED <<requestVars, directory>>

SessionHandlers(r) ==
    \/ SessionRequest(r) \/ Login(r) \/ LookUpToken(r) \/ LookUpEntity(r)
    \/ Logout(r) \/ TokenEnds(r)

-----------------------------------------------------------------------------

\* A session outlives its user and its logout in the client, which still
\* bears the token.  A request made after the deletion of an entity was
\* answered is not admitted as that entity, whoever deleted it and whatever
\* failed; nor one made with a token after a logout that revoked it.
OverIsOver ==
    \A r \in Requests :
        (op[r] # Nothing /\ op[r].does \in BearerOps /\ seen[r] # Nothing) =>
        \A s \in op[r].item.after :
            IF op[s].does = "logout"
            THEN seen[s].revoked => op[s].item.of # op[r].item.of
            ELSE op[s].item.id # seen[r].principal
=============================================================================
