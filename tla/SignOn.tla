------------------------------- MODULE SignOn -------------------------------
(***************************************************************************)
(* Single sign-on, the SAML half of src/saml-scim-agent: the key that each *)
(* instance loads or makes when it starts, and the assertions it signs     *)
(* with it; and the login of the API that goes through it.  Who verifies   *)
(* an assertion does so with the certificate in some instance's metadata.  *)
(***************************************************************************)
EXTENDS Sessions

CONSTANTS
    Instances,  \* processes of the agent
    Garbled     \* a stored key that does not decode

ASSUME SignOnAssumption == Garbled \notin Requests \cup {Nothing, Original}

VARIABLES
    stored,     \* the key in OpenBao, named for who generated it
    key,        \* the key of each instance, Nothing when it does not run
    raced       \* ghost: a key was written over one stored since the read

signOnVars == <<stored, key, raced>>

\* Requests for sign-on find an instance that has been running, or start one.
SignOnInit ==
    /\ stored \in {Nothing, Original, Garbled}
    /\ key \in [Instances -> {Nothing} \cup ({stored} \cap {Original})]
    /\ \/ \E o \in workload : o.does \in {"startInstance", "signOn", "samlLogin"}
       \/ stored = Nothing
    /\ raced = FALSE

Decodes(k) == k \notin {Nothing, Garbled}

\* Only an instance that runs answers; an instance starts when it does not,
\* or once it has died.
SignOnRequest(r) ==
    /\ \E o \in workload, a \in Instances :
           \/ /\ o.does = "startInstance"
              /\ \A s \in Others(r) : op[s].item # a
              /\ Begin(r, [o EXCEPT !.item = a], "readKey")
              /\ key' = [key EXCEPT ![a] = Nothing]
           \/ /\ o.does \in {"signOn", "samlLogin"} /\ key[a] # Nothing
              /\ Begin(r, [o EXCEPT !.item = a], "authenticate")
              /\ UNCHANGED key
    /\ UNCHANGED <<directory, token, stored, raced, seen>>

\* LoadOrGenerateKeys.  An error of either call ends the process.
ReadKey(r) ==
    /\ at[r] = "readKey"
    /\ Remember(r, stored)
    /\ \/ /\ Decodes(stored)
          /\ key' = [key EXCEPT ![op[r].item] = stored]
          /\ Proceed(r, "done")
       \/ ~Decodes(stored) /\ Proceed(r, "writeKey") /\ UNCHANGED key
       \/ Fail(r, "refused") /\ UNCHANGED key
    /\ UNCHANGED <<directory, token, stored, raced>>

\* Mutant: the instance runs with a key it has not stored.
WriteKey_NotStored(r) ==
    /\ at[r] = "writeKey"
    /\ key' = [key EXCEPT ![op[r].item] = r] /\ Proceed(r, "done")
    /\ UNCHANGED <<directory, token, stored, raced, seen>>

\* No check that what it read is still what is stored.
WriteKey(r) ==
    /\ at[r] = "writeKey"
    /\ \/ stored' = r /\ key' = [key EXCEPT ![op[r].item] = r] /\ Proceed(r, "done")
       \/ stored' \in {r, stored} /\ UNCHANGED key /\ Fail(r, "refused")
    /\ raced' = (raced \/ (stored' = r /\ stored # seen[r]))
    /\ UNCHANGED <<directory, token, seen>>

\* ServeLogin: the token it gets serves for the entity's look-up, which may
\* fail, and is left alone after it.
Authenticate(r) ==
    LET who == Subjects(op[r].name)
    IN  /\ at[r] = "authenticate"
        /\ \/ \E i \in who : token' = [token EXCEPT ![r] = i] /\ Proceed(r, "sign")
           \/ who = {} /\ Proceed(r, "refused") /\ UNCHANGED token
           \/ /\ \/ \E i \in who : token' = [token EXCEPT ![r] = i]
                 \/ UNCHANGED token
              /\ Fail(r, "refused")
        /\ UNCHANGED <<directory, signOnVars, seen>>

\* The API turns the assertion of a samlLogin into a principal, and then has
\* no key of its own to sign a session with: InitJWT is never called.
Answer(r, k) == IF op[r].does = "signOn" /\ k # Nothing THEN "done" ELSE "refused"

\* The assertion has the instance's key; an instance that died does not answer.
Sign(r) ==
    LET k == key[op[r].item]
    IN  /\ at[r] = "sign"
        /\ IF k = Nothing THEN UNCHANGED seen ELSE Remember(r, k)
        /\ Proceed(r, Answer(r, k))
        /\ UNCHANGED <<directory, token, signOnVars>>

SignOnHandlers(r) ==
    SignOnRequest(r) \/ ReadKey(r) \/ WriteKey(r) \/ Authenticate(r) \/ Sign(r)

-----------------------------------------------------------------------------

\* Instances that start together with no key stored each make one.  But for
\* that race, across failures and restarts, all instances have the key that
\* is stored, and every assertion signed so far verifies with it.
KeysAgree ==
    raced \/
    /\ \A a \in Instances : key[a] \in {Nothing, stored}
    /\ \A r \in Requests :
           (at[r] = "done" /\ op[r].does = "signOn") => seen[r] = stored
=============================================================================
