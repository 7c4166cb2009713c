-------------------------- MODULE Identity_proofs --------------------------
EXTENDS Identity, SequenceTheorems, TLAPS
(***************************************************************************)
(* What the proofs of the four parts share.  A request is at a call of its *)
(* own operation only, and a step moves one request: that is what lets     *)
(* each part be looked at alone.                                           *)
(***************************************************************************)

\* The calls of each kind of operation.
StartupCalls == {"postgres", "table", "check", "run", "record", "redis"}
KeyCalls     == {"readKey", "writeKey"}
SignCalls    == {"authenticate", "sign"}
BearerCalls  == {"token", "entity", "tokenAgain", "entityAgain", "revoke"}
DropCalls    == {"dropLogin", "dropEntity"}
UpdateCalls  == {"saveMetadata", "setStatus", "listGroups", "listGroup", "readGroup",
                 "writeGroup"}
ReplaceCalls == {"replaceEntity", "refetch"}
CreateCalls  == {"putLogin", "saveEntity", "link"}
GroupCalls   == {"saveGroup", "renameGroup", "dropGroup", "setMembers", "refetchGroup"}

\* Request r, at call c of an operation d.
AtItsCall(c, d) ==
    /\ c \in StartupCalls => d = "startReplica"
    /\ c \in KeyCalls => d = "startInstance"
    /\ c \in SignCalls => d \in {"signOn", "samlLogin"}
    /\ c = "login" => d = "login"
    /\ c \in BearerCalls => d \in BearerOps
    /\ c = "find" => d \in DOMAIN AfterFind
    /\ c \in DropCalls => d \in Deletions
    /\ c \in UpdateCalls => d = "updateUser"
    /\ c \in ReplaceCalls => d = "scimUpdateUser"
    /\ c \in CreateCalls => d \in {"createUser", "scimCreateUser"}
    /\ c = "findGroup" => d \in DOMAIN AfterFindGroup
    /\ c \in GroupCalls => d \in DOMAIN GroupOps

\* The same for a call that a step leads to.
Reaches(c, d) == c # "idle" /\ AtItsCall(c, d)

RequestsInv ==
    /\ workload \in Workloads
    /\ DOMAIN op = Requests /\ DOMAIN at = Requests /\ DOMAIN seen = Requests
    /\ DOMAIN token = Requests
    /\ \A r \in Requests : AtItsCall(at[r], op[r].does)

\* A step of r: every other request stays where it is.
Alone(r) ==
    /\ workload' = workload
    /\ DOMAIN op' = Requests /\ DOMAIN at' = Requests /\ DOMAIN seen' = Requests
    /\ \A s \in Requests \ {r} : op'[s] = op[s] /\ at'[s] = at[s] /\ seen'[s] = seen[s]

\* It goes on with its operation, or begins one.
GoesOn(r) == op'[r] = op[r]
Begins(r) == at[r] = "idle" /\ \E o \in workload : op'[r].does = o.does

Proper(r) == Alone(r) /\ Reaches(at'[r], op'[r].does) /\ (GoesOn(r) \/ Begins(r))

LEMMA BeginAlone ==
    ASSUME RequestsInv, NEW r \in Requests, NEW o, NEW first,
           Begin(r, o, first), seen' = seen
    PROVE  Alone(r) /\ op'[r] = o /\ at'[r] = first /\ at[r] = "idle"
BY DEF Begin, RequestsInv, Alone

LEMMA ProceedAlone ==
    ASSUME RequestsInv, NEW r \in Requests, NEW next,
           Proceed(r, next) \/ Fail(r, next),
           seen' = seen \/ \E what : Remember(r, what)
    PROVE  Alone(r) /\ op'[r] = op[r] /\ op' = op /\ at'[r] = next
BY DEF Proceed, Fail, Remember, RequestsInv, Alone

LEMMA AnyEnds == ASSUME NEW d PROVE Reaches("done", d) /\ Reaches("refused", d)
BY DEF Reaches, AtItsCall, StartupCalls, KeyCalls, SignCalls, BearerCalls, DropCalls,
       UpdateCalls, ReplaceCalls, CreateCalls, GroupCalls

LEMMA CallProper ==
    ASSUME RequestsInv, NEW r \in Requests, NEW next,
           Proceed(r, next) \/ Fail(r, next),
           seen' = seen \/ \E what : Remember(r, what),
           Reaches(next, op[r].does)
    PROVE  Proper(r)
BY ProceedAlone DEF Proper, GoesOn

LEMMA AccountsAlone ==
    ASSUME RequestsInv, NEW r \in Requests, AccountHandlers(r)
    PROVE  Proper(r)
<1>0. AtItsCall(at[r], op[r].does)
  BY DEF RequestsInv
<1>c. ASSUME NEW effect, NEW next, NEW other, Call(r, effect, next, other),
             seen' = seen \/ \E what : Remember(r, what),
             Reaches(next, op[r].does), Reaches(other, op[r].does)
      PROVE  Proper(r)
  BY CallProper, <1>c DEF Call
<1> USE DEF Reaches, AtItsCall, StartupCalls, KeyCalls, SignCalls, BearerCalls, DropCalls,
            UpdateCalls, ReplaceCalls, CreateCalls, GroupCalls
<1>1. ASSUME AccountRequest(r) PROVE Proper(r)
  <2>1. ASSUME NEW o \in workload, o.does \in DOMAIN UserOps, Begin(r, o, UserOps[o.does]),
               seen' = seen
        PROVE  Proper(r)
    <3>1. Alone(r) /\ op'[r] = o /\ at'[r] = UserOps[o.does] /\ at[r] = "idle"
      BY <2>1, BeginAlone
    <3>2. Reaches(UserOps[o.does], o.does)
      BY <2>1 DEF UserOps, AfterFind
    <3> QED  BY <2>1, <3>1, <3>2 DEF Proper, Begins
  <2>2. ASSUME NEW o \in workload, o.does \in DOMAIN GroupOps, Begin(r, o, GroupOps[o.does]),
               seen' = seen
        PROVE  Proper(r)
    <3>1. Alone(r) /\ op'[r] = o /\ at'[r] = GroupOps[o.does] /\ at[r] = "idle"
      BY <2>2, BeginAlone
    <3>2. Reaches(GroupOps[o.does], o.does)
      BY <2>2 DEF GroupOps, AfterFindGroup
    <3> QED  BY <2>2, <3>1, <3>2 DEF Proper, Begins
  <2> QED  BY <1>1, <2>1, <2>2 DEF AccountRequest
<1>2. ASSUME CreateLogin(r) PROVE Proper(r)
  <2>1. Reaches("saveEntity", op[r].does)
    BY <1>0, <1>2 DEF CreateLogin
  <2> QED  BY <1>2, <2>1, <1>c, AnyEnds DEF CreateLogin
<1>3. ASSUME CreateEntity(r) PROVE Proper(r)
  <2>1. Reaches("link", op[r].does) /\ Reaches("putLogin", op[r].does)
    BY <1>0, <1>3 DEF CreateEntity
  <2>2. PICK next : next \in {"link", "putLogin", "done", "refused"} /\ 
            \E effect : Call(r, effect, next, "refused")
    BY <1>3 DEF CreateEntity
  <2> QED  BY <1>3, <2>1, <2>2, <1>c, AnyEnds DEF CreateEntity
<1>4. ASSUME LinkLogin(r) PROVE Proper(r)
  BY <1>4, <1>c, AnyEnds DEF LinkLogin
<1>5. ASSUME FindUser(r) PROVE Proper(r)
  <2>1. Reaches(AfterFind[op[r].does], op[r].does)
    BY <1>0, <1>5 DEF FindUser, AfterFind, Deletions
  <2> QED  BY <1>5, <2>1, CallProper, AnyEnds DEF FindUser
<1>6. ASSUME SaveMetadata(r) PROVE Proper(r)
  <2>1. Reaches(AfterMetadata(r), op[r].does)
    BY <1>0, <1>6 DEF SaveMetadata, AfterMetadata
  <2> QED  BY <1>6, <2>1, CallProper, <1>c, AnyEnds DEF SaveMetadata
<1>7. ASSUME SetStatus(r) PROVE Proper(r)
  <2>1. Reaches("listGroups", op[r].does)
    BY <1>0, <1>7 DEF SetStatus
  <2> QED  BY <1>7, <2>1, <1>c, AnyEnds DEF SetStatus
<1>8. ASSUME at[r] \in UpdateCalls, NEW todo PROVE Reaches(NextGroup(todo), op[r].does)
  BY <1>0, <1>8 DEF NextGroup
<1>9. ASSUME ListGroups(r) PROVE Proper(r)
  <2>1. Reaches("listGroup", op[r].does)
    BY <1>0, <1>9 DEF ListGroups
  <2> QED  BY <1>9, <2>1, CallProper, AnyEnds DEF ListGroups
<1>22. ASSUME ListGroup(r) PROVE Proper(r)
  <2>1. at[r] \in UpdateCalls /\ Reaches("listGroup", op[r].does)
    BY <1>0, <1>22 DEF ListGroup
  <2>2. PICK next, what : /\ Proceed(r, next) \/ Fail(r, next)
                          /\ Remember(r, what)
                          /\ next = "listGroup" \/ \E todo : next = NextGroup(todo)
    BY <1>22 DEF ListGroup
  <2> QED  BY <1>8, <2>1, <2>2, CallProper
<1>10. ASSUME ReadGroup(r) PROVE Proper(r)
  <2>1. at[r] \in UpdateCalls /\ Reaches("writeGroup", op[r].does)
    BY <1>0, <1>10 DEF ReadGroup
  <2> QED  BY <1>8, <1>10, <2>1, CallProper, AnyEnds DEF ReadGroup
<1>11. ASSUME WriteGroup(r) PROVE Proper(r)
  <2>1. at[r] \in UpdateCalls
    BY <1>11 DEF WriteGroup
  <2> QED  BY <1>8, <1>11, <2>1, CallProper, <1>c DEF WriteGroup
<1>12. ASSUME DeleteLogin(r) PROVE Proper(r)
  <2>1. Reaches("dropEntity", op[r].does)
    BY <1>0, <1>12 DEF DeleteLogin
  <2> QED  BY <1>12, <2>1, <1>c, AnyEnds DEF DeleteLogin
<1>13. ASSUME DeleteEntity(r) PROVE Proper(r)
  BY <1>13, <1>c, AnyEnds DEF DeleteEntity
<1>14. ASSUME ReplaceEntity(r) PROVE Proper(r)
  <2>1. Reaches("refetch", op[r].does)
    BY <1>0, <1>14 DEF ReplaceEntity
  <2> QED  BY <1>14, <2>1, <1>c, AnyEnds DEF ReplaceEntity
<1>15. ASSUME Refetch(r) PROVE Proper(r)
  BY <1>15, CallProper, AnyEnds DEF Refetch
<1>16. ASSUME SaveNewGroup(r) PROVE Proper(r)
  <2>1. Reaches("refetchGroup", op[r].does)
    BY <1>0, <1>16 DEF SaveNewGroup
  <2>2. PICK next \in {"refetchGroup", "done", "refused"} : Proceed(r, next) \/ Fail(r, next)
    BY <1>16 DEF SaveNewGroup, Call
  <2>3. seen' = seen
    BY <1>16 DEF SaveNewGroup
  <2> QED  BY <2>1, <2>2, <2>3, CallProper, AnyEnds
<1>17. ASSUME FindGroup(r) PROVE Proper(r)
  <2>1. Reaches(AfterFindGroup[op[r].does], op[r].does)
    BY <1>0, <1>17 DEF FindGroup, AfterFindGroup, GroupOps
  <2> QED  BY <1>17, <2>1, CallProper, AnyEnds DEF FindGroup
<1>18. ASSUME RenameGroup(r) PROVE Proper(r)
  <2>1. Reaches("refetchGroup", op[r].does)
    BY <1>0, <1>18 DEF RenameGroup
  <2> QED  BY <1>18, <2>1, CallProper, <1>c, AnyEnds DEF RenameGroup
<1>19. ASSUME DropGroup(r) PROVE Proper(r)
  BY <1>19, <1>c, AnyEnds DEF DropGroup
<1>20. ASSUME SetGroupUsers(r) PROVE Proper(r)
  <2>1. Reaches("refetchGroup", op[r].does)
    BY <1>0, <1>20 DEF SetGroupUsers
  <2> QED  BY <1>20, <2>1, CallProper, <1>c, AnyEnds DEF SetGroupUsers
<1>21. ASSUME RefetchGroup(r) PROVE Proper(r)
  BY <1>21, CallProper, AnyEnds DEF RefetchGroup
<1> QED
  BY <1>1, <1>2, <1>3, <1>4, <1>5, <1>6, <1>7, <1>9, <1>10, <1>11, <1>12, <1>13, <1>14,
     <1>15, <1>16, <1>17, <1>18, <1>19, <1>20, <1>21, <1>22 DEF AccountHandlers

LEMMA SessionsAlone ==
    ASSUME RequestsInv, NEW r \in Requests, SessionHandlers(r)
    PROVE  Proper(r) \/ TokenEnds(r)
<1>0. AtItsCall(at[r], op[r].does)
  BY DEF RequestsInv
<1>e. ASSUME NEW d \in BearerOps, NEW c \in BearerCalls PROVE Reaches(c, d)
  BY DEF Reaches, AtItsCall, StartupCalls, KeyCalls, SignCalls, BearerCalls, DropCalls,
         UpdateCalls, ReplaceCalls, CreateCalls, GroupCalls
<1>f. ASSUME at[r] \in BearerCalls PROVE op[r].does \in BearerOps
  BY <1>0, <1>f DEF AtItsCall
<1>1. ASSUME SessionRequest(r) PROVE Proper(r)
  <2>1. ASSUME NEW o \in workload, o.does = "login", Begin(r, o, "login"), seen' = seen
        PROVE  Proper(r)
    <3>1. Reaches("login", "login")
      BY DEF Reaches, AtItsCall, StartupCalls, KeyCalls, SignCalls, BearerCalls, DropCalls,
         UpdateCalls, ReplaceCalls, CreateCalls, GroupCalls
    <3> QED  BY <2>1, <3>1, BeginAlone DEF Proper, Begins
  <2>2. ASSUME NEW o \in workload, o.does \in BearerOps, NEW item,
               Begin(r, [o EXCEPT !.item = item], "token"), seen' = seen
        PROVE  Proper(r)
    <3>1. [o EXCEPT !.item = item].does = o.does
      BY OperationAssumption DEF RequestsInv
    <3>2. Reaches("token", o.does)
      BY <2>2, <1>e DEF BearerCalls
    <3> QED  BY <2>2, <3>1, <3>2, BeginAlone DEF Proper, Begins
  <2> QED  BY <1>1, <2>1, <2>2 DEF SessionRequest
<1>2. ASSUME Login(r) PROVE Proper(r)
  BY <1>2, CallProper, AnyEnds DEF Login
<1>3. ASSUME LookUpToken(r) PROVE Proper(r)
  <2>1. op[r].does \in BearerOps
    BY <1>3, <1>f DEF LookUpToken, BearerCalls
  <2>2. Reaches("entity", op[r].does) /\ Reaches("entityAgain", op[r].does)
    BY <2>1, <1>e DEF BearerCalls
  <2> QED  BY <1>3, <2>2, CallProper, AnyEnds DEF LookUpToken
<1>4. ASSUME LookUpEntity(r) PROVE Proper(r)
  <2>1. op[r].does \in BearerOps
    BY <1>4, <1>f DEF LookUpEntity, BearerCalls
  <2>2. Admitted[op[r].does] \in BearerCalls \cup {"done"}
    BY <2>1 DEF Admitted, BearerCalls, BearerOps
  <2>3. Reaches(Admitted[op[r].does], op[r].does)
    BY <2>1, <2>2, AnyEnds, <1>e
  <2> QED  BY <1>4, <2>3, CallProper, AnyEnds DEF LookUpEntity
<1>5. ASSUME Logout(r) PROVE Proper(r)
  BY <1>5, CallProper, AnyEnds DEF Logout
<1> QED
  BY <1>1, <1>2, <1>3, <1>4, <1>5 DEF SessionHandlers

LEMMA SignOnAlone ==
    ASSUME RequestsInv, NEW r \in Requests, SignOnHandlers(r)
    PROVE  Proper(r)
<1>0. AtItsCall(at[r], op[r].does)
  BY DEF RequestsInv
<1> USE DEF Reaches, AtItsCall, StartupCalls, KeyCalls, SignCalls, BearerCalls, DropCalls,
            UpdateCalls, ReplaceCalls, CreateCalls, GroupCalls
<1>1. ASSUME SignOnRequest(r) PROVE Proper(r)
  <2>1. ASSUME NEW o \in workload, NEW a, NEW first,
               \/ o.does = "startInstance" /\ first = "readKey"
               \/ o.does \in {"signOn", "samlLogin"} /\ first = "authenticate",
               Begin(r, [o EXCEPT !.item = a], first), seen' = seen
        PROVE  Proper(r)
    <3>1. [o EXCEPT !.item = a].does = o.does
      BY OperationAssumption DEF RequestsInv
    <3>2. Reaches(first, o.does)
      BY <2>1
    <3> QED  BY <2>1, <3>1, <3>2, BeginAlone DEF Proper, Begins
  <2> QED  BY <1>1, <2>1 DEF SignOnRequest
<1>2. ASSUME ReadKey(r) PROVE Proper(r)
  <2>1. Reaches("writeKey", op[r].does)
    BY <1>0, <1>2 DEF ReadKey
  <2> QED  BY <1>2, <2>1, CallProper, AnyEnds DEF ReadKey
<1>3. ASSUME WriteKey(r) PROVE Proper(r)
  BY <1>3, CallProper, AnyEnds DEF WriteKey
<1>4. ASSUME Authenticate(r) PROVE Proper(r)
  <2>1. Reaches("sign", op[r].does)
    BY <1>0, <1>4 DEF Authenticate
  <2> QED  BY <1>4, <2>1, CallProper, AnyEnds DEF Authenticate, signOnVars
<1>5. ASSUME Sign(r) PROVE Proper(r)
  <2>1. ASSUME NEW k PROVE Reaches(Answer(r, k), op[r].does)
    BY AnyEnds DEF Answer
  <2> QED  BY <1>5, <2>1, CallProper DEF Sign
<1> QED
  BY <1>1, <1>2, <1>3, <1>4, <1>5 DEF SignOnHandlers

LEMMA StartupAlone ==
    ASSUME RequestsInv, NEW r \in Requests, StartupHandlers(r)
    PROVE  Proper(r)
<1>0. AtItsCall(at[r], op[r].does)
  BY DEF RequestsInv
<1>e. ASSUME NEW c \in StartupCalls PROVE Reaches(c, "startReplica")
  BY DEF Reaches, AtItsCall, StartupCalls, KeyCalls, SignCalls, BearerCalls, DropCalls,
         UpdateCalls, ReplaceCalls, CreateCalls, GroupCalls
<1>f. ASSUME at[r] \in StartupCalls, NEW next \in StartupCalls
      PROVE  Reaches(next, op[r].does)
  BY <1>0, <1>e, <1>f DEF AtItsCall
<1> USE DEF StartupCalls
<1>1. ASSUME StartRequest(r) PROVE Proper(r)
  <2>1. ASSUME NEW o \in workload, NEW a, o.does = "startReplica",
               Begin(r, [o EXCEPT !.item = a], "postgres"), seen' = seen
        PROVE  Proper(r)
    <3>1. [o EXCEPT !.item = a].does = o.does
      BY OperationAssumption DEF RequestsInv
    <3> QED  BY <2>1, <3>1, <1>e, BeginAlone DEF Proper, Begins
  <2> QED  BY <1>1, <2>1 DEF StartRequest
<1>2. ASSUME InitPostgres(r) PROVE Proper(r)
  BY <1>2, CallProper, AnyEnds, <1>f DEF InitPostgres
<1>3. ASSUME NEW i PROVE AfterMigration(i) \in StartupCalls
  BY DEF AfterMigration
<1>4. ASSUME CheckMigration(r) PROVE Proper(r)
  <2>1. at[r] \in StartupCalls
    BY <1>4 DEF CheckMigration
  <2>2. Reaches(AfterMigration(seen[r]), op[r].does) /\ Reaches("run", op[r].does)
    BY <2>1, <1>f, <1>3
  <2> QED  BY <1>4, <2>2, CallProper, AnyEnds DEF CheckMigration
<1>5. ASSUME RunMigration(r) PROVE Proper(r)
  BY <1>5, CallProper, AnyEnds, <1>f DEF RunMigration
<1>6. ASSUME RecordMigration(r) PROVE Proper(r)
  <2>1. at[r] \in StartupCalls
    BY <1>6 DEF RecordMigration
  <2>2. Reaches(AfterMigration(seen[r]), op[r].does)
    BY <2>1, <1>f, <1>3
  <2> QED  BY <1>6, <2>2, CallProper, AnyEnds DEF RecordMigration
<1>7. ASSUME Serve(r) PROVE Proper(r)
  BY <1>7, CallProper, AnyEnds DEF Serve
<1> QED
  BY <1>1, <1>2, <1>4, <1>5, <1>6, <1>7 DEF StartupHandlers

\* The step that r makes, by part.
StepOf(r) ==
    \/ AccountHandlers(r) /\ UNCHANGED <<token, signOnVars, startupVars>>
    \/ SessionHandlers(r) /\ UNCHANGED <<signOnVars, startupVars>>
    \/ SignOnHandlers(r) /\ UNCHANGED startupVars
    \/ StartupHandlers(r) /\ UNCHANGED <<directory, token, signOnVars>>

LEMMA StepAlone ==
    ASSUME RequestsInv, NEW r \in Requests, StepOf(r)
    PROVE  Proper(r) \/ TokenEnds(r)
BY AccountsAlone, SessionsAlone, SignOnAlone, StartupAlone DEF StepOf

LEMMA TokenDomain ==
    ASSUME RequestsInv, NEW r \in Requests, StepOf(r)
    PROVE  DOMAIN token' = Requests
<1>0. DOMAIN token = Requests
  BY DEF RequestsInv
<1>1. CASE AccountHandlers(r) /\ UNCHANGED <<token, signOnVars, startupVars>>
  BY <1>0, <1>1
<1>2. CASE SessionHandlers(r)
  BY <1>0, <1>2 DEF SessionHandlers, SessionRequest, Login, LookUpToken, LookUpEntity, Logout, TokenEnds
<1>3. CASE SignOnHandlers(r)
  BY <1>0, <1>3 DEF SignOnHandlers, SignOnRequest, ReadKey, WriteKey, Authenticate, Sign
<1>4. CASE StartupHandlers(r) /\ UNCHANGED <<directory, token, signOnVars>>
  BY <1>0, <1>4
<1> QED  BY <1>1, <1>2, <1>3, <1>4 DEF StepOf

LEMMA RequestsHold == IdentitySpec => []RequestsInv
<1>1. IdentityInit => RequestsInv
  BY DEF IdentityInit, RequestsInit, SessionsInit, RequestsInv, AtItsCall, StartupCalls,
         KeyCalls, SignCalls, BearerCalls, DropCalls, UpdateCalls, ReplaceCalls,
         CreateCalls, GroupCalls
<1>2. RequestsInv /\ [IdentityNext]_identityVars => RequestsInv'
  <2>1. ASSUME RequestsInv, NEW r \in Requests, StepOf(r) PROVE RequestsInv'
    <3>1. DOMAIN token' = Requests
      BY <2>1, TokenDomain
    <3>2. CASE TokenEnds(r)
      BY <2>1, <3>1, <3>2 DEF TokenEnds, requestVars, RequestsInv
    <3>3. CASE Proper(r)
      BY <2>1, <3>1, <3>3 DEF Proper, Reaches, Alone, RequestsInv
    <3> QED  BY <2>1, <3>2, <3>3, StepAlone
  <2>2. ASSUME RequestsInv, UNCHANGED identityVars PROVE RequestsInv'
    BY <2>2 DEF identityVars, requestVars, RequestsInv
  <2> QED  BY <2>1, <2>2 DEF IdentityNext, StepOf
<1> QED  BY <1>1, <1>2, PTL DEF IdentitySpec

AccountOps == DOMAIN UserOps \cup DOMAIN GroupOps
SessionOps == BearerOps \cup {"login"}
SignOnOps  == {"startInstance", "signOn", "samlLogin"}

LEMMA AccountKind ==
    ASSUME RequestsInv, NEW r \in Requests, AccountHandlers(r)
    PROVE  op'[r].does \in AccountOps
<1>1. CASE AccountRequest(r)
  <2>1. PICK o \in workload : o.does \in AccountOps /\ \E first : Begin(r, o, first)
    BY <1>1 DEF AccountRequest, AccountOps
  <2> QED  BY <2>1, <1>1, BeginAlone DEF AccountRequest
<1>2. CASE ~AccountRequest(r)
  <2>1. at[r] \in DropCalls \cup UpdateCalls \cup ReplaceCalls \cup CreateCalls \cup GroupCalls
                 \cup {"find", "findGroup"}
    BY <1>2 DEF AccountHandlers, DropCalls, UpdateCalls, ReplaceCalls, CreateCalls, GroupCalls,
       CreateLogin, CreateEntity, LinkLogin, FindUser, SaveMetadata, SetStatus, ListGroups, ListGroup,
       ReadGroup, WriteGroup, DeleteLogin, DeleteEntity, ReplaceEntity, Refetch, SaveNewGroup,
       FindGroup, RenameGroup, DropGroup, SetGroupUsers, RefetchGroup
  <2>2. op[r].does \in AccountOps
    BY <2>1 DEF RequestsInv, AtItsCall, AccountOps, UserOps, GroupOps, AfterFind,
       AfterFindGroup, Deletions
  <2>3. at[r] # "idle"
    BY <2>1 DEF DropCalls, UpdateCalls, ReplaceCalls, CreateCalls, GroupCalls
  <2> QED  BY <2>2, <2>3, AccountsAlone DEF Proper, GoesOn, Begins
<1> QED  BY <1>1, <1>2

LEMMA SessionKind ==
    ASSUME RequestsInv, NEW r \in Requests, SessionHandlers(r)
    PROVE  op'[r].does \in SessionOps \/ TokenEnds(r)
<1>1. CASE SessionRequest(r)
  <2>1. PICK o, o2, first :
            o \in workload /\ o.does \in SessionOps /\ o2 \in {o, [o EXCEPT !.item = o2.item]} /\ Begin(r, o2, first)
    <3>1. ASSUME NEW o \in workload, NEW a PROVE [o EXCEPT !.item = a].item = a
      BY OperationAssumption DEF RequestsInv
    <3> QED  BY <1>1, <3>1 DEF SessionRequest, SessionOps
  <2>2. o2.does = o.does
    BY <2>1, OperationAssumption DEF RequestsInv
  <2> QED  BY <2>1, <2>2, <1>1, BeginAlone DEF SessionRequest
<1>2. CASE ~SessionRequest(r) /\ ~TokenEnds(r)
  <2>1. at[r] \in BearerCalls \cup {"login"}
    BY <1>2 DEF SessionHandlers, BearerCalls, Login, LookUpToken, LookUpEntity, Logout
  <2>2. op[r].does \in SessionOps
    BY <2>1 DEF RequestsInv, AtItsCall, SessionOps
  <2>3. at[r] # "idle"
    BY <2>1 DEF BearerCalls
  <2> QED  BY <2>2, <2>3, SessionsAlone DEF Proper, GoesOn, Begins
<1> QED  BY <1>1, <1>2

LEMMA SignOnKind ==
    ASSUME RequestsInv, NEW r \in Requests, SignOnHandlers(r)
    PROVE  op'[r].does \in SignOnOps
<1>1. CASE SignOnRequest(r)
  <2>1. ASSUME NEW o \in workload, NEW a, NEW first,
               o.does \in SignOnOps, Begin(r, [o EXCEPT !.item = a], first), seen' = seen
        PROVE  op'[r].does \in SignOnOps
    <3>1. [o EXCEPT !.item = a].does = o.does
      BY OperationAssumption DEF RequestsInv
    <3> QED  BY <2>1, <3>1, BeginAlone
  <2> QED  BY <1>1, <2>1 DEF SignOnRequest, SignOnOps
<1>2. CASE ~SignOnRequest(r)
  <2>1. at[r] \in KeyCalls \cup SignCalls
    BY <1>2 DEF SignOnHandlers, KeyCalls, SignCalls, ReadKey, WriteKey, Authenticate, Sign
  <2>2. op[r].does \in SignOnOps
    BY <2>1 DEF RequestsInv, AtItsCall, SignOnOps
  <2>3. at[r] # "idle"
    BY <2>1 DEF KeyCalls, SignCalls
  <2> QED  BY <2>2, <2>3, SignOnAlone DEF Proper, GoesOn, Begins
<1> QED  BY <1>1, <1>2

LEMMA StartupKind ==
    ASSUME RequestsInv, NEW r \in Requests, StartupHandlers(r)
    PROVE  op'[r].does = "startReplica"
<1>1. CASE StartRequest(r)
  <2>1. PICK o \in workload : o.does = "startReplica"
                /\ \E a, first : Begin(r, [o EXCEPT !.item = a], first)
    BY <1>1 DEF StartRequest
  <2>2. \A a : [o EXCEPT !.item = a].does = o.does
    BY OperationAssumption DEF RequestsInv
  <2>3. PICK o2, first : Begin(r, o2, first) /\ o2.does = o.does
    BY <2>1, <2>2
  <2> QED  BY <2>1, <2>3, <1>1, BeginAlone DEF StartRequest
<1>2. CASE ~StartRequest(r)
  <2>1. at[r] \in StartupCalls
    BY <1>2 DEF StartupHandlers, StartupCalls, InitPostgres, CheckMigration, RunMigration,
       RecordMigration, Serve
  <2>2. op[r].does = "startReplica"
    BY <2>1 DEF RequestsInv, AtItsCall
  <2>3. at[r] # "idle"
    BY <2>1 DEF StartupCalls
  <2> QED  BY <2>2, <2>3, StartupAlone DEF Proper, GoesOn, Begins
<1> QED  BY <1>1, <1>2

-----------------------------------------------------------------------------
(* The migrations.                                                         *)

\* With k migrations recorded: where each start stands.
Behind(k) ==
    /\ recorded = 1 .. k
    /\ applied \in {1 .. k, 1 .. (k + 1)}
    /\ serving # {} => k = Last
    /\ \A r \in Requests :
           /\ at[r] \in {"check", "run", "record"} => seen[r] \in 1 .. Last /\ seen[r] <= k + 1
           /\ at[r] = "record" => seen[r] \in applied
           /\ at[r] = "redis" => k = Last

SchemaInv == \E k \in 0 .. Last : Behind(k)

\* Any step that leaves the schema alone and brings r to none of the calls.
LEMMA SchemaUntouched ==
    ASSUME SchemaInv, NEW r \in Requests, Alone(r), UNCHANGED <<applied, recorded, serving>>,
           at'[r] \notin {"check", "run", "record", "redis"}
    PROVE  SchemaInv'
<1>1. PICK k \in 0 .. Last : Behind(k)
  BY DEF SchemaInv
<1>2. Behind(k)'
  BY <1>1 DEF Behind, Alone
<1> QED  BY <1>2 DEF SchemaInv

LEMMA SchemaStep ==
    ASSUME SchemaInv, RequestsInv, NEW r \in Requests, StartupHandlers(r)
    PROVE  SchemaInv'
<1>0. Alone(r)
  BY StartupAlone DEF Proper
<1>k. PICK k \in 0 .. Last : Behind(k)
  BY DEF SchemaInv
<1>l. Last \in Nat \ {0} /\ k \in Nat /\ k <= Last
  BY StartupAssumption
\* It is enough to say where r stands.
<1>a. ASSUME NEW next, Proceed(r, next) \/ Fail(r, next),
             seen' = seen \/ \E what : Remember(r, what)
      PROVE  at'[r] = next
  BY <1>a, ProceedAlone
<1>1. CASE StartRequest(r)
  <2>1. at'[r] = "postgres"
    BY <1>1, BeginAlone DEF StartRequest
  <2>2. Behind(k)'
    BY <1>0, <1>1, <1>k, <2>1 DEF Behind, Alone, StartRequest
  <2> QED  BY <2>2 DEF SchemaInv
<1>2. CASE InitPostgres(r)
  <2>1. at'[r] \in {"table", "check", "refused"}
    BY <1>2, <1>a DEF InitPostgres
  <2>2. seen'[r] = 1
    BY <1>2 DEF InitPostgres, Remember, RequestsInv
  <2>3. UNCHANGED <<applied, recorded, serving>>
    BY <1>2 DEF InitPostgres, startupVars
  <2>4. Behind(k)'
    BY <1>0, <1>k, <1>l, <2>1, <2>2, <2>3 DEF Behind, Alone
  <2> QED  BY <2>4 DEF SchemaInv
<1>3. CASE CheckMigration(r)
  <2>1. UNCHANGED <<applied, recorded, serving>>
    BY <1>3 DEF CheckMigration, startupVars
  <2>2. seen[r] \in 1 .. Last /\ seen[r] <= k + 1
    BY <1>3, <1>k DEF CheckMigration, Behind
  <2>3. \/ seen[r] \in 1 .. k /\ seen'[r] = seen[r] + 1 /\ at'[r] = AfterMigration(seen[r])
        \/ seen'[r] = seen[r] /\ at'[r] \in {"run", "refused"}
    BY <1>3, <1>a, <1>k DEF CheckMigration, Behind, Remember, RequestsInv
  <2>4. Behind(k)'
    BY <1>0, <1>k, <1>l, <2>1, <2>2, <2>3 DEF Behind, Alone, AfterMigration
  <2> QED  BY <2>4 DEF SchemaInv
<1>4. CASE RunMigration(r)
  <2>1. UNCHANGED <<recorded, serving, seen>>
    BY <1>4 DEF RunMigration
  <2>2. seen[r] \in 1 .. Last /\ seen[r] <= k + 1
    BY <1>4, <1>k DEF RunMigration, Behind
  <2>3. \/ at'[r] = "record" /\ applied' = applied \cup {seen[r]}
        \/ at'[r] = "refused" /\ applied' \in {applied, applied \cup {seen[r]}}
    BY <1>4, <1>a DEF RunMigration, Apply
  <2>4. applied \cup {seen[r]} \in {1 .. k, 1 .. (k + 1)}
    <3>1. CASE seen[r] = k + 1
      <4>1. (1 .. k) \cup {k + 1} = 1 .. (k + 1) /\ (1 .. (k + 1)) \cup {k + 1} = 1 .. (k + 1)
        BY <1>l
      <4> QED  BY <1>k, <3>1, <4>1 DEF Behind
    <3>2. CASE seen[r] <= k
      <4>1. seen[r] \in 1 .. k /\ seen[r] \in 1 .. (k + 1)
        BY <1>l, <2>2, <3>2
      <4> QED  BY <1>k, <4>1 DEF Behind
    <3> QED  BY <1>l, <2>2, <3>1, <3>2
  <2>5. \A s \in Requests \ {r} : at[s] = "record" => seen[s] \in applied'
    BY <1>k, <2>3 DEF Behind
  <2>6. Behind(k)'
    BY <1>0, <1>k, <1>l, <2>1, <2>2, <2>3, <2>4, <2>5 DEF Behind, Alone
  <2> QED  BY <2>6 DEF SchemaInv
<1>5. CASE RecordMigration(r)
  <2>1. UNCHANGED <<applied, serving>> /\ at[r] = "record"
    BY <1>5 DEF RecordMigration
  <2>2. seen[r] \in 1 .. Last /\ seen[r] <= k + 1 /\ seen[r] \in applied
    BY <2>1, <1>k DEF Behind
  <2>3. \/ /\ recorded' = recorded \cup {seen[r]} /\ seen'[r] = seen[r] + 1
           /\ at'[r] = AfterMigration(seen[r]) /\ seen[r] \notin recorded
        \/ recorded' \in {recorded, recorded \cup {seen[r]}} /\ at'[r] = "refused"
    BY <1>5, <1>a DEF RecordMigration, Remember, RequestsInv
  <2>4. CASE recorded' = recorded
    <3>1. at'[r] = "refused"
      BY <1>k, <2>2, <2>3, <2>4
    <3>2. Behind(k)'
      BY <1>0, <1>k, <2>1, <2>4, <3>1 DEF Behind, Alone
    <3> QED  BY <3>2 DEF SchemaInv
  <2>5. CASE recorded' # recorded
    <3>1. recorded' = recorded \cup {seen[r]} /\ seen[r] = k + 1 /\ k + 1 \in 0 .. Last
      <4>1. recorded' = recorded \cup {seen[r]} /\ seen[r] \notin recorded
        BY <2>3, <2>5
      <4> QED  BY <1>k, <1>l, <2>2, <4>1 DEF Behind
    <3>2. recorded' = 1 .. (k + 1)
      BY <1>k, <1>l, <3>1 DEF Behind
    <3>3. applied' = 1 .. (k + 1)
      BY <1>k, <1>l, <2>1, <2>2, <3>1 DEF Behind
    <3>4. serving' = {}
      BY <1>k, <1>l, <2>1, <3>1 DEF Behind
    <3>5. ASSUME NEW s \in Requests
          PROVE  /\ at'[s] \in {"check", "run", "record"} => seen'[s] \in 1 .. Last /\ seen'[s] <= k + 2
                 /\ at'[s] = "record" => seen'[s] \in applied'
                 /\ at'[s] = "redis" => k + 1 = Last
      <4>1. CASE s = r
        BY <1>l, <2>3, <3>1, <4>1 DEF AfterMigration
      <4>2. CASE s # r
        BY <1>0, <1>k, <1>l, <2>1, <3>1, <4>2 DEF Behind, Alone
      <4> QED  BY <4>1, <4>2
    <3>6. PICK m \in 0 .. Last : m = k + 1
      BY <3>1
    <3>7. Behind(m)'
      BY <1>l, <3>2, <3>3, <3>4, <3>5, <3>6 DEF Behind
    <3> QED  BY <3>7 DEF SchemaInv
  <2> QED  BY <2>4, <2>5
<1>6. CASE Serve(r)
  <2>1. UNCHANGED <<applied, recorded, seen>> /\ at'[r] \in {"done", "refused"} /\ at[r] = "redis"
    BY <1>6, <1>a DEF Serve
  <2>2. k = Last
    BY <1>k, <2>1 DEF Behind
  <2>3. Behind(k)'
    BY <1>0, <1>k, <2>1, <2>2 DEF Behind, Alone
  <2> QED  BY <2>3 DEF SchemaInv
<1> QED
  BY <1>1, <1>2, <1>3, <1>4, <1>5, <1>6 DEF StartupHandlers

\* Across crashes and races the record of the migrations is a prefix, one
\* behind the schema at most, and a replica serves a complete schema only.
THEOREM MigrationsInOrder == IdentitySpec => []SchemaInOrder
<1>1. IdentityInit => SchemaInv
  BY StartupAssumption DEF IdentityInit, RequestsInit, StartupInit, SchemaInv, Behind
<1>2. RequestsInv /\ SchemaInv /\ [IdentityNext]_identityVars => SchemaInv'
  <2> SUFFICES ASSUME RequestsInv, SchemaInv, [IdentityNext]_identityVars
               PROVE  SchemaInv'
    OBVIOUS
  <2>1. ASSUME NEW r \in Requests, StepOf(r) PROVE SchemaInv'
    <3>0. Proper(r) \/ TokenEnds(r)
      BY <2>1, StepAlone
    <3>1. CASE StartupHandlers(r)
      BY <3>1, SchemaStep
    <3>2. CASE ~StartupHandlers(r)
      <4>1. UNCHANGED <<applied, recorded, serving>>
        BY <2>1, <3>2 DEF StepOf, startupVars
      <4>2. op'[r].does # "startReplica" \/ TokenEnds(r)
        BY <2>1, <3>2, AccountKind, SessionKind, SignOnKind
           DEF StepOf, AccountOps, SessionOps, SignOnOps, UserOps, GroupOps, BearerOps
      <4>3. CASE TokenEnds(r)
        BY <4>1, <4>3 DEF SchemaInv, Behind, TokenEnds, requestVars
      <4>4. CASE op'[r].does # "startReplica" /\ Proper(r)
        BY <4>1, <4>4, SchemaUntouched DEF Proper, Reaches, AtItsCall, StartupCalls
      <4> QED  BY <3>0, <4>2, <4>3, <4>4
    <3> QED  BY <3>1, <3>2
  <2>2. CASE UNCHANGED identityVars
    BY <2>2 DEF SchemaInv, Behind, identityVars, requestVars, startupVars
  <2> QED  BY <2>1, <2>2 DEF IdentityNext, StepOf
<1>3. SchemaInv => SchemaInOrder
  BY DEF SchemaInv, Behind, SchemaInOrder
<1> QED  BY <1>1, <1>2, <1>3, RequestsHold, PTL DEF IdentitySpec
-----------------------------------------------------------------------------
(* The signing keys.                                                       *)

\* Who is about to write a key found none; who signed had one.
KeysInv ==
    /\ DOMAIN key = Instances
    /\ \A a \in Instances : key[a] # Garbled
    /\ \A r \in Requests :
           /\ at[r] \in KeyCalls \cup SignCalls => op[r].item \in Instances
           /\ at[r] = "writeKey" => ~Decodes(seen[r])
           /\ at[r] = "done" /\ op[r].does = "signOn" => Decodes(seen[r])
    /\ KeysAgree

LEMMA RequestDecodes == ASSUME NEW r \in Requests PROVE Decodes(r)
BY SignOnAssumption, RequestAssumption DEF Decodes

LEMMA KeysUntouched ==
    ASSUME KeysInv, NEW r \in Requests, Alone(r), UNCHANGED signOnVars,
           at'[r] \notin KeyCalls \cup SignCalls \/ op'[r].item \in Instances,
           at'[r] # "writeKey", op'[r].does # "signOn" \/ at'[r] # "done"
    PROVE  KeysInv'
BY DEF KeysInv, KeysAgree, Alone, signOnVars, Decodes, KeyCalls

LEMMA KeysStep ==
    ASSUME KeysInv, RequestsInv, NEW r \in Requests, SignOnHandlers(r)
    PROVE  KeysInv'
<1>0. Alone(r) /\ AtItsCall(at'[r], op'[r].does)
  BY SignOnAlone DEF Proper, Reaches
<1>a. ASSUME NEW next, Proceed(r, next) \/ Fail(r, next),
             seen' = seen \/ \E what : Remember(r, what)
      PROVE  at'[r] = next /\ op'[r] = op[r]
  BY <1>a, ProceedAlone
<1>i. at[r] \in KeyCalls \cup SignCalls => op[r].item \in Instances
  BY DEF KeysInv
<1>1. CASE SignOnRequest(r)
  <2>0. ASSUME NEW o \in workload, NEW a PROVE [o EXCEPT !.item = a].item = a
    BY OperationAssumption DEF RequestsInv
  <2>1. at'[r] \in {"readKey", "authenticate"} /\ op'[r].item \in Instances
    <3>1. ASSUME NEW o \in workload, NEW a \in Instances, NEW first,
                 Begin(r, [o EXCEPT !.item = a], first), seen' = seen
          PROVE  at'[r] = first /\ op'[r].item \in Instances
      <4>1. PICK o2 : o2 = [o EXCEPT !.item = a]
        OBVIOUS
      <4>2. Begin(r, o2, first) /\ o2.item = a
        BY <2>0, <3>1, <4>1
      <4> QED  BY <3>1, <4>2, BeginAlone
    <3> QED  BY <1>1, <3>1 DEF SignOnRequest
  <2>2. stored' = stored /\ raced' = raced
    BY <1>1 DEF SignOnRequest
  <2>3. DOMAIN key' = Instances /\ \A a \in Instances : key'[a] \in {key[a], Nothing}
    BY <1>1 DEF SignOnRequest, KeysInv
  <2> QED
    BY <1>0, <2>1, <2>2, <2>3, SignOnAssumption DEF KeysInv, KeysAgree, Alone, Decodes
<1>2. CASE ReadKey(r)
  <2>1. stored' = stored /\ raced' = raced /\ op[r].does = "startInstance"
    BY <1>2 DEF ReadKey, RequestsInv, AtItsCall, KeyCalls
  <2>2. seen'[r] = stored
    BY <1>2 DEF ReadKey, Remember, RequestsInv
  <2>3. /\ at'[r] = "writeKey" => ~Decodes(stored)
        /\ op'[r].does # "signOn"
    BY <1>2, <1>a, <2>1 DEF ReadKey
  <2>4. DOMAIN key' = Instances
        /\ \A a \in Instances : key'[a] = key[a] \/ (key'[a] = stored /\ Decodes(stored))
    <3>1. key' = key \/ (Decodes(stored) /\ \E x : key' = [key EXCEPT ![x] = stored])
      BY <1>2 DEF ReadKey
    <3> QED  BY <3>1 DEF KeysInv
  <2>5. op'[r] = op[r] /\ op[r].item \in Instances
    BY <1>2, <1>a, <1>i DEF ReadKey, KeyCalls
  <2> QED
    BY <1>0, <2>1, <2>2, <2>3, <2>4, <2>5 DEF KeysInv, KeysAgree, Alone, Decodes
<1>3. CASE WriteKey(r)
  <2>1. op[r].does = "startInstance" /\ at[r] = "writeKey" /\ ~Decodes(seen[r])
    BY <1>3 DEF WriteKey, RequestsInv, AtItsCall, KeyCalls, KeysInv
  <2>2. at'[r] # "writeKey" /\ op'[r].does # "signOn" /\ op'[r].item \in Instances
    BY <1>3, <1>a, <1>i, <2>1 DEF WriteKey, KeyCalls
  <2>3. /\ DOMAIN key' = Instances
        /\ \A a \in Instances : key'[a] = key[a] \/ (key'[a] = r /\ stored' = r)
        /\ stored' \in {r, stored}
        /\ ~raced' => ~raced /\ (stored' = r => stored = seen[r])
    <3>1. /\ \/ stored' = r /\ \E x : key' = [key EXCEPT ![x] = r]
             \/ stored' \in {r, stored} /\ key' = key
          /\ ~raced' => ~raced /\ (stored' = r => stored = seen[r])
      BY <1>3 DEF WriteKey
    <3>2. CASE stored' = r /\ \E x : key' = [key EXCEPT ![x] = r]
      <4>1. DOMAIN key' = Instances /\ \A a \in Instances : key'[a] = key[a] \/ key'[a] = r
        BY <3>2 DEF KeysInv
      <4> QED  BY <3>1, <3>2, <4>1
    <3>3. CASE key' = key
      BY <3>1, <3>3 DEF KeysInv
    <3> QED  BY <3>1, <3>2, <3>3
  <2>4. (\A a \in Instances : key'[a] # Garbled)
    BY <2>3, RequestDecodes DEF KeysInv, Decodes
  <2>5. ~raced' => KeysAgree'
    <3> SUFFICES ASSUME ~raced' PROVE KeysAgree'
      OBVIOUS
    <3>1. CASE stored' = r
      <4>1. ~Decodes(stored) /\ ~raced
        BY <2>1, <2>3, <3>1
      <4>2. \A a \in Instances : key[a] = Nothing
        BY <4>1 DEF KeysInv, KeysAgree, Decodes
      <4>3. \A s \in Requests : ~(at[s] = "done" /\ op[s].does = "signOn")
        BY <4>1 DEF KeysInv, KeysAgree
      <4> QED
        BY <1>0, <2>2, <2>3, <3>1, <4>2, <4>3 DEF KeysAgree, Alone
    <3>2. CASE stored' # r
      BY <1>0, <2>2, <2>3, <3>2 DEF KeysInv, KeysAgree, Alone
    <3> QED  BY <3>1, <3>2
  <2>6. KeysAgree'
    BY <2>5 DEF KeysAgree
  <2> QED
    BY <1>0, <2>2, <2>3, <2>4, <2>6 DEF KeysInv, Alone, Decodes
<1>4. CASE Authenticate(r)
  <2>1. at'[r] \in {"sign", "refused"} /\ UNCHANGED signOnVars /\ op'[r].item \in Instances
    BY <1>4, <1>a, <1>i DEF Authenticate, SignCalls
  <2> QED  BY <1>0, <2>1, KeysUntouched
<1>5. CASE Sign(r)
  <2>1. UNCHANGED signOnVars /\ at'[r] = Answer(r, key[op[r].item]) /\ op'[r] = op[r]
    BY <1>5, <1>a DEF Sign
  <2>i. op[r].item \in Instances
    BY <1>5, <1>i DEF Sign, SignCalls
  <2>2. CASE at'[r] # "done"
    BY <1>0, <2>1, <2>2, <2>i, KeysUntouched DEF Answer
  <2>3. CASE at'[r] = "done"
    <3>1. op[r].does = "signOn" /\ key[op[r].item] # Nothing
      BY <2>1, <2>3 DEF Answer
    <3>2. seen'[r] = key[op[r].item]
      BY <1>5, <3>1 DEF Sign, Remember, RequestsInv
    <3> QED
      BY <1>0, <2>1, <2>3, <2>i, <3>1, <3>2
         DEF KeysInv, KeysAgree, Alone, Decodes, signOnVars
  <2> QED  BY <2>2, <2>3
<1> QED
  BY <1>1, <1>2, <1>3, <1>4, <1>5 DEF SignOnHandlers

\* But for a key that was written over another, all instances have the key
\* that is stored, and every assertion signed verifies with it.
THEOREM InstancesAgree == IdentitySpec => []KeysAgree
<1>1. IdentityInit => KeysInv
  <2> SUFFICES ASSUME IdentityInit PROVE KeysInv
    OBVIOUS
  <2>1. (\A r \in Requests : at[r] = "idle") /\ key \in [Instances -> {Nothing} \cup ({stored} \cap {Original})]
    BY DEF IdentityInit, RequestsInit, SignOnInit
  <2> QED
    BY <2>1, SignOnAssumption DEF KeysInv, KeysAgree, KeyCalls, SignCalls
<1>2. RequestsInv /\ KeysInv /\ [IdentityNext]_identityVars => KeysInv'
  <2> SUFFICES ASSUME RequestsInv, KeysInv, [IdentityNext]_identityVars
               PROVE  KeysInv'
    OBVIOUS
  <2>1. ASSUME NEW r \in Requests, StepOf(r) PROVE KeysInv'
    <3>0. Proper(r) \/ TokenEnds(r)
      BY <2>1, StepAlone
    <3>1. CASE SignOnHandlers(r)
      BY <3>1, KeysStep
    <3>2. CASE ~SignOnHandlers(r)
      <4>1. UNCHANGED signOnVars
        BY <2>1, <3>2 DEF StepOf
      <4>2. op'[r].does \notin SignOnOps \/ TokenEnds(r)
        BY <2>1, <3>2, AccountKind, SessionKind, StartupKind
           DEF StepOf, AccountOps, SessionOps, SignOnOps, UserOps, GroupOps, BearerOps
      <4>3. CASE op'[r].does \notin SignOnOps /\ Proper(r)
        <5>1. at'[r] \notin KeyCalls \cup SignCalls /\ op'[r].does # "signOn"
          BY <4>3 DEF Proper, Reaches, AtItsCall, SignOnOps
        <5> QED  BY <4>1, <4>3, <5>1, KeysUntouched DEF Proper, KeyCalls
      <4>4. CASE TokenEnds(r)
        BY <4>1, <4>4 DEF KeysInv, KeysAgree, TokenEnds, signOnVars, requestVars, Decodes
      <4> QED  BY <3>0, <4>2, <4>3, <4>4
    <3> QED  BY <3>1, <3>2
  <2>2. CASE UNCHANGED identityVars
    BY <2>2 DEF KeysInv, KeysAgree, Decodes, identityVars, requestVars, signOnVars
  <2> QED  BY <2>1, <2>2 DEF IdentityNext, StepOf
<1>3. KeysInv => KeysAgree
  BY DEF KeysInv
<1> QED  BY <1>1, <1>2, <1>3, RequestsHold, PTL DEF IdentitySpec
-----------------------------------------------------------------------------
(* The directory: a number, once given, is of one entity for ever.         *)

Listed(table) == table \in Seq({table[i] : i \in DOMAIN table})

LEMMA ListedFunction ==
    ASSUME NEW n \in Nat, NEW table, DOMAIN table = 1 .. n,
           table = [i \in DOMAIN table |-> table[i]]
    PROVE  Listed(table) /\ Len(table) = n
<1> DEFINE S == {table[i] : i \in DOMAIN table}
<1>1. table \in [1 .. n -> S]
  OBVIOUS
<1>2. table \in Seq(S)
  BY <1>1, SeqDef
<1>3. Len(table) = n
  BY <1>1, <1>2, LenProperties
<1> QED  BY <1>2, <1>3 DEF Listed

LEMMA ListedDomain ==
    ASSUME NEW table, Listed(table)
    PROVE  DOMAIN table = 1 .. Len(table) /\ Len(table) \in Nat
           /\ table = [i \in DOMAIN table |-> table[i]]
BY LenProperties DEF Listed

LEMMA ListedAppend ==
    ASSUME NEW table, Listed(table), NEW row
    PROVE  /\ Listed(Append(table, row))
           /\ DOMAIN Append(table, row) = 1 .. (Len(table) + 1)
           /\ \A i \in DOMAIN table : Append(table, row)[i] = table[i]
           /\ Append(table, row)[Len(table) + 1] = row
<1> DEFINE S == {table[i] : i \in DOMAIN table} \cup {row}
<1>1. table \in Seq(S)
  <2>1. PICK T : T = {table[i] : i \in DOMAIN table}
    OBVIOUS
  <2>2. table \in Seq(T) /\ T \subseteq S
    BY <2>1 DEF Listed
  <2> QED  BY <2>2
<1>2. row \in S
  OBVIOUS
<1> HIDE DEF S
<1>3. /\ Append(table, row) \in Seq(S)
      /\ Len(Append(table, row)) = Len(table) + 1
      /\ \A i \in 1 .. Len(table) : Append(table, row)[i] = table[i]
      /\ Append(table, row)[Len(table) + 1] = row
  BY <1>1, <1>2, AppendProperties
<1>4. DOMAIN table = 1 .. Len(table) /\ Len(table) \in Nat
  BY ListedDomain
<1>5. PICK new : new = Append(table, row)
  OBVIOUS
<1>6. new \in Seq(S) /\ Len(new) = Len(table) + 1
  BY <1>3, <1>5
<1>7. DOMAIN new = 1 .. (Len(table) + 1) /\ new = [i \in DOMAIN new |-> new[i]]
  BY <1>6, LenProperties
<1>8. Listed(new)
  BY <1>4, <1>7, ListedFunction
<1> QED  BY <1>3, <1>4, <1>5, <1>7, <1>8

\* What a row of a table of this kind has.
Rows(table, field) ==
    Listed(table) /\ \A i \in DOMAIN table : Known(table, i) => {"name", field} \subseteq DOMAIN table[i]

\* No row goes, none comes back once it is cleared, and none changes its name.
Grows(old, new) ==
    /\ DOMAIN old \subseteq DOMAIN new
    /\ \A i \in DOMAIN old :
           IF old[i] = Nothing THEN new[i] = Nothing
           ELSE Known(new, i) => new[i].name = old[i].name

LEMMA RowsAppend ==
    ASSUME NEW table, NEW field, Rows(table, field), NEW row, {"name", field} \subseteq DOMAIN row
    PROVE  Rows(Append(table, row), field) /\ Grows(table, Append(table, row))
<1>1. PICK new : new = Append(table, row)
  OBVIOUS
<1>2. /\ Listed(new) /\ DOMAIN new = 1 .. (Len(table) + 1) /\ new[Len(table) + 1] = row
      /\ \A i \in DOMAIN table : new[i] = table[i]
  BY <1>1, ListedAppend DEF Rows
<1>3. DOMAIN table = 1 .. Len(table) /\ Len(table) \in Nat
  BY ListedDomain DEF Rows
<1>4. Rows(new, field)
  BY <1>2, <1>3 DEF Rows, Known
<1>5. Grows(table, new)
  BY <1>2, <1>3 DEF Grows
<1> QED  BY <1>1, <1>4, <1>5

\* A table of which rows were changed in place, or cleared.
LEMMA RowsChanged ==
    ASSUME NEW table, NEW field, Rows(table, field), NEW new, DOMAIN new = DOMAIN table,
           new = [i \in DOMAIN new |-> new[i]],
           \A i \in DOMAIN table :
               \/ new[i] \in {table[i], Nothing}
               \/ Known(table, i) /\ DOMAIN new[i] = DOMAIN table[i]
    PROVE  Rows(new, field)
<1>1. DOMAIN table = 1 .. Len(table) /\ Len(table) \in Nat
  BY ListedDomain DEF Rows
<1>2. Listed(new)
  BY <1>1, ListedFunction
<1> QED  BY <1>2 DEF Rows, Known

DirectoryInv == Rows(entities, "meta") /\ Rows(groups, "members")

LEMMA SaveEntityRows ==
    ASSUME DirectoryInv, NEW n, NEW meta, NEW off, SaveEntity(n, meta, off)
    PROVE  DirectoryInv' /\ Grows(entities, entities')
<1>1. CASE Named(entities, n) = {}
  <2>1. PICK row : row = [name |-> n, meta |-> meta, linked |-> FALSE, disabled |-> off]
    OBVIOUS
  <2>2. {"name", "meta"} \subseteq DOMAIN row
    BY <2>1
  <2>3. entities' = Append(entities, row) /\ groups' = groups
    BY <1>1, <2>1 DEF SaveEntity
  <2> QED  BY <2>2, <2>3, RowsAppend DEF DirectoryInv
<1>2. CASE Named(entities, n) # {}
  <2>1. /\ DOMAIN entities' = DOMAIN entities /\ groups' = groups
        /\ entities' = [i \in DOMAIN entities' |-> entities'[i]]
        /\ \A i \in DOMAIN entities : entities'[i] =
               IF i \in Named(entities, n) THEN [entities[i] EXCEPT !.meta = meta, !.disabled = off]
               ELSE entities[i]
    BY <1>2 DEF SaveEntity
  <2>2. \A i \in Named(entities, n) : Known(entities, i)
    BY DEF Named
  <2>3. ASSUME NEW i \in Named(entities, n)
        PROVE  DOMAIN entities'[i] = DOMAIN entities[i] /\ entities'[i].name = entities[i].name
    BY <2>1, <2>2 DEF DirectoryInv, Rows, Known, Named
  <2>4. Rows(entities', "meta")
    BY <2>1, <2>2, <2>3, RowsChanged DEF DirectoryInv
  <2>5. Grows(entities, entities')
    BY <2>1, <2>2, <2>3 DEF Grows, Known
  <2> QED  BY <2>1, <2>4, <2>5 DEF DirectoryInv
<1> QED  BY <1>1, <1>2

LEMMA RemoveEntitiesRows ==
    ASSUME DirectoryInv, NEW gone, RemoveEntities(gone)
    PROVE  DirectoryInv' /\ Grows(entities, entities')
<1>1. Rows(entities', "meta")
  BY RowsChanged DEF DirectoryInv, RemoveEntities
<1>2. Grows(entities, entities')
  BY DEF RemoveEntities, Grows, Known
<1>3. /\ DOMAIN groups' = DOMAIN groups /\ groups' = [i \in DOMAIN groups' |-> groups'[i]]
      /\ \A i \in DOMAIN groups :
             groups'[i] = IF groups[i] = Nothing THEN Nothing
                          ELSE [groups[i] EXCEPT !.members = @ \ gone]
  BY DEF RemoveEntities, Without
<1>4. Rows(groups', "members")
  BY <1>3, RowsChanged DEF DirectoryInv, Known, Rows
<1> QED  BY <1>1, <1>2, <1>4 DEF DirectoryInv

LEMMA SaveGroupRows ==
    ASSUME DirectoryInv, NEW name, NEW members, NEW builtin, SaveGroup(name, members, builtin)
    PROVE  DirectoryInv' /\ entities' = entities
<1>1. CASE Named(groups, name) = {}
  <2>1. PICK row : row = [name |-> name, builtin |-> builtin, members |-> members]
    OBVIOUS
  <2>2. {"name", "members"} \subseteq DOMAIN row
    BY <2>1
  <2>3. groups' = Append(groups, row) /\ entities' = entities
    BY <1>1, <2>1 DEF SaveGroup
  <2> QED  BY <2>2, <2>3, RowsAppend DEF DirectoryInv
<1>2. CASE Named(groups, name) # {}
  <2>1. /\ DOMAIN groups' = DOMAIN groups /\ entities' = entities
        /\ groups' = [i \in DOMAIN groups' |-> groups'[i]]
        /\ \A i \in DOMAIN groups : groups'[i] =
               IF i \in Named(groups, name)
               THEN [groups[i] EXCEPT !.members = members, !.builtin = builtin]
               ELSE groups[i]
    BY <1>2 DEF SaveGroup
  <2>2. \A i \in Named(groups, name) : Known(groups, i)
    BY DEF Named
  <2>3. Rows(groups', "members")
    BY <2>1, <2>2, RowsChanged DEF DirectoryInv
  <2> QED  BY <2>1, <2>3 DEF DirectoryInv
<1> QED  BY <1>1, <1>2

\* One known row gets a new value in one field.
LEMMA RowUpdated ==
    ASSUME NEW table, NEW field, Rows(table, field), NEW i, Known(table, i), NEW row,
           DOMAIN row = DOMAIN table[i]
    PROVE  Rows([table EXCEPT ![i] = row], field)
           /\ (row.name = table[i].name => Grows(table, [table EXCEPT ![i] = row]))
<1>1. PICK new : new = [table EXCEPT ![i] = row]
  OBVIOUS
<1>2. /\ DOMAIN new = DOMAIN table /\ new = [j \in DOMAIN new |-> new[j]]
      /\ \A j \in DOMAIN table : new[j] = IF j = i THEN row ELSE table[j]
  BY <1>1
<1>3. Rows(new, field)
  BY <1>2, RowsChanged
<1>4. row.name = table[i].name => Grows(table, new)
  BY <1>2 DEF Grows, Known
<1> QED  BY <1>1, <1>3, <1>4

\* What an account's request does to the directory in one call.
LEMMA AccountsKeepRows ==
    ASSUME DirectoryInv, NEW r \in Requests, AccountHandlers(r)
    PROVE  DirectoryInv' /\ Grows(entities, entities')
<1> DEFINE Right == DirectoryInv' /\ Grows(entities, entities')
<1>a. ASSUME entities' = entities, groups' = groups PROVE Right
  BY <1>a DEF DirectoryInv, Grows
\* A group gets other members, or another name, or goes.
<1>g. ASSUME entities' = entities, NEW i, Known(groups, i), NEW row,
             DOMAIN row = DOMAIN groups[i], groups' = [groups EXCEPT ![i] = row]
      PROVE  Right
  BY <1>g, RowUpdated DEF DirectoryInv, Grows
<1>e. ASSUME groups' = groups, NEW i, Known(entities, i), NEW row,
             DOMAIN row = DOMAIN entities[i], row.name = entities[i].name,
             entities' = [entities EXCEPT ![i] = row]
      PROVE  Right
  BY <1>e, RowUpdated DEF DirectoryInv
<1> SUFFICES Right
  OBVIOUS
<1> HIDE DEF Right
<1>1. CASE AccountRequest(r)
  <2>1. entities' = entities /\ groups' = groups
    BY <1>1 DEF AccountRequest, directory
  <2> QED  BY <1>a, <2>1
<1>2. CASE CreateLogin(r)
  <2>1. entities' = entities /\ groups' = groups
    BY <1>2 DEF CreateLogin, Call, PutLogin, directory
  <2> QED  BY <1>a, <2>1
<1>3. CASE CreateEntity(r)
  <2>1. (entities' = entities /\ groups' = groups) \/ \E meta, off : SaveEntity(op[r].name, meta, off)
    BY <1>3 DEF CreateEntity, Call, directory
  <2> QED  BY <1>a, <2>1, SaveEntityRows DEF Right
<1>4. CASE LinkLogin(r)
  <2>1. \/ entities' = entities /\ groups' = groups
        \/ /\ Known(entities, seen[r]) /\ groups' = groups
           /\ entities' = [entities EXCEPT ![seen[r]] = [entities[seen[r]] EXCEPT !.linked = TRUE]]
    BY <1>4 DEF LinkLogin, Call, directory
  <2>2. PICK i, row : i = seen[r] /\ row = [entities[i] EXCEPT !.linked = TRUE]
    OBVIOUS
  <2>3. ASSUME Known(entities, i)
        PROVE  DOMAIN row = DOMAIN entities[i] /\ row.name = entities[i].name
    BY <2>2, <2>3 DEF DirectoryInv, Rows, Known
  <2> QED  BY <1>a, <1>e, <2>1, <2>2, <2>3
<1>5. CASE FindUser(r)
  <2>1. entities' = entities /\ groups' = groups
    BY <1>5 DEF FindUser, directory
  <2> QED  BY <1>a, <2>1
<1>6. CASE SaveMetadata(r)
  <2>1. PICK i, row : i = op[r].item.id /\ row = [entities[i] EXCEPT !.meta = Kept(r)]
    OBVIOUS
  <2>2. \/ entities' = entities /\ groups' = groups
        \/ Known(entities, i) /\ groups' = groups /\ entities' = [entities EXCEPT ![i] = row]
    BY <1>6, <2>1 DEF SaveMetadata, Call, directory
  <2>3. ASSUME Known(entities, i)
        PROVE  DOMAIN row = DOMAIN entities[i] /\ row.name = entities[i].name
    BY <2>1, <2>3 DEF DirectoryInv, Rows, Known
  <2> QED  BY <1>a, <1>e, <2>2, <2>3
<1>7. CASE SetStatus(r)
  <2>1. entities' = entities /\ groups' = groups
    BY <1>7 DEF SetStatus, Call, PutLogin, DropLogin, directory
  <2> QED  BY <1>a, <2>1
<1>8. CASE ListGroups(r) \/ ListGroup(r) \/ ReadGroup(r)
  <2>1. entities' = entities /\ groups' = groups
    BY <1>8 DEF ListGroups, ListGroup, ReadGroup, directory
  <2> QED  BY <1>a, <2>1
<1>9. CASE WriteGroup(r)
  <2>1. PICK i, row : i = seen[r].group /\ row = [groups[i] EXCEPT !.members = WithMe(r)]
    OBVIOUS
  <2>2. \/ entities' = entities /\ groups' = groups
        \/ Known(groups, i) /\ entities' = entities /\ groups' = [groups EXCEPT ![i] = row]
    BY <1>9, <2>1 DEF WriteGroup, Call, directory
  <2> QED  BY <1>a, <1>g, <2>1, <2>2
<1>10. CASE DeleteLogin(r)
  <2>1. entities' = entities /\ groups' = groups
    BY <1>10 DEF DeleteLogin, Call, DropLogin, directory
  <2> QED  BY <1>a, <2>1
<1>11. CASE DeleteEntity(r)
  <2>1. (entities' = entities /\ groups' = groups) \/ \E gone : RemoveEntities(gone)
    BY <1>11 DEF DeleteEntity, Call, directory
  <2> QED  BY <1>a, <2>1, RemoveEntitiesRows DEF Right
<1>12. CASE ReplaceEntity(r)
  <2>1. (entities' = entities /\ groups' = groups) \/ \E meta, off : SaveEntity(seen[r].name, meta, off)
    BY <1>12 DEF ReplaceEntity, Call, directory
  <2> QED  BY <1>a, <2>1, SaveEntityRows DEF Right
<1>13. CASE Refetch(r) \/ RefetchGroup(r) \/ FindGroup(r)
  <2>1. entities' = entities /\ groups' = groups
    BY <1>13 DEF Refetch, RefetchGroup, FindGroup, directory
  <2> QED  BY <1>a, <2>1
<1>14. CASE SaveNewGroup(r)
  <2>1. (entities' = entities /\ groups' = groups) \/ \E members, builtin : SaveGroup(op[r].item.name, members, builtin)
    BY <1>14 DEF SaveNewGroup, Call, directory
  <2>2. ASSUME NEW members, NEW builtin, SaveGroup(op[r].item.name, members, builtin)
        PROVE  Right
    BY <2>2, SaveGroupRows DEF Right, Grows
  <2> QED  BY <1>a, <2>1, <2>2
<1>15. CASE RenameGroup(r)
  <2>1. PICK i, row : i = op[r].item.id /\ row = [groups[i] EXCEPT !.name = op[r].item.name]
    OBVIOUS
  <2>2. \/ entities' = entities /\ groups' = groups
        \/ Known(groups, i) /\ entities' = entities /\ groups' = [groups EXCEPT ![i] = row]
    BY <1>15, <2>1 DEF RenameGroup, Call, directory
  <2> QED  BY <1>a, <1>g, <2>1, <2>2
<1>16. CASE DropGroup(r)
  <2>1. \/ entities' = entities /\ groups' = groups
        \/ /\ entities' = entities /\ DOMAIN groups' = DOMAIN groups
           /\ groups' = [g \in DOMAIN groups' |-> groups'[g]]
           /\ \A g \in DOMAIN groups : groups'[g] \in {groups[g], Nothing}
    BY <1>16 DEF DropGroup, Call, directory
  <2>2. ASSUME entities' = entities, DOMAIN groups' = DOMAIN groups,
               groups' = [g \in DOMAIN groups' |-> groups'[g]],
               \A g \in DOMAIN groups : groups'[g] \in {groups[g], Nothing}
        PROVE  Right
    <3>1. Rows(groups', "members")
      BY <2>2, RowsChanged DEF DirectoryInv
    <3> QED  BY <2>2, <3>1 DEF Right, DirectoryInv, Grows
  <2> QED  BY <1>a, <2>1, <2>2
<1>17. CASE SetGroupUsers(r)
  <2>1. PICK i, row : i = op[r].item.id /\ row = [groups[i] EXCEPT !.members = op[r].item.members]
    OBVIOUS
  <2>2. \/ entities' = entities /\ groups' = groups
        \/ Known(groups, i) /\ entities' = entities /\ groups' = [groups EXCEPT ![i] = row]
    BY <1>17, <2>1 DEF SetGroupUsers, Call, directory
  <2> QED  BY <1>a, <1>g, <2>1, <2>2
<1> QED
  BY <1>1, <1>2, <1>3, <1>4, <1>5, <1>6, <1>7, <1>8, <1>9, <1>10, <1>11, <1>12, <1>13,
     <1>14, <1>15, <1>16, <1>17 DEF AccountHandlers

LEMMA OthersKeepDirectory ==
    ASSUME NEW r \in Requests, StepOf(r), ~AccountHandlers(r)
    PROVE  UNCHANGED directory
<1>1. CASE SessionHandlers(r)
  BY <1>1 DEF SessionHandlers, SessionRequest, Login, LookUpToken, LookUpEntity, Logout, TokenEnds
<1>2. CASE SignOnHandlers(r)
  BY <1>2 DEF SignOnHandlers, SignOnRequest, ReadKey, WriteKey, Authenticate, Sign
<1>3. CASE ~SessionHandlers(r) /\ ~SignOnHandlers(r)
  BY <1>3 DEF StepOf
<1> QED  BY <1>1, <1>2, <1>3

LEMMA DirectoryStep ==
    ASSUME DirectoryInv, NEW r \in Requests, StepOf(r)
    PROVE  DirectoryInv' /\ Grows(entities, entities')
<1>1. CASE AccountHandlers(r)
  BY <1>1, AccountsKeepRows
<1>2. CASE ~AccountHandlers(r)
  BY <1>2, OthersKeepDirectory DEF directory, DirectoryInv, Grows
<1> QED  BY <1>1, <1>2

LEMMA DirectoryHolds == IdentitySpec => []DirectoryInv
<1>1. IdentityInit => DirectoryInv
  <2> SUFFICES ASSUME IdentityInit PROVE DirectoryInv
    OBVIOUS
  <2>1. PICK n : n \in Nat /\ DOMAIN Residents = 1 .. n
    BY AccountsAssumption, LenProperties
  <2>2. Rows(entities, "meta")
    <3>1. DOMAIN entities = 1 .. n /\ entities = [i \in DOMAIN entities |-> entities[i]]
      BY <2>1 DEF IdentityInit, AccountsInit
    <3>2. \A i \in 1 .. n : Known(entities, i) => {"name", "meta"} \subseteq DOMAIN entities[i]
      BY <2>1 DEF IdentityInit, AccountsInit, Known
    <3>3. Listed(entities)
      BY <2>1, <3>1, ListedFunction
    <3> QED  BY <3>1, <3>2, <3>3 DEF Rows
  <2>3. Rows(groups, "members")
    <3>1. PICK row : {"name", "members"} \subseteq DOMAIN row /\ groups = <<row>>
      BY DEF IdentityInit, AccountsInit
    <3>2. DOMAIN groups = 1 .. 1 /\ groups = [i \in DOMAIN groups |-> groups[i]]
          /\ groups[1] = row
      BY <3>1
    <3>3. Listed(groups)
      BY <3>2, ListedFunction
    <3>4. \A i \in DOMAIN groups : i = 1
      BY <3>2
    <3> QED  BY <3>1, <3>2, <3>3, <3>4 DEF Rows
  <2> QED  BY <2>2, <2>3 DEF DirectoryInv
<1>2. DirectoryInv /\ [IdentityNext]_identityVars => DirectoryInv'
  BY DirectoryStep DEF IdentityNext, StepOf, identityVars, directory, DirectoryInv
<1> QED  BY <1>1, <1>2, PTL DEF IdentitySpec
-----------------------------------------------------------------------------
(* The sessions.                                                           *)

\* What ended before r began is over for r, as far as it was seen.
Over(r) ==
    \A s \in op[r].item.after :
        IF op[s].does = "logout"
        THEN seen[s].revoked => op[s].item.of # op[r].item.of
        ELSE op[s].item.id # seen[r].principal

\* The entity of a deletion under way, and of one answered.
Deleting(s) ==
    /\ at[s] \in DropCalls =>
           /\ op[s].item.id \in DOMAIN entities
           /\ Known(entities, op[s].item.id) => entities[op[s].item.id].name = seen[s].name
    /\ at[s] = "done" /\ op[s].does \in Deletions =>
           op[s].item.id \in DOMAIN entities /\ entities[op[s].item.id] = Nothing

LoginDone(s) == s \in Requests /\ at[s] = "done" /\ op[s].does = "login"
EndedBy(s)   == s \in Requests /\ at[s] = "done" /\ op[s].does \in Deletions \cup {"logout"}

\* A request that bears a token: of a login, and knowing what ended.
Bearing(r) ==
    at[r] # "idle" /\ op[r].does \in BearerOps =>
        /\ LoginDone(op[r].item.of)
        /\ \A s \in op[r].item.after : EndedBy(s)
        /\ seen[r] # Nothing => Over(r)
        /\ at[r] = "revoke" =>
               Over(r) /\ {"principal", "revoked"} \subseteq DOMAIN seen[r] /\ ~seen[r].revoked

\* Once a logout has revoked the token, there is none.
Revoked(s) ==
    at[s] = "done" /\ op[s].does = "logout" /\ seen[s].revoked => token[op[s].item.of] = Nothing

Fresh(r) == at[r] = "idle" => op[r] = Nothing /\ seen[r] = Nothing

OverInv == \A r \in Requests : Deleting(r) /\ Bearing(r) /\ Revoked(r) /\ Fresh(r)

\* A step that leaves the tokens of the logins answered as they are, or ends
\* them, changes nothing for another request.
LEMMA OthersOver ==
    ASSUME OverInv, RequestsInv, NEW r \in Requests, Alone(r), at[r] # "done",
           Grows(entities, entities'),
           \A s \in Requests : at[s] = "done" => token'[s] \in {token[s], Nothing},
           NEW s \in Requests, s # r
    PROVE  Deleting(s)' /\ Bearing(s)' /\ Revoked(s)' /\ Fresh(s)'
<1>1. op'[s] = op[s] /\ at'[s] = at[s] /\ seen'[s] = seen[s]
  BY DEF Alone
<1>2. \A q \in Requests : at[q] = "done" => op'[q] = op[q] /\ at'[q] = at[q] /\ seen'[q] = seen[q]
  BY DEF Alone
<1>3. Deleting(s)'
  BY <1>1 DEF OverInv, Deleting, Grows, Known
<1>4. Bearing(s)'
  <2> SUFFICES ASSUME at[s] # "idle", op[s].does \in BearerOps PROVE Bearing(s)'
    BY <1>1 DEF Bearing
  <2>1. LoginDone(op[s].item.of) /\ \A q \in op[s].item.after : EndedBy(q)
    BY DEF OverInv, Bearing
  <2>2. LoginDone(op[s].item.of)' /\ \A q \in op'[s].item.after : EndedBy(q)'
    BY <1>1, <1>2, <2>1 DEF LoginDone, EndedBy
  <2>3. Over(s) => Over(s)'
    BY <1>1, <1>2, <2>1 DEF Over, EndedBy
  <2> QED  BY <1>1, <2>2, <2>3 DEF OverInv, Bearing
<1>5. Revoked(s)'
  <2> SUFFICES ASSUME at[s] = "done", op[s].does = "logout", seen[s].revoked
               PROVE  token'[op[s].item.of] = Nothing
    BY <1>1 DEF Revoked
  <2>1. LoginDone(op[s].item.of) /\ token[op[s].item.of] = Nothing
    BY DEF OverInv, Bearing, Revoked, BearerOps
  <2> QED  BY <2>1 DEF LoginDone
<1>6. Fresh(s)'
  BY <1>1 DEF OverInv, Fresh
<1> QED  BY <1>3, <1>4, <1>5, <1>6

\* Every step comes from a request that was not answered, unless a lease ends.
LEMMA NotAnswered ==
    ASSUME NEW r \in Requests, StepOf(r), ~TokenEnds(r)
    PROVE  at[r] # "done"
<1>1. CASE AccountHandlers(r)
  BY <1>1 DEF AccountHandlers, AccountRequest, Begin,
       CreateLogin, CreateEntity, LinkLogin, FindUser, SaveMetadata, SetStatus, ListGroups, ListGroup,
       ReadGroup, WriteGroup, DeleteLogin, DeleteEntity, ReplaceEntity, Refetch, SaveNewGroup,
       FindGroup, RenameGroup, DropGroup, SetGroupUsers, RefetchGroup
<1>2. CASE SessionHandlers(r)
  BY <1>2 DEF SessionHandlers, SessionRequest, Begin, Login, LookUpToken, LookUpEntity, Logout
<1>3. CASE SignOnHandlers(r)
  BY <1>3 DEF SignOnHandlers, SignOnRequest, Begin, ReadKey, WriteKey, Authenticate, Sign
<1>4. CASE StartupHandlers(r)
  BY <1>4 DEF StartupHandlers, StartRequest, Begin, InitPostgres, CheckMigration, RunMigration,
     RecordMigration, Serve
<1> QED  BY <1>1, <1>2, <1>3, <1>4 DEF StepOf

LEMMA DoneTokens ==
    ASSUME RequestsInv, NEW r \in Requests, StepOf(r)
    PROVE  \A s \in Requests : at[s] = "done" => token'[s] \in {token[s], Nothing}
<1>0. DOMAIN token = Requests
  BY DEF RequestsInv
<1>1. CASE AccountHandlers(r) /\ UNCHANGED <<token, signOnVars, startupVars>>
  BY <1>1
<1>2. CASE Login(r) \/ Authenticate(r)
  <2>1. at[r] # "done" /\ (token' = token \/ \E i : token' = [token EXCEPT ![r] = i])
    BY <1>2 DEF Login, Authenticate
  <2> QED  BY <1>0, <2>1
<1>3. CASE TokenEnds(r)
  BY <1>0, <1>3 DEF TokenEnds
<1>4. CASE Logout(r)
  <2>1. token' = token \/ \E s : token' = [token EXCEPT ![s] = Nothing]
    BY <1>4 DEF Logout
  <2> QED  BY <1>0, <2>1
<1>5. CASE SessionHandlers(r) /\ ~Login(r) /\ ~TokenEnds(r) /\ ~Logout(r)
  BY <1>5 DEF SessionHandlers, SessionRequest, LookUpToken, LookUpEntity
<1>6. CASE SignOnHandlers(r) /\ ~Authenticate(r)
  BY <1>6 DEF SignOnHandlers, SignOnRequest, ReadKey, WriteKey, Sign
<1>7. CASE StartupHandlers(r) /\ UNCHANGED <<directory, token, signOnVars>>
  BY <1>7
<1> QED  BY <1>1, <1>2, <1>3, <1>4, <1>5, <1>6, <1>7 DEF StepOf

\* What is left: the request that made the step.
LEMMA OverFrame ==
    ASSUME OverInv, RequestsInv, DirectoryInv, NEW r \in Requests, StepOf(r), ~TokenEnds(r),
           Deleting(r)' /\ Bearing(r)' /\ Revoked(r)'
    PROVE  OverInv'
<1>1. Alone(r) /\ at'[r] # "idle"
  BY StepAlone DEF Proper, Reaches
<1>2. at[r] # "done" /\ Grows(entities, entities')
  BY NotAnswered, DirectoryStep
<1>3. \A s \in Requests : at[s] = "done" => token'[s] \in {token[s], Nothing}
  BY DoneTokens
<1>4. Fresh(r)'
  BY <1>1 DEF Fresh
<1> QED  BY <1>1, <1>2, <1>3, <1>4, OthersOver DEF OverInv

LEMMA DeletionSteps ==
    ASSUME OverInv, RequestsInv, DirectoryInv, NEW r \in Requests, AccountHandlers(r)
    PROVE  Deleting(r)' /\ Bearing(r)' /\ Revoked(r)'
<1>0. Alone(r) /\ AtItsCall(at'[r], op'[r].does)
  BY AccountsAlone DEF Proper, Reaches
<1>1. op'[r].does \in AccountOps
  BY AccountKind
<1>2. Bearing(r)' /\ Revoked(r)'
  BY <1>1 DEF Bearing, Revoked, AccountOps, UserOps, GroupOps, BearerOps
<1>a. ASSUME NEW next, Proceed(r, next) \/ Fail(r, next),
             seen' = seen \/ \E what : Remember(r, what)
      PROVE  at'[r] = next /\ op'[r] = op[r]
  BY <1>a, ProceedAlone
<1>3. CASE op'[r].does \notin Deletions
  BY <1>0, <1>2, <1>3 DEF Deleting, AtItsCall
<1>4. CASE AccountRequest(r)
  <2>0. seen' = seen
    BY <1>4 DEF AccountRequest
  <2>1. ASSUME NEW o \in workload, o.does \in DOMAIN UserOps, Begin(r, o, UserOps[o.does])
        PROVE  at'[r] \notin DropCalls \cup {"done"}
    <3>1. UserOps[o.does] \notin DropCalls \cup {"done"}
      BY <2>1 DEF UserOps, DropCalls
    <3> QED  BY <2>0, <2>1, <3>1, BeginAlone
  <2>2. ASSUME NEW o \in workload, o.does \in DOMAIN GroupOps, Begin(r, o, GroupOps[o.does])
        PROVE  at'[r] \notin DropCalls \cup {"done"}
    <3>1. GroupOps[o.does] \notin DropCalls \cup {"done"}
      BY <2>2 DEF GroupOps, DropCalls
    <3> QED  BY <2>0, <2>2, <3>1, BeginAlone
  <2>3. at'[r] \notin DropCalls \cup {"done"}
    BY <1>4, <2>1, <2>2 DEF AccountRequest
  <2> QED  BY <1>2, <2>3 DEF Deleting
<1>5. CASE FindUser(r)
  <2>1. \/ /\ Known(entities, op[r].item.id) /\ seen'[r] = entities[op[r].item.id]
        \/ at'[r] = "refused"
    BY <1>5, <1>a DEF FindUser, Remember, RequestsInv
  <2>2. op'[r] = op[r] /\ entities' = entities /\ at'[r] # "done"
    <3>1. AfterFind[op[r].does] # "done" /\ op[r].does \in DOMAIN AfterFind
      BY <1>5 DEF FindUser, RequestsInv, AtItsCall, AfterFind
    <3> QED  BY <1>5, <1>a, <3>1 DEF FindUser, directory
  <2> QED  BY <1>2, <2>1, <2>2 DEF Deleting, DropCalls, Known
<1>6. CASE DeleteLogin(r)
  <2>1. op'[r] = op[r] /\ seen'[r] = seen[r] /\ at'[r] = "dropEntity" /\ entities' = entities
        /\ at[r] = "dropLogin"
    BY <1>6, <1>a DEF DeleteLogin, Call, DropLogin, directory
  <2> QED  BY <1>2, <2>1 DEF OverInv, Deleting, DropCalls
<1>7. CASE DeleteEntity(r)
  <2>1. \/ /\ at'[r] = "done"
           /\ RemoveEntities(IF op[r].does = "deleteUser" THEN {op[r].item.id}
                             ELSE Named(entities, seen[r].name))
        \/ at'[r] = "refused"
    BY <1>7, <1>a DEF DeleteEntity, Call
  <2>2. op'[r] = op[r] /\ at[r] = "dropEntity"
    BY <1>7, <1>a DEF DeleteEntity, Call
  <2>3. CASE at'[r] = "done"
    <3>1. PICK i : i = op[r].item.id
      OBVIOUS
    <3>2. i \in DOMAIN entities /\ (Known(entities, i) => entities[i].name = seen[r].name)
      BY <2>2, <3>1 DEF OverInv, Deleting, DropCalls
    <3>3. PICK gone : RemoveEntities(gone) /\ gone \in {{i}, Named(entities, seen[r].name)}
      BY <2>1, <2>3, <3>1
    <3>4. entities[i] = Nothing \/ i \in gone
      BY <3>2, <3>3 DEF Named, Known
    <3>5. i \in DOMAIN entities' /\ entities'[i] = Nothing
      BY <3>2, <3>3, <3>4 DEF RemoveEntities
    <3> QED  BY <1>2, <2>2, <2>3, <3>1, <3>5 DEF Deleting, DropCalls
  <2>4. CASE at'[r] = "refused"
    BY <1>2, <2>4 DEF Deleting, DropCalls
  <2> QED  BY <2>1, <2>3, <2>4
<1>8. CASE op'[r].does \in Deletions /\ ~AccountRequest(r) /\ ~FindUser(r) /\ ~DeleteLogin(r)
           /\ ~DeleteEntity(r)
  <2>1. at[r] \in {"putLogin", "saveEntity", "link"} \cup UpdateCalls \cup ReplaceCalls \cup GroupCalls
                  \cup {"findGroup"}
    BY <1>8 DEF AccountHandlers, CreateLogin, CreateEntity, LinkLogin, SaveMetadata, SetStatus,
       ListGroups, ListGroup, ReadGroup, WriteGroup, ReplaceEntity, Refetch, SaveNewGroup, FindGroup,
       RenameGroup, DropGroup, SetGroupUsers, RefetchGroup, UpdateCalls, ReplaceCalls, GroupCalls
  <2>2. op'[r] = op[r]
    BY <2>1, AccountsAlone DEF Proper, GoesOn, Begins, UpdateCalls, ReplaceCalls, GroupCalls
  <2>3. op[r].does \notin Deletions
    BY <2>1 DEF RequestsInv, AtItsCall, CreateCalls, GroupOps, AfterFindGroup, Deletions
  <2> QED  BY <1>8, <2>2, <2>3
<1> QED  BY <1>2, <1>3, <1>4, <1>5, <1>6, <1>7, <1>8

LEMMA SessionSteps ==
    ASSUME OverInv, RequestsInv, DirectoryInv, NEW r \in Requests, SessionHandlers(r), ~TokenEnds(r)
    PROVE  Deleting(r)' /\ Bearing(r)' /\ Revoked(r)'
<1>0. Alone(r) /\ AtItsCall(at'[r], op'[r].does)
  BY SessionsAlone DEF Proper, Reaches
<1>1. op'[r].does \in SessionOps
  BY SessionKind
<1>2. Deleting(r)'
  BY <1>0, <1>1 DEF Deleting, AtItsCall, SessionOps, BearerOps, Deletions
<1>a. ASSUME NEW next, Proceed(r, next) \/ Fail(r, next),
             seen' = seen \/ \E what : Remember(r, what)
      PROVE  at'[r] = next /\ op'[r] = op[r]
  BY <1>a, ProceedAlone
\* What ended stays as it was.
<1>b. ASSUME at[r] # "done", NEW s, LoginDone(s) \/ EndedBy(s)
      PROVE  s # r /\ op'[s] = op[s] /\ at'[s] = at[s] /\ seen'[s] = seen[s]
  BY <1>0, <1>b DEF Alone, LoginDone, EndedBy
<1>3. CASE SessionRequest(r)
  <2>0. at'[r] \in {"login", "token"}
    <3>1. seen' = seen
      BY <1>3 DEF SessionRequest
    <3>2. ASSUME NEW o, NEW first \in {"login", "token"}, Begin(r, o, first)
          PROVE  at'[r] = first
      BY <3>1, <3>2, BeginAlone
    <3> QED  BY <1>3, <3>2 DEF SessionRequest
  <2>1. Revoked(r)'
    BY <2>0 DEF Revoked
  <2>2. seen'[r] = Nothing
    BY <1>3 DEF SessionRequest, Begin, OverInv, Fresh
  <2>3. CASE op'[r].does = "login"
    BY <1>2, <2>1, <2>3 DEF Bearing, BearerOps
  <2>4. CASE op'[r].does # "login"
    <3>1. PICK s \in Requests : LoginDone(s) /\ op'[r].item = [of |-> s, after |-> Ended]
      <4>1. ASSUME NEW o \in workload, NEW x PROVE [o EXCEPT !.item = x].item = x
        BY OperationAssumption DEF RequestsInv
      <4>2. ASSUME NEW o \in workload, Begin(r, o, "login"), o.does = "login" PROVE FALSE
        <5>1. seen' = seen
          BY <1>3 DEF SessionRequest
        <5> QED  BY <2>4, <4>2, <5>1, BeginAlone
      <4>3. PICK o \in workload, s \in Requests :
                LoginDone(s) /\ Begin(r, [o EXCEPT !.item = [of |-> s, after |-> Ended]], "token")
        BY <1>3, <4>2 DEF SessionRequest, LoginDone
      <4>4. PICK o2 : o2 = [o EXCEPT !.item = [of |-> s, after |-> Ended]]
        OBVIOUS
      <4>5. op'[r] = o2
        BY <1>3, <4>3, <4>4, BeginAlone DEF SessionRequest
      <4> QED  BY <4>1, <4>3, <4>4, <4>5
    <3>2. at[r] = "idle"
      BY <1>3 DEF SessionRequest, Begin
    <3>3. \A q \in Ended : EndedBy(q)
      BY DEF Ended, EndedBy
    <3>4. LoginDone(s)' /\ \A q \in Ended : EndedBy(q)'
      BY <1>b, <3>1, <3>2, <3>3 DEF LoginDone, EndedBy
    <3> QED  BY <1>2, <2>0, <2>1, <2>2, <3>1, <3>4 DEF Bearing
  <2> QED  BY <2>3, <2>4
<1>4. CASE Login(r)
  <2>1. op'[r].does = "login"
    BY <1>4, <1>a DEF Login, RequestsInv, AtItsCall
  <2> QED  BY <1>2, <2>1 DEF Bearing, Revoked, BearerOps
<1>5. CASE ~SessionRequest(r) /\ ~Login(r)
  <2>1. LookUpToken(r) \/ LookUpEntity(r) \/ Logout(r)
    BY <1>5 DEF SessionHandlers
  <2>2. at[r] \in BearerCalls
    BY <2>1 DEF LookUpToken, LookUpEntity, Logout, BearerCalls
  <2>3. op[r].does \in BearerOps /\ at[r] # "idle" /\ at[r] # "done"
    BY <2>2 DEF RequestsInv, AtItsCall, BearerCalls
  <2>4. op'[r] = op[r]
    BY <2>3, SessionsAlone DEF Proper, GoesOn, Begins
  <2>5. LoginDone(op[r].item.of) /\ \A s \in op[r].item.after : EndedBy(s)
    BY <2>3 DEF OverInv, Bearing
  <2>6. LoginDone(op[r].item.of)' /\ \A s \in op[r].item.after : EndedBy(s)'
    BY <1>b, <2>3, <2>4, <2>5 DEF LoginDone, EndedBy
  \* As long as the principal is the same, so is what is over for it.
  <2>7. seen'[r].principal = seen[r].principal /\ Over(r) => Over(r)'
    BY <1>b, <2>3, <2>4, <2>5 DEF Over
  <2>8. CASE LookUpToken(r)
    <3>1. seen' = seen /\ at'[r] \notin {"revoke", "done"}
      BY <1>a, <2>8 DEF LookUpToken
    <3> QED
      BY <1>2, <2>3, <2>4, <2>6, <2>7, <3>1 DEF OverInv, Bearing, Revoked
  <2>9. CASE LookUpEntity(r)
    <3>1. PICK i : i = token[op[r].item.of]
      OBVIOUS
    <3>2. CASE Resolves(i) /\ Remember(r, [principal |-> i, revoked |-> FALSE])
      <4>1. seen'[r] = [principal |-> i, revoked |-> FALSE]
        BY <3>2 DEF Remember, RequestsInv
      <4>2. i # Nothing
        BY <3>2, SessionAssumption DEF Resolves
      <4>3. ASSUME NEW s \in op[r].item.after, op[s].does = "logout", seen[s].revoked
            PROVE  op[s].item.of # op[r].item.of
        BY <2>5, <3>1, <4>2, <4>3 DEF EndedBy, OverInv, Revoked
      <4>4. ASSUME NEW s \in op[r].item.after, op[s].does # "logout"
            PROVE  op[s].item.id # i
        <5>1. op[s].item.id \in DOMAIN entities /\ entities[op[s].item.id] = Nothing
          BY <2>5, <4>4 DEF EndedBy, OverInv, Deleting
        <5>2. DOMAIN entities = 1 .. Len(entities) /\ Len(entities) \in Nat
          BY ListedDomain DEF DirectoryInv, Rows
        <5>3. op[s].item.id # Stranger /\ ~Known(entities, op[s].item.id)
          BY <5>1, <5>2 DEF Stranger, Known
        <5> QED  BY <3>2, <5>3 DEF Resolves
      <4>5. Over(r)'
        BY <1>b, <2>3, <2>4, <2>5, <4>1, <4>3, <4>4 DEF Over
      <4>6. {"principal", "revoked"} \subseteq DOMAIN seen'[r] /\ ~seen'[r].revoked
        BY <4>1
      <4> QED  BY <1>2, <2>4, <2>6, <4>5, <4>6 DEF Bearing, Revoked
    <3>3. CASE seen' = seen /\ at'[r] = "refused"
      BY <1>2, <2>3, <2>4, <2>6, <2>7, <3>3 DEF OverInv, Bearing, Revoked
    <3>4. \/ Resolves(i) /\ Remember(r, [principal |-> i, revoked |-> FALSE])
          \/ seen' = seen /\ at'[r] = "refused"
      BY <1>a, <2>9, <3>1 DEF LookUpEntity
    <3> QED  BY <3>2, <3>3, <3>4
  <2>10. CASE Logout(r)
    <3>1. /\ at[r] = "revoke" /\ at'[r] = "done"
          /\ \/ /\ token' = [token EXCEPT ![op[r].item.of] = Nothing]
                /\ Remember(r, [seen[r] EXCEPT !.revoked = TRUE])
             \/ seen' = seen
      BY <1>a, <2>10 DEF Logout
    <3>2. Over(r) /\ {"principal", "revoked"} \subseteq DOMAIN seen[r] /\ ~seen[r].revoked
      BY <2>3, <3>1 DEF OverInv, Bearing
    <3>3. CASE Remember(r, [seen[r] EXCEPT !.revoked = TRUE])
               /\ token' = [token EXCEPT ![op[r].item.of] = Nothing]
      <4>1. seen'[r].principal = seen[r].principal
        BY <3>2, <3>3 DEF Remember, RequestsInv
      <4>2. token'[op[r].item.of] = Nothing
        BY <2>5, <3>3 DEF LoginDone, RequestsInv
      <4> QED  BY <1>2, <2>4, <2>6, <2>7, <3>1, <3>2, <4>1, <4>2 DEF Bearing, Revoked
    <3>4. CASE seen' = seen
      BY <1>2, <2>4, <2>6, <2>7, <3>1, <3>2, <3>4 DEF Bearing, Revoked
    <3> QED  BY <3>1, <3>3, <3>4
  <2> QED  BY <2>1, <2>8, <2>9, <2>10
<1> QED  BY <1>3, <1>4, <1>5

LEMMA OverStep ==
    ASSUME OverInv, RequestsInv, DirectoryInv, NEW r \in Requests, StepOf(r)
    PROVE  OverInv'
<1>1. CASE AccountHandlers(r) /\ ~TokenEnds(r)
  BY <1>1, DeletionSteps, OverFrame
<1>2. CASE SessionHandlers(r) /\ ~TokenEnds(r)
  BY <1>2, SessionSteps, OverFrame
<1>3. CASE (SignOnHandlers(r) \/ StartupHandlers(r)) /\ ~TokenEnds(r)
  <2>1. op'[r].does \in SignOnOps \cup {"startReplica"}
    BY <1>3, SignOnKind, StartupKind DEF SignOnOps
  <2>2. AtItsCall(at'[r], op'[r].does)
    BY <1>3, StepAlone DEF Proper, Reaches
  <2>3. Deleting(r)' /\ Bearing(r)' /\ Revoked(r)'
    BY <2>1, <2>2 DEF Deleting, Bearing, Revoked, AtItsCall, SignOnOps, Deletions, BearerOps
  <2> QED  BY <1>3, <2>3, OverFrame
<1>4. CASE TokenEnds(r)
  <2>1. UNCHANGED <<op, at, seen, entities>> /\ token' = [token EXCEPT ![r] = Nothing]
    BY <1>4 DEF TokenEnds, requestVars, directory
  <2>2. \A s \in Requests : token'[s] \in {token[s], Nothing}
    BY <2>1 DEF RequestsInv
  <2>3. ASSUME NEW s \in Requests PROVE Deleting(s)' /\ Bearing(s)' /\ Fresh(s)'
    BY <2>1 DEF OverInv, Deleting, Bearing, Fresh, Known, LoginDone, EndedBy, Over
  <2>4. ASSUME NEW s \in Requests PROVE Revoked(s)'
    <3> SUFFICES ASSUME at[s] = "done", op[s].does = "logout", seen[s].revoked
                 PROVE  token'[op[s].item.of] = Nothing
      BY <2>1 DEF Revoked
    <3>1. LoginDone(op[s].item.of) /\ token[op[s].item.of] = Nothing
      BY DEF OverInv, Bearing, Revoked, BearerOps
    <3> QED  BY <2>2, <3>1 DEF LoginDone
  <2> QED  BY <2>3, <2>4 DEF OverInv
<1> QED  BY <1>1, <1>2, <1>3, <1>4 DEF StepOf

\* A request made after the deletion of an entity was answered is not admitted
\* as that entity, nor one made with a token after the logout that revoked it.
THEOREM EndedSessions == IdentitySpec => []OverIsOver
<1>1. IdentityInit => OverInv
  BY DEF IdentityInit, RequestsInit, OverInv, Deleting, Bearing, Revoked, Fresh, DropCalls
<1>2. RequestsInv /\ DirectoryInv /\ OverInv /\ [IdentityNext]_identityVars => OverInv'
  <2> SUFFICES ASSUME RequestsInv, DirectoryInv, OverInv, [IdentityNext]_identityVars
               PROVE  OverInv'
    OBVIOUS
  <2>1. ASSUME NEW r \in Requests, StepOf(r) PROVE OverInv'
    BY <2>1, OverStep
  <2>2. CASE UNCHANGED identityVars
    <3>1. UNCHANGED <<op, at, seen, entities, token>>
      BY <2>2 DEF identityVars, requestVars, directory
    <3> QED
      BY <3>1 DEF OverInv, Deleting, Bearing, Revoked, Fresh, Known, LoginDone, EndedBy, Over
  <2> QED  BY <2>1, <2>2 DEF IdentityNext, StepOf
<1>3. OverInv => OverIsOver
  BY DEF OverInv, Bearing, Fresh, OverIsOver, Over
<1> QED  BY <1>1, <1>2, <1>3, RequestsHold, DirectoryHolds, PTL DEF IdentitySpec
-----------------------------------------------------------------------------
(* Who can log in.                                                         *)

\* The calls of a request that has read the user's entity.
FoundCalls == DropCalls \cup {"saveMetadata", "setStatus", "replaceEntity"}

\* A request about a user works on the login and the entities of its own user:
\* the number it bears is the user's, and what it read.
Course(r) ==
    /\ at[r] \in CreateCalls => op[r].name \in Users /\ op[r] # Nothing
    /\ at[r] \in {"saveMetadata", "replaceEntity"} => seen[r] \in Entity
    /\ at[r] \in FoundCalls \cup {"find"} => Addressed(op[r])
    /\ at[r] \in FoundCalls => seen[r].name = op[r].name

EntitiesTyped ==
    /\ entities \in Seq(Entity \cup {Nothing})
    /\ \A r \in Requests : Course(r)

LEMMA EntityRow ==
    ASSUME EntitiesTyped
    PROVE  /\ DOMAIN entities = 1 .. Len(entities) /\ Len(entities) \in Nat
           /\ entities \in [1 .. Len(entities) -> Entity \cup {Nothing}]
           /\ \A i \in DOMAIN entities : Known(entities, i) => entities[i] \in Entity
<1>1. PICK S : S = Entity \cup {Nothing}
  OBVIOUS
<1>2. entities \in Seq(S)
  BY <1>1 DEF EntitiesTyped
<1>3. /\ DOMAIN entities = 1 .. Len(entities) /\ Len(entities) \in Nat
      /\ entities \in [1 .. Len(entities) -> S]
  BY <1>2, LenProperties
<1> QED  BY <1>1, <1>3 DEF Known

LEMMA EntitiesRewritten ==
    ASSUME EntitiesTyped, entities' \in [DOMAIN entities -> Entity \cup {Nothing}]
    PROVE  entities' \in Seq(Entity \cup {Nothing})
BY EntityRow, SeqDef

LEMMA WroteTyped ==
    ASSUME NEW r \in Requests \cup {Original, Nothing}, NEW given
    PROVE  Wrote(r, given) \in [Fields -> Requests \cup {Original, Nothing}]
BY DEF Wrote

LEMMA SaveEntityTyped ==
    ASSUME EntitiesTyped, NEW n \in Users, NEW meta \in [Fields -> Requests \cup {Original, Nothing}],
           NEW off \in BOOLEAN, SaveEntity(n, meta, off)
    PROVE  /\ entities' \in Seq(Entity \cup {Nothing})
           /\ Named(entities, n)' # {}
           /\ \A m : Named(entities, m) # {} => Named(entities, m)' # {}
<1>0. /\ DOMAIN entities = 1 .. Len(entities) /\ Len(entities) \in Nat
      /\ \A i \in DOMAIN entities : Known(entities, i) => entities[i] \in Entity
  BY EntityRow
<1>1. CASE Named(entities, n) = {}
  <2>1. PICK row : row = [name |-> n, meta |-> meta, linked |-> FALSE, disabled |-> off]
    OBVIOUS
  <2>2. row \in Entity /\ row.name = n /\ row # Nothing
    <3>1. PICK M : M = [Fields -> Requests \cup {Original, Nothing}]
      OBVIOUS
    <3>2. row \in [name : Users, meta : M, linked : BOOLEAN, disabled : BOOLEAN] /\ row.name = n
      BY <2>1, <3>1
    <3>3. row \in Entity
      BY <3>1, <3>2 DEF Entity
    <3> QED  BY <3>2, <3>3, EntityAssumption
  <2>3. PICK S, s : S = Entity \cup {Nothing} /\ s = entities
    OBVIOUS
  <2>4. s \in Seq(S) /\ row \in S /\ entities' = Append(s, row)
    BY <1>1, <2>1, <2>2, <2>3 DEF EntitiesTyped, SaveEntity
  <2>5. /\ entities' \in Seq(S) /\ Len(entities') = Len(s) + 1
        /\ entities'[Len(s) + 1] = row /\ \A i \in 1 .. Len(s) : entities'[i] = s[i]
    BY <2>4, AppendProperties
  <2>6. DOMAIN entities' = 1 .. (Len(s) + 1) /\ Len(s) \in Nat
    BY <1>0, <2>3, <2>5, LenProperties
  <2>7. Len(s) + 1 \in Named(entities, n)'
    BY <2>2, <2>5, <2>6 DEF Named, Known
  <2>8. ASSUME NEW m, NEW i \in Named(entities, m) PROVE i \in Named(entities, m)'
    BY <1>0, <2>3, <2>5, <2>6 DEF Named, Known
  <2> QED  BY <2>3, <2>5, <2>7, <2>8
<1>2. CASE Named(entities, n) # {}
  <2>1. /\ DOMAIN entities' = DOMAIN entities
        /\ entities' = [i \in DOMAIN entities |-> entities'[i]]
        /\ \A i \in DOMAIN entities : entities'[i] =
               IF i \in Named(entities, n) THEN [entities[i] EXCEPT !.meta = meta, !.disabled = off]
               ELSE entities[i]
    BY <1>2 DEF SaveEntity
  <2>2. ASSUME NEW i \in Named(entities, n)
        PROVE  entities'[i] \in Entity /\ entities'[i].name = entities[i].name
    <3>1. PICK row, new : row = entities[i] /\ new = [row EXCEPT !.meta = meta, !.disabled = off]
      OBVIOUS
    <3>2. row \in Entity
      BY <1>0, <3>1 DEF Named
    <3>3. new \in Entity /\ new.name = row.name
      BY <3>1, <3>2 DEF Entity
    <3>4. i \in DOMAIN entities
      BY DEF Named
    <3> QED  BY <2>1, <3>1, <3>3, <3>4
  <2>3. ASSUME NEW m, NEW i \in Named(entities, m) PROVE i \in Named(entities, m)'
    <3>1. CASE i \in Named(entities, n)
      BY <2>1, <2>2, <3>1, EntityAssumption DEF Named, Known
    <3>2. CASE i \notin Named(entities, n)
      BY <2>1, <3>2 DEF Named, Known
    <3> QED  BY <3>1, <3>2
  <2>4. \A i \in DOMAIN entities : entities'[i] \in Entity \cup {Nothing}
    BY <1>0, <2>1, <2>2 DEF Known
  <2>5. entities' \in Seq(Entity \cup {Nothing})
    BY <2>1, <2>4, EntitiesRewritten
  <2> QED  BY <1>2, <2>3, <2>5
<1> QED  BY <1>1, <1>2

\* One entity is changed in place, and stays.
LEMMA EntityUpdated ==
    ASSUME EntitiesTyped, NEW i, Known(entities, i), NEW row \in Entity, row.name = entities[i].name,
           entities' = [entities EXCEPT ![i] = row]
    PROVE  /\ entities' \in Seq(Entity \cup {Nothing})
           /\ \A m : Named(entities, m) # {} => Named(entities, m)' # {}
<1>1. /\ DOMAIN entities' = DOMAIN entities
      /\ entities' = [j \in DOMAIN entities |-> entities'[j]]
      /\ \A j \in DOMAIN entities : entities'[j] = IF j = i THEN row ELSE entities[j]
  OBVIOUS
<1>2. \A j \in DOMAIN entities : entities'[j] \in Entity \cup {Nothing}
  BY <1>1, EntityRow DEF Known
<1>3. entities' \in Seq(Entity \cup {Nothing})
  BY <1>1, <1>2, EntitiesRewritten
<1>4. ASSUME NEW m, NEW j \in Named(entities, m) PROVE j \in Named(entities, m)'
  BY <1>1, EntityAssumption DEF Named, Known
<1> QED  BY <1>3, <1>4

\* n has an entity; who can log in as n has one.
Has(n)   == Named(entities, n) # {}
Quiet(n) == n \in logins => Has(n)

\* What a request holds its user to between two of its calls.
Holds(r) ==
    /\ at[r] = "putLogin" /\ op[r].does = "scimCreateUser" => Has(op[r].name)
    /\ at[r] = "setStatus" => Has(op[r].name)
    /\ at[r] = "dropEntity" => op[r].name \notin logins

\* A step of r does nothing to other users, and for its own, unless the call
\* fails, leaves what the next call needs.
Elsewhere(r) ==
    \A m : m # op'[r].name => (m \in logins' <=> m \in logins) /\ (Has(m) => Has(m)')

OwnUser(r) ==
    /\ op'[r].name \notin trouble'
    /\ Quiet(op'[r].name) \/ at[r] = "saveEntity"
    /\ Holds(r)
    => Holds(r)' /\ (Quiet(op[r].name)' \/ at'[r] = "saveEntity")

Tidy(r) == entities' \in Seq(Entity \cup {Nothing}) /\ Course(r)' /\ Elsewhere(r) /\ OwnUser(r)

\* The calls that say nothing about the user of their request.
MarkedCalls == CreateCalls \cup FoundCalls \cup {"find"}

LEMMA TidyUntouched ==
    ASSUME EntitiesTyped, NEW r \in Requests, UNCHANGED <<logins, entities>>,
           at'[r] \notin MarkedCalls, at[r] # "saveEntity"
    PROVE  Tidy(r)
<1>1. Course(r)'
  BY DEF Course, MarkedCalls, CreateCalls, FoundCalls, DropCalls
<1>2. Elsewhere(r)
  BY DEF Elsewhere, Has
<1>3. Holds(r)'
  BY DEF Holds, MarkedCalls, CreateCalls, FoundCalls, DropCalls
<1>4. Quiet(op'[r].name) => Quiet(op[r].name)'
  BY DEF Quiet, Has
<1> QED
  BY <1>1, <1>2, <1>3, <1>4 DEF Tidy, EntitiesTyped, OwnUser

LEMMA FailTroubles ==
    ASSUME RequestsInv, NEW r \in Requests, NEW next, Fail(r, next)
    PROVE  op' = op /\ at'[r] = next /\ op[r].name \in trouble'
BY DEF Fail, RequestsInv, trouble

LEMMA TidyRequest ==
    ASSUME EntitiesTyped, RequestsInv, NEW r \in Requests, AccountRequest(r)
    PROVE  Tidy(r)
<1>1. /\ seen' = seen /\ logins' = logins /\ entities' = entities
      /\ at[r] = "idle"
  BY DEF AccountRequest, directory, Begin
<1>2. ASSUME NEW o \in workload, o.does \in DOMAIN UserOps,
             UserOps[o.does] = "find" => Addressed(o), Begin(r, o, UserOps[o.does])
      PROVE  Tidy(r)
  <2>1. op'[r] = o /\ at'[r] = UserOps[o.does]
    BY <1>1, <1>2, BeginAlone
  <2>2. o.name \in Users /\ o # Nothing
    BY <1>2, OperationAssumption DEF RequestsInv
  <2>3. /\ UserOps[o.does] \in {"putLogin", "saveEntity", "find"}
        /\ UserOps[o.does] = "putLogin" => o.does # "scimCreateUser"
    BY <1>2 DEF UserOps
  <2>4. Course(r)'
    BY <1>1, <1>2, <2>1, <2>2, <2>3 DEF Course, FoundCalls, DropCalls, CreateCalls, Addressed, Known
  <2>5. Elsewhere(r) /\ OwnUser(r)
    BY <1>1, <2>1, <2>3 DEF Has, Elsewhere, OwnUser, Holds, Quiet
  <2> QED  BY <1>1, <2>4, <2>5 DEF Tidy, EntitiesTyped
<1>3. ASSUME NEW o \in workload, o.does \in DOMAIN GroupOps, Begin(r, o, GroupOps[o.does])
      PROVE  Tidy(r)
  <2>1. at'[r] = GroupOps[o.does]
    BY <1>1, <1>3, BeginAlone
  <2>2. GroupOps[o.does] \in {"saveGroup", "findGroup", "setMembers"}
    BY <1>3 DEF GroupOps
  <2> QED
    BY <1>1, <2>1, <2>2, TidyUntouched DEF MarkedCalls, CreateCalls, FoundCalls, DropCalls
<1> QED  BY <1>2, <1>3 DEF AccountRequest

LEMMA TidyCreate ==
    ASSUME EntitiesTyped, RequestsInv, NEW r \in Requests,
           CreateLogin(r) \/ CreateEntity(r) \/ LinkLogin(r)
    PROVE  Tidy(r)
<1>0. at[r] \in CreateCalls /\ at[r] # "idle"
  BY DEF CreateLogin, CreateEntity, LinkLogin, CreateCalls
<1>1. /\ op[r].does \in {"createUser", "scimCreateUser"}
      /\ op[r].name \in Users /\ op[r] # Nothing
  BY <1>0 DEF RequestsInv, AtItsCall, EntitiesTyped, Course
<1>2. op'[r] = op[r]
  BY <1>0, AccountsAlone DEF AccountHandlers, Proper, GoesOn, Begins
<1> DEFINE n == op[r].name
<1>a. ASSUME NEW next, Proceed(r, next) \/ Fail(r, next),
             seen' = seen \/ \E what : Remember(r, what)
      PROVE  at'[r] = next
  BY <1>a, ProceedAlone
<1>3. ASSUME at'[r] \notin FoundCalls \cup {"find"} PROVE Course(r)'
  BY <1>1, <1>2, <1>3 DEF Course, FoundCalls
<1>4. CASE CreateLogin(r)
  <2>1. entities' = entities /\ (logins' = logins \/ logins' = logins \cup {n})
    BY <1>4 DEF CreateLogin, Call, PutLogin, directory
  <2>2. at'[r] \in {"saveEntity", "done", "refused"} /\ at[r] = "putLogin"
        /\ (op[r].does = "createUser" => at'[r] # "done")
    BY <1>4, <1>a DEF CreateLogin, Call
  <2>3. n \notin trouble' => at'[r] # "refused"
    BY <1>4, <2>2, FailTroubles, ProceedAlone DEF CreateLogin, Call
  <2>4. Elsewhere(r)
    BY <1>2, <2>1 DEF Elsewhere, Has
  <2>5. OwnUser(r)
    <3>2. CASE op[r].does = "createUser"
      BY <1>2, <2>2, <2>3, <3>2 DEF OwnUser, Holds
    <3>3. CASE op[r].does = "scimCreateUser"
      BY <1>2, <2>1, <2>2, <2>3, <3>3 DEF OwnUser, Holds, Quiet, Has
    <3> QED  BY <1>1, <3>2, <3>3
  <2> QED
    BY <1>3, <2>1, <2>2, <2>4, <2>5 DEF Tidy, EntitiesTyped, FoundCalls, DropCalls
<1>5. CASE CreateEntity(r)
  <2>1. PICK meta, off : /\ meta = IF op[r].does = "createUser" THEN Wrote(r, AcFields)
                                   ELSE FromScim(r)
                         /\ off = \E i \in Named(entities, n) : entities[i].disabled
    OBVIOUS
  <2>2. meta \in [Fields -> Requests \cup {Original, Nothing}] /\ off \in BOOLEAN
    BY <2>1, WroteTyped DEF FromScim
  <2>4. /\ logins' = logins
        /\ \/ SaveEntity(n, meta, off) /\ at'[r] \in {"link", "putLogin", "done", "refused"}
           \/ entities' = entities /\ at'[r] = "refused" /\ n \in trouble'
    <3>1. ASSUME NEW next \in {"link", "putLogin", "done", "refused"},
                 Call(r, SaveEntity(n, meta, off), next, "refused"),
                 \E what : Remember(r, what)
          PROVE  /\ logins' = logins
                 /\ \/ SaveEntity(n, meta, off) /\ at'[r] \in {"link", "putLogin", "done", "refused"}
                    \/ entities' = entities /\ at'[r] = "refused" /\ n \in trouble'
      BY <3>1, <1>a, FailTroubles DEF Call, directory, SaveEntity
    <3> QED  BY <1>5, <2>1, <3>1 DEF CreateEntity
  <2>5. at[r] = "saveEntity" /\ (op[r].does = "createUser" => at'[r] # "putLogin")
    BY <1>5, <1>a DEF CreateEntity, Call
  <2>6. CASE SaveEntity(n, meta, off)
    <3>1. /\ entities' \in Seq(Entity \cup {Nothing}) /\ Has(op[r].name)'
          /\ \A m : Has(m) => Has(m)'
      BY <1>1, <1>2, <2>2, <2>6, SaveEntityTyped DEF Has
    <3>2. Elsewhere(r)
      BY <2>4, <3>1 DEF Elsewhere
    <3>3. at'[r] \in {"link", "putLogin", "done", "refused"}
      BY <2>4
    <3>4. OwnUser(r)
      BY <3>1, <3>3 DEF OwnUser, Holds, Quiet
    <3> QED
      BY <1>3, <3>1, <3>2, <3>3, <3>4 DEF Tidy, FoundCalls, DropCalls
  <2>7. CASE entities' = entities /\ at'[r] = "refused" /\ n \in trouble'
    BY <1>2, <1>3, <2>4, <2>7
       DEF Tidy, EntitiesTyped, Elsewhere, OwnUser, Has, FoundCalls, DropCalls
  <2> QED  BY <2>4, <2>6, <2>7
<1>6. CASE LinkLogin(r)
  <2>1. at'[r] = "done" /\ at[r] = "link"
    BY <1>6, <1>a DEF LinkLogin, Call
  <2>2. PICK i, row : i = seen[r] /\ row = [entities[i] EXCEPT !.linked = TRUE]
    OBVIOUS
  <2>3. /\ logins' = logins
        /\ \/ entities' = entities
           \/ Known(entities, i) /\ entities' = [entities EXCEPT ![i] = row]
    BY <1>6, <2>2 DEF LinkLogin, Call, directory
  <2>4. entities' \in Seq(Entity \cup {Nothing}) /\ \A m : Has(m) => Has(m)'
    <3>1. CASE entities' = entities
      BY <3>1 DEF EntitiesTyped, Has
    <3>2. CASE Known(entities, i) /\ entities' = [entities EXCEPT ![i] = row]
      <4>1. row \in Entity /\ row.name = entities[i].name
        <5>1. entities[i] \in Entity
          BY <3>2, EntityRow DEF Known
        <5> QED  BY <2>2, <5>1 DEF Entity
      <4> QED  BY <3>2, <4>1, EntityUpdated DEF Has
    <3> QED  BY <2>3, <3>1, <3>2
  <2>5. Elsewhere(r)
    BY <2>3, <2>4 DEF Elsewhere
  <2>6. OwnUser(r)
    <3>1. Has(op[r].name) => Has(op[r].name)'
      BY <1>2, <2>4 DEF Has
    <3> QED  BY <1>2, <2>1, <2>3, <3>1 DEF OwnUser, Holds, Quiet
  <2> QED
    BY <1>3, <2>1, <2>4, <2>5, <2>6 DEF Tidy, FoundCalls, DropCalls
<1> QED  BY <1>4, <1>5, <1>6

LEMMA TidyFound ==
    ASSUME EntitiesTyped, RequestsInv, DirectoryInv, NEW r \in Requests,
           \/ FindUser(r) \/ SaveMetadata(r) \/ SetStatus(r)
           \/ DeleteLogin(r) \/ DeleteEntity(r) \/ ReplaceEntity(r)
    PROVE  Tidy(r)
<1>0. at[r] \in FoundCalls \cup {"find"} /\ at[r] # "idle" /\ at[r] # "saveEntity"
  BY DEF FindUser, SaveMetadata, SetStatus, DeleteLogin, DeleteEntity, ReplaceEntity,
     FoundCalls, DropCalls
<1>1. op[r].does \in DOMAIN AfterFind
  BY <1>0 DEF RequestsInv, AtItsCall, FoundCalls, DropCalls, UpdateCalls, ReplaceCalls,
     AfterFind, Deletions
<1>2. op'[r] = op[r]
  BY <1>0, AccountsAlone DEF AccountHandlers, Proper, GoesOn, Begins
<1> DEFINE n == op[r].name
           i == op[r].item.id
<1>3. /\ i \in DOMAIN entities
      /\ Known(entities, i) => entities[i] \in Entity /\ entities[i].name = n
  BY <1>0, EntityRow DEF EntitiesTyped, Course, Addressed
<1>4. at[r] # "find" => seen[r].name = n
  BY <1>0 DEF EntitiesTyped, Course
<1>a. ASSUME NEW next, Proceed(r, next) \/ Fail(r, next),
             seen' = seen \/ \E what : Remember(r, what)
      PROVE  at'[r] = next
  BY <1>a, ProceedAlone
\* The number stays the user's.
<1>5. Addressed(op[r])'
  <2>1. Grows(entities, entities')
    BY AccountsKeepRows DEF AccountHandlers
  <2> QED  BY <1>2, <1>3, <2>1 DEF Addressed, Grows, Known
<1>6. CASE FindUser(r)
  <2>1. logins' = logins /\ entities' = entities /\ at[r] = "find"
    BY <1>6 DEF FindUser, directory
  <2>2. \/ /\ Known(entities, i) /\ seen'[r] = entities[i] /\ at'[r] = AfterFind[op[r].does]
        \/ at'[r] = "refused"
    BY <1>6, <1>a DEF FindUser, Remember, RequestsInv
  <2>3. AfterFind[op[r].does] \in {"saveMetadata", "dropLogin", "replaceEntity"}
    BY <1>1 DEF AfterFind
  <2>4. Course(r)'
    BY <1>2, <1>3, <1>5, <2>2, <2>3 DEF Course, FoundCalls, DropCalls, CreateCalls
  <2>5. Elsewhere(r) /\ OwnUser(r)
    BY <1>2, <2>1, <2>2, <2>3 DEF Elsewhere, OwnUser, Holds, Quiet, Has
  <2> QED  BY <2>1, <2>4, <2>5 DEF Tidy, EntitiesTyped
<1>7. CASE SaveMetadata(r)
  <2>1. PICK row : row = [entities[i] EXCEPT !.meta = Kept(r)]
    OBVIOUS
  <2>2. /\ logins' = logins /\ seen' = seen /\ at[r] = "saveMetadata"
        /\ \/ entities' = entities
           \/ Known(entities, i) /\ entities' = [entities EXCEPT ![i] = row]
    BY <1>7, <2>1 DEF SaveMetadata, Call, directory
  <2>3. at'[r] \in {"setStatus", "listGroups", "done", "refused"}
        /\ (at'[r] = "setStatus" => Known(entities, i))
    BY <1>7, <1>a DEF SaveMetadata, Call, AfterMetadata
  <2>4. entities' \in Seq(Entity \cup {Nothing}) /\ \A m : Has(m) => Has(m)'
    <3>1. CASE entities' = entities
      BY <3>1 DEF EntitiesTyped, Has
    <3>2. CASE Known(entities, i) /\ entities' = [entities EXCEPT ![i] = row]
      <4>1. row \in Entity /\ row.name = entities[i].name
        <5>1. PICK M, meta : M = [Fields -> Requests \cup {Original, Nothing}] /\ meta = Kept(r)
          OBVIOUS
        <5>2. seen[r].meta \in [Fields -> Requests \cup {Original, Nothing}]
          BY <2>2 DEF EntitiesTyped, Course, Entity
        <5>3. meta \in M
          BY <5>1, <5>2 DEF Kept
        <5>4. PICK old : old = entities[i] /\ old \in Entity
          BY <1>3, <3>2
        <5>5. old \in [name : Users, meta : M, linked : BOOLEAN, disabled : BOOLEAN]
          BY <5>1, <5>4 DEF Entity
        <5>6. [old EXCEPT !.meta = meta] \in [name : Users, meta : M, linked : BOOLEAN, disabled : BOOLEAN]
              /\ [old EXCEPT !.meta = meta].name = old.name
          BY <5>3, <5>5
        <5> QED  BY <2>1, <5>1, <5>4, <5>6 DEF Entity
      <4> QED  BY <3>2, <4>1, EntityUpdated DEF Has
    <3> QED  BY <2>2, <3>1, <3>2
  <2>5. Course(r)'
    BY <1>2, <1>4, <1>5, <2>2, <2>3 DEF Course, FoundCalls, DropCalls, CreateCalls
  <2>6. Elsewhere(r)
    BY <2>2, <2>4 DEF Elsewhere
  <2>7. OwnUser(r)
    <3>1. Has(op[r].name) => Has(op[r].name)'
      BY <1>2, <2>4 DEF Has
    <3>2. at'[r] = "setStatus" => Has(op[r].name)
      BY <1>3, <2>3 DEF Has, Named
    <3> QED  BY <1>2, <2>2, <2>3, <3>1, <3>2 DEF OwnUser, Holds, Quiet
  <2> QED  BY <2>4, <2>5, <2>6, <2>7 DEF Tidy
<1>8. CASE SetStatus(r)
  <2>1. entities' = entities /\ logins' \in {logins, logins \cup {n}, logins \ {n}}
    BY <1>4, <1>8 DEF SetStatus, Call, PutLogin, DropLogin, directory
  <2>2. at[r] = "setStatus" /\ at'[r] \in {"listGroups", "done"}
    BY <1>8, <1>a DEF SetStatus, Call
  <2>3. Course(r)'
    BY <2>2 DEF Course, FoundCalls, DropCalls, CreateCalls
  <2>4. Elsewhere(r)
    BY <1>2, <2>1 DEF Elsewhere, Has
  <2>5. OwnUser(r)
    BY <1>2, <2>1, <2>2 DEF OwnUser, Holds, Quiet, Has
  <2> QED  BY <2>1, <2>3, <2>4, <2>5 DEF Tidy, EntitiesTyped
<1>9. CASE DeleteLogin(r)
  <2>1. /\ entities' = entities /\ seen' = seen /\ at[r] = "dropLogin" /\ at'[r] = "dropEntity"
        /\ logins' = logins \ {n} \/ (logins' = logins /\ n \in trouble')
    BY <1>4, <1>9, <1>a, FailTroubles DEF DeleteLogin, Call, DropLogin, directory
  <2>2. Course(r)'
    BY <1>2, <1>4, <1>5, <2>1 DEF Course, FoundCalls, DropCalls, CreateCalls
  <2>3. Elsewhere(r)
    BY <1>2, <2>1 DEF Elsewhere, Has
  <2>4. OwnUser(r)
    BY <1>2, <2>1 DEF OwnUser, Holds, Quiet, Has
  <2> QED  BY <2>1, <2>2, <2>3, <2>4 DEF Tidy, EntitiesTyped
<1>10. CASE DeleteEntity(r)
  <2>1. at[r] = "dropEntity" /\ at'[r] \in {"done", "refused"}
    BY <1>10, <1>a DEF DeleteEntity, Call
  <2>2. PICK gone : /\ gone \in {{i}, Named(entities, n)}
                    /\ RemoveEntities(gone) \/ UNCHANGED directory
    BY <1>4, <1>10, <2>1 DEF DeleteEntity, Call
  <2>3. logins' = logins /\ DOMAIN entities' = DOMAIN entities
        /\ \A j \in DOMAIN entities : entities'[j] = entities[j] \/ (j \in gone /\ entities'[j] = Nothing)
    BY <2>2 DEF RemoveEntities, directory
  <2>4. entities' \in Seq(Entity \cup {Nothing})
    <3>1. entities' = [j \in DOMAIN entities |-> entities'[j]]
      <4>1. CASE RemoveEntities(gone)
        BY <4>1 DEF RemoveEntities
      <4>2. CASE entities' = entities
        BY <4>2, EntityRow
      <4> QED  BY <2>2, <4>1, <4>2 DEF directory
    <3>2. \A j \in DOMAIN entities : entities'[j] \in Entity \cup {Nothing}
      BY <2>3, EntityRow DEF Known
    <3> QED  BY <3>1, <3>2, EntitiesRewritten
  <2>5. Course(r)'
    BY <2>1 DEF Course, FoundCalls, DropCalls, CreateCalls
  <2>6. Elsewhere(r)
    <3>1. ASSUME NEW m, m # n, NEW j \in Named(entities, m) PROVE j \in Named(entities, m)'
      BY <1>3, <2>2, <2>3, <3>1 DEF Named, Known
    <3> QED  BY <1>2, <2>3, <3>1 DEF Elsewhere, Has
  <2>7. OwnUser(r)
    BY <1>2, <2>1, <2>3 DEF OwnUser, Holds, Quiet
  <2> QED  BY <2>4, <2>5, <2>6, <2>7 DEF Tidy
<1>11. CASE ReplaceEntity(r)
  <2>1. PICK meta, off : meta = FromScim(r) /\ off = ~op[r].item.active
    OBVIOUS
  <2>2. meta \in [Fields -> Requests \cup {Original, Nothing}] /\ off \in BOOLEAN
    BY <2>1, WroteTyped DEF FromScim
  <2>3. n \in Users
    BY <1>4, <1>11 DEF EntitiesTyped, Course, Entity, ReplaceEntity
  <2>4. /\ logins' = logins /\ at[r] = "replaceEntity" /\ at'[r] \in {"refetch", "refused"}
        /\ SaveEntity(n, meta, off) \/ entities' = entities
    BY <1>4, <1>11, <1>a, <2>1 DEF ReplaceEntity, Call, SaveEntity, directory
  <2>5. entities' \in Seq(Entity \cup {Nothing}) /\ \A m : Has(m) => Has(m)'
    <3>1. CASE SaveEntity(n, meta, off)
      BY <2>2, <2>3, <3>1, SaveEntityTyped DEF Has
    <3>2. CASE entities' = entities
      BY <3>2 DEF EntitiesTyped, Has
    <3> QED  BY <2>4, <3>1, <3>2
  <2>6. Course(r)'
    BY <2>4 DEF Course, FoundCalls, DropCalls, CreateCalls
  <2>7. Elsewhere(r)
    BY <2>4, <2>5 DEF Elsewhere
  <2>8. OwnUser(r)
    <3>1. Has(op[r].name) => Has(op[r].name)'
      BY <1>2, <2>5 DEF Has
    <3> QED  BY <1>2, <2>4, <3>1 DEF OwnUser, Holds, Quiet
  <2> QED  BY <2>5, <2>6, <2>7, <2>8 DEF Tidy
<1> QED  BY <1>6, <1>7, <1>8, <1>9, <1>10, <1>11

LEMMA TidyGroups ==
    ASSUME EntitiesTyped, RequestsInv, NEW r \in Requests,
           \/ ListGroups(r) \/ ListGroup(r) \/ ReadGroup(r) \/ WriteGroup(r) \/ Refetch(r)
           \/ SaveNewGroup(r) \/ FindGroup(r) \/ RenameGroup(r) \/ DropGroup(r)
           \/ SetGroupUsers(r) \/ RefetchGroup(r)
    PROVE  Tidy(r)
<1>a. ASSUME NEW next, Proceed(r, next) \/ Fail(r, next),
             seen' = seen \/ \E what : Remember(r, what)
      PROVE  at'[r] = next
  BY <1>a, ProceedAlone
<1>1. UNCHANGED <<logins, entities>>
  BY DEF ListGroups, ListGroup, ReadGroup, WriteGroup, Refetch, SaveNewGroup, FindGroup, RenameGroup,
     DropGroup, SetGroupUsers, RefetchGroup, Call, SaveGroup, directory
<1>2. at[r] \in {"listGroups", "listGroup", "readGroup", "writeGroup", "refetch", "findGroup"} \cup GroupCalls
  BY DEF ListGroups, ListGroup, ReadGroup, WriteGroup, Refetch, SaveNewGroup, FindGroup, RenameGroup,
     DropGroup, SetGroupUsers, RefetchGroup, GroupCalls
<1>3. at'[r] \in {"listGroup", "readGroup", "writeGroup", "done", "refused", "refetchGroup",
                  "renameGroup", "dropGroup", "saveGroup"}
  <2>1. CASE ListGroups(r) \/ ListGroup(r) \/ ReadGroup(r)
    BY <1>a, <2>1 DEF ListGroups, ListGroup, ReadGroup, NextGroup
  <2>2. CASE WriteGroup(r) \/ Refetch(r)
    BY <1>a, <2>2 DEF WriteGroup, Refetch, Call, NextGroup
  <2>3. CASE SaveNewGroup(r)
    BY <1>a, <2>3 DEF SaveNewGroup, Call
  <2>4. CASE FindGroup(r)
    <3>1. AfterFindGroup[op[r].does] \in {"renameGroup", "dropGroup", "saveGroup"}
      BY <2>4 DEF FindGroup, RequestsInv, AtItsCall, AfterFindGroup
    <3> QED  BY <1>a, <2>4, <3>1 DEF FindGroup
  <2>5. CASE RenameGroup(r) \/ DropGroup(r) \/ SetGroupUsers(r) \/ RefetchGroup(r)
    BY <1>a, <2>5 DEF RenameGroup, DropGroup, SetGroupUsers, RefetchGroup, Call
  <2> QED  BY <2>1, <2>2, <2>3, <2>4, <2>5
<1> QED
  BY <1>1, <1>2, <1>3, TidyUntouched DEF MarkedCalls, CreateCalls, FoundCalls, DropCalls, GroupCalls

\* Requests of the other parts have no call that is marked.
LEMMA TidyStep ==
    ASSUME EntitiesTyped, RequestsInv, DirectoryInv, NEW r \in Requests, StepOf(r), ~TokenEnds(r)
    PROVE  Tidy(r)
<1>1. CASE AccountHandlers(r)
  BY <1>1, TidyRequest, TidyCreate, TidyFound, TidyGroups DEF AccountHandlers
<1>2. CASE ~AccountHandlers(r)
  <2>1. op'[r].does \in SessionOps \cup SignOnOps \cup {"startReplica"}
    BY <1>2, SessionKind, SignOnKind, StartupKind DEF StepOf, SignOnOps
  <2>2. Proper(r)
    BY StepAlone
  <2>3. op'[r].does \notin DOMAIN UserOps
    BY <2>1 DEF SessionOps, SignOnOps, BearerOps, UserOps
  <2>4. at'[r] \notin MarkedCalls
    BY <2>2, <2>3 DEF Proper, Reaches, AtItsCall, MarkedCalls, CreateCalls, FoundCalls, DropCalls,
       UpdateCalls, ReplaceCalls, UserOps, AfterFind, Deletions
  <2>5. at[r] # "saveEntity"
    <3> SUFFICES ASSUME at[r] = "saveEntity" PROVE FALSE
      OBVIOUS
    <3>1. op[r].does \in DOMAIN UserOps
      BY DEF RequestsInv, AtItsCall, CreateCalls, UserOps
    <3>2. op'[r] = op[r]
      BY <2>2 DEF Proper, GoesOn, Begins
    <3> QED  BY <2>3, <3>1, <3>2
  <2> QED  BY <1>2, <2>4, <2>5, OthersKeepDirectory, TidyUntouched DEF directory
<1> QED  BY <1>1, <1>2

\* A step goes on with a request under way, or begins one, which overlaps with
\* another under way that has the name.
Continues(r) ==
    at[r] \notin Answered /\ op' = op /\ overlapped' = overlapped /\ failed \subseteq failed'
Starts(r) ==
    at[r] = "idle" /\ overlapped' = overlapped \cup Shared(r, op'[r].name) /\ failed' = failed

LEMMA StepCourse ==
    ASSUME RequestsInv, NEW r \in Requests, StepOf(r), ~TokenEnds(r)
    PROVE  Continues(r) \/ Starts(r)
<1>b. ASSUME NEW o, NEW first, Begin(r, o, first) PROVE Starts(r)
  <2>1. op'[r] = o
    BY <1>b DEF Begin, RequestsInv
  <2> QED  BY <1>b, <2>1 DEF Begin, Starts
<1>c. ASSUME NEW next, Proceed(r, next) \/ Fail(r, next), at[r] \notin Answered PROVE Continues(r)
  BY <1>c DEF Proceed, Fail, Continues
<1>1. CASE AccountHandlers(r)
  <2>1. CASE AccountRequest(r)
    BY <1>b, <2>1 DEF AccountRequest
  <2>2. CASE ~AccountRequest(r)
    <3>1. at[r] \notin Answered
      BY <1>1, <2>2 DEF Answered, AccountHandlers, CreateLogin, CreateEntity, LinkLogin, FindUser,
         SaveMetadata, SetStatus, ListGroups, ListGroup, ReadGroup, WriteGroup, DeleteLogin, DeleteEntity,
         ReplaceEntity, Refetch, SaveNewGroup, FindGroup, RenameGroup, DropGroup, SetGroupUsers,
         RefetchGroup
    <3>2. CASE CreateLogin(r) \/ CreateEntity(r) \/ LinkLogin(r) \/ FindUser(r) \/ SaveMetadata(r)
               \/ SetStatus(r)
      BY <1>c, <3>1, <3>2 DEF CreateLogin, CreateEntity, LinkLogin, FindUser, SaveMetadata,
         SetStatus, Call
    <3>3. CASE ListGroups(r) \/ ListGroup(r) \/ ReadGroup(r) \/ WriteGroup(r) \/ DeleteLogin(r) \/ DeleteEntity(r)
               \/ ReplaceEntity(r) \/ Refetch(r)
      BY <1>c, <3>1, <3>3 DEF ListGroups, ListGroup, ReadGroup, WriteGroup, DeleteLogin, DeleteEntity,
         ReplaceEntity, Refetch, Call
    <3>4. CASE SaveNewGroup(r) \/ FindGroup(r) \/ RenameGroup(r) \/ DropGroup(r)
               \/ SetGroupUsers(r) \/ RefetchGroup(r)
      BY <1>c, <3>1, <3>4 DEF SaveNewGroup, FindGroup, RenameGroup, DropGroup, SetGroupUsers,
         RefetchGroup, Call
    <3> QED  BY <1>1, <2>2, <3>2, <3>3, <3>4 DEF AccountHandlers
  <2> QED  BY <2>1, <2>2
<1>2. CASE SessionHandlers(r)
  BY <1>2, <1>b, <1>c DEF Answered, SessionHandlers, SessionRequest, Login, LookUpToken,
     LookUpEntity, Logout
<1>3. CASE SignOnHandlers(r)
  BY <1>3, <1>b, <1>c DEF Answered, SignOnHandlers, SignOnRequest, ReadKey, WriteKey,
     Authenticate, Sign
<1>4. CASE StartupHandlers(r)
  BY <1>4, <1>b, <1>c DEF Answered, StartupHandlers, StartRequest, InitPostgres, CheckMigration,
     RunMigration, RecordMigration, Serve
<1> QED  BY <1>1, <1>2, <1>3, <1>4 DEF StepOf

\* At any time: one request works on a name, but for those that overlapped; and
\* of a name that is not in trouble, who can log in has an entity, or the
\* request that makes it is about to, and has what it needs.
LoginInv ==
    /\ EntitiesTyped
    /\ \A r, s \in Requests :
           (r # s /\ {at[r], at[s]} \cap Answered = {} /\ op[r].name = op[s].name) =>
           op[r].name \in overlapped
    /\ \A n \in logins \ trouble :
           Has(n) \/ \E r \in Requests : at[r] = "saveEntity" /\ op[r].name = n
    /\ \A r \in Requests : op[r].name \in trouble \/ Holds(r)

LEMMA LoginStep ==
    ASSUME LoginInv, RequestsInv, DirectoryInv, NEW r \in Requests, StepOf(r), ~TokenEnds(r)
    PROVE  LoginInv'
<1>1. Tidy(r) /\ Alone(r) /\ Grows(entities, entities') /\ (Continues(r) \/ Starts(r))
  BY TidyStep, StepAlone, StepCourse, DirectoryStep DEF LoginInv, Proper
<1> DEFINE n == op'[r].name
<1>2. trouble \subseteq trouble'
  BY <1>1 DEF Continues, Starts, trouble
<1>3. EntitiesTyped'
  <2>1. ASSUME NEW s \in Requests, s # r PROVE Course(s)'
    <3>1. Course(s) /\ op'[s] = op[s] /\ at'[s] = at[s] /\ seen'[s] = seen[s]
      BY <1>1, <2>1 DEF LoginInv, EntitiesTyped, Alone
    <3>2. Addressed(op[s]) => Addressed(op[s])'
      BY <1>1, <3>1 DEF Addressed, Grows, Known
    <3> QED  BY <3>1, <3>2 DEF Course
  <2> QED  BY <1>1, <2>1 DEF Tidy, EntitiesTyped
\* Nobody else is at work on the name.
<1>4. ASSUME NEW s \in Requests, s # r, at[s] \notin Answered, op[s].name = n
      PROVE  n \in overlapped' /\ n \in trouble'
  <2> SUFFICES n \in overlapped'
    BY DEF trouble
  <2>1. CASE Continues(r)
    BY <1>4, <2>1 DEF LoginInv, Continues
  <2>2. CASE Starts(r)
    BY <1>4, <2>2 DEF Starts, Shared, Others
  <2> QED  BY <1>1, <2>1, <2>2
<1>5. ASSUME NEW p \in Requests, NEW q \in Requests, p # q,
             at'[p] \notin Answered, at'[q] \notin Answered, op'[p].name = op'[q].name
      PROVE  op'[p].name \in overlapped'
  <2>1. CASE p # r /\ q # r
    BY <1>1, <1>5, <2>1 DEF Alone, LoginInv, Continues, Starts
  <2>2. CASE p = r \/ q = r
    BY <1>1, <1>4, <1>5, <2>2 DEF Alone
  <2> QED  BY <2>1, <2>2
<1>6. Holds(r) \/ n \in trouble'
  <2>1. CASE Continues(r)
    BY <1>2, <2>1 DEF LoginInv, Continues
  <2>2. CASE Starts(r)
    BY <2>2 DEF Starts, Holds
  <2> QED  BY <1>1, <2>1, <2>2
<1>7. n \in trouble' \/ Quiet(n) \/ at[r] = "saveEntity"
  <2> SUFFICES ASSUME n \notin trouble', n \in logins, ~Has(n), at[r] # "saveEntity" PROVE FALSE
    BY DEF Quiet
  <2>1. PICK s \in Requests : at[s] = "saveEntity" /\ op[s].name = n
    BY <1>2 DEF LoginInv
  <2> QED  BY <1>4, <2>1 DEF Answered
<1>8. n \in trouble' \/ (Holds(r)' /\ (Quiet(op[r].name)' \/ at'[r] = "saveEntity"))
  BY <1>1, <1>6, <1>7 DEF Tidy, OwnUser
<1>9. ASSUME NEW m \in logins', m \notin trouble'
      PROVE  Has(m)' \/ \E s \in Requests : at'[s] = "saveEntity" /\ op'[s].name = m
  <2>1. CASE m = n
    BY <1>8, <1>9, <2>1 DEF Quiet, Has
  <2>2. CASE m # n
    <3>1. m \in logins /\ (Has(m) => Has(m)')
      BY <1>1, <1>9, <2>2 DEF Tidy, Elsewhere
    <3>2. ASSUME NEW s \in Requests, at[s] = "saveEntity", op[s].name = m
          PROVE  at'[s] = "saveEntity" /\ op'[s].name = m
      <4>1. s # r
        BY <1>1, <2>2, <3>2 DEF Continues, Starts
      <4> QED  BY <1>1, <3>2, <4>1 DEF Alone
    <3> QED  BY <1>2, <1>9, <3>1, <3>2 DEF LoginInv
  <2> QED  BY <2>1, <2>2
<1>10. ASSUME NEW s \in Requests, op'[s].name \notin trouble'
       PROVE  Holds(s)'
  <2>1. CASE s = r
    BY <1>8, <1>10, <2>1
  <2>2. CASE s # r
    <3>1. op'[s] = op[s] /\ at'[s] = at[s] /\ Holds(s)
      BY <1>1, <1>2, <1>10, <2>2 DEF Alone, LoginInv
    <3>2. CASE at[s] \in Answered
      BY <3>1, <3>2 DEF Holds, Answered
    <3>3. CASE at[s] \notin Answered
      <4>1. op[s].name # n
        BY <1>4, <1>10, <2>2, <3>1, <3>3
      <4>2. PICK m : m = op[s].name /\ m # n
        BY <4>1
      <4>3. (m \in logins' <=> m \in logins) /\ (Has(m) => Has(m)')
        BY <1>1, <4>2 DEF Tidy, Elsewhere
      <4>4. Has(op[s].name) => Has(op[s].name)'
        BY <3>1, <4>2, <4>3 DEF Has
      <4> QED  BY <3>1, <4>2, <4>3, <4>4 DEF Holds
    <3> QED  BY <3>2, <3>3
  <2> QED  BY <2>1, <2>2
<1> QED  BY <1>3, <1>5, <1>9, <1>10 DEF LoginInv

LEMMA LoginHolds == IdentitySpec => []LoginInv
<1>1. IdentityInit => LoginInv
  <2> SUFFICES ASSUME IdentityInit PROVE LoginInv
    OBVIOUS
  <2>1. PICK n : n \in Nat /\ DOMAIN Residents = 1 .. n /\ \A i \in 1 .. n : Residents[i] \in Users
    BY AccountsAssumption, LenProperties, ElementOfSeq
  <2>2. \A r \in Requests : at[r] = "idle"
    BY DEF IdentityInit, RequestsInit
  <2>3. PICK here : /\ here \subseteq 1 .. n
                    /\ logins = {Residents[i] : i \in here}
                    /\ entities = [i \in 1 .. n |->
                           IF i \notin here THEN Nothing
                           ELSE [name |-> Residents[i], meta |-> Wrote(Original, AcFields),
                                 linked |-> TRUE, disabled |-> FALSE]]
    BY <2>1 DEF IdentityInit, AccountsInit
  <2>4. ASSUME NEW i \in here PROVE entities[i] \in Entity /\ entities[i].name = Residents[i]
    <3>1. PICK M, meta : M = [Fields -> Requests \cup {Original, Nothing}] /\ meta = Wrote(Original, AcFields)
      OBVIOUS
    <3>2. meta \in M
      BY <3>1, WroteTyped
    <3>3. entities[i] = [name |-> Residents[i], meta |-> meta, linked |-> TRUE, disabled |-> FALSE]
      BY <2>3, <3>1
    <3>4. entities[i] \in [name : Users, meta : M, linked : BOOLEAN, disabled : BOOLEAN]
      BY <2>1, <2>3, <3>2, <3>3
    <3> QED  BY <3>1, <3>3, <3>4 DEF Entity
  <2>5. EntitiesTyped
    <3>1. \A i \in 1 .. n : entities[i] \in Entity \cup {Nothing}
      BY <2>3, <2>4
    <3>2. entities \in [1 .. n -> Entity \cup {Nothing}]
      BY <2>3, <3>1
    <3>3. entities \in Seq(Entity \cup {Nothing})
      BY <2>1, <3>2, SeqDef
    <3> QED  BY <2>2, <3>3 DEF EntitiesTyped, Course, CreateCalls, FoundCalls, DropCalls
  <2>6. \A m \in logins : Has(m)
    BY <2>3, <2>4, EntityAssumption DEF Has, Named, Known
  <2>7. \A r \in Requests : Holds(r) /\ at[r] \in Answered
    BY <2>2 DEF Holds, Answered
  <2> QED  BY <2>5, <2>6, <2>7 DEF LoginInv
<1>2. RequestsInv /\ DirectoryInv /\ LoginInv /\ [IdentityNext]_identityVars => LoginInv'
  <2> SUFFICES ASSUME RequestsInv, DirectoryInv, LoginInv, [IdentityNext]_identityVars
               PROVE  LoginInv'
    OBVIOUS
  <2>1. ASSUME UNCHANGED <<op, at, seen, overlapped, failed, logins, entities>>
        PROVE  LoginInv'
    BY <2>1 DEF LoginInv, trouble, EntitiesTyped, Course, Addressed, Known, Holds, Has, Named
  <2>2. CASE UNCHANGED identityVars
    BY <2>1, <2>2 DEF identityVars, requestVars, directory
  <2>3. ASSUME NEW r \in Requests, StepOf(r) PROVE LoginInv'
    BY <2>1, <2>3, LoginStep DEF TokenEnds, requestVars, directory
  <2> QED  BY <2>2, <2>3 DEF IdentityNext, StepOf
<1> QED  BY <1>1, <1>2, RequestsHold, DirectoryHolds, PTL DEF IdentitySpec

\* Once every request about a user has been answered, who can log in has an
\* entity; unless a call failed, or two requests worked on the user at once.
THEOREM LoginsHaveUsers == IdentitySpec => []LoginMeansUser
<1>1. LoginInv => LoginMeansUser
  BY DEF LoginInv, LoginMeansUser, EntitiesTyped, Course, CreateCalls, Has, Answered
<1> QED  BY <1>1, LoginHolds, PTL
-----------------------------------------------------------------------------
(* Updates of a user.                                                      *)

\* What a step from the two calls that write does: it is the request's own.
LEMMA OwnStep ==
    ASSUME RequestsInv, NEW r \in Requests, NEW s \in Requests, StepOf(s), at'[r] # at[r]
    PROVE  s = r
BY StepAlone DEF Proper, Alone, TokenEnds, requestVars

LEMMA WritesOnly ==
    ASSUME NEW r \in Requests, StepOf(r), at[r] \in {"saveMetadata", "writeGroup"},
           ~TokenEnds(r)
    PROVE  IF at[r] = "saveMetadata" THEN SaveMetadata(r) ELSE WriteGroup(r)
<1>1. CASE AccountHandlers(r)
  BY <1>1 DEF AccountHandlers, AccountRequest, Begin,
       CreateLogin, CreateEntity, LinkLogin, FindUser, SaveMetadata, SetStatus, ListGroups, ListGroup,
       ReadGroup, WriteGroup, DeleteLogin, DeleteEntity, ReplaceEntity, Refetch, SaveNewGroup,
       FindGroup, RenameGroup, DropGroup, SetGroupUsers, RefetchGroup
<1>2. CASE SessionHandlers(r)
  BY <1>2 DEF SessionHandlers, SessionRequest, Begin, Login, LookUpToken, LookUpEntity, Logout
<1>3. CASE SignOnHandlers(r)
  BY <1>3 DEF SignOnHandlers, SignOnRequest, Begin, ReadKey, WriteKey, Authenticate, Sign
<1>4. CASE StartupHandlers(r)
  BY <1>4 DEF StartupHandlers, StartRequest, Begin, InitPostgres, CheckMigration, RunMigration,
     RecordMigration, Serve
<1> QED  BY <1>1, <1>2, <1>3, <1>4 DEF StepOf

\* What an update read of its user is what there is, unless two requests worked
\* on the user at once.
ReadInv ==
    \A r \in Requests :
        (at[r] = "saveMetadata" /\ Known(entities, op[r].item.id)) =>
        seen[r].meta = entities[op[r].item.id].meta \/ op[r].name \in overlapped

\* The metadata of a user changes by a request about that user.
LEMMA MetadataBy ==
    ASSUME LoginInv, RequestsInv, DirectoryInv, NEW r \in Requests, StepOf(r),
           NEW i \in DOMAIN entities, Known(entities, i), Known(entities', i),
           entities'[i].meta # entities[i].meta
    PROVE  op[r].name = entities[i].name /\ at[r] \notin Answered
<1>1. AccountHandlers(r)
  BY OthersKeepDirectory DEF directory
<1>2. Course(r) /\ entities[i] \in Entity
  BY EntityRow DEF LoginInv, EntitiesTyped
<1>3. CASE CreateEntity(r) \/ ReplaceEntity(r)
  <2>1. PICK n, meta, off : /\ SaveEntity(n, meta, off)
                            /\ n = IF at[r] = "saveEntity" THEN op[r].name ELSE seen[r].name
                            /\ at[r] \in {"saveEntity", "replaceEntity"}
    <3>1. CASE CreateEntity(r)
      <4>1. UNCHANGED directory \/ \E meta, off : SaveEntity(op[r].name, meta, off)
        BY <3>1 DEF CreateEntity, Call
      <4> QED  BY <3>1, <4>1 DEF CreateEntity, directory
    <3>2. CASE ReplaceEntity(r)
      <4>1. UNCHANGED directory \/ \E meta, off : SaveEntity(seen[r].name, meta, off)
        BY <3>2 DEF ReplaceEntity, Call
      <4> QED  BY <3>2, <4>1 DEF ReplaceEntity, directory
    <3> QED  BY <1>3, <3>1, <3>2
  <2>2. n = op[r].name /\ at[r] \notin Answered
    BY <1>2, <2>1 DEF Course, FoundCalls, Answered
  <2>3. entities[i].name = n
    <3>1. i \in Named(entities, n) \/ entities'[i] = entities[i]
      <4>1. CASE Named(entities, n) = {}
        <5>1. PICK row : entities' = Append(entities, row)
          BY <2>1, <4>1 DEF SaveEntity
        <5> QED  BY <5>1, ListedAppend DEF DirectoryInv, Rows
      <4>2. CASE Named(entities, n) # {}
        BY <2>1, <4>2 DEF SaveEntity
      <4> QED  BY <4>1, <4>2
    <3> QED  BY <3>1 DEF Named
  <2> QED  BY <2>2, <2>3
<1>4. CASE LinkLogin(r)
  <2>1. PICK j : j = seen[r] /\ (entities' = entities
                               \/ entities' = [entities EXCEPT ![j].linked = TRUE])
    BY <1>4 DEF LinkLogin, Call, directory
  <2> QED  BY <1>2, <2>1 DEF Entity
<1>5. CASE SaveMetadata(r)
  <2>1. PICK j, meta : /\ j = op[r].item.id
                       /\ entities' = entities \/ entities' = [entities EXCEPT ![j].meta = meta]
    BY <1>5 DEF SaveMetadata, Call, directory
  <2>2. i = op[r].item.id
    BY <2>1
  <2> QED  BY <1>2, <1>5, <2>2 DEF Course, FoundCalls, Addressed, SaveMetadata, Answered
<1>6. CASE DeleteEntity(r)
  BY <1>6 DEF DeleteEntity, Call, RemoveEntities, directory, Known
<1>7. CASE ~(CreateEntity(r) \/ ReplaceEntity(r) \/ LinkLogin(r) \/ SaveMetadata(r) \/ DeleteEntity(r))
  <2>1. entities' = entities
    BY <1>1, <1>7 DEF AccountHandlers, AccountRequest, CreateLogin, FindUser, SetStatus, ListGroups,
       ListGroup, ReadGroup, WriteGroup, DeleteLogin, Refetch, SaveNewGroup, FindGroup, RenameGroup,
       DropGroup, SetGroupUsers, RefetchGroup, Call, PutLogin, DropLogin, SaveGroup, directory
  <2> QED  BY <2>1
<1> QED  BY <1>3, <1>4, <1>5, <1>6, <1>7

\* Where an update has found its user.
LEMMA FoundBy ==
    ASSUME RequestsInv, NEW r \in Requests, AccountHandlers(r), at'[r] = "saveMetadata"
    PROVE  FindUser(r)
<1>a. ASSUME NEW next, Proceed(r, next) \/ Fail(r, next),
             seen' = seen \/ \E what : Remember(r, what)
      PROVE  at'[r] = next
  BY <1>a, ProceedAlone
<1>b. ASSUME NEW o, NEW first, Begin(r, o, first), seen' = seen PROVE at'[r] = first
  BY <1>b, BeginAlone
<1>1. ~AccountRequest(r)
  BY <1>b DEF AccountRequest, UserOps, GroupOps
<1>2. ~(CreateLogin(r) \/ CreateEntity(r) \/ LinkLogin(r))
  BY <1>a DEF CreateLogin, CreateEntity, LinkLogin, Call
<1>3. ~(SaveMetadata(r) \/ SetStatus(r) \/ DeleteLogin(r) \/ DeleteEntity(r) \/ ReplaceEntity(r)
        \/ Refetch(r))
  BY <1>a DEF SaveMetadata, AfterMetadata, SetStatus, DeleteLogin, DeleteEntity, ReplaceEntity,
     Refetch, Call
<1>4. ~(ListGroups(r) \/ ListGroup(r) \/ ReadGroup(r) \/ WriteGroup(r))
  BY <1>a DEF ListGroups, ListGroup, ReadGroup, WriteGroup, NextGroup, Call
<1>5. ~(SaveNewGroup(r) \/ RenameGroup(r) \/ DropGroup(r) \/ SetGroupUsers(r) \/ RefetchGroup(r))
  BY <1>a DEF SaveNewGroup, RenameGroup, DropGroup, SetGroupUsers, RefetchGroup, Call
<1>6. ~FindGroup(r)
  <2>1. FindGroup(r) => AfterFindGroup[op[r].does] \in {"renameGroup", "dropGroup", "saveGroup"}
    BY DEF FindGroup, RequestsInv, AtItsCall, AfterFindGroup
  <2> QED  BY <1>a, <2>1 DEF FindGroup
<1> QED  BY <1>1, <1>2, <1>3, <1>4, <1>5, <1>6 DEF AccountHandlers

LEMMA ReadStep ==
    ASSUME ReadInv, LoginInv, RequestsInv, DirectoryInv, NEW r \in Requests, StepOf(r), ~TokenEnds(r)
    PROVE  ReadInv'
<1>1. Alone(r) /\ Grows(entities, entities') /\ (Continues(r) \/ Starts(r))
  BY StepAlone, StepCourse, DirectoryStep DEF Proper
<1>2. overlapped \subseteq overlapped'
  BY <1>1 DEF Continues, Starts
<1>3. ASSUME NEW s \in Requests, at'[s] = "saveMetadata", Known(entities', op'[s].item.id)
      PROVE  seen'[s].meta = entities'[op'[s].item.id].meta \/ op'[s].name \in overlapped'
  <2>1. CASE s # r
    <3>1. op'[s] = op[s] /\ at[s] = "saveMetadata" /\ seen'[s] = seen[s]
      BY <1>1, <1>3, <2>1 DEF Alone
    <3>2. PICK i : i = op[s].item.id
      OBVIOUS
    <3>3. i \in DOMAIN entities /\ (Known(entities, i) => entities[i].name = op[s].name)
      BY <3>1, <3>2 DEF LoginInv, EntitiesTyped, Course, FoundCalls, Addressed
    <3>4. Known(entities', i)
      BY <1>3, <3>1, <3>2
    <3>5. Known(entities, i)
      BY <1>1, <3>3, <3>4 DEF Grows, Known
    <3>6. seen[s].meta = entities[i].meta \/ op[s].name \in overlapped
      BY <3>1, <3>2, <3>5 DEF ReadInv
    <3>7. ASSUME entities'[i].meta # entities[i].meta PROVE op[s].name \in overlapped'
      <4>1. op[r].name = op[s].name /\ at[r] \notin Answered
        BY <3>3, <3>4, <3>5, <3>7, MetadataBy
      <4>2. op[s].name \in overlapped
        BY <2>1, <3>1, <4>1 DEF LoginInv, Answered
      <4> QED  BY <1>2, <4>2
    <3> QED  BY <1>2, <3>1, <3>2, <3>6, <3>7
  <2>2. CASE s = r
    <3>1. AccountHandlers(r) /\ op'[r].does = "updateUser"
      <4>1. Reaches(at'[r], op'[r].does)
        BY StepAlone DEF Proper
      <4>2. op'[r].does = "updateUser"
        BY <1>3, <2>2, <4>1 DEF Reaches, AtItsCall, UpdateCalls
      <4> QED
        BY <4>2, SessionKind, SignOnKind, StartupKind DEF StepOf, SessionOps, SignOnOps, BearerOps
    <3>2. FindUser(r)
      BY <1>3, <2>2, <3>1, FoundBy
    <3>3. PICK i : i = op[r].item.id
      OBVIOUS
    <3>4. op'[r] = op[r] /\ entities' = entities /\ seen'[r] = entities[i]
      BY <1>3, <2>2, <3>2, <3>3, ProceedAlone DEF FindUser, Remember, RequestsInv, directory
    <3> QED  BY <2>2, <3>3, <3>4
  <2> QED  BY <2>1, <2>2
<1> QED  BY <1>3 DEF ReadInv

LEMMA ReadHolds == IdentitySpec => []ReadInv
<1>1. IdentityInit => ReadInv
  BY DEF IdentityInit, RequestsInit, ReadInv
<1>2. RequestsInv /\ DirectoryInv /\ LoginInv /\ ReadInv /\ [IdentityNext]_identityVars => ReadInv'
  <2> SUFFICES ASSUME RequestsInv, DirectoryInv, LoginInv, ReadInv, [IdentityNext]_identityVars
               PROVE  ReadInv'
    OBVIOUS
  <2>1. ASSUME UNCHANGED <<op, at, seen, overlapped, entities>> PROVE ReadInv'
    BY <2>1 DEF ReadInv, Known
  <2>2. CASE UNCHANGED identityVars
    BY <2>1, <2>2 DEF identityVars, requestVars, directory
  <2>3. ASSUME NEW r \in Requests, StepOf(r) PROVE ReadInv'
    BY <2>1, <2>3, ReadStep DEF TokenEnds, requestVars, directory
  <2> QED  BY <2>2, <2>3 DEF IdentityNext, StepOf
<1> QED  BY <1>1, <1>2, RequestsHold, DirectoryHolds, LoginHolds, PTL DEF IdentitySpec

\* The body of OnlyWhatWasAsked, for one request.
Asked(r) ==
    /\ \A i \in DOMAIN entities : Known(entities, i) =>
           IF i = op[r].item.id
           THEN \A f \in AcFields \ {op[r].item.field} :
                    entities'[i].meta[f] # entities[i].meta[f] =>
                    /\ seen[r].meta[f] # entities[i].meta[f]
                    /\ op[r].name \in overlapped
           ELSE entities'[i] = entities[i]
    /\ \A g \in DOMAIN groups : Known(groups, g) /\ groups'[g] # groups[g] =>
           /\ groups'[g].name = groups[g].name
           /\ \A i \in seen[r].members \ {op[r].item.id} :
                  i \in groups[g].members => i \in groups'[g].members
           /\ groups'[g].members \subseteq seen[r].members \cup {op[r].item.id}

LEMMA MetadataAsked ==
    ASSUME DirectoryInv, ReadInv, NEW r \in Requests, SaveMetadata(r)
    PROVE  Asked(r)
<1>1. PICK i, meta : i = op[r].item.id /\ meta = Kept(r)
  OBVIOUS
<1>2. groups' = groups /\ \/ entities' = entities
                          \/ entities' = [entities EXCEPT ![i].meta = meta] /\ Known(entities, i)
  BY <1>1 DEF SaveMetadata, Call, directory
<1>3. \A f \in AcFields \ {op[r].item.field} : meta[f] = seen[r].meta[f]
  BY <1>1 DEF Kept, AcFields, Fields
<1>5. Known(entities, i) => seen[r].meta = entities[i].meta \/ op[r].name \in overlapped
  BY <1>1 DEF ReadInv, SaveMetadata
<1>4. ASSUME Known(entities, i), entities' = [entities EXCEPT ![i].meta = meta]
      PROVE  entities'[i].meta = meta /\ \A j \in DOMAIN entities : j # i => entities'[j] = entities[j]
  BY <1>4 DEF DirectoryInv, Rows, Known
<1> QED  BY <1>1, <1>2, <1>3, <1>4, <1>5 DEF Asked

LEMMA GroupAsked ==
    ASSUME DirectoryInv, NEW r \in Requests, WriteGroup(r), at[r] = "writeGroup"
    PROVE  Asked(r)
<1>1. PICK g, members : g = seen[r].group /\ members = WithMe(r)
  OBVIOUS
<1>2. entities' = entities
      /\ \/ groups' = groups
         \/ groups' = [groups EXCEPT ![g].members = members] /\ Known(groups, g)
  BY <1>1 DEF WriteGroup, Call, directory
<1>3. /\ \A i \in seen[r].members \ {op[r].item.id} : i \in members
      /\ members \subseteq seen[r].members \cup {op[r].item.id}
  BY <1>1 DEF WithMe
<1>4. ASSUME Known(groups, g), groups' = [groups EXCEPT ![g].members = members]
      PROVE  /\ groups'[g].members = members /\ groups'[g].name = groups[g].name
             /\ \A j \in DOMAIN groups : j # g => groups'[j] = groups[j]
  BY <1>4 DEF DirectoryInv, Rows, Known
<1> QED  BY <1>2, <1>3, <1>4 DEF Asked

\* Of access control's fields, of other users and of the groups, UpdateUser
\* changes nothing it was not asked to, unless another request about the user,
\* or the group, changed it since it was read.
THEOREM UpdatesStayApart == IdentitySpec => OnlyWhatWasAsked
<1>1. RequestsInv /\ DirectoryInv /\ ReadInv /\ [IdentityNext]_identityVars =>
          \A r \in Requests : at[r] \in {"saveMetadata", "writeGroup"} /\ at'[r] # at[r] => Asked(r)
  <2> SUFFICES ASSUME RequestsInv, DirectoryInv, ReadInv, [IdentityNext]_identityVars, NEW r \in Requests,
                      at[r] \in {"saveMetadata", "writeGroup"}, at'[r] # at[r]
               PROVE  Asked(r)
    OBVIOUS
  <2>1. PICK s \in Requests : StepOf(s)
    BY DEF IdentityNext, StepOf, identityVars, requestVars
  <2>2. StepOf(r) /\ ~TokenEnds(r)
    BY <2>1, OwnStep DEF TokenEnds, requestVars
  <2> QED  BY <2>2, WritesOnly, MetadataAsked, GroupAsked
<1>2. (\A r \in Requests : at[r] \in {"saveMetadata", "writeGroup"} /\ at'[r] # at[r] => Asked(r))
      => [\A r \in Requests :
          (at[r] \in {"saveMetadata", "writeGroup"} /\ at'[r] # at[r]) =>
          /\ \A i \in DOMAIN entities : Known(entities, i) =>
                 IF i = op[r].item.id
                 THEN \A f \in AcFields \ {op[r].item.field} :
                          entities'[i].meta[f] # entities[i].meta[f] =>
                          /\ seen[r].meta[f] # entities[i].meta[f]
                          /\ op[r].name \in overlapped
                 ELSE entities'[i] = entities[i]
          /\ \A g \in DOMAIN groups : Known(groups, g) /\ groups'[g] # groups[g] =>
                 /\ groups'[g].name = groups[g].name
                 /\ \A i \in seen[r].members \ {op[r].item.id} :
                        i \in groups[g].members => i \in groups'[g].members
                 /\ groups'[g].members \subseteq seen[r].members \cup {op[r].item.id}]_<<directory, requestVars>>
  BY DEF Asked
<1> QED  BY <1>1, <1>2, RequestsHold, DirectoryHolds, ReadHolds, PTL DEF IdentitySpec, OnlyWhatWasAsked
=============================================================================
