------------------------------ MODULE Accounts ------------------------------
(***************************************************************************)
(* Users and groups in OpenBao.  Access control (src/api/internal/ac) and  *)
(* SCIM (src/saml-scim-agent/scim) both keep a user as a userpass login    *)
(* and an identity entity, which OpenBao joins by nothing but the name and *)
(* an alias; a group holds the numbers of its members.  Each change is     *)
(* several calls, and what an error of one of them means for the next      *)
(* differs from call to call.                                              *)
(***************************************************************************)
EXTENDS ApiRequests, Sequences

CONSTANTS
    Users,      \* user names
    Residents,  \* bound: in order, who has an account at the start, if the
                \* workload is about them
    Groups,     \* group names
    Original    \* the writer of what is there at the start

ASSUME AccountsAssumption ==
    Residents \in Seq(Users) /\ Nothing \notin Users \cup Groups /\ Original # Nothing

VARIABLES
    logins,     \* the userpass users
    entities,   \* the entity of each number ever given, Nothing once deleted
    groups      \* the group of each number ever given

directory == <<logins, entities, groups>>

\* The metadata.  Access control writes the first two; SCIM writes the e-mail
\* address and, as "display", display_name, given_name and family_name.
Fields     == {"email", "name", "display"}
AcFields   == {"email", "name"}
ScimFields == {"email", "display"}

\* An entity: meta names who wrote each field, linked says whether the login's
\* alias designates it.  A group is [name, builtin, members], with the numbers
\* of its members.
Entity == [name : Users, meta : [Fields -> Requests \cup {Original, Nothing}],
           linked : BOOLEAN, disabled : BOOLEAN]

ASSUME EntityAssumption == Nothing \notin Entity

Wrote(w, given) == [f \in Fields |-> IF f \in given THEN w ELSE Nothing]

\* The residents the workload is about, made by access control, and one
\* standing group with all of them in it, builtin or not.
AccountsInit ==
    LET here == {i \in DOMAIN Residents : \E o \in workload : o.name = Residents[i]}
    IN  /\ logins = {Residents[i] : i \in here}
        /\ entities = [i \in DOMAIN Residents |->
               IF i \notin here THEN Nothing
               ELSE [name |-> Residents[i], meta |-> Wrote(Original, AcFields),
                     linked |-> TRUE, disabled |-> FALSE]]
        /\ \E g \in Groups, b \in BOOLEAN :
               groups = <<[name |-> g, builtin |-> b, members |-> here]>>

-----------------------------------------------------------------------------
(* What the calls do in OpenBao.                                           *)

Known(table, i) == i \in DOMAIN table /\ table[i] # Nothing
Named(table, n) == {i \in DOMAIN table : Known(table, i) /\ table[i].name = n}

PutLogin(n)  == logins' = logins \cup {n} /\ UNCHANGED <<entities, groups>>
DropLogin(n) == logins' = logins \ {n} /\ UNCHANGED <<entities, groups>>

\* The metadata is replaced as a whole.  A name that is taken is no error.
SaveEntity(n, meta, off) ==
    /\ entities' =
           IF Named(entities, n) = {}
           THEN Append(entities, [name |-> n, meta |-> meta, linked |-> FALSE, disabled |-> off])
           ELSE [i \in DOMAIN entities |->
                    IF i \in Named(entities, n)
                    THEN [entities[i] EXCEPT !.meta = meta, !.disabled = off]
                    ELSE entities[i]]
    /\ UNCHANGED <<logins, groups>>

Without(members) ==
    [g \in DOMAIN groups |->
        IF groups[g] = Nothing THEN Nothing ELSE [groups[g] EXCEPT !.members = @ \ members]]

RemoveEntities(gone) ==
    /\ entities' = [i \in DOMAIN entities |-> IF i \in gone THEN Nothing ELSE entities[i]]
    /\ groups' = Without(gone)
    /\ UNCHANGED logins

\* A group with a member that is not there is refused.
Valid(members) == \A i \in members : Known(entities, i)

\* So is what is known of a group, a name that is taken included.
SaveGroup(name, members, builtin) ==
    /\ groups' =
           IF Named(groups, name) = {}
           THEN Append(groups, [name |-> name, builtin |-> builtin, members |-> members])
           ELSE [g \in DOMAIN groups |->
                    IF g \in Named(groups, name)
                    THEN [groups[g] EXCEPT !.members = members, !.builtin = builtin]
                    ELSE groups[g]]
    /\ UNCHANGED <<logins, entities>>

\* The call has its effect and is answered, or it fails, with or without it.
Call(r, effect, next, otherwise) ==
    \/ effect /\ Proceed(r, next)
    \/ (effect \/ UNCHANGED directory) /\ Fail(r, otherwise)

-----------------------------------------------------------------------------
(* Users.  The item of a request is [id, and what it sets]; gives is the   *)
(* metadata in a SCIM request.                                             *)

UserOps == [createUser |-> "putLogin", updateUser |-> "find", deleteUser |-> "find",
            scimCreateUser |-> "saveEntity", scimUpdateUser |-> "find",
            scimDeleteUser |-> "find"]

GroupOps == [createGroup |-> "saveGroup", updateGroup |-> "findGroup",
             deleteGroup |-> "findGroup", setGroupUsers |-> "setMembers",
             scimCreateGroup |-> "saveGroup", scimUpdateGroup |-> "findGroup",
             scimDeleteGroup |-> "findGroup"]

\* A client has the number of a user from an answer, which named the user.
Addressed(o) ==
    /\ o.item.id \in DOMAIN entities
    /\ Known(entities, o.item.id) => entities[o.item.id].name = o.name

AccountRequest(r) ==
    /\ \E o \in workload :
           \/ /\ o.does \in DOMAIN UserOps
              /\ UserOps[o.does] = "find" => Addressed(o)
              /\ Begin(r, o, UserOps[o.does])
           \/ o.does \in DOMAIN GroupOps /\ Begin(r, o, GroupOps[o.does])
    /\ UNCHANGED <<directory, seen>>

\* CreateUser, and the end of the SCIM one, which ignores an error.
CreateLogin(r) ==
    /\ at[r] = "putLogin"
    /\ IF op[r].does = "createUser"
       THEN Call(r, PutLogin(op[r].name), "saveEntity", "refused")
       ELSE Call(r, PutLogin(op[r].name), "done", "done")
    /\ UNCHANGED seen

FromScim(r) == Wrote(r, ScimFields \cap op[r].item.gives)

\* A name that is taken is answered without a body: ac takes the user name
\* for the number then, and SCIM an error.
CreateEntity(r) ==
    LET n    == op[r].name
        new  == Named(entities, n) = {}
        off  == \E i \in Named(entities, n) : entities[i].disabled
        save == SaveEntity(n, IF op[r].does = "createUser" THEN Wrote(r, AcFields)
                              ELSE FromScim(r), off)
    IN  /\ at[r] = "saveEntity"
        /\ IF op[r].does = "createUser"
           THEN Call(r, save, IF new THEN "link" ELSE "done", "refused")
           ELSE \E next \in (IF new THEN {"putLogin", "done"} ELSE {"refused"}) :
                    Call(r, save, next, "refused")
        /\ Remember(r, Len(entities) + 1)

\* The accessor of the userpass mount is read first; errors of either call
\* are ignored.
LinkLogin(r) ==
    /\ at[r] = "link"
    /\ Call(r, /\ entities' = IF Known(entities, seen[r])
                              THEN [entities EXCEPT ![seen[r]].linked = TRUE] ELSE entities
               /\ UNCHANGED <<logins, groups>>, "done", "done")
    /\ UNCHANGED seen

\* Mutant: access control deletes the entity only.
AfterFind_EntityOnly ==
    [updateUser |-> "saveMetadata", deleteUser |-> "dropEntity",
     scimUpdateUser |-> "replaceEntity", scimDeleteUser |-> "dropLogin"]

AfterFind == [updateUser |-> "saveMetadata", deleteUser |-> "dropLogin",
              scimUpdateUser |-> "replaceEntity", scimDeleteUser |-> "dropLogin"]

FindUser(r) ==
    LET i == op[r].item.id
    IN  /\ at[r] = "find"
        /\ \/ /\ Known(entities, i)
              /\ Remember(r, entities[i])
              /\ Proceed(r, AfterFind[op[r].does])
           \/ ~Known(entities, i) /\ Proceed(r, "refused") /\ UNCHANGED seen
           \/ Fail(r, "refused") /\ UNCHANGED seen
        /\ UNCHANGED directory

\* Mutant: a field the update does not set is cleared.
Kept_Blank(r) == Wrote(r, AcFields \cap {op[r].item.field})

\* What the update does not set is written back as it was read: the two fields
\* access control knows, and nothing in place of SCIM's.
Kept(r) ==
    [f \in Fields |-> CASE f = op[r].item.field -> r
                        [] f # op[r].item.field /\ f \in AcFields -> seen[r].meta[f]
                        [] OTHER -> Nothing]

\* After the last call UpdateUser reads the user for its answer, and answers
\* the same way when it cannot.

AfterMetadata(r) ==
    CASE op[r].item.status # Nothing -> "setStatus"
      [] op[r].item.status = Nothing /\ op[r].item.groups # Nothing -> "listGroups"
      [] OTHER -> "done"

SaveMetadata(r) ==
    LET i == op[r].item.id
    IN  /\ at[r] = "saveMetadata"
        /\ IF Known(entities, i)
           THEN Call(r, /\ entities' = [entities EXCEPT ![i].meta = Kept(r)]
                        /\ UNCHANGED <<logins, groups>>, AfterMetadata(r), "refused")
           ELSE Proceed(r, "refused") /\ UNCHANGED directory
        /\ UNCHANGED seen

\* Disabling takes the login away, enabling makes it anew; the entity's own
\* flag is not used.
SetStatus(r) ==
    LET n    == seen[r].name
        next == IF op[r].item.groups # Nothing THEN "listGroups" ELSE "done"
    IN  /\ at[r] = "setStatus"
        /\ Call(r, IF op[r].item.status = "disabled" THEN DropLogin(n) ELSE PutLogin(n),
                next, next)
        /\ UNCHANGED seen

NextGroup(todo) == IF todo = {} THEN "done" ELSE "readGroup"

\* The names first, then each group by its name: one that cannot be read, or
\* has lost its name since, is passed over.
ListGroups(r) ==
    LET names == {groups[g].name : g \in {h \in DOMAIN groups : groups[h] # Nothing}}
    IN  /\ at[r] = "listGroups"
        /\ \/ /\ Remember(r, [names |-> names, todo |-> {}])
              /\ Proceed(r, IF names = {} THEN "done" ELSE "listGroup")
           \/ UNCHANGED seen /\ Fail(r, "refused")
        /\ UNCHANGED directory

ListGroup(r) ==
    /\ at[r] = "listGroup"
    /\ \E n \in seen[r].names :
           LET rest == seen[r].names \ {n}
               todo == seen[r].todo \cup Named(groups, n)
               after(list) == IF rest = {} THEN NextGroup(list) ELSE "listGroup"
           IN  \/ /\ Remember(r, [names |-> rest, todo |-> todo])
                  /\ Proceed(r, after(todo))
               \/ /\ Remember(r, [names |-> rest, todo |-> seen[r].todo])
                  /\ Fail(r, after(seen[r].todo))
    /\ UNCHANGED directory

\* Each group is read again, and written if the user's place in it changes.
ReadGroup(r) ==
    LET g    == CHOOSE x \in seen[r].todo : \A y \in seen[r].todo : x <= y
        rest == seen[r].todo \ {g}
        skip == Remember(r, [todo |-> rest])
        me   == op[r].item.id
        wanted == g \in op[r].item.groups
    IN  /\ at[r] = "readGroup"
        /\ IF Known(groups, g) /\ (me \in groups[g].members) # wanted
           THEN \/ /\ Remember(r, [todo |-> rest, group |-> g, members |-> groups[g].members])
                   /\ Proceed(r, "writeGroup")
                \/ skip /\ Fail(r, NextGroup(rest))
           ELSE skip /\ Proceed(r, NextGroup(rest))
        /\ UNCHANGED directory

WithMe(r) ==
    IF seen[r].group \in op[r].item.groups
    THEN seen[r].members \cup {op[r].item.id} ELSE seen[r].members \ {op[r].item.id}

\* Refused, without a word, when a member it read is gone since.
WriteGroup(r) ==
    LET g    == seen[r].group
        next == NextGroup(seen[r].todo)
    IN  /\ at[r] = "writeGroup"
        /\ IF Known(groups, g) /\ Valid(WithMe(r))
           THEN Call(r, /\ groups' = [groups EXCEPT ![g].members = WithMe(r)]
                        /\ UNCHANGED <<logins, entities>>, next, next)
           ELSE Proceed(r, next) /\ UNCHANGED directory
        /\ UNCHANGED seen

\* A login that cannot be deleted is ignored.
DeleteLogin(r) ==
    /\ at[r] = "dropLogin"
    /\ Call(r, DropLogin(seen[r].name), "dropEntity", "dropEntity")
    /\ UNCHANGED seen

\* Mutant: so is an entity.
DeleteEntity_Ignored(r) ==
    /\ at[r] = "dropEntity"
    /\ Call(r, RemoveEntities(IF op[r].does = "deleteUser" THEN {op[r].item.id}
                              ELSE Named(entities, seen[r].name)), "done", "done")
    /\ UNCHANGED seen

\* By number, or, in SCIM, by name.
DeleteEntity(r) ==
    /\ at[r] = "dropEntity"
    /\ Call(r, RemoveEntities(IF op[r].does = "deleteUser" THEN {op[r].item.id}
                              ELSE Named(entities, seen[r].name)), "done", "refused")
    /\ UNCHANGED seen

\* SCIM's update is by name too: it makes the entity anew if it is gone, and
\* then does not find it by its number.
ReplaceEntity(r) ==
    /\ at[r] = "replaceEntity"
    /\ Call(r, SaveEntity(seen[r].name, FromScim(r), ~op[r].item.active),
            "refetch", "refused")
    /\ UNCHANGED seen

Refetch(r) ==
    /\ at[r] = "refetch"
    /\ \/ Proceed(r, IF Known(entities, op[r].item.id) THEN "done" ELSE "refused")
       \/ Fail(r, "refused")
    /\ UNCHANGED <<directory, seen>>

-----------------------------------------------------------------------------
(* Groups.  The roles of a group are left out: nothing here reads them.    *)

\* A name that is taken is no error here either: access control changes
\* nothing then, and SCIM's create, which is answered as a conflict, has
\* replaced the group.
SaveNewGroup(r) ==
    LET taken == Named(groups, op[r].item.name) # {}
        save  == CASE op[r].does = "createGroup" /\ taken -> UNCHANGED directory
                   [] op[r].does = "createGroup" /\ ~taken ->
                          SaveGroup(op[r].item.name, {}, FALSE)
                   [] OTHER -> SaveGroup(op[r].item.name, op[r].item.members,
                                         op[r].does = "scimUpdateGroup" /\ seen[r].builtin)
        answer == CASE op[r].does = "scimUpdateGroup" -> "refetchGroup"
                    [] op[r].does = "scimCreateGroup" /\ taken -> "refused"
                    [] OTHER -> "done"
    IN  /\ at[r] = "saveGroup"
        /\ IF op[r].does = "createGroup" \/ Valid(op[r].item.members)
           THEN Call(r, save, answer, "refused")
           ELSE Proceed(r, "refused") /\ UNCHANGED directory
        /\ UNCHANGED seen

AfterFindGroup == [updateGroup |-> "renameGroup", deleteGroup |-> "dropGroup",
                   scimUpdateGroup |-> "saveGroup", scimDeleteGroup |-> "dropGroup"]

\* Builtin groups are refused by ac only.
FindGroup(r) ==
    LET g == op[r].item.id
        ok == /\ Known(groups, g)
              /\ op[r].does \in {"updateGroup", "deleteGroup"} => ~groups[g].builtin
    IN  /\ at[r] = "findGroup"
        /\ \/ ok /\ Remember(r, groups[g]) /\ Proceed(r, AfterFindGroup[op[r].does])
           \/ ~ok /\ Proceed(r, "refused") /\ UNCHANGED seen
           \/ Fail(r, "refused") /\ UNCHANGED seen
        /\ UNCHANGED directory

RenameGroup(r) ==
    LET g == op[r].item.id
    IN  /\ at[r] = "renameGroup"
        /\ IF Known(groups, g) /\ Named(groups, op[r].item.name) \subseteq {g}
           THEN Call(r, /\ groups' = [groups EXCEPT ![g].name = op[r].item.name]
                        /\ UNCHANGED <<logins, entities>>, "refetchGroup", "refused")
           ELSE Proceed(r, "refused") /\ UNCHANGED directory
        /\ UNCHANGED seen

DropGroup(r) ==
    /\ at[r] = "dropGroup"
    /\ Call(r, /\ groups' = [g \in DOMAIN groups |->
                                 IF g = op[r].item.id THEN Nothing ELSE groups[g]]
               /\ UNCHANGED <<logins, entities>>, "done", "refused")
    /\ UNCHANGED seen

SetGroupUsers(r) ==
    LET g == op[r].item.id
    IN  /\ at[r] = "setMembers"
        /\ IF Known(groups, g) /\ Valid(op[r].item.members)
           THEN Call(r, /\ groups' = [groups EXCEPT ![g].members = op[r].item.members]
                        /\ UNCHANGED <<logins, entities>>, "refetchGroup", "refused")
           ELSE Proceed(r, "refused") /\ UNCHANGED directory
        /\ UNCHANGED seen

\* All three that change a group read it again for the answer.
RefetchGroup(r) ==
    /\ at[r] = "refetchGroup"
    /\ \/ Proceed(r, IF Known(groups, op[r].item.id) THEN "done" ELSE "refused")
       \/ Fail(r, "refused")
    /\ UNCHANGED <<directory, seen>>

AccountHandlers(r) ==
    \/ AccountRequest(r)
    \/ CreateLogin(r) \/ CreateEntity(r) \/ LinkLogin(r)
    \/ FindUser(r) \/ SaveMetadata(r) \/ SetStatus(r)
    \/ ListGroups(r) \/ ListGroup(r) \/ ReadGroup(r) \/ WriteGroup(r)
    \/ DeleteLogin(r) \/ DeleteEntity(r)
    \/ ReplaceEntity(r) \/ Refetch(r)
    \/ SaveNewGroup(r) \/ FindGroup(r) \/ RenameGroup(r) \/ DropGroup(r)
    \/ SetGroupUsers(r) \/ RefetchGroup(r)

-----------------------------------------------------------------------------

\* Login and entity are made and deleted in calls of their own, by two
\* programs and in both orders.  Once every request about a user has been
\* answered, who can log in has an entity; unless a call failed, or two
\* requests worked on the user at once.
LoginMeansUser ==
    \A n \in Users \ trouble :
        \/ \E r \in Requests : op[r] # Nothing /\ op[r].name = n /\ at[r] \notin Answered
        \/ n \in logins => Named(entities, n) # {}

\* UpdateUser writes back what it read a call or more before.  Of what it is
\* not asked to change, the other of access control's fields survives it, no
\* matter which program wrote it, unless another request about the user was
\* under way at the same time and wrote the field since the read; all other
\* users do; and so do the other members of every group, but for who joined
\* since the read.  (SCIM's own fields do not: it erases them.)
OnlyWhatWasAsked ==
    [][\A r \in Requests :
          (at[r] \in {"saveMetadata", "writeGroup"} /\ at'[r] # at[r]) =>
          /\ \A i \in DOMAIN entities : Known(entities, i) =>
                 IF i = op[r].item.id
                 THEN \A f \in AcFields \ {op[r].item.field} :
                          entities'[i].meta[f] # entities[i].meta[f] =>
                          /\ seen[r].meta[f] # entities[i].meta[f]
                          /\ op[r].name \in overlapped
                 ELSE entities'[i] = entities[i]
          /\ \A g \in DOMAIN groups : Known(groups, g) /\ groups'[g] # groups[g] =>
                 /\ groups'[g].name = groups[g].name
                 /\ \A i \in seen[r].members \ {op[r].item.id} :
                        i \in groups[g].members => i \in groups'[g].members
                 /\ groups'[g].members \subseteq seen[r].members \cup {op[r].item.id}]_<<directory, requestVars>>
=============================================================================
