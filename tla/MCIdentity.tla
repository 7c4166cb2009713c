----------------------------- MODULE MCIdentity -----------------------------
(* Identity with three requests and one workload per concern.              *)
EXTENDS Identity, TLC

CONSTANTS r1, r2, r3, u1, u2, u3, g1, g2, a1, a2, b1, b2

Staff == <<u1, u2>>

O(does, name, item) == [does |-> does, name |-> name, item |-> item]

Change(i, field, status, to) == [id |-> i, field |-> field, status |-> status, groups |-> to]

\* A new user, and what can be done with the account once there is one.
OneUser ==
    {O("createUser", u3, Nothing), O("scimCreateUser", u3, [gives |-> ScimFields])}
    \cup {O(d, u3, [id |-> i]) : d \in {"deleteUser", "scimDeleteUser"}, i \in {3, 4}}
    \cup {O("updateUser", u3, Change(3, "email", s, Nothing)) : s \in {"active", "disabled"}}
    \cup {O("scimUpdateUser", u3, [id |-> 3, gives |-> {"email"}, active |-> FALSE])}

OneRecord ==
    {O("updateUser", u1, Change(1, f, Nothing, Nothing)) : f \in AcFields}
    \cup {O(d, u1, [id |-> 1]) : d \in {"deleteUser", "scimDeleteUser"}}
    \cup {O("scimUpdateUser", u1, [id |-> 1, gives |-> g, active |-> g # {}])
             : g \in {{}, {"display"}, ScimFields}}

Members ==
    {O("updateUser", u1, Change(1, Nothing, Nothing, s)) : s \in {{}, {1, 2}}}
    \cup {O("updateUser", u2, Change(2, Nothing, Nothing, s)) : s \in {{1}, {2}}}
    \cup {O("setGroupUsers", Nothing, [id |-> 1, members |-> {1}]),
          O("createGroup", Nothing, [name |-> g2]),
          O("deleteGroup", Nothing, [id |-> 1]),
          O("deleteUser", u2, [id |-> 2])}

GroupsOfBoth ==
    {O("scimCreateGroup", Nothing, [name |-> n, members |-> {1, 2}]) : n \in {g1, g2}}
    \cup {O("scimUpdateGroup", Nothing, [id |-> 1, name |-> n, members |-> {}]) : n \in {g1, g2}}
    \cup {O("scimDeleteGroup", Nothing, [id |-> 1]),
          O("updateGroup", Nothing, [id |-> 1, name |-> g2]),
          O("createGroup", Nothing, [name |-> g2]),
          O("updateUser", u1, Change(1, Nothing, Nothing, {})),
          O("deleteUser", u2, [id |-> 2])}

LoggedIn ==
    {O(d, u1, Nothing) : d \in {"login", "me", "refresh", "logout"}}
    \cup {O(d, u1, [id |-> 1]) : d \in {"deleteUser", "scimDeleteUser"}}
    \cup {O("scimUpdateUser", u1, [id |-> 1, gives |-> ScimFields, active |-> FALSE])}

LoggedInNew ==
    {O(d, u3, Nothing) : d \in {"createUser", "login", "me"}}
    \cup {O("scimCreateUser", u3, [gives |-> ScimFields])}

Keys == {O(d, u1, Nothing) : d \in {"startInstance", "signOn", "samlLogin"}}

Replicated == {O("startReplica", Nothing, Nothing)}

AllWorkloads ==
    {OneUser, OneRecord, Members, GroupsOfBoth, LoggedIn, LoggedInNew, Keys, Replicated}

Interchangeable == Permutations(Requests)
=============================================================================
