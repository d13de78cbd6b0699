------------------------------- MODULE Users --------------------------------
(***************************************************************************)
(* The panel's accounts: the hub's user table (src/src/worker/hub.ts) and  *)
(* the Worker's login, session and user-management handlers                *)
(* (src/src/worker/index.ts).  A handler calls the hub two or three times; *)
(* each call is atomic in the Durable Object and a step here, and the      *)
(* handlers of all operators interleave between their calls.               *)
(*                                                                         *)
(* Passwords are left out: whether a login's password is right is either   *)
(* answer, and a password change leaves the modelled state alone.          *)
(***************************************************************************)
EXTENDS Naturals, FiniteSets

CONSTANTS
  UserId,    \* what crypto.randomUUID may return
  Name,      \* usernames that validateUsername accepts
  Lower,     \* toLowerCase on those names
  Request,   \* Worker requests in progress at the same time
  NoUser,    \* users has no entry for the id
  NoId,
  NoName

ASSUME UsersAssumption ==
  /\ NoId \notin UserId
  /\ NoName \notin Name
  /\ DOMAIN Lower = Name

VARIABLES
  users,     \* the users map, memory and storage alike
  spent,     \* ids drawn so far: a UUID is never drawn twice
  sessions,  \* usernames for which a browser holds a valid cookie
  req        \* the requests in progress

vars == <<users, spent, sessions, req>>

Role == {"admin", "viewer"}
User == [name : Name, role : Role]
ASSUME NoUserAssumption == NoUser \notin User

Kept == "kept"   \* a patch that does not mention the role

UserRequest == [op : {"idle", "bootstrap", "lookup", "create", "update", "delete"},
                id : UserId \cup {NoId}, name : Name \cup {NoName},
                role : Role \cup {Kept}]

Idle == [op |-> "idle", id |-> NoId, name |-> NoName, role |-> Kept]

Registered == {u \in UserId : users[u] # NoUser}
Admins == {u \in Registered : users[u].role = "admin"}

\* Mutation: names are compared as they were typed.
UserNamedExactly(n) == {u \in Registered : users[u].name = n}

\* getUserByUsername compares names without regard to case.
UserNamed(n) == {u \in Registered : Lower[users[u].name] = Lower[n]}

Done(r) == req' = [req EXCEPT ![r] = Idle]

(***************************************************************************)
(* Login.                                                                  *)
(***************************************************************************)

\* countUsers: only an empty table sends the login through bootstrapAdmin.  The
\* id of the admin to be is drawn before the password is hashed.
BeginLogin(r, n) ==
  /\ req[r] = Idle
  /\ IF Registered = {}
     THEN \E u \in UserId \ spent :
            /\ req' = [req EXCEPT ![r] = [op |-> "bootstrap", id |-> u,
                                          name |-> n, role |-> "admin"]]
            /\ spent' = spent \cup {u}
     ELSE /\ req' = [req EXCEPT ![r] = [Idle EXCEPT !.op = "lookup", !.name = n]]
          /\ spent' = spent
  /\ UNCHANGED <<users, sessions>>

Put(u, n, role) == users' = [users EXCEPT ![u] = [name |-> n, role |-> role]]

\* bootstrapAdmin looks again: another first login may have won.
Bootstrap(r) ==
  /\ req[r].op = "bootstrap"
  /\ IF Registered = {} THEN Put(req[r].id, req[r].name, "admin") ELSE users' = users
  /\ req' = [req EXCEPT ![r] = [Idle EXCEPT !.op = "lookup", !.name = req[r].name]]
  /\ UNCHANGED <<spent, sessions>>

\* The lookup and, with the right password, a session for the stored name.
FinishLogin(r) ==
  /\ req[r].op = "lookup"
  /\ \/ \E u \in UserNamed(req[r].name) : sessions' = sessions \cup {users[u].name}
     \/ UNCHANGED sessions
  /\ Done(r)
  /\ UNCHANGED <<users, spent>>

\* A cookie expires or its holder logs out.  Nothing revokes it earlier.
EndSession(n) ==
  /\ n \in sessions
  /\ sessions' = sessions \ {n}
  /\ UNCHANGED <<users, spent, req>>

(***************************************************************************)
(* User management: authenticate reads the actor, the second call acts.    *)
(***************************************************************************)

\* authenticate, then the admin check and the checks on the body.
AsAdmin(r, actor) ==
  /\ req[r] = Idle
  /\ \E n \in sessions : actor \in UserNamed(n)
  /\ users[actor].role = "admin"
  /\ UNCHANGED <<users, sessions>>

BeginCreate(r, n, role) ==
  \E actor \in Registered, u \in UserId \ spent :
    /\ AsAdmin(r, actor)
    /\ spent' = spent \cup {u}
    /\ req' = [req EXCEPT ![r] = [op |-> "create", id |-> u, name |-> n, role |-> role]]

BeginUpdate(r, target, role) ==
  \E actor \in Registered :
    /\ AsAdmin(r, actor)
    /\ req' = [req EXCEPT ![r] = [op |-> "update", id |-> target, name |-> NoName,
                                  role |-> role]]
    /\ UNCHANGED spent

\* "you cannot delete your own account"
BeginDelete(r, target) ==
  \E actor \in Registered \ {target} :
    /\ AsAdmin(r, actor)
    /\ req' = [req EXCEPT ![r] = [op |-> "delete", id |-> target, name |-> NoName,
                                  role |-> Kept]]
    /\ UNCHANGED spent

\* createUser
FinishCreate(r) ==
  /\ req[r].op = "create"
  /\ IF UserNamed(req[r].name) = {} THEN Put(req[r].id, req[r].name, req[r].role)
     ELSE users' = users
  /\ Done(r)
  /\ UNCHANGED <<spent, sessions>>

\* Mutation: the guard asks for one admin instead of more than one.
LastAdminUnlessNone(u) == u \in Admins /\ Admins = {}

\* admins.length <= 1, asked of a user that is one of them
LastAdmin(u) == u \in Admins /\ Admins \ {u} = {}

\* Mutation: a patch without a role overwrites the role.
FinishUpdateBlank(r) ==
  LET u == req[r].id IN
  /\ req[r].op = "update"
  /\ IF u \notin Registered \/ (req[r].role = "viewer" /\ LastAdmin(u))
     THEN users' = users
     ELSE Put(u, users[u].name, req[r].role)
  /\ Done(r)
  /\ UNCHANGED <<spent, sessions>>

\* updateUser
FinishUpdate(r) ==
  LET u == req[r].id
      role == req[r].role
  IN /\ req[r].op = "update"
     /\ IF u \notin Registered \/ (role = "viewer" /\ LastAdmin(u))
        THEN users' = users
        ELSE Put(u, users[u].name, IF role = Kept THEN users[u].role ELSE role)
     /\ Done(r)
     /\ UNCHANGED <<spent, sessions>>

\* Mutation: the guard for the last admin is missing.
FinishDeleteUnguarded(r) ==
  /\ req[r].op = "delete"
  /\ users' = [users EXCEPT ![req[r].id] = NoUser]
  /\ Done(r)
  /\ UNCHANGED <<spent, sessions>>

\* deleteUser
FinishDelete(r) ==
  LET u == req[r].id IN
  /\ req[r].op = "delete"
  /\ users' = IF u \notin Registered \/ LastAdmin(u) THEN users
              ELSE [users EXCEPT ![u] = NoUser]
  /\ Done(r)
  /\ UNCHANGED <<spent, sessions>>

(***************************************************************************)
(* The specification and its properties.                                   *)
(***************************************************************************)

Init ==
  /\ users = [u \in UserId |-> NoUser]
  /\ spent = {}
  /\ sessions = {}
  /\ req = [r \in Request |-> Idle]

Next ==
  \/ \E n \in Name : EndSession(n)
  \/ \E r \in Request :
       \/ \E n \in Name : BeginLogin(r, n)
       \/ \E n \in Name, role \in Role : BeginCreate(r, n, role)
       \/ \E u \in UserId, role \in Role \cup {Kept} : BeginUpdate(r, u, role)
       \/ \E u \in UserId : BeginDelete(r, u)
       \/ Bootstrap(r) \/ FinishLogin(r)
       \/ FinishCreate(r) \/ FinishUpdate(r) \/ FinishDelete(r)

Spec == Init /\ [][Next]_vars

\* Every variable keeps its type.
TypeOK ==
  /\ users \in [UserId -> User \cup {NoUser}]
  /\ spent \subseteq UserId
  /\ sessions \subseteq Name
  /\ req \in [Request -> UserRequest]

\* A panel that has users has an admin, whatever demotions and deletions were
\* authorized before another one took effect (updateUser, deleteUser).
AdminExists == Registered # {} => Admins # {}

\* No two users share a name, in any spelling: the login and every session
\* finds one account (createUser, bootstrapAdmin).
UniqueNames ==
  \A u, v \in Registered :
    Lower[users[u].name] = Lower[users[v].name] => u = v

\* A panel is bootstrapped once: having had users, it never runs out of them
\* and so never again hands the admin role to whoever logs in first.
BootstrapIsOver == [][Registered # {} => Registered' # {}]_vars

\* Strengthenings that make the properties above inductive.  A request that is
\* about to act was authorized by a user, and there still is one; it carries
\* what it will store; ids are drawn for one request only.
Authorized ==
  \A r \in Request : req[r].op \in {"create", "update", "delete"} => Registered # {}

Named ==
  \A r \in Request :
    /\ req[r].op \in {"bootstrap", "lookup", "create"} => req[r].name \in Name
    /\ req[r].op = "create" => req[r].role \in Role

Drawn ==
  /\ \A u \in Registered : u \in spent
  /\ \A r \in Request : req[r].op \in {"bootstrap", "create"} =>
       /\ req[r].id \in spent \ Registered
       /\ \A s \in Request : req[s].op \in {"bootstrap", "create"}
                               /\ req[s].id = req[r].id => s = r

=============================================================================
