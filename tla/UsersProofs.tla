----------------------------- MODULE UsersProofs ----------------------------
(***************************************************************************)
(* Proofs about Users, for any set of ids, names and requests.             *)
(*                                                                         *)
(* AdminExists is not inductive: a create authorized while there was an    *)
(* admin could otherwise put a viewer into an empty table.  Authorized     *)
(* rules that out, since the table is never emptied while AdminExists      *)
(* holds.  UniqueNames needs that the id a request drew is still unused    *)
(* (Drawn), so that putting a user never replaces another.  Named says     *)
(* that a request carries what its kind needs.                             *)
(***************************************************************************)
EXTENDS Users, TLAPS

IInv == TypeOK /\ AdminExists /\ UniqueNames /\ Authorized /\ Named /\ Drawn

USE UsersAssumption, NoUserAssumption

\* A registered user's entry is a user record, and any other is NoUser.
LEMMA RegisteredType ==
  ASSUME TypeOK
  PROVE  /\ Admins \subseteq Registered
         /\ Registered \subseteq UserId
         /\ \A u \in Registered : users[u] \in User
BY DEF TypeOK, Admins, Registered

\* What a step that leaves the table alone keeps.
LEMMA TableUnchanged ==
  ASSUME UNCHANGED users
  PROVE  /\ Registered' = Registered
         /\ Admins' = Admins
         /\ (AdminExists => AdminExists')
         /\ (UniqueNames => UniqueNames')
BY DEF Registered, Admins, AdminExists, UniqueNames

\* What putting a record into the table does to it.
LEMMA PutTable ==
  ASSUME TypeOK, NEW u \in UserId, NEW n \in Name, NEW role \in Role,
         Put(u, n, role)
  PROVE  /\ users' \in [UserId -> User \cup {NoUser}]
         /\ users'[u] = [name |-> n, role |-> role]
         /\ \A v \in UserId \ {u} : users'[v] = users[v]
         /\ Registered' = Registered \cup {u}
         /\ Admins' = IF role = "admin" THEN Admins \cup {u} ELSE Admins \ {u}
<1>1. [name |-> n, role |-> role] \in User
  BY DEF User
<1>2. /\ users' = [users EXCEPT ![u] = [name |-> n, role |-> role]]
      /\ users \in [UserId -> User \cup {NoUser}]
  BY DEF Put, TypeOK
<1>3. /\ users' \in [UserId -> User \cup {NoUser}]
      /\ users'[u] = [name |-> n, role |-> role]
      /\ \A v \in UserId \ {u} : users'[v] = users[v]
  BY <1>1, <1>2
<1>4. Registered' = Registered \cup {u}
  BY <1>1, <1>3 DEF Registered
<1>5. Admins' = IF role = "admin" THEN Admins \cup {u} ELSE Admins \ {u}
  BY <1>3, <1>4 DEF Admins, Registered
<1> QED
  BY <1>3, <1>4, <1>5

\* Emptying or changing a request concerns no property of the table.
LEMMA DoneKeeps ==
  ASSUME TypeOK, NEW r \in Request, Done(r)
  PROVE  /\ req' \in [Request -> UserRequest]
         /\ req'[r] = Idle
         /\ \A s \in Request : s # r => req'[s] = req[s]
<1>1. Idle \in UserRequest
  BY DEF Idle, UserRequest
<1> QED
  BY <1>1 DEF TypeOK, Done

LEMMA InitIInv == Init => IInv
<1> SUFFICES ASSUME Init PROVE IInv
  OBVIOUS
<1>1. Idle \in UserRequest /\ Idle.op = "idle"
  BY DEF Idle, UserRequest
<1>2. Registered = {}
  BY DEF Init, Registered
<1>3. TypeOK
  BY <1>1 DEF Init, TypeOK
<1>4. AdminExists /\ UniqueNames
  BY <1>2 DEF AdminExists, UniqueNames
<1>5. Authorized /\ Named /\ Drawn
  BY <1>1, <1>2 DEF Init, Authorized, Named, Drawn
<1> QED
  BY <1>3, <1>4, <1>5 DEF IInv

\* A step that changes neither the table nor any request's op and id, or only
\* empties requests, keeps what the invariant says of them.
LEMMA QuietStep ==
  ASSUME IInv, UNCHANGED <<users, spent>>,
         \A r \in Request : req'[r] = req[r]
                              \/ req'[r].op = "idle"
  PROVE  AdminExists' /\ UniqueNames' /\ Authorized' /\ Named' /\ Drawn'
<1>1. AdminExists' /\ UniqueNames' /\ Registered' = Registered
  BY TableUnchanged DEF IInv
<1>2. Authorized'
  BY <1>1 DEF IInv, Authorized
<1>3. Named'
  BY DEF IInv, Named
<1>4. Drawn'
  BY <1>1 DEF IInv, Drawn
<1> QED
  BY <1>1, <1>2, <1>3, <1>4

\* Drawing an id that was never drawn keeps ids apart.
LEMMA BeginDraws ==
  ASSUME IInv, UNCHANGED users, NEW r \in Request, NEW q \in UserRequest,
         req' = [req EXCEPT ![r] = q],
         \/ q.op \notin {"bootstrap", "create"} /\ spent' = spent
         \/ q.id \in UserId \ spent /\ spent' = spent \cup {q.id}
  PROVE  Drawn' /\ spent' \subseteq UserId
<1>1. Registered' = Registered
  BY TableUnchanged
<1>2. req \in [Request -> UserRequest] /\ spent \subseteq UserId
  BY DEF IInv, TypeOK
<1>3. \A u \in Registered' : u \in spent'
  BY <1>1 DEF IInv, Drawn
<1>4. \A p \in Request : req'[p].op \in {"bootstrap", "create"} =>
         req'[p].id \in spent' \ Registered'
  BY <1>1, <1>2 DEF IInv, Drawn
<1>5. \A p, s \in Request :
        /\ req'[p].op \in {"bootstrap", "create"}
        /\ req'[s].op \in {"bootstrap", "create"}
        /\ req'[s].id = req'[p].id
        => s = p
  BY <1>2 DEF IInv, Drawn
<1> QED
  BY <1>2, <1>3, <1>4, <1>5 DEF Drawn

\* Putting a user with the id a create or a bootstrap drew.
LEMMA PutDrawn ==
  ASSUME IInv, UNCHANGED spent, NEW r \in Request,
         req[r].op \in {"bootstrap", "create"},
         NEW role \in Role, Put(req[r].id, req[r].name, role),
         req[r].name \in Name, req[r].id \in UserId,
         UserNamed(req[r].name) = {},
         role = "admin" \/ Registered # {},
         req' \in [Request -> UserRequest],
         \/ req'[r].op = "idle"
         \/ req'[r].op = "lookup" /\ req'[r].name \in Name,
         \A s \in Request \ {r} : req'[s] = req[s],
         sessions' \subseteq Name
  PROVE  IInv'
<1> DEFINE u == req[r].id
<1>1. TypeOK /\ u \in spent /\ u \notin Registered
  BY DEF IInv, Drawn
<1>2. /\ users' \in [UserId -> User \cup {NoUser}]
      /\ users'[u] = [name |-> req[r].name, role |-> role]
      /\ \A v \in UserId \ {u} : users'[v] = users[v]
      /\ Registered' = Registered \cup {u}
      /\ Admins' = IF role = "admin" THEN Admins \cup {u} ELSE Admins \ {u}
  BY <1>1, PutTable
<1>3. Admins \subseteq Registered /\ Registered \subseteq UserId
  BY <1>1, RegisteredType
<1>4. AdminExists'
  BY <1>1, <1>2, <1>3 DEF IInv, AdminExists
<1>5. \A v \in Registered : Lower[users[v].name] # Lower[req[r].name]
  BY DEF UserNamed
<1>6. UniqueNames'
  BY <1>1, <1>2, <1>3, <1>5 DEF IInv, UniqueNames
<1>7. Authorized'
  BY <1>2 DEF IInv, Authorized
<1>8. Drawn'
  BY <1>1, <1>2 DEF IInv, Drawn
<1>9. Named'
  BY DEF IInv, Named
<1>10. spent' \subseteq UserId
  BY <1>1 DEF TypeOK
<1> QED
  BY <1>2, <1>4, <1>6, <1>7, <1>8, <1>9, <1>10 DEF IInv, TypeOK

\* The steps that read or write the table in place.
LEMMA StepUpdate ==
  ASSUME IInv, NEW r \in Request, FinishUpdate(r)
  PROVE  IInv'
<1> DEFINE u == req[r].id
           role == IF req[r].role = Kept THEN users[u].role ELSE req[r].role
<1>1. TypeOK /\ req[r].op = "update" /\ Done(r) /\ UNCHANGED <<spent, sessions>>
  BY DEF FinishUpdate, IInv
<1>2. /\ req' \in [Request -> UserRequest]
      /\ req'[r] = Idle
      /\ \A s \in Request : s # r => req'[s] = req[s]
  BY <1>1, DoneKeeps
<1>3. Idle.op = "idle"
  BY DEF Idle
<1>4. spent' \subseteq UserId /\ sessions' \subseteq Name
  BY <1>1 DEF TypeOK
<1>5. CASE u \notin Registered \/ (req[r].role = "viewer" /\ LastAdmin(u))
  <2>1. users' = users
    BY <1>5 DEF FinishUpdate
  <2>2. AdminExists' /\ UniqueNames' /\ Authorized' /\ Named' /\ Drawn'
    BY <1>1, <1>2, <1>3, <2>1, QuietStep
  <2> QED
    BY <1>1, <1>2, <1>4, <2>1, <2>2 DEF IInv, TypeOK
<1>6. CASE ~(u \notin Registered \/ (req[r].role = "viewer" /\ LastAdmin(u)))
  <2>1. Put(u, users[u].name, role) /\ u \in Registered
    BY <1>6 DEF FinishUpdate
  <2>2. u \in UserId /\ users[u] \in User
    BY <1>1, <2>1, RegisteredType
  <2>3. users[u].name \in Name /\ role \in Role
    BY <1>1, <2>2 DEF User, TypeOK, UserRequest, Role
  <2>4. /\ users' \in [UserId -> User \cup {NoUser}]
        /\ users'[u] = [name |-> users[u].name, role |-> role]
        /\ \A v \in UserId \ {u} : users'[v] = users[v]
        /\ Registered' = Registered \cup {u}
        /\ Admins' = IF role = "admin" THEN Admins \cup {u} ELSE Admins \ {u}
    BY <1>1, <2>1, <2>2, <2>3, PutTable
  <2>5. Registered' = Registered
    BY <2>1, <2>4
  <2>6. Admins' # {}
    <3>1. CASE role = "admin"
      BY <2>4, <3>1
    <3>2. CASE role = "viewer" /\ u \notin Admins
      BY <2>1, <2>4, <3>2 DEF IInv, AdminExists
    <3>3. CASE role = "viewer" /\ u \in Admins
      <4>1. users[u].role = "admin" /\ req[r].role = "viewer"
        BY <3>3 DEF Admins, Kept
      <4>2. ~LastAdmin(u)
        BY <1>6, <4>1
      <4> QED
        BY <2>4, <3>3, <4>2 DEF LastAdmin
    <3> QED
      BY <2>3, <3>1, <3>2, <3>3 DEF Role
  <2>7. UniqueNames'
    BY <2>1, <2>2, <2>4, <2>5, RegisteredType, <1>1 DEF IInv, UniqueNames
  <2>8. Authorized' /\ Named' /\ Drawn'
    BY <1>1, <1>2, <1>3, <2>5 DEF IInv, Authorized, Named, Drawn
  <2> QED
    BY <1>2, <1>4, <2>4, <2>6, <2>7, <2>8 DEF IInv, TypeOK, AdminExists
<1> QED
  BY <1>5, <1>6

LEMMA StepDelete ==
  ASSUME IInv, NEW r \in Request, FinishDelete(r)
  PROVE  IInv'
<1> DEFINE u == req[r].id
<1>1. TypeOK /\ req[r].op = "delete" /\ Done(r) /\ UNCHANGED <<spent, sessions>>
  BY DEF FinishDelete, IInv
<1>2. /\ req' \in [Request -> UserRequest]
      /\ req'[r] = Idle
      /\ \A s \in Request : s # r => req'[s] = req[s]
  BY <1>1, DoneKeeps
<1>3. Idle.op = "idle"
  BY DEF Idle
<1>4. spent' \subseteq UserId /\ sessions' \subseteq Name
  BY <1>1 DEF TypeOK
<1>5. CASE u \notin Registered \/ LastAdmin(u)
  <2>1. users' = users
    BY <1>5 DEF FinishDelete
  <2>2. AdminExists' /\ UniqueNames' /\ Authorized' /\ Named' /\ Drawn'
    BY <1>1, <1>2, <1>3, <2>1, QuietStep
  <2> QED
    BY <1>1, <1>2, <1>4, <2>1, <2>2 DEF IInv, TypeOK
<1>6. CASE u \in Registered /\ ~LastAdmin(u)
  <2>1. users' = [users EXCEPT ![u] = NoUser]
    BY <1>6 DEF FinishDelete
  <2>2. Admins \subseteq Registered /\ Registered \subseteq UserId
    BY <1>1, RegisteredType
  <2>3. /\ users' \in [UserId -> User \cup {NoUser}]
        /\ users'[u] = NoUser
        /\ \A v \in UserId \ {u} : users'[v] = users[v]
    BY <1>1, <1>6, <2>1, <2>2 DEF TypeOK
  <2>4. Registered' = Registered \ {u}
    BY <2>2, <2>3 DEF Registered
  <2>5. Admins' = Admins \ {u}
    BY <2>2, <2>3, <2>4 DEF Admins
  <2>6. Admins' # {}
    BY <1>6, <2>5 DEF IInv, AdminExists, LastAdmin
  <2>7. Registered' # {}
    BY <2>2, <2>4, <2>5, <2>6
  <2>8. UniqueNames'
    BY <2>2, <2>3, <2>4 DEF IInv, UniqueNames
  <2>9. Authorized' /\ Named' /\ Drawn'
    BY <1>1, <1>2, <1>3, <2>4, <2>7 DEF IInv, Authorized, Named, Drawn
  <2> QED
    BY <1>2, <1>4, <2>3, <2>6, <2>8, <2>9 DEF IInv, TypeOK, AdminExists
<1> QED
  BY <1>5, <1>6

\* The steps that begin a request: the table stays, one request is filled in.
LEMMA StepBegin ==
  ASSUME IInv, UNCHANGED <<users, sessions>>, NEW r \in Request,
         NEW q \in UserRequest, req' = [req EXCEPT ![r] = q],
         q.op \in {"bootstrap", "lookup"} \/ Registered # {},
         q.op \in {"bootstrap", "lookup", "create"} => q.name \in Name,
         q.op = "create" => q.role \in Role,
         \/ q.op \notin {"bootstrap", "create"} /\ spent' = spent
         \/ q.id \in UserId \ spent /\ spent' = spent \cup {q.id}
  PROVE  IInv'
<1>1. TypeOK
  BY DEF IInv
<1>2. AdminExists' /\ UniqueNames' /\ Registered' = Registered
  BY TableUnchanged DEF IInv
<1>3. Authorized'
  BY <1>1, <1>2 DEF IInv, Authorized, TypeOK
<1>4. Drawn' /\ spent' \subseteq UserId
  BY BeginDraws
<1>5. Named'
  BY <1>1 DEF IInv, Named, TypeOK
<1>6. req' \in [Request -> UserRequest]
  BY <1>1 DEF TypeOK
<1> QED
  BY <1>1, <1>2, <1>3, <1>4, <1>5, <1>6 DEF IInv, TypeOK

LEMMA StepLogin ==
  ASSUME IInv, NEW r \in Request,
         \/ \E n \in Name : BeginLogin(r, n)
         \/ Bootstrap(r)
         \/ FinishLogin(r)
  PROVE  IInv'
<1>1. TypeOK
  BY DEF IInv
<1>2. CASE \E n \in Name : BeginLogin(r, n)
  <2>1. PICK n \in Name : BeginLogin(r, n)
    BY <1>2
  <2>2. CASE Registered = {}
    <3>1. PICK u \in UserId \ spent :
            /\ req' = [req EXCEPT ![r] = [op |-> "bootstrap", id |-> u,
                                          name |-> n, role |-> "admin"]]
            /\ spent' = spent \cup {u}
      BY <2>1, <2>2 DEF BeginLogin
    <3>2. [op |-> "bootstrap", id |-> u, name |-> n, role |-> "admin"] \in UserRequest
      BY DEF UserRequest, Role
    <3> QED
      BY <2>1, <3>1, <3>2, StepBegin DEF BeginLogin
  <2>3. CASE Registered # {}
    <3>1. [Idle EXCEPT !.op = "lookup", !.name = n] \in UserRequest
      BY DEF UserRequest, Idle
    <3>2. /\ [Idle EXCEPT !.op = "lookup", !.name = n].op = "lookup"
          /\ [Idle EXCEPT !.op = "lookup", !.name = n].name = n
      BY DEF Idle
    <3> QED
      BY <2>1, <2>3, <3>1, <3>2, StepBegin DEF BeginLogin
  <2> QED
    BY <2>2, <2>3
<1>3. CASE Bootstrap(r)
  <2> DEFINE q == [Idle EXCEPT !.op = "lookup", !.name = req[r].name]
  <2>1. /\ req[r].op = "bootstrap"
        /\ req' = [req EXCEPT ![r] = q]
        /\ UNCHANGED <<spent, sessions>>
    BY <1>3 DEF Bootstrap
  <2>2. req[r] \in UserRequest
    BY <1>1 DEF TypeOK
  <2>3. req[r].name \in Name
    BY <2>1 DEF IInv, Named
  <2>4. q \in UserRequest /\ q.op = "lookup" /\ q.name = req[r].name
    BY <2>2 DEF UserRequest, Idle
  <2>5. CASE Registered = {}
    <3>1. Put(req[r].id, req[r].name, "admin")
      BY <1>3, <2>5 DEF Bootstrap
    <3>2. UserNamed(req[r].name) = {}
      BY <2>5 DEF UserNamed
    <3>3. req[r].id \in UserId
      BY <1>1, <2>1 DEF IInv, Drawn, TypeOK
    <3>4. /\ req' \in [Request -> UserRequest]
          /\ req'[r] = q
          /\ \A s \in Request \ {r} : req'[s] = req[s]
      BY <1>1, <2>1, <2>4 DEF TypeOK
    <3> QED
      BY <1>1, <2>1, <2>3, <2>4, <3>1, <3>2, <3>3, <3>4, PutDrawn DEF TypeOK, Role
  <2>6. CASE Registered # {}
    <3>1. UNCHANGED users
      BY <1>3, <2>6 DEF Bootstrap
    <3> QED
      BY <2>1, <2>3, <2>4, <3>1, StepBegin
  <2> QED
    BY <2>5, <2>6
<1>4. CASE FinishLogin(r)
  <2>1. Done(r) /\ UNCHANGED <<users, spent>>
    BY <1>4 DEF FinishLogin
  <2>2. /\ req' \in [Request -> UserRequest]
        /\ req'[r].op = "idle"
        /\ \A s \in Request : s # r => req'[s] = req[s]
    BY <1>1, <2>1, DoneKeeps DEF Idle
  <2>3. AdminExists' /\ UniqueNames' /\ Authorized' /\ Named' /\ Drawn'
    BY <2>1, <2>2, QuietStep
  <2>4. sessions' \subseteq Name
    BY <1>1, <1>4, RegisteredType DEF FinishLogin, UserNamed, TypeOK, User
  <2> QED
    BY <1>1, <2>1, <2>2, <2>3, <2>4 DEF IInv, TypeOK, Named
<1> QED
  BY <1>2, <1>3, <1>4

LEMMA StepManage ==
  ASSUME IInv, NEW r \in Request,
         \/ \E n \in Name, role \in Role : BeginCreate(r, n, role)
         \/ \E u \in UserId, role \in Role \cup {Kept} : BeginUpdate(r, u, role)
         \/ \E u \in UserId : BeginDelete(r, u)
         \/ FinishCreate(r)
  PROVE  IInv'
<1>1. TypeOK
  BY DEF IInv
<1>2. CASE \E n \in Name, role \in Role : BeginCreate(r, n, role)
  <2>1. PICK n \in Name, role \in Role, actor \in Registered, u \in UserId \ spent :
          /\ AsAdmin(r, actor)
          /\ spent' = spent \cup {u}
          /\ req' = [req EXCEPT ![r] = [op |-> "create", id |-> u, name |-> n,
                                        role |-> role]]
    BY <1>2 DEF BeginCreate
  <2>2. [op |-> "create", id |-> u, name |-> n, role |-> role] \in UserRequest
    BY DEF UserRequest
  <2> QED
    BY <2>1, <2>2, StepBegin DEF AsAdmin
<1>3. CASE \E u \in UserId, role \in Role \cup {Kept} : BeginUpdate(r, u, role)
  <2>1. PICK u \in UserId, role \in Role \cup {Kept}, actor \in Registered :
          /\ AsAdmin(r, actor)
          /\ req' = [req EXCEPT ![r] = [op |-> "update", id |-> u, name |-> NoName,
                                        role |-> role]]
          /\ UNCHANGED spent
    BY <1>3 DEF BeginUpdate
  <2>2. [op |-> "update", id |-> u, name |-> NoName, role |-> role] \in UserRequest
    BY DEF UserRequest
  <2> QED
    BY <2>1, <2>2, StepBegin DEF AsAdmin
<1>4. CASE \E u \in UserId : BeginDelete(r, u)
  <2>1. PICK u \in UserId, actor \in Registered :
          /\ AsAdmin(r, actor)
          /\ req' = [req EXCEPT ![r] = [op |-> "delete", id |-> u, name |-> NoName,
                                        role |-> Kept]]
          /\ UNCHANGED spent
    BY <1>4 DEF BeginDelete
  <2>2. [op |-> "delete", id |-> u, name |-> NoName, role |-> Kept] \in UserRequest
    BY DEF UserRequest
  <2> QED
    BY <2>1, <2>2, StepBegin DEF AsAdmin
<1>5. CASE FinishCreate(r)
  <2>1. req[r].op = "create" /\ Done(r) /\ UNCHANGED <<spent, sessions>>
    BY <1>5 DEF FinishCreate
  <2>2. /\ req' \in [Request -> UserRequest]
        /\ req'[r].op = "idle"
        /\ \A s \in Request : s # r => req'[s] = req[s]
    BY <1>1, <2>1, DoneKeeps DEF Idle
  <2>3. CASE UserNamed(req[r].name) = {}
    <3>1. Put(req[r].id, req[r].name, req[r].role)
      BY <1>5, <2>3 DEF FinishCreate
    <3>2. req[r].id \in UserId /\ Registered # {}
      BY <1>1, <2>1 DEF IInv, Drawn, Authorized, TypeOK
    <3>3. req[r].name \in Name /\ req[r].role \in Role
      BY <2>1 DEF IInv, Named
    <3> QED
      BY <1>1, <2>1, <2>2, <2>3, <3>1, <3>2, <3>3, PutDrawn DEF TypeOK
  <2>4. CASE UserNamed(req[r].name) # {}
    <3>1. UNCHANGED users
      BY <1>5, <2>4 DEF FinishCreate
    <3>2. AdminExists' /\ UniqueNames' /\ Authorized' /\ Named' /\ Drawn'
      BY <2>1, <2>2, <3>1, QuietStep
    <3> QED
      BY <1>1, <2>1, <2>2, <3>1, <3>2 DEF IInv, TypeOK, Named
  <2> QED
    BY <2>3, <2>4
<1> QED
  BY <1>2, <1>3, <1>4, <1>5

\* Every step of the panel keeps the invariant.
LEMMA NextIInv == IInv /\ [Next]_vars => IInv'
<1> SUFFICES ASSUME IInv, [Next]_vars PROVE IInv'
  OBVIOUS
<1>1. CASE UNCHANGED vars
  BY <1>1 DEF vars, IInv, TypeOK, AdminExists, UniqueNames, Authorized, Named,
              Drawn, Registered, Admins
<1>2. CASE \E n \in Name : EndSession(n)
  <2>1. UNCHANGED <<users, spent, req>> /\ sessions' \subseteq sessions
    BY <1>2 DEF EndSession
  <2>2. AdminExists' /\ UniqueNames' /\ Authorized' /\ Named' /\ Drawn'
    BY <2>1, QuietStep
  <2> QED
    BY <2>1, <2>2 DEF IInv, TypeOK
<1>3. CASE \E r \in Request :
             (\E n \in Name : BeginLogin(r, n)) \/ Bootstrap(r) \/ FinishLogin(r)
  BY <1>3, StepLogin
<1>4. CASE \E r \in Request :
             \/ \E n \in Name, role \in Role : BeginCreate(r, n, role)
             \/ \E u \in UserId, role \in Role \cup {Kept} : BeginUpdate(r, u, role)
             \/ \E u \in UserId : BeginDelete(r, u)
             \/ FinishCreate(r)
  BY <1>4, StepManage
<1>5. CASE \E r \in Request : FinishUpdate(r) \/ FinishDelete(r)
  BY <1>5, StepUpdate, StepDelete
<1> QED
  BY <1>1, <1>2, <1>3, <1>4, <1>5 DEF Next

\* The inductive invariant holds of every behaviour of the panel.
THEOREM Inductive == Spec => []IInv
<1>1. Init => IInv
  BY InitIInv
<1>2. IInv /\ [Next]_vars => IInv'
  BY NextIInv
<1> QED
  BY <1>1, <1>2, PTL DEF Spec

\* The variables keep their types, whatever the sets of ids and names are.
THEOREM TypeCorrect == Spec => []TypeOK
<1>1. IInv => TypeOK
  BY DEF IInv
<1> QED
  BY <1>1, Inductive, PTL

\* updateUser and deleteUser never leave a panel that has users without an
\* admin, however many requests run at once.
THEOREM AlwaysAnAdmin == Spec => []AdminExists
<1>1. IInv => AdminExists
  BY DEF IInv
<1> QED
  BY <1>1, Inductive, PTL

\* createUser and bootstrapAdmin never store two spellings of one name.
THEOREM NamesAreUnique == Spec => []UniqueNames
<1>1. IInv => UniqueNames
  BY DEF IInv
<1> QED
  BY <1>1, Inductive, PTL

\* What the steps that touch the table leave in it.
LEMMA StaysPopulated ==
  ASSUME IInv, [Next]_vars, Registered # {}
  PROVE  Registered' # {}
<1>1. TypeOK /\ Admins # {} /\ Admins \subseteq Registered
  BY RegisteredType DEF IInv, AdminExists
<1>2. CASE UNCHANGED users
  BY <1>2, TableUnchanged
<1>3. ASSUME NEW u \in UserId, NEW n \in Name, NEW role \in Role, Put(u, n, role)
      PROVE  Registered' # {}
  BY <1>1, <1>3, PutTable
<1>4. ASSUME NEW r \in Request, FinishCreate(r), ~ UNCHANGED users
      PROVE  Registered' # {}
  <2>1. req[r].op = "create" /\ Put(req[r].id, req[r].name, req[r].role)
    BY <1>4 DEF FinishCreate
  <2>2. req[r].id \in UserId /\ req[r].name \in Name /\ req[r].role \in Role
    BY <1>1, <2>1 DEF IInv, Drawn, Named, TypeOK
  <2> QED
    BY <1>3, <2>1, <2>2
<1>5. ASSUME NEW r \in Request, FinishUpdate(r), ~ UNCHANGED users
      PROVE  Registered' # {}
  <2> DEFINE u == req[r].id
             role == IF req[r].role = Kept THEN users[u].role ELSE req[r].role
  <2>1. u \in Registered /\ Put(u, users[u].name, role)
    BY <1>5 DEF FinishUpdate
  <2>2. u \in UserId /\ users[u] \in User
    BY <1>1, <2>1, RegisteredType
  <2>3. users[u].name \in Name /\ role \in Role
    BY <1>1, <2>2 DEF User, TypeOK, UserRequest, Role
  <2> QED
    BY <1>3, <2>1, <2>2, <2>3
<1>6. ASSUME NEW r \in Request, FinishDelete(r), ~ UNCHANGED users
      PROVE  Registered' # {}
  <2> DEFINE u == req[r].id
  <2>1. ~LastAdmin(u) /\ users' = [users EXCEPT ![u] = NoUser]
    BY <1>6 DEF FinishDelete
  <2>2. PICK a \in Admins : a # u
    BY <1>1, <2>1 DEF LastAdmin
  <2>3. a \in UserId /\ users[a] # NoUser
    BY <2>2 DEF Admins, Registered
  <2>4. users'[a] = users[a]
    BY <1>1, <2>1, <2>2, <2>3 DEF TypeOK
  <2> QED
    BY <2>3, <2>4 DEF Registered
<1>7. ASSUME NEW r \in Request, Bootstrap(r)
      PROVE  UNCHANGED users
  BY <1>7 DEF Bootstrap
<1> QED
  BY <1>2, <1>4, <1>5, <1>6, <1>7
  DEF Next, vars, EndSession, BeginLogin, FinishLogin, BeginCreate, BeginUpdate,
      BeginDelete, AsAdmin

\* The panel is bootstrapped once: deleteUser never removes the last user, so no
\* later login is handed the admin role.
THEOREM BootstrapOnce == Spec => BootstrapIsOver
<1>1. IInv /\ [Next]_vars => [Registered # {} => Registered' # {}]_vars
  BY StaysPopulated
<1> QED
  BY <1>1, Inductive, PTL DEF Spec, BootstrapIsOver

=============================================================================
