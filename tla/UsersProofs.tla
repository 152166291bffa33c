---------------------------- MODULE UsersProofs ----------------------------
(***************************************************************************)
(* Proofs about Users, for any replicas, callers, users, e-mails, commands *)
(* and faults.                                                             *)
(***************************************************************************)
EXTENDS Users, FiniteSetTheorems, TLAPS

-----------------------------------------------------------------------------
(* The inductive invariant.                                                *)

Normalised(u) == u \in Row /\ Normal[u.email] = u.email

(* What a request may be while its handler runs.                           *)
Saves(req) ==
  req.kind = "create" /\ Normalised(req.user) /\ req.user.id \notin DOMAIN users

Publishes(req) ==
  req.kind = "create" /\ req.user \in Row /\ req.user.id \in DOMAIN users

Updates(req) ==
  /\ req.kind = "update" /\ req.cmd \in UpdateCommands /\ Normalised(req.user)
  /\ req.cmd.id \in DOMAIN users /\ req.user.id = req.cmd.id

RequestInv ==
  \A c \in Clients :
    /\ request[c].at = "save" => Saves(request[c])
    /\ request[c].at = "publish" => Publishes(request[c])
    /\ request[c].at = "update" => Updates(request[c])

(* The bus: one command of a kind at a time in each replica.               *)
OneAtATime ==
  \A c, d \in Clients :
    /\ c # d /\ ReplicaOf[c] = ReplicaOf[d]
    /\ request[c].at \in Handling /\ request[d].at \in Handling
    => request[c].kind # request[d].kind

IDsApart ==
  \A c, d \in Clients :
    c # d /\ request[c].at = "save" /\ request[d].at = "save"
      => request[c].user.id # request[d].user.id

(* The unique index, over normalised e-mails.                              *)
TableInv ==
  /\ \A id \in DOMAIN users : Normal[users[id].email] = users[id].email
  /\ \A id, other \in DOMAIN users : users[id].email = users[other].email => id = other

IInv ==
  /\ TypeOK /\ DOMAIN request = Clients
  /\ RequestInv /\ OneAtATime /\ IDsApart /\ TableInv
  /\ OwnUpdatesKept /\ CreatedWereStored

-----------------------------------------------------------------------------
(* Steps that only move one request.                                       *)

(* What the request a step moves to has to satisfy.                        *)
Fits(c, req) ==
  /\ req \in Request \cup Answered \cup {Idle}
  /\ req.at = "save" =>
       /\ Saves(req)
       /\ \A d \in Clients : d # c /\ request[d].at = "save" => request[d].user.id # req.user.id
  /\ req.at = "publish" => Publishes(req)
  /\ req.at = "update" => Updates(req) /\ (users[req.cmd.id] # req.base
                                             => writer[req.cmd.id] # ReplicaOf[c])
  /\ req.at \in Handling => \A d \in Clients :
       d # c /\ ReplicaOf[d] = ReplicaOf[c] /\ request[d].at \in Handling
         => request[d].kind # req.kind

(* Moving one request to one that fits keeps the invariant.                *)
LEMMA MoveKeeps ==
  ASSUME IInv, NEW c \in Clients, NEW req, Fits(c, req),
         request' = [request EXCEPT ![c] = req],
         UNCHANGED <<users, writer>>,
         published' \subseteq DOMAIN users
  PROVE  IInv'
<1>1. \A d \in Clients : request'[d] = IF d = c THEN req ELSE request[d]
  BY DEF IInv
<1>2. TypeOK' /\ DOMAIN request' = Clients
  <2>1. \A d \in Clients : request'[d] \in Request \cup Answered \cup {Idle}
    BY <1>1 DEF IInv, TypeOK, Fits
  <2>2. published' \subseteq UserIDs
    BY DEF IInv, TypeOK
  <2> QED BY <2>1, <2>2 DEF IInv, TypeOK
<1>3. RequestInv'
  <2> SUFFICES ASSUME NEW d \in Clients
               PROVE  /\ request'[d].at = "save" => Saves(request[d])'
                      /\ request'[d].at = "publish" => Publishes(request[d])'
                      /\ request'[d].at = "update" => Updates(request[d])'
    BY DEF RequestInv
  <2>1. CASE d = c
    BY <2>1, <1>1 DEF Fits, Saves, Publishes, Updates
  <2>2. CASE d # c
    BY <2>2, <1>1 DEF IInv, RequestInv, Saves, Publishes, Updates
  <2> QED BY <2>1, <2>2
<1>4. OneAtATime'
  BY <1>1 DEF IInv, OneAtATime, Fits
<1>5. IDsApart'
  BY <1>1 DEF IInv, IDsApart, Fits
<1>6. TableInv'
  BY DEF IInv, TableInv
<1>7. OwnUpdatesKept'
  BY <1>1 DEF IInv, OwnUpdatesKept, Fits
<1>8. CreatedWereStored'
  BY DEF CreatedWereStored
<1> QED BY <1>2, <1>3, <1>4, <1>5, <1>6, <1>7, <1>8 DEF IInv

-----------------------------------------------------------------------------
(* The steps that move one request.                                        *)

(* A request under way has the fields of one.                              *)
LEMMA UnderWay ==
  ASSUME IInv, NEW c \in Clients, request[c].at \in Handling \cup {"read"}
  PROVE  request[c] \in Request
BY DEF IInv, TypeOK, Request, Answered, Idle, Handling

(* A caller that waits for its answer may be put in any state the type     *)
(* allows.                                                                 *)
LEMMA RestKeeps ==
  ASSUME IInv, NEW c \in Clients, NEW req \in Request \cup Answered \cup {Idle},
         req.at \in {"read", "answered", "idle"},
         request' = [request EXCEPT ![c] = req],
         UNCHANGED <<users, published, writer>>
  PROVE  IInv'
<1>1. Fits(c, req)
  BY DEF Fits, Handling
<1>2. published' \subseteq DOMAIN users
  BY DEF IInv, CreatedWereStored
<1> QED BY <1>1, <1>2, MoveKeeps

(* Begins puts the request it names in place of the caller's.              *)
LEMMA RejectKeeps ==
  ASSUME IInv, NEW c \in Clients, NEW kind \in {"create", "update"},
         NEW cmd \in CreateCommands \cup UpdateCommands,
         NEW user \in Row \cup {Nothing}, NEW failed \in BOOLEAN,
         Begins(c, kind, cmd, "read", user, Nothing, failed),
         UNCHANGED <<users, published, writer>>
  PROVE  IInv'
<1> DEFINE req == [kind |-> kind, cmd |-> cmd, at |-> "read", user |-> user,
                   base |-> Nothing, excused |-> failed]
<1>1. req \in Request
  BY DEF Request
<1>2. request' = [request EXCEPT ![c] = req]
  BY DEF Begins
<1> HIDE DEF req
<1>3. req.at = "read"
  BY DEF req
<1> QED BY <1>1, <1>2, <1>3, RestKeeps

LEMMA AckedKeeps ==
  ASSUME IInv, NEW c \in Clients, request[c].at \in Handling,
         NEW user \in Row \cup {Nothing}, NEW failed \in BOOLEAN,
         Acked(c, user, failed), UNCHANGED <<users, published, writer>>
  PROVE  IInv'
<1> DEFINE req == [request[c] EXCEPT !.at = "read", !.user = user, !.base = Nothing,
                                     !.excused = failed]
<1>1. request[c] \in Request
  BY UnderWay
<1>2. req \in Request /\ req.at = "read"
  BY <1>1 DEF Request
<1>3. request' = [request EXCEPT ![c] = req]
  BY <1>1 DEF Acked, Request
<1> HIDE DEF req
<1> QED BY <1>2, <1>3, RestKeeps

LEMMA AnswerKeeps ==
  ASSUME IInv, NEW c \in Clients, request[c].at = "read",
         NEW user \in Row \cup {Nothing}, NEW failed \in BOOLEAN,
         Answer(c, user, failed)
  PROVE  IInv'
<1> DEFINE req == [at |-> "answered", user |-> request[c].user, result |-> user,
                   excused |-> request[c].excused \/ failed]
<1>1. request[c] \in Request
  BY UnderWay
<1>2. req \in Answered /\ req.at = "answered"
  BY <1>1 DEF Request, Answered
<1>3. request' = [request EXCEPT ![c] = req] /\ UNCHANGED <<users, published, writer>>
  BY DEF Answer
<1> HIDE DEF req
<1> QED BY <1>2, <1>3, RestKeeps

-----------------------------------------------------------------------------
(* A row is written.                                                       *)

LEMMA WritesKeeps ==
  ASSUME IInv, NEW c \in Clients, NEW u, NEW then, NEW failed \in BOOLEAN,
         request[c].at \in {"save", "update"}, u = request[c].user,
         ~EmailTaken(u),
         \/ then = "read"
         \/ then = "publish" /\ request[c].at = "save",
         Writes(c, u, then, failed), UNCHANGED published
  PROVE  IInv'
<1> DEFINE wrote == [request[c] EXCEPT !.at = then, !.base = Nothing, !.excused = failed]
<1>1. request[c] \in Request /\ Normalised(u)
  BY UnderWay DEF IInv, RequestInv, Saves, Updates, Handling
<1>2. /\ u \in Row /\ u.id \in UserIDs
      /\ wrote \in Request /\ wrote.at = then /\ wrote.user = u
      /\ wrote.kind = request[c].kind
  BY <1>1 DEF Normalised, Row, Request
<1>3. /\ request'[c] = wrote /\ DOMAIN request' = Clients
      /\ \A d \in Clients : d # c =>
           request'[d] \in {request[d], [request[d] EXCEPT !.excused = TRUE]}
  BY DEF Writes
<1> HIDE DEF wrote
<1>4. \A d \in Clients : d # c =>
        /\ request'[d] \in Request \cup Answered \cup {Idle}
        /\ request'[d].at = request[d].at
        /\ request[d].at \in Handling \cup {"read"} =>
             /\ request'[d].kind = request[d].kind /\ request'[d].cmd = request[d].cmd
             /\ request'[d].user = request[d].user /\ request'[d].base = request[d].base
  <2> SUFFICES ASSUME NEW d \in Clients, d # c
               PROVE  /\ request'[d] \in Request \cup Answered \cup {Idle}
                      /\ request'[d].at = request[d].at
                      /\ request[d].at \in Handling \cup {"read"} =>
                           /\ request'[d].kind = request[d].kind
                           /\ request'[d].cmd = request[d].cmd
                           /\ request'[d].user = request[d].user
                           /\ request'[d].base = request[d].base
    OBVIOUS
  <2>1. CASE request'[d] = request[d]
    BY <2>1 DEF IInv, TypeOK
  <2>2. CASE request'[d] = [request[d] EXCEPT !.excused = TRUE] /\ Concerns(d, u.id)
    <3>1. request[d] \in Request
      BY <2>2 DEF IInv, TypeOK, Concerns, Answered, Idle
    <3> QED BY <2>2, <3>1 DEF Request
  <2> QED BY <2>1, <2>2 DEF Writes
<1>5. /\ DOMAIN users' = DOMAIN users \cup {u.id} /\ users'[u.id] = u
      /\ \A id \in DOMAIN users : id # u.id => users'[id] = users[id]
  BY DEF Writes, Written
<1>6. writer' = [writer EXCEPT ![u.id] = ReplicaOf[c]]
  BY DEF Writes
<1>7. \A d \in Clients : d # c /\ request[d].at = "save" => request[d].user.id # u.id
  BY DEF IInv, IDsApart, RequestInv, Saves, Updates
<1>8. \A d \in Clients :
        d # c /\ request[d].at = "update" /\ request[d].cmd.id = u.id
          => ReplicaOf[d] # ReplicaOf[c]
  BY DEF IInv, OneAtATime, RequestInv, Saves, Updates, Handling
<1>a. TypeOK'
  <2>1. DOMAIN users' \subseteq UserIDs
    BY <1>2, <1>5 DEF IInv, TypeOK
  <2>2. \A id \in DOMAIN users' : users'[id] \in Row /\ users'[id].id = id
    BY <1>2, <1>5 DEF IInv, TypeOK
  <2>3. \A d \in Clients : request'[d] \in Request \cup Answered \cup {Idle}
    BY <1>2, <1>3, <1>4
  <2>4. writer' \in [UserIDs -> Replicas \cup {Nothing}]
    BY <1>2, <1>6, UsersAssumption DEF IInv, TypeOK
  <2>5. published' \subseteq UserIDs
    BY DEF IInv, TypeOK
  <2> QED BY <2>1, <2>2, <2>3, <2>4, <2>5 DEF TypeOK
<1>b. RequestInv'
  <2> SUFFICES ASSUME NEW d \in Clients
               PROVE  /\ request'[d].at = "save" => Saves(request[d])'
                      /\ request'[d].at = "publish" => Publishes(request[d])'
                      /\ request'[d].at = "update" => Updates(request[d])'
    BY DEF RequestInv
  <2>1. CASE d = c
    BY <2>1, <1>2, <1>3, <1>5 DEF IInv, RequestInv, Saves, Publishes
  <2>2. CASE d # c
    BY <2>2, <1>4, <1>5, <1>7 DEF IInv, RequestInv, Saves, Publishes, Updates, Handling
  <2> QED BY <2>1, <2>2
<1>c. OneAtATime'
  <2>1. request'[c].at \in Handling =>
          request[c].at \in Handling /\ request'[c].kind = request[c].kind
    BY <1>2, <1>3 DEF Handling
  <2> QED BY <2>1, <1>4 DEF IInv, OneAtATime
<1>d. IDsApart'
  BY <1>2, <1>3, <1>4 DEF IInv, IDsApart, Handling
<1>e. TableInv'
  <2>1. \A id \in DOMAIN users : id # u.id => users[id].email # u.email
    BY DEF EmailTaken, Holder
  <2> QED BY <2>1, <1>1, <1>5 DEF IInv, TableInv, Normalised
<1>f. OwnUpdatesKept'
  <2> SUFFICES ASSUME NEW d \in Clients, request'[d].at = "update",
                      users'[request'[d].cmd.id] # request'[d].base
               PROVE  writer'[request'[d].cmd.id] # ReplicaOf[d]
    BY DEF OwnUpdatesKept
  <2>1. d # c /\ request[d].at = "update"
    BY <1>2, <1>3, <1>4
  <2>2. /\ request'[d].cmd = request[d].cmd /\ request'[d].base = request[d].base
        /\ request[d].cmd.id \in DOMAIN users
    BY <2>1, <1>4 DEF Handling, IInv, RequestInv, Updates
  <2>3. CASE request[d].cmd.id = u.id
    BY <2>1, <2>2, <2>3, <1>2, <1>6, <1>8 DEF IInv, TypeOK
  <2>4. CASE request[d].cmd.id # u.id
    BY <2>1, <2>2, <2>4, <1>5, <1>6 DEF IInv, OwnUpdatesKept, TypeOK
  <2> QED BY <2>3, <2>4
<1>g. CreatedWereStored'
  BY <1>5 DEF IInv, CreatedWereStored
<1> QED BY <1>3, <1>a, <1>b, <1>c, <1>d, <1>e, <1>f, <1>g DEF IInv

-----------------------------------------------------------------------------
(* While there is room, a new user gets an id no row and no user about to  *)
(* be saved has.                                                           *)
LEMMA FreeIDIsFree ==
  ASSUME IInv, Room
  PROVE  /\ FreeID \in UserIDs \ DOMAIN users
         /\ \A c \in Clients : request[c].at = "save" => request[c].user.id # FreeID
<1> DEFINE saving == {c \in Clients : request[c].at = "save"}
           idOf   == [c \in saving |-> request[c].user.id]
           taken  == {idOf[c] : c \in saving}
<1>1. IsFiniteSet(saving)
  BY UsersAssumption, FS_Subset
<1>2. IsFiniteSet(taken) /\ Cardinality(taken) <= Cardinality(saving)
  <2>1. idOf \in Surjection(saving, taken)
    BY DEF Surjection
  <2> QED BY <1>1, <2>1, FS_Surjection
<1>3. IsFiniteSet(DOMAIN users)
  BY UsersAssumption, FS_Subset DEF IInv, TypeOK
<1>4. Cardinality(DOMAIN users \cup taken) < Cardinality(UserIDs)
  <2>1. Cardinality(DOMAIN users \cup taken) =
          Cardinality(DOMAIN users) + Cardinality(taken) - Cardinality(DOMAIN users \cap taken)
    BY <1>2, <1>3, FS_Union
  <2>2. IsFiniteSet(DOMAIN users \cap taken)
    BY <1>2, FS_Subset
  <2>3. /\ Cardinality(DOMAIN users) \in Nat /\ Cardinality(taken) \in Nat
        /\ Cardinality(DOMAIN users \cap taken) \in Nat
        /\ Cardinality(saving) \in Nat /\ Cardinality(UserIDs) \in Nat
    BY <1>1, <1>2, <1>3, <2>2, UsersAssumption, FS_CardinalityType
  <2>4. Cardinality(DOMAIN users) + Cardinality(saving) < Cardinality(UserIDs)
    BY DEF Room
  <2> HIDE DEF saving, taken
  <2> QED BY <1>2, <2>1, <2>3, <2>4
<1>5. \E id \in UserIDs : id \notin DOMAIN users \cup taken
  <2> SUFFICES ASSUME UserIDs \subseteq DOMAIN users \cup taken
               PROVE  FALSE
    OBVIOUS
  <2>1. IsFiniteSet(DOMAIN users \cup taken)
    BY <1>2, <1>3, FS_Union
  <2>2. Cardinality(UserIDs) <= Cardinality(DOMAIN users \cup taken)
    BY <2>1, FS_Subset
  <2>3. Cardinality(UserIDs) \in Nat /\ Cardinality(DOMAIN users \cup taken) \in Nat
    BY <2>1, UsersAssumption, FS_CardinalityType
  <2> HIDE DEF taken
  <2> QED BY <1>4, <2>2, <2>3
<1>6. \E id \in UserIDs :
        id \notin DOMAIN users /\ \A c \in Clients : request[c].at = "save" => request[c].user.id # id
  BY <1>5
<1> QED BY <1>6 DEF FreeID

-----------------------------------------------------------------------------
(* The actions.                                                            *)

LEMMA CreateUserKeeps ==
  ASSUME IInv, NEW c \in Clients, NEW cmd \in CreateCommands, CreateUser(c, cmd)
  PROVE  IInv'
<1> DEFINE user == NewUser(FreeID, cmd)
           req == [kind |-> "create", cmd |-> cmd, at |-> "save", user |-> user,
                   base |-> Nothing, excused |-> FALSE]
<1>1. /\ FreeID \in UserIDs \ DOMAIN users
      /\ \A d \in Clients : request[d].at = "save" => request[d].user.id # FreeID
  BY FreeIDIsFree DEF CreateUser
<1>2. cmd.name \in Names /\ cmd.email \in Emails
  BY UsersAssumption
<1>3. NewEmail(cmd.email) \in Emails /\ Normal[NewEmail(cmd.email)] = NewEmail(cmd.email)
  BY <1>2, UsersAssumption DEF CreateUser, NewEmail
<1>4. Normalised(user) /\ user.id = FreeID
  BY <1>1, <1>2, <1>3 DEF Normalised, NewUser, Row
<1> HIDE DEF user
<1>5. req \in Request /\ Saves(req)
  BY <1>1, <1>4 DEF Request, Saves, Normalised
<1>6. Fits(c, req)
  <2>1. \A d \in Clients : d # c /\ request[d].at = "save" => request[d].user.id # user.id
    BY <1>1, <1>4
  <2>2. \A d \in Clients : d # c /\ ReplicaOf[d] = ReplicaOf[c] /\ request[d].at \in Handling
                             => request[d].kind # "create"
    BY DEF CreateUser, HandlerFree
  <2> QED BY <1>5, <2>1, <2>2 DEF Fits
<1>7. request' = [request EXCEPT ![c] = req]
  BY DEF CreateUser, Begins, user
<1>8. published' \subseteq DOMAIN users /\ UNCHANGED <<users, writer>>
  BY DEF CreateUser, IInv, CreatedWereStored
<1> HIDE DEF req
<1> QED BY <1>6, <1>7, <1>8, MoveKeeps

LEMMA UpdateUserKeeps ==
  ASSUME IInv, NEW c \in Clients, NEW cmd \in UpdateCommands, UpdateUser(c, cmd)
  PROVE  IInv'
<1> DEFINE base == users[cmd.id]
           user == ChangeEmail(Rename(base, cmd.name), cmd.email)
           req == [kind |-> "update", cmd |-> cmd, at |-> "update", user |-> user,
                   base |-> base, excused |-> FALSE]
<1>1. /\ cmd.id \in DOMAIN users /\ base \in Row /\ base.id = cmd.id
      /\ Normal[base.email] = base.email
  BY DEF UpdateUser, FindUser, IInv, TypeOK, TableInv
<1>2. /\ cmd.name \in Names \cup {Nothing}
      /\ cmd.email \in Emails \cup {Nothing}
      /\ cmd.email # Nothing =>
           NewEmail(cmd.email) \in Emails /\ Normal[NewEmail(cmd.email)] = NewEmail(cmd.email)
  <2>1. cmd.name \in Names \cup {Blank, Nothing} /\ cmd.email \in Emails \cup {Nothing}
    BY UsersAssumption
  <2>2. cmd.name # Blank /\ (cmd.email # Nothing => NewEmail(cmd.email) # Nothing)
    BY DEF UpdateUser, Refused
  <2> QED BY <2>1, <2>2, UsersAssumption DEF NewEmail
<1>3. Normalised(user) /\ user.id = cmd.id
  <2> DEFINE named == Rename(base, cmd.name)
  <2>1. named \in Row /\ named.id = cmd.id /\ named.email = base.email
    <3>1. base.version + 1 \in Nat \ {0}
      BY <1>1 DEF Row
    <3> HIDE DEF base
    <3>2. CASE cmd.name = Nothing
      BY <1>1, <3>2 DEF Rename
    <3>3. CASE cmd.name # Nothing
      <4>1. named = [base EXCEPT !.name = cmd.name, !.version = @ + 1]
        BY <3>3 DEF Rename
      <4>2. named = [id |-> base.id, name |-> cmd.name, email |-> base.email,
                     version |-> base.version + 1]
        BY <1>1, <4>1 DEF Row
      <4> HIDE DEF named
      <4> QED BY <1>1, <1>2, <3>1, <3>3, <4>2 DEF Row
    <3> QED BY <3>2, <3>3
  <2> HIDE DEF named
  <2>2. CASE cmd.email = Nothing
    <3>1. user = named
      BY <2>2 DEF ChangeEmail, named
    <3> HIDE DEF user
    <3> QED BY <1>1, <2>1, <3>1 DEF Normalised
  <2>3. CASE cmd.email # Nothing
    <3> DEFINE email == NewEmail(cmd.email)
    <3>1. email \in Emails /\ Normal[email] = email
      BY <1>2, <2>3
    <3>2. user = [named EXCEPT !.email = email, !.version = @ + 1]
      BY <2>3 DEF ChangeEmail, named
    <3>3. named.version + 1 \in Nat \ {0}
      BY <2>1 DEF Row
    <3> HIDE DEF user, email
    <3>4. user = [id |-> named.id, name |-> named.name, email |-> email,
                  version |-> named.version + 1]
      BY <2>1, <3>2 DEF Row
    <3>5. user \in Row
      BY <2>1, <3>1, <3>3, <3>4 DEF Row
    <3> QED BY <2>1, <3>1, <3>4, <3>5 DEF Normalised
  <2> QED BY <2>2, <2>3
<1> HIDE DEF user
<1>4. req \in Request /\ Updates(req)
  BY <1>1, <1>3 DEF Request, Updates, Normalised
<1>5. Fits(c, req)
  <2>1. \A d \in Clients : d # c /\ ReplicaOf[d] = ReplicaOf[c] /\ request[d].at \in Handling
                             => request[d].kind # "update"
    BY DEF UpdateUser, FindUser, HandlerFree
  <2> QED BY <1>4, <2>1 DEF Fits
<1>6. request' = [request EXCEPT ![c] = req]
  BY DEF UpdateUser, Begins, user
<1>7. published' \subseteq DOMAIN users /\ UNCHANGED <<users, writer>>
  BY DEF UpdateUser, IInv, CreatedWereStored
<1> HIDE DEF req
<1> QED BY <1>5, <1>6, <1>7, MoveKeeps

LEMMA PublishUserKeeps ==
  ASSUME IInv, NEW c \in Clients, PublishUser(c)
  PROVE  IInv'
<1> DEFINE req == [request[c] EXCEPT !.at = "read"]
<1>1. request[c] \in Request
  BY UnderWay DEF PublishUser, Handling
<1>2. req \in Request /\ req.at = "read"
  BY <1>1 DEF Request
<1>3. request' = [request EXCEPT ![c] = req]
  BY <1>1 DEF PublishUser
<1> HIDE DEF req
<1>4. Fits(c, req)
  BY <1>2 DEF Fits, Handling
<1>5. published' \subseteq DOMAIN users
  BY DEF PublishUser, IInv, CreatedWereStored, RequestInv, Publishes
<1>6. UNCHANGED <<users, writer>>
  BY DEF PublishUser
<1> QED BY <1>3, <1>4, <1>5, <1>6, MoveKeeps

LEMMA StartKeeps ==
  ASSUME IInv, NEW c \in Clients,
         \/ \E cmd \in CreateCommands : CreateUser(c, cmd) \/ RejectUser(c, cmd)
         \/ \E cmd \in UpdateCommands :
              \/ UpdateUser(c, cmd) \/ RejectUpdate(c, cmd)
              \/ UpdateUnknown(c, cmd) \/ LoadFails(c, cmd)
  PROVE  IInv'
<1>1. ASSUME NEW cmd \in CreateCommands, CreateUser(c, cmd)
      PROVE  IInv'
  BY <1>1, CreateUserKeeps
<1>2. ASSUME NEW cmd \in CreateCommands, RejectUser(c, cmd)
      PROVE  IInv'
  BY <1>2, RejectKeeps DEF RejectUser
<1>3. ASSUME NEW cmd \in UpdateCommands, UpdateUser(c, cmd)
      PROVE  IInv'
  BY <1>3, UpdateUserKeeps
<1>4. ASSUME NEW cmd \in UpdateCommands, RejectUpdate(c, cmd)
      PROVE  IInv'
  <2>1. users[cmd.id] \in Row
    BY <1>4 DEF RejectUpdate, FindUser, IInv, TypeOK
  <2> QED BY <1>4, <2>1, RejectKeeps DEF RejectUpdate
<1>5. ASSUME NEW cmd \in UpdateCommands, UpdateUnknown(c, cmd)
      PROVE  IInv'
  BY <1>5, RejectKeeps DEF UpdateUnknown
<1>6. ASSUME NEW cmd \in UpdateCommands, LoadFails(c, cmd)
      PROVE  IInv'
  BY <1>6, RejectKeeps DEF LoadFails
<1> QED BY <1>1, <1>2, <1>3, <1>4, <1>5, <1>6

LEMMA CreateStepKeeps ==
  ASSUME IInv, NEW c \in Clients, CreateStep(c)
  PROVE  IInv'
<1>1. CASE SaveUser(c)
  BY <1>1, WritesKeeps DEF SaveUser
<1>2. CASE SaveTaken(c)
  <2>1. request[c].at \in Handling
    BY <1>2 DEF SaveTaken, Handling
  <2>2. PICK id \in Holder(request[c].user.email) : Acked(c, users[id], FALSE)
    BY <1>2 DEF SaveTaken
  <2>3. users[id] \in Row
    BY <2>2 DEF Holder, IInv, TypeOK
  <2> QED BY <1>2, <2>1, <2>2, <2>3, AckedKeeps DEF SaveTaken
<1>3. CASE SaveFails(c)
  <2>1. request[c].at \in Handling
    BY <1>3 DEF SaveFails, Handling
  <2>2. CASE Acked(c, Nothing, TRUE) /\ UNCHANGED <<users, writer>>
    BY <1>3, <2>1, <2>2, AckedKeeps DEF SaveFails
  <2>3. CASE ~EmailTaken(request[c].user) /\ Writes(c, request[c].user, "read", TRUE)
    BY <1>3, <2>3, WritesKeeps DEF SaveFails
  <2> QED BY <1>3, <2>2, <2>3 DEF SaveFails
<1>4. CASE PublishUser(c)
  BY <1>4, PublishUserKeeps
<1> QED BY <1>1, <1>2, <1>3, <1>4 DEF CreateStep

LEMMA UpdateStepKeeps ==
  ASSUME IInv, NEW c \in Clients, UpdateStep(c)
  PROVE  IInv'
<1>1. request[c].at \in Handling
  BY DEF UpdateStep, UpdateRow, UpdateTaken, UpdateFails, Handling
<1>2. CASE UpdateRow(c)
  BY <1>2, WritesKeeps DEF UpdateRow
<1>3. CASE UpdateTaken(c)
  <2>1. users[request[c].cmd.id] \in Row
    BY <1>3 DEF UpdateTaken, IInv, TypeOK, RequestInv, Updates
  <2> QED BY <1>1, <1>3, <2>1, AckedKeeps DEF UpdateTaken
<1>4. CASE UpdateFails(c)
  <2>1. CASE Acked(c, Nothing, TRUE) /\ UNCHANGED <<users, writer>>
    BY <1>1, <1>4, <2>1, AckedKeeps DEF UpdateFails
  <2>2. CASE ~EmailTaken(request[c].user) /\ Writes(c, request[c].user, "read", TRUE)
    BY <1>4, <2>2, WritesKeeps DEF UpdateFails
  <2> QED BY <1>4, <2>1, <2>2 DEF UpdateFails
<1> QED BY <1>2, <1>3, <1>4 DEF UpdateStep

LEMMA AnswerStepKeeps ==
  ASSUME IInv, NEW c \in Clients, AnswerStep(c)
  PROVE  IInv'
<1>1. CASE AnswerUser(c)
  <2>1. PICK id \in Found(c) : Answer(c, users[id], FALSE)
    BY <1>1 DEF AnswerUser
  <2>2. users[id] \in Row
    BY <2>1 DEF Found, Holder, IInv, TypeOK
  <2> QED BY <1>1, <2>1, <2>2, AnswerKeeps DEF AnswerUser
<1>2. CASE AnswerNotFound(c)
  BY <1>2, AnswerKeeps DEF AnswerNotFound
<1>3. CASE ReadFails(c)
  BY <1>3, AnswerKeeps DEF ReadFails
<1> QED BY <1>1, <1>2, <1>3 DEF AnswerStep

LEMMA CrashKeeps ==
  ASSUME IInv, NEW r \in Replicas, Crash(r)
  PROVE  IInv'
<1>1. /\ DOMAIN request' = Clients
      /\ \A c \in Clients : request'[c] \in {Idle, request[c]}
      /\ UNCHANGED <<users, published, writer>>
  BY DEF Crash
<1>2. \A c \in Clients : request'[c].at # "idle" => request'[c] = request[c]
  BY <1>1 DEF Idle
<1>3. TypeOK'
  BY <1>1 DEF IInv, TypeOK
<1>4. RequestInv'
  BY <1>1, <1>2 DEF IInv, RequestInv, Saves, Publishes, Updates
<1>5. OneAtATime' /\ IDsApart'
  BY <1>1, <1>2 DEF IInv, OneAtATime, IDsApart, Handling
<1>6. TableInv' /\ CreatedWereStored'
  BY <1>1 DEF IInv, TableInv, CreatedWereStored
<1>7. OwnUpdatesKept'
  BY <1>1, <1>2 DEF IInv, OwnUpdatesKept
<1> QED BY <1>1, <1>3, <1>4, <1>5, <1>6, <1>7 DEF IInv

-----------------------------------------------------------------------------
(* The theorems.                                                           *)

LEMMA InitIInv == Init => IInv
<1> SUFFICES ASSUME Init
             PROVE  IInv
  OBVIOUS
<1>1. DOMAIN users = {} /\ published = {}
  BY DEF Init
<1>2. DOMAIN request = Clients /\ \A c \in Clients : request[c] = Idle /\ request[c].at = "idle"
  BY DEF Init, Idle
<1>3. TypeOK
  BY <1>1, <1>2 DEF Init, TypeOK
<1>4. RequestInv /\ OneAtATime /\ IDsApart /\ OwnUpdatesKept
  BY <1>2 DEF RequestInv, OneAtATime, IDsApart, OwnUpdatesKept, Handling
<1>5. TableInv /\ CreatedWereStored
  BY <1>1 DEF TableInv, CreatedWereStored
<1> QED BY <1>2, <1>3, <1>4, <1>5 DEF IInv

LEMMA NextKeeps == IInv /\ [Next]_vars => IInv'
<1> SUFFICES ASSUME IInv, [Next]_vars
             PROVE  IInv'
  OBVIOUS
<1>1. CASE \E c \in Clients :
             \/ \E cmd \in CreateCommands : CreateUser(c, cmd) \/ RejectUser(c, cmd)
             \/ \E cmd \in UpdateCommands :
                  \/ UpdateUser(c, cmd) \/ RejectUpdate(c, cmd)
                  \/ UpdateUnknown(c, cmd) \/ LoadFails(c, cmd)
  BY <1>1, StartKeeps
<1>2. CASE \E c \in Clients : CreateStep(c) \/ UpdateStep(c) \/ AnswerStep(c)
  BY <1>2, CreateStepKeeps, UpdateStepKeeps, AnswerStepKeeps
<1>3. CASE \E r \in Replicas : Crash(r)
  BY <1>3, CrashKeeps
<1>4. CASE UNCHANGED vars
  BY <1>4 DEF vars, IInv, TypeOK, RequestInv, Saves, Publishes, Updates, OneAtATime,
              IDsApart, TableInv, OwnUpdatesKept, CreatedWereStored
<1> QED BY <1>1, <1>2, <1>3, <1>4 DEF Next

LEMMA Inductive == Spec => []IInv
BY InitIInv, NextKeeps, PTL DEF Spec

(* Rows, requests and publications are what they are declared to be.       *)
THEOREM UsersTypeOK == Spec => []TypeOK
<1>1. IInv => TypeOK
  BY DEF IInv
<1> QED BY <1>1, Inductive, PTL

(* One user per address, in any case, for any number of callers in any     *)
(* replicas: every handler stores a lower-case e-mail, and the unique      *)
(* index sees the row as it is when it is written.                         *)
THEOREM OneUserPerEmail == Spec => []EmailsUnique
<1>1. IInv => EmailsUnique
  BY DEF IInv, TableInv, EmailsUnique
<1> QED BY <1>1, Inductive, PTL

(* A replica never overwrites its own update: its bus handles one update   *)
(* at a time, so a row read for an update only another replica can write.  *)
THEOREM NoOwnUpdateLost == Spec => []OwnUpdatesKept
<1>1. IInv => OwnUpdatesKept
  BY DEF IInv
<1> QED BY <1>1, Inductive, PTL

(* UserCreated is published for stored users only, whatever fails.         *)
THEOREM PublishedUsersStored == Spec => []CreatedWereStored
<1>1. IInv => CreatedWereStored
  BY DEF IInv
<1> QED BY <1>1, Inductive, PTL

-----------------------------------------------------------------------------
(* Read after write, on top of IInv: what a request is to read stands in   *)
(* the table, unless the request is excused.                               *)

Created(req) ==
  \/ req.user = Nothing /\ NewEmail(req.cmd.email) = Nothing
  \/ /\ req.user # Nothing /\ req.user.id \in DOMAIN users
     /\ users[req.user.id] = req.user /\ req.user.email = NewEmail(req.cmd.email)

Updated(req) ==
  \/ req.user = Nothing /\ req.cmd.id \notin DOMAIN users
  \/ req.cmd.id \in DOMAIN users /\ users[req.cmd.id] = req.user

Reads(req) ==
  /\ req.at = "save" => req.user.email = NewEmail(req.cmd.email)
  /\ req.at \in {"publish", "read"} /\ ~req.excused =>
       /\ req.kind = "create" => Created(req)
       /\ req.kind = "update" => Updated(req)
  /\ req.at = "answered" /\ ~req.excused => req.result = req.user

ReadInv == \A c \in Clients : Reads(request[c])

(* One request moves, over the same table.                                 *)
LEMMA MoveReads ==
  ASSUME IInv, ReadInv, NEW c \in Clients, NEW req, Reads(req),
         request' = [request EXCEPT ![c] = req], UNCHANGED users
  PROVE  ReadInv'
<1>1. \A d \in Clients : request'[d] = IF d = c THEN req ELSE request[d]
  BY DEF IInv
<1>2. ASSUME NEW d \in Clients
      PROVE  Reads(request[d])'
  BY <1>1 DEF ReadInv, Reads, Created, Updated
<1> QED BY <1>2 DEF ReadInv

(* A row is written: whoever was to read it is excused.                    *)
LEMMA WritesReads ==
  ASSUME IInv, ReadInv, NEW c \in Clients, NEW then \in {"read", "publish"}, NEW failed \in BOOLEAN,
         request[c].at \in {"save", "update"},
         Writes(c, request[c].user, then, failed)
  PROVE  ReadInv'
<1>1. /\ request[c] \in Request /\ request[c].user \in Row
      /\ request[c].at = "save" => request[c].kind = "create"
      /\ request[c].at = "update" => request[c].kind = "update" /\ request[c].user.id = request[c].cmd.id
  BY UnderWay DEF IInv, RequestInv, Saves, Updates, Normalised, Handling
<1>u. PICK u : u = request[c].user
  OBVIOUS
<1>2. /\ DOMAIN users' = DOMAIN users \cup {u.id} /\ users'[u.id] = u
      /\ \A id \in DOMAIN users : id # u.id => users'[id] = users[id]
  BY <1>u DEF Writes, Written
<1>3. Reads(request[c])'
  <2>1. request'[c] = [request[c] EXCEPT !.at = then, !.base = Nothing, !.excused = failed]
    BY DEF Writes
  <2>2. /\ request'[c].at = then /\ request'[c].kind = request[c].kind
        /\ request'[c].user = u /\ request'[c].cmd = request[c].cmd
    BY <1>1, <1>u, <2>1 DEF Request
  <2>3. u # Nothing
    BY <1>1, <1>u, UsersAssumption
  <2>4. CASE request[c].at = "save"
    <3>1. u.email = NewEmail(request[c].cmd.email) /\ request[c].kind = "create"
      BY <1>1, <1>u, <2>4 DEF ReadInv, Reads
    <3> QED BY <1>2, <2>2, <2>3, <3>1 DEF Reads, Created, NewEmail
  <2>5. CASE request[c].at = "update"
    BY <1>1, <1>u, <1>2, <2>2, <2>5 DEF Reads, Updated
  <2> QED BY <2>4, <2>5
<1>4. ASSUME NEW d \in Clients, d # c
      PROVE  Reads(request[d])'
  <2>1. CASE Concerns(d, u.id)
    <3>1. request[d] \in Request
      BY <2>1 DEF IInv, TypeOK, Concerns, Answered, Idle
    <3>2. request'[d] = [request[d] EXCEPT !.excused = TRUE]
      BY <1>4, <1>u, <2>1 DEF Writes
    <3>3. /\ request'[d].at = request[d].at /\ request'[d].excused = TRUE
          /\ request'[d].user = request[d].user /\ request'[d].cmd = request[d].cmd
      BY <3>1, <3>2 DEF Request
    <3>4. request'[d].at # "answered"
      BY <3>1, <3>3 DEF Request
    <3> QED BY <3>3, <3>4 DEF ReadInv, Reads, NewEmail
  <2>2. CASE ~Concerns(d, u.id)
    <3>1. request'[d] = request[d]
      BY <1>4, <1>u, <2>2 DEF Writes
    <3>2. CASE request[d].at \in {"publish", "read"}
      <4>1. Created(request[d]) => Created(request[d])'
        BY <1>2, <2>2, <3>1, <3>2 DEF Created, Concerns, NewEmail
      <4>2. request[d].kind = "update" /\ Updated(request[d]) => Updated(request[d])'
        BY <1>2, <2>2, <3>1, <3>2 DEF Updated, Concerns
      <4> QED BY <3>1, <3>2, <4>1, <4>2 DEF ReadInv, Reads
    <3>3. CASE request[d].at \notin {"publish", "read"}
      BY <3>1, <3>3 DEF ReadInv, Reads, NewEmail
    <3> QED BY <3>2, <3>3
  <2> QED BY <2>1, <2>2
<1> QED BY <1>3, <1>4 DEF ReadInv

(* Begins and Acked put the request they name in place of the caller's.    *)
LEMMA BeginsReads ==
  ASSUME IInv, ReadInv, NEW c \in Clients, NEW kind, NEW cmd, NEW at, NEW user, NEW base, NEW failed,
         Begins(c, kind, cmd, at, user, base, failed), UNCHANGED users,
         Reads([kind |-> kind, cmd |-> cmd, at |-> at, user |-> user, base |-> base,
                excused |-> failed])
  PROVE  ReadInv'
BY MoveReads DEF Begins

LEMMA AckedReads ==
  ASSUME IInv, ReadInv, NEW c \in Clients, request[c].at \in Handling, NEW user, NEW failed \in BOOLEAN,
         Acked(c, user, failed), UNCHANGED users,
         \/ failed = TRUE
         \/ /\ user # Nothing
            /\ request[c].kind = "create" => /\ user.id \in DOMAIN users /\ users[user.id] = user
                                             /\ user.email = NewEmail(request[c].cmd.email)
            /\ request[c].kind = "update" => /\ request[c].cmd.id \in DOMAIN users
                                             /\ users[request[c].cmd.id] = user
  PROVE  ReadInv'
<1>r. PICK req : req = [request[c] EXCEPT !.at = "read", !.user = user, !.base = Nothing,
                                          !.excused = failed]
  OBVIOUS
<1>1. request[c] \in Request
  BY UnderWay
<1>2. /\ req.at = "read" /\ req.user = user /\ req.excused = failed
      /\ req.cmd = request[c].cmd /\ req.kind = request[c].kind
  BY <1>r, <1>1 DEF Request
<1>3. Reads(req)
  BY <1>2 DEF Reads, Created, Updated
<1>4. request' = [request EXCEPT ![c] = req]
  BY <1>r, <1>1 DEF Acked, Request
<1> QED BY <1>3, <1>4, MoveReads

LEMMA StartReads ==
  ASSUME IInv, ReadInv, NEW c \in Clients,
         \/ \E cmd \in CreateCommands : CreateUser(c, cmd) \/ RejectUser(c, cmd)
         \/ \E cmd \in UpdateCommands :
              \/ UpdateUser(c, cmd) \/ RejectUpdate(c, cmd)
              \/ UpdateUnknown(c, cmd) \/ LoadFails(c, cmd)
  PROVE  ReadInv'
<1>1. ASSUME NEW cmd \in CreateCommands, CreateUser(c, cmd)
      PROVE  ReadInv'
  <2> DEFINE user == NewUser(FreeID, cmd)
             req  == [kind |-> "create", cmd |-> cmd, at |-> "save", user |-> user,
                      base |-> Nothing, excused |-> FALSE]
  <2>1. Reads(req)
    BY DEF Reads, NewUser
  <2>2. Begins(c, "create", cmd, "save", user, Nothing, FALSE) /\ UNCHANGED users
    BY <1>1 DEF CreateUser
  <2> HIDE DEF user
  <2> QED BY <2>1, <2>2, BeginsReads
<1>2. ASSUME NEW cmd \in CreateCommands, RejectUser(c, cmd)
      PROVE  ReadInv'
  <2>1. Reads([kind |-> "create", cmd |-> cmd, at |-> "read", user |-> Nothing,
               base |-> Nothing, excused |-> FALSE])
    BY <1>2 DEF Reads, Created, RejectUser
  <2> QED BY <1>2, <2>1, BeginsReads DEF RejectUser
<1>3. ASSUME NEW cmd \in UpdateCommands, UpdateUser(c, cmd)
      PROVE  ReadInv'
  <2> DEFINE user == ChangeEmail(Rename(users[cmd.id], cmd.name), cmd.email)
             req  == [kind |-> "update", cmd |-> cmd, at |-> "update", user |-> user,
                      base |-> users[cmd.id], excused |-> FALSE]
  <2>1. Reads(req)
    BY DEF Reads
  <2>2. Begins(c, "update", cmd, "update", user, users[cmd.id], FALSE) /\ UNCHANGED users
    BY <1>3 DEF UpdateUser
  <2> HIDE DEF user
  <2> QED BY <2>1, <2>2, BeginsReads
<1>4. ASSUME NEW cmd \in UpdateCommands, RejectUpdate(c, cmd)
      PROVE  ReadInv'
  <2>1. Reads([kind |-> "update", cmd |-> cmd, at |-> "read", user |-> users[cmd.id],
               base |-> Nothing, excused |-> FALSE])
    BY <1>4 DEF Reads, Updated, RejectUpdate, FindUser
  <2> QED BY <1>4, <2>1, BeginsReads DEF RejectUpdate
<1>5. ASSUME NEW cmd \in UpdateCommands, UpdateUnknown(c, cmd)
      PROVE  ReadInv'
  <2>1. Reads([kind |-> "update", cmd |-> cmd, at |-> "read", user |-> Nothing,
               base |-> Nothing, excused |-> FALSE])
    BY <1>5 DEF Reads, Updated, UpdateUnknown
  <2> QED BY <1>5, <2>1, BeginsReads DEF UpdateUnknown
<1>6. ASSUME NEW cmd \in UpdateCommands, LoadFails(c, cmd)
      PROVE  ReadInv'
  <2>1. Reads([kind |-> "update", cmd |-> cmd, at |-> "read", user |-> Nothing,
               base |-> Nothing, excused |-> TRUE])
    BY DEF Reads
  <2> QED BY <1>6, <2>1, BeginsReads DEF LoadFails
<1> QED BY <1>1, <1>2, <1>3, <1>4, <1>5, <1>6

LEMMA HandlerReads ==
  ASSUME IInv, ReadInv, NEW c \in Clients, CreateStep(c) \/ UpdateStep(c)
  PROVE  ReadInv'
<1>1. CASE SaveUser(c) \/ UpdateRow(c)
  BY <1>1, WritesReads DEF SaveUser, UpdateRow
<1>2. CASE SaveTaken(c)
  <2>1. PICK id \in Holder(request[c].user.email) : Acked(c, users[id], FALSE)
    BY <1>2 DEF SaveTaken
  <2>2. /\ id \in DOMAIN users /\ users[id] \in Row /\ users[id].id = id
        /\ users[id].email = request[c].user.email
    BY <2>1 DEF Holder, IInv, TypeOK
  <2>3. request[c].kind = "create" /\ request[c].user.email = NewEmail(request[c].cmd.email)
    BY <1>2 DEF SaveTaken, IInv, RequestInv, Saves, ReadInv, Reads
  <2>4. users[id] # Nothing
    BY <2>2, UsersAssumption
  <2> QED BY <1>2, <2>1, <2>2, <2>3, <2>4, AckedReads DEF SaveTaken, Handling
<1>3. CASE SaveFails(c)
  <2>1. CASE Acked(c, Nothing, TRUE) /\ UNCHANGED users
    BY <1>3, <2>1, AckedReads DEF SaveFails, Handling
  <2>2. CASE Writes(c, request[c].user, "read", TRUE)
    BY <1>3, <2>2, WritesReads DEF SaveFails
  <2> QED BY <1>3, <2>1, <2>2 DEF SaveFails
<1>4. CASE PublishUser(c)
  <2>1. request[c] \in Request
    BY <1>4, UnderWay DEF PublishUser, Handling
  <2>r. PICK req : req = [request[c] EXCEPT !.at = "read"]
    OBVIOUS
  <2>2. /\ req.at = "read" /\ req.kind = request[c].kind /\ req.user = request[c].user
        /\ req.cmd = request[c].cmd /\ req.excused = request[c].excused
    BY <2>1, <2>r DEF Request
  <2>3. Reads(req)
    BY <1>4, <2>2 DEF PublishUser, ReadInv, Reads, Created, Updated
  <2>4. request' = [request EXCEPT ![c] = req] /\ UNCHANGED users
    BY <1>4, <2>r DEF PublishUser
  <2> QED BY <2>3, <2>4, MoveReads
<1>5. CASE UpdateTaken(c)
  <2>1. /\ request[c].kind = "update" /\ request[c].cmd.id \in DOMAIN users
        /\ users[request[c].cmd.id] \in Row
    BY <1>5 DEF UpdateTaken, IInv, RequestInv, Updates, TypeOK
  <2>2. users[request[c].cmd.id] # Nothing
    BY <2>1, UsersAssumption
  <2> QED BY <1>5, <2>1, <2>2, AckedReads DEF UpdateTaken, Handling
<1>6. CASE UpdateFails(c)
  <2>1. CASE Acked(c, Nothing, TRUE) /\ UNCHANGED users
    BY <1>6, <2>1, AckedReads DEF UpdateFails, Handling
  <2>2. CASE Writes(c, request[c].user, "read", TRUE)
    BY <1>6, <2>2, WritesReads DEF UpdateFails
  <2> QED BY <1>6, <2>1, <2>2 DEF UpdateFails
<1> QED BY <1>1, <1>2, <1>3, <1>4, <1>5, <1>6 DEF CreateStep, UpdateStep

(* The read finds what was expected: by the unique index when it looks for *)
(* an e-mail.                                                              *)
LEMMA FoundWhatWasStored ==
  ASSUME IInv, ReadInv, NEW c \in Clients, request[c].at = "read", ~request[c].excused
  PROVE  /\ \A id \in Found(c) : users[id] = request[c].user
         /\ Found(c) = {} => request[c].user = Nothing
<1>1. request[c] \in Request
  BY UnderWay
<1>2. CASE request[c].kind = "create"
  <2>1. Found(c) = Holder(NewEmail(request[c].cmd.email)) /\ Created(request[c])
    BY <1>2 DEF Found, ReadInv, Reads
  <2>2. CASE NewEmail(request[c].cmd.email) = Nothing /\ request[c].user = Nothing
    <3>1. Holder(Nothing) = {}
      BY UsersAssumption DEF Holder, IInv, TypeOK, Row
    <3> QED BY <2>1, <2>2, <3>1
  <2>3. CASE /\ request[c].user.id \in DOMAIN users
             /\ users[request[c].user.id] = request[c].user
             /\ request[c].user.email = NewEmail(request[c].cmd.email)
    <3>1. Found(c) = {request[c].user.id}
      BY <2>1, <2>3 DEF Holder, IInv, TableInv
    <3> QED BY <2>3, <3>1
  <2> QED BY <2>1, <2>2, <2>3 DEF Created
<1>3. CASE request[c].kind = "update"
  <2>1. Found(c) = {request[c].cmd.id} \cap DOMAIN users /\ Updated(request[c])
    BY <1>3 DEF Found, ReadInv, Reads
  <2> QED BY <2>1 DEF Updated
<1> QED BY <1>1, <1>2, <1>3 DEF Request

LEMMA AnswerReads ==
  ASSUME IInv, ReadInv, NEW c \in Clients, AnswerStep(c)
  PROVE  ReadInv'
<1>1. request[c].at = "read"
  BY DEF AnswerStep, AnswerUser, AnswerNotFound, ReadFails
<1>2. ASSUME NEW user, NEW failed, Answer(c, user, failed),
             failed \/ request[c].excused \/ user = request[c].user
      PROVE  ReadInv'
  <2>1. PICK req : req = [at |-> "answered", user |-> request[c].user, result |-> user,
                          excused |-> request[c].excused \/ failed]
    OBVIOUS
  <2>2. Reads(req)
    BY <1>2, <2>1 DEF Reads
  <2>3. request' = [request EXCEPT ![c] = req] /\ UNCHANGED users
    BY <1>2, <2>1 DEF Answer
  <2> QED BY <2>2, <2>3, MoveReads
<1>3. CASE AnswerUser(c)
  <2>1. PICK id \in Found(c) : Answer(c, users[id], FALSE)
    BY <1>3 DEF AnswerUser
  <2> QED BY <1>1, <1>2, <2>1, FoundWhatWasStored
<1>4. CASE AnswerNotFound(c)
  BY <1>1, <1>2, <1>4, FoundWhatWasStored DEF AnswerNotFound
<1>5. CASE ReadFails(c)
  BY <1>2, <1>5 DEF ReadFails
<1> QED BY <1>3, <1>4, <1>5 DEF AnswerStep

(* Read after write (user.resolvers.go 16-37): a caller whose request met  *)
(* no failure, and whose row nobody else wrote since, is answered what its *)
(* command stored, or the row that made it refuse.                         *)
THEOREM AnsweredWhatWasStored == Spec => []ReadYourWrites
<1>1. Init => ReadInv
  BY DEF Init, ReadInv, Reads, Idle
<1>2. IInv /\ ReadInv /\ [Next]_vars => ReadInv'
  <2> SUFFICES ASSUME IInv, ReadInv, [Next]_vars
               PROVE  ReadInv'
    OBVIOUS
  <2>1. CASE \E c \in Clients :
               \/ \E cmd \in CreateCommands : CreateUser(c, cmd) \/ RejectUser(c, cmd)
               \/ \E cmd \in UpdateCommands :
                    \/ UpdateUser(c, cmd) \/ RejectUpdate(c, cmd)
                    \/ UpdateUnknown(c, cmd) \/ LoadFails(c, cmd)
    BY <2>1, StartReads
  <2>2. CASE \E c \in Clients : CreateStep(c) \/ UpdateStep(c) \/ AnswerStep(c)
    BY <2>2, HandlerReads, AnswerReads
  <2>3. CASE \E r \in Replicas : Crash(r)
    <3>1. users' = users /\ \A c \in Clients : request'[c] = request[c] \/ request'[c] = Idle
      BY <2>3 DEF Crash
    <3>2. ASSUME NEW c \in Clients
          PROVE  Reads(request[c])'
      BY <3>1 DEF ReadInv, Reads, Created, Updated, Idle
    <3> QED BY <3>2 DEF ReadInv
  <2>4. CASE UNCHANGED vars
    BY <2>4 DEF vars, ReadInv, Reads, Created, Updated
  <2> QED BY <2>1, <2>2, <2>3, <2>4 DEF Next
<1>3. ReadInv => ReadYourWrites
  BY DEF ReadInv, Reads, ReadYourWrites
<1> QED BY <1>1, <1>2, <1>3, Inductive, PTL DEF Spec
=============================================================================
