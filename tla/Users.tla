-------------------------------- MODULE Users --------------------------------
(***************************************************************************)
(* The users: the mutations createUser and updateUser of several replicas  *)
(* over one table whose e-mails are unique.                                *)
(*                                                                         *)
(* A replica's bus gives each of the two handlers one command at a time.   *)
(* The mutation waits until its command is acknowledged, which it is even  *)
(* when the handler failed, and then reads the user: an error is seen only *)
(* in what is read.  Update writes a whole row, read earlier, by id.       *)
(***************************************************************************)
EXTENDS FiniteSets, Integers

CONSTANTS
  Clients,        \* callers of the mutations, each with one request at a time
  Replicas,
  ReplicaOf,      \* the replica that serves each caller
  UserIDs,        \* identifiers of users; their number bounds the users
  Names, Emails,  \* what callers send, e-mails in any case
  Normal,         \* each e-mail in lower case, or Nothing if it is refused
  Blank,          \* a name of spaces
  Nothing,        \* an absent field, no e-mail, no user
  CreateCommands, \* [name, email]
  UpdateCommands, \* [id, name, email]; Nothing is left as it is
  MaxVersion,     \* bound on the versions an update may start from
  Faults          \* calls that may fail, and "crash"

FaultKinds == {"load", "save", "update", "publish", "read", "crash"}

Row == [id : UserIDs, name : Names, email : Emails, version : Nat \ {0}]

ASSUME UsersAssumption ==
  /\ IsFiniteSet(Clients) /\ IsFiniteSet(UserIDs)
  /\ ReplicaOf \in [Clients -> Replicas]
  /\ Blank \notin Names /\ Nothing \notin Names \cup Emails \cup UserIDs \cup {Blank}
  /\ Nothing \notin Row
  /\ Normal \in [Emails -> Emails \cup {Nothing}]
  /\ \A e \in Emails : Normal[e] # Nothing => Normal[Normal[e]] = Normal[e]
  /\ CreateCommands \subseteq [name : Names, email : Emails]
  /\ UpdateCommands \subseteq
       [id : UserIDs, name : Names \cup {Blank, Nothing}, email : Emails \cup {Nothing}]
  /\ MaxVersion \in Nat \ {0}
  /\ Faults \subseteq FaultKinds

VARIABLES
  users,     \* the table: id -> row
  request,   \* each caller's request, where its handler stands, its answer
  published, \* ids UserCreated was published for
  writer     \* replica that wrote each row last; no handler reads it

vars == <<users, request, published, writer>>

Idle == [at |-> "idle"]

(* user is the aggregate of the handler, and afterwards the row the caller *)
(* should read; base is the row it was read from; excused says whether the *)
(* request met a failure or somebody else has written that row since.      *)
Request ==
  [kind : {"create", "update"}, cmd : CreateCommands \cup UpdateCommands,
   at : {"save", "publish", "update", "read"},
   user : Row \cup {Nothing}, base : Row \cup {Nothing}, excused : BOOLEAN]

Answered == [at : {"answered"}, user : Row \cup {Nothing}, excused : BOOLEAN,
             result : Row \cup {Nothing}]

TypeOK ==
  /\ DOMAIN users \subseteq UserIDs
  /\ \A id \in DOMAIN users : users[id] \in Row /\ users[id].id = id
  /\ \A c \in Clients : request[c] \in Request \cup Answered \cup {Idle}
  /\ published \subseteq UserIDs
  /\ writer \in [UserIDs -> Replicas \cup {Nothing}]

Init ==
  /\ users = [id \in {} |-> {}]
  /\ request = [c \in Clients |-> Idle]
  /\ published = {}
  /\ writer = [id \in UserIDs |-> Nothing]

-----------------------------------------------------------------------------
(* The aggregate.                                                          *)

(* Mutant: the e-mail is kept as it was sent.                              *)
NewEmailAsSent(raw) == raw

NewEmail(raw) == Normal[raw]

NewUser(id, cmd) ==
  [id |-> id, name |-> cmd.name, email |-> NewEmail(cmd.email), version |-> 1]

Rename(u, name) ==
  IF name = Nothing THEN u ELSE [u EXCEPT !.name = name, !.version = @ + 1]

ChangeEmail(u, raw) ==
  IF raw = Nothing THEN u ELSE [u EXCEPT !.email = NewEmail(raw), !.version = @ + 1]

(* Mutant: what NewName and NewEmail say is ignored.                       *)
RefusedNever(cmd) == FALSE

Refused(cmd) == cmd.name = Blank \/ (cmd.email # Nothing /\ NewEmail(cmd.email) = Nothing)

-----------------------------------------------------------------------------
(* The table.                                                              *)

Holder(email) == {id \in DOMAIN users : users[id].email = email}

EmailTaken(u) == Holder(u.email) \ {u.id} # {}

Written(u) == [id \in DOMAIN users \cup {u.id} |-> IF id = u.id THEN u ELSE users[id]]

FreeID ==
  CHOOSE id \in UserIDs :
    id \notin DOMAIN users /\ \A c \in Clients : request[c].at = "save" => request[c].user.id # id

-----------------------------------------------------------------------------
(* The bus.                                                                *)

Handling == {"save", "publish", "update"}

(* Mutant: a subscription hands out its messages without waiting.          *)
HandsOutFreely(c, kind) == TRUE

HandlerFree(c, kind) ==
  \A d \in Clients : ReplicaOf[d] = ReplicaOf[c] /\ request[d].at \in Handling
                       => request[d].kind # kind

Begins(c, kind, cmd, at, user, base, failed) ==
  request' = [request EXCEPT ![c] =
    [kind |-> kind, cmd |-> cmd, at |-> at, user |-> user, base |-> base,
     excused |-> failed]]

(* The handler returns and its message is acknowledged; user is what the   *)
(* caller should read, unless a call failed.                               *)
Acked(c, user, failed) ==
  request' = [request EXCEPT ![c].at = "read", ![c].user = user, ![c].base = Nothing,
                             ![c].excused = failed]

Concerns(d, id) ==
  /\ request[d].at \notin {"idle", "answered"}
  /\ \/ request[d].user # Nothing /\ request[d].user.id = id
     \/ request[d].kind = "update" /\ request[d].cmd.id = id

(* The row of u is written: whoever is to read it may now read another.    *)
Writes(c, u, then, failed) ==
  /\ users' = Written(u)
  /\ writer' = [writer EXCEPT ![u.id] = ReplicaOf[c]]
  /\ request' = [d \in Clients |->
       IF d = c THEN [request[c] EXCEPT !.at = then, !.base = Nothing,
                                           !.excused = failed]
       ELSE IF Concerns(d, u.id) THEN [request[d] EXCEPT !.excused = TRUE]
       ELSE request[d]]

-----------------------------------------------------------------------------
(* CreateUserHandler.Handle.                                               *)
CanRequest(c) == request[c].at \in {"idle", "answered"}

Room ==
  Cardinality(DOMAIN users)
    + Cardinality({c \in Clients : request[c].at = "save"}) < Cardinality(UserIDs)

CreateUser(c, cmd) ==
  /\ CanRequest(c) /\ HandlerFree(c, "create")
  /\ NewEmail(cmd.email) # Nothing
  /\ Room
  /\ Begins(c, "create", cmd, "save", NewUser(FreeID, cmd), Nothing, FALSE)
  /\ UNCHANGED <<users, published, writer>>

(* An e-mail that passes the directive and not NewEmail.                   *)
RejectUser(c, cmd) ==
  /\ CanRequest(c) /\ HandlerFree(c, "create")
  /\ NewEmail(cmd.email) = Nothing
  /\ Begins(c, "create", cmd, "read", Nothing, Nothing, FALSE)
  /\ UNCHANGED <<users, published, writer>>

SaveUser(c) ==
  /\ request[c].at = "save" /\ ~EmailTaken(request[c].user)
  /\ Writes(c, request[c].user, "publish", FALSE)
  /\ UNCHANGED published

SaveTaken(c) ==
  /\ request[c].at = "save" /\ EmailTaken(request[c].user)
  /\ \E id \in Holder(request[c].user.email) : Acked(c, users[id], FALSE)
  /\ UNCHANGED <<users, published, writer>>

(* Mutant: the error of Save is dropped.                                   *)
SaveFailsIgnored(c) ==
  /\ request[c].at = "save" /\ "save" \in Faults
  /\ request' = [request EXCEPT ![c].at = "publish"]
  /\ UNCHANGED <<users, published, writer>>

SaveFails(c) ==
  /\ request[c].at = "save" /\ "save" \in Faults
  /\ \/ Acked(c, Nothing, TRUE) /\ UNCHANGED <<users, writer>>
     \/ ~EmailTaken(request[c].user) /\ Writes(c, request[c].user, "read", TRUE)
  /\ UNCHANGED published

(* An error of the publication is dropped.                                 *)
PublishUser(c) ==
  /\ request[c].at = "publish"
  /\ request' = [request EXCEPT ![c].at = "read"]
  /\ \/ published' = published \cup {request[c].user.id}
     \/ "publish" \in Faults /\ UNCHANGED published
  /\ UNCHANGED <<users, writer>>

-----------------------------------------------------------------------------
(* UpdateUserHandler.Handle.                                               *)
FindUser(c, cmd) == CanRequest(c) /\ HandlerFree(c, "update") /\ cmd.id \in DOMAIN users

UpdateUser(c, cmd) ==
  /\ FindUser(c, cmd) /\ ~Refused(cmd)
  /\ users[cmd.id].version <= MaxVersion
  /\ Begins(c, "update", cmd, "update",
            ChangeEmail(Rename(users[cmd.id], cmd.name), cmd.email), users[cmd.id], FALSE)
  /\ UNCHANGED <<users, published, writer>>

RejectUpdate(c, cmd) ==
  /\ FindUser(c, cmd) /\ Refused(cmd)
  /\ Begins(c, "update", cmd, "read", users[cmd.id], Nothing, FALSE)
  /\ UNCHANGED <<users, published, writer>>

UpdateUnknown(c, cmd) ==
  /\ CanRequest(c) /\ HandlerFree(c, "update") /\ cmd.id \notin DOMAIN users
  /\ Begins(c, "update", cmd, "read", Nothing, Nothing, FALSE)
  /\ UNCHANGED <<users, published, writer>>

LoadFails(c, cmd) ==
  /\ CanRequest(c) /\ HandlerFree(c, "update") /\ "load" \in Faults
  /\ Begins(c, "update", cmd, "read", Nothing, Nothing, TRUE)
  /\ UNCHANGED <<users, published, writer>>

UpdateRow(c) ==
  /\ request[c].at = "update" /\ ~EmailTaken(request[c].user)
  /\ Writes(c, request[c].user, "read", FALSE)
  /\ UNCHANGED published

UpdateTaken(c) ==
  /\ request[c].at = "update" /\ EmailTaken(request[c].user)
  /\ Acked(c, users[request[c].cmd.id], FALSE)
  /\ UNCHANGED <<users, published, writer>>

UpdateFails(c) ==
  /\ request[c].at = "update" /\ "update" \in Faults
  /\ \/ Acked(c, Nothing, TRUE) /\ UNCHANGED <<users, writer>>
     \/ ~EmailTaken(request[c].user) /\ Writes(c, request[c].user, "read", TRUE)
  /\ UNCHANGED published

-----------------------------------------------------------------------------
(* The mutations read the user, by its e-mail or by its id.                *)

(* Mutant: createUser reads by the e-mail as it was sent.                  *)
FoundAsSent(c) ==
  IF request[c].kind = "create" THEN Holder(request[c].cmd.email)
  ELSE {request[c].cmd.id} \cap DOMAIN users

Found(c) ==
  IF request[c].kind = "create" THEN Holder(NewEmail(request[c].cmd.email))
  ELSE {request[c].cmd.id} \cap DOMAIN users

Answer(c, user, failed) ==
  /\ request' = [request EXCEPT ![c] =
       [at |-> "answered", user |-> request[c].user, result |-> user,
        excused |-> request[c].excused \/ failed]]
  /\ UNCHANGED <<users, published, writer>>

AnswerUser(c) ==
  /\ request[c].at = "read"
  /\ \E id \in Found(c) : Answer(c, users[id], FALSE)

AnswerNotFound(c) ==
  /\ request[c].at = "read" /\ Found(c) = {}
  /\ Answer(c, Nothing, FALSE)

(* The read fails, or the caller has gone.                                 *)
ReadFails(c) ==
  /\ request[c].at = "read" /\ "read" \in Faults
  /\ Answer(c, Nothing, TRUE)

-----------------------------------------------------------------------------
(* A replica dies: its handlers, its bus and its callers' connections end. *)
Interrupted(r) == {c \in Clients : ReplicaOf[c] = r /\ ~CanRequest(c)}

Crash(r) ==
  /\ "crash" \in Faults /\ Interrupted(r) # {}
  /\ request' = [c \in Clients |-> IF c \in Interrupted(r) THEN Idle ELSE request[c]]
  /\ UNCHANGED <<users, published, writer>>

CreateStep(c) == SaveUser(c) \/ SaveTaken(c) \/ SaveFails(c) \/ PublishUser(c)
UpdateStep(c) == UpdateRow(c) \/ UpdateTaken(c) \/ UpdateFails(c)
AnswerStep(c) == AnswerUser(c) \/ AnswerNotFound(c) \/ ReadFails(c)

Next ==
  \/ \E c \in Clients :
       \/ \E cmd \in CreateCommands : CreateUser(c, cmd) \/ RejectUser(c, cmd)
       \/ \E cmd \in UpdateCommands :
            \/ UpdateUser(c, cmd) \/ RejectUpdate(c, cmd)
            \/ UpdateUnknown(c, cmd) \/ LoadFails(c, cmd)
       \/ CreateStep(c) \/ UpdateStep(c) \/ AnswerStep(c)
  \/ \E r \in Replicas : Crash(r)

Spec == Init /\ [][Next]_vars

-----------------------------------------------------------------------------
(* Properties.                                                             *)

(* One user per address, in any case (value_objects.go 16-30, schema/      *)
(* user.go 18), although an update writes back an e-mail it read before    *)
(* others changed theirs.                                                  *)
EmailsUnique ==
  \A id, other \in DOMAIN users :
    id # other => Normal[users[id].email] # Normal[users[other].email]

(* Read after write (user.resolvers.go 16-37): unless its request met a    *)
(* failure or somebody else has written the row, a caller is answered what *)
(* its command stored; if the command was refused, the row that stood in   *)
(* its way or was left as it is, so that creating a user again answers the *)
(* same user (user_test.go 60-66).                                         *)
ReadYourWrites ==
  \A c \in Clients :
    request[c].at = "answered" /\ ~request[c].excused => request[c].result = request[c].user

(* A replica does not lose its own updates (update_user.go 30-52): an      *)
(* update writes a row computed from the stored one, unless another        *)
(* replica wrote it in the meantime.  Nothing catches that one: Update     *)
(* checks no version.                                                      *)
OwnUpdatesKept ==
  \A c \in Clients :
    LET req == request[c] IN
      req.at = "update" /\ users[req.cmd.id] # req.base => writer[req.cmd.id] # ReplicaOf[c]

(* UserCreated follows its row (create_user.go 49-60), whatever fails.     *)
CreatedWereStored == published \subseteq DOMAIN users
=============================================================================
