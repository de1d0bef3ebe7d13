------------------------------- MODULE Accounts -------------------------------
(***************************************************************************)
(* Accounts, friends and groups of one server process: reg, addFriend,     *)
(* createGroup, addGroup and the lists login shows (chatservice.cpp), the  *)
(* tables they use (usermodel.cpp, friendmodel.cpp, groupmodel.cpp) and    *)
(* the queue of DbTask between a handler and most of its writes.           *)
(*                                                                         *)
(* An action is one SQL statement, one step of push() or pop(), or what a  *)
(* handler sends.  A connection belongs to one I/O thread, which finishes  *)
(* a handler before it starts the next.  The client sends a request again  *)
(* until its ACK arrives, so that copies of one request are handled.       *)
(***************************************************************************)
EXTENDS DbTask, Integers, FiniteSets, Bags

CONSTANTS Request,     \* requests, each with the I/O thread of its connection
          MaxCopies,   \* bound: copies of a request, 1 + RETRY_MAX in the code
          MaxRequests, \* bound: requests handled
          MaxFaults,   \* bound: statements and connections that fail
          FirstUsers   \* the names registered before, in the order of their ids

Kinds == {"reg", "addFriend", "createGroup", "addGroup", "login"}

NoRequest == [kind |-> "none"]

\* Group group(-1, name, desc): the id while the group has no row.
NoGroup == -1

(***************************************************************************)
(* The DbTaskArgs a handler fills in.                                      *)
(***************************************************************************)
TaskOf(r) ==
    CASE r.kind = "addFriend"   -> [type |-> "ADD_FRIEND", userid |-> r.user,
                                    friendid |-> r.arg]
      [] r.kind = "createGroup" -> [type |-> "CREATE_GROUP", name |-> r.arg]
      [] r.kind = "addGroup"    -> [type |-> "ADD_GROUP_USER", userid |-> r.user,
                                    groupid |-> r.arg]

Pushing == {r \in Request : r.kind \in {"addFriend", "createGroup", "addGroup"}}

Name == {FirstUsers[i] : i \in DOMAIN FirstUsers}
            \cup {r.arg : r \in {q \in Request : q.kind = "reg"}}

ASSUME AccountsAssumption ==
    /\ \A r \in Request : r.kind \in Kinds /\ r.by \in Threads
    /\ \A r \in Pushing : TaskOf(r) \in Task
    /\ FirstUsers \in Seq(Name)
    /\ {MaxCopies, MaxRequests, MaxFaults} \subseteq Nat

VARIABLES user,      \* table user: the names, a row's id is its position
          friend,    \* table friend: a bag of <<userid, friendid>>
          allgroup,  \* table allgroup: the names, a row's id is its position
          groupuser, \* table groupuser: a bag of <<groupid, userid, role>>
          req,       \* per I/O thread: the request its handler works on
          step,      \* per I/O thread: the next step of that handler
          insertId,  \* per I/O thread: User::id after the INSERT, or -1
          view,      \* per I/O thread: the lists read by login so far
          between,   \* the worker is between the two inserts of a friendship
          handled,   \* history: copies of each request that were handled
          answered,  \* history: ACKs sent for each request
          registered,\* history: the registrations answered with an id
          lost,      \* history: the rows whose INSERT failed, a bag
          faults     \* failures so far

tables == <<user, friend, allgroup, groupuser>>

handlers == <<req, step, insertId, view>>

history == <<handled, answered, registered>>

accountVars == <<tables, handlers, between, history, lost, faults>>

NoView == [friends |-> {}, groups |-> {}, left |-> {}, members |-> <<>>,
           failed |-> FALSE, before |-> {}]

AccountsInit ==
    /\ Init
    /\ user = FirstUsers
    /\ friend = EmptyBag
    /\ allgroup = <<>>
    /\ groupuser = EmptyBag
    /\ req = [t \in Threads |-> NoRequest]
    /\ step = [t \in Threads |-> "idle"]
    /\ insertId = [t \in Threads |-> -1]
    /\ view = [t \in Threads |-> NoView]
    /\ between = FALSE
    /\ handled = [r \in Request |-> 0]
    /\ answered = [r \in Request |-> 0]
    /\ registered = {}
    /\ lost = EmptyBag
    /\ faults = 0

-----------------------------------------------------------------------------
(* MySQL: a connection per call and statements that may fail.              *)

Fault == faults < MaxFaults /\ faults' = faults + 1

\* The schema is not in the repository: a row that is there already may be
\* refused by a key, or be inserted once more.
Refused(duplicate) == Fault \/ (duplicate /\ UNCHANGED faults)

\* One INSERT into a table that is a bag of rows.
Insert(table, row) ==
    \/ table' = table (+) SetToBag({row}) /\ UNCHANGED <<lost, faults>>
    \/ Refused(BagIn(row, table)) /\ lost' = lost (+) SetToBag({row}) /\ UNCHANGED table

InsertFriend(u, f) == Insert(friend, <<u, f>>) /\ UNCHANGED <<user, allgroup, groupuser>>

InsertMember(g, u, role) ==
    Insert(groupuser, <<g, u, role>>) /\ UNCHANGED <<user, friend, allgroup>>

-----------------------------------------------------------------------------
(* The handlers, on the I/O thread t.                                      *)

FirstStep(kind) ==
    CASE kind = "reg"   -> "insert"
      [] kind = "login" -> "friends"
      [] OTHER          -> "push"

\* What login will have to show, if it reads no less than is there now.
OnRecord(u) == {g \in DOMAIN allgroup :
                   \E row \in BagToSet(groupuser) : row[1] = g /\ row[2] = u}

\* A copy of a request arrives.  login reads the lists only for an account
\* whose row it has found.
Arrive(t, r) ==
    /\ step[t] = "idle" /\ r.by = t
    /\ r.kind = "login" => r.user \in DOMAIN user
    /\ handled[r] < MaxCopies
    /\ Cardinality({c \in Request \X (1..MaxCopies) : c[2] <= handled[c[1]]}) < MaxRequests
    /\ handled' = [handled EXCEPT ![r] = @ + 1]
    /\ req' = [req EXCEPT ![t] = r]
    /\ step' = [step EXCEPT ![t] = FirstStep(r.kind)]
    /\ view' = [view EXCEPT ![t].before = IF r.kind = "login" THEN OnRecord(r.user) ELSE {}]
    /\ UNCHANGED <<vars, tables, insertId, between, answered, registered, lost, faults>>

\* Mutant of GeneratedId: the last id of the table, as SELECT MAX(id) has it.
GeneratedId_Last(t) == Len(user)

\* mysql_insert_id of the connection the row was inserted on.
GeneratedId(t) == insertId[t]

\* Mutant of RegInsert: mysql_insert_id whether the INSERT succeeded or not.
RegInsert_Unchecked(t) ==
    /\ step[t] = "insert"
    /\ \/ /\ user' = Append(user, req[t].arg)
          /\ insertId' = [insertId EXCEPT ![t] = Len(user')]
          /\ UNCHANGED faults
       \/ /\ Refused(\E i \in DOMAIN user : user[i] = req[t].arg)
          /\ insertId' = [insertId EXCEPT ![t] = 0]
          /\ UNCHANGED user
    /\ step' = [step EXCEPT ![t] = "reply"]
    /\ UNCHANGED <<vars, friend, allgroup, groupuser, req, view, between, history, lost>>

\* UserModel::insert.
RegInsert(t) ==
    /\ step[t] = "insert"
    /\ \/ /\ user' = Append(user, req[t].arg)
          /\ insertId' = [insertId EXCEPT ![t] = Len(user')]
          /\ UNCHANGED faults
       \/ /\ Refused(\E i \in DOMAIN user : user[i] = req[t].arg)
          /\ UNCHANGED <<user, insertId>>
    /\ step' = [step EXCEPT ![t] = "reply"]
    /\ UNCHANGED <<vars, friend, allgroup, groupuser, req, view, between, history, lost>>

HandlerLock(t) ==
    /\ step[t] = "push"
    /\ PushLock(t)
    /\ UNCHANGED accountVars

\* Mutant of HandlerPush: the handler uses the queue without its lock.
HandlerPush_Unlocked(t) ==
    /\ step[t] = "push"
    /\ Enqueue(TaskOf(req[t]))
    /\ pushed' = Append(pushed, TaskOf(req[t]))
    /\ pc' = [pc EXCEPT ![t] = "pushed"]
    /\ UNCHANGED <<dbMtx, worker, inHand, executed, failed, accountVars>>

HandlerPush(t) == PushTask(t, TaskOf(req[t])) /\ UNCHANGED accountVars

\* push() returns; createGroup goes on to insert its caller.
HandlerUnlock(t) ==
    /\ PushUnlock(t)
    /\ step' = [step EXCEPT ![t] =
                    IF req[t].kind = "createGroup" THEN "creator" ELSE "reply"]
    /\ UNCHANGED <<tables, req, insertId, view, between, history, lost, faults>>

\* Mutant of CreatorInsert: the group is created here too, for its id.
CreatorInsert_Direct(t) ==
    /\ step[t] = "creator"
    /\ allgroup' = Append(allgroup, req[t].arg)
    /\ groupuser' = groupuser (+) SetToBag({<<Len(allgroup'), req[t].user, "creator">>})
    /\ step' = [step EXCEPT ![t] = "reply"]
    /\ UNCHANGED <<vars, user, friend, lost, faults, req, insertId, view, between, history>>

\* createGroup: _groupModel.addGroup(userid, group.getId(), "creator").  The
\* group has no row yet and its id here is -1; the result is ignored.
CreatorInsert(t) ==
    /\ step[t] = "creator"
    /\ InsertMember(NoGroup, req[t].user, "creator")
    /\ step' = [step EXCEPT ![t] = "reply"]
    /\ UNCHANGED <<vars, req, insertId, view, between, history>>

\* friendModel::query: the friends that have an account.
QueryFriends(t) ==
    /\ step[t] = "friends"
    /\ \/ /\ view' = [view EXCEPT ![t].friends =
                         {u \in DOMAIN user : BagIn(<<req[t].user, u>>, friend)}]
          /\ UNCHANGED faults
       \/ Fault /\ UNCHANGED view
    /\ step' = [step EXCEPT ![t] = "groups"]
    /\ UNCHANGED <<vars, tables, req, insertId, between, history, lost>>

\* groupModel::queryGroups, its first query.
QueryGroups(t) ==
    /\ step[t] = "groups"
    /\ \/ /\ view' = [view EXCEPT ![t].groups = OnRecord(req[t].user),
                                  ![t].left = OnRecord(req[t].user)]
          /\ UNCHANGED faults
       \/ Fault /\ view' = [view EXCEPT ![t].failed = TRUE]
    /\ step' = [step EXCEPT ![t] = "members"]
    /\ UNCHANGED <<vars, tables, req, insertId, between, history, lost>>

\* Mutant of MembersOf: the others, as queryGroupUsers has it.
MembersOf_Others(g, u) ==
    {v \in DOMAIN user \ {u} : \E row \in BagToSet(groupuser) : row[1] = g /\ row[2] = v}

\* The members of g that have an account, the viewer u included.
MembersOf(g, u) ==
    {v \in DOMAIN user : \E row \in BagToSet(groupuser) : row[1] = g /\ row[2] = v}

\* What a Group of the list has besides: the members, by the group's id.
With(members, g, set) ==
    [h \in DOMAIN members \cup {g} |-> IF h = g THEN set ELSE members[h]]

\* groupModel::queryGroups, the query for each group found; one that fails
\* leaves its group without members.
QueryMembers(t, g) ==
    /\ step[t] = "members" /\ g \in view[t].left
    /\ \/ /\ view' = [view EXCEPT ![t].left = @ \ {g},
                         ![t].members = With(@, g, MembersOf(g, req[t].user))]
          /\ UNCHANGED faults
       \/ Fault /\ view' = [view EXCEPT ![t].left = @ \ {g}, ![t].failed = TRUE]
    /\ UNCHANGED <<vars, tables, req, step, insertId, between, history, lost>>

LoginReply(t) == step[t] = "members" /\ view[t].left = {} /\ UNCHANGED registered

RegReply(t) ==
    /\ step[t] = "reply" /\ req[t].kind = "reg"
    /\ registered' = IF insertId[t] = -1 THEN registered
                     ELSE registered \cup {[id |-> GeneratedId(t), name |-> req[t].arg,
                                            of |-> req[t], nth |-> answered[req[t]]]}

OtherReply(t) == step[t] = "reply" /\ req[t].kind # "reg" /\ UNCHANGED registered

\* The response, where there is one, then ACKToClient: two sends in a row on
\* one connection.  createGroup and addGroup always answer with success.
Reply(t) ==
    /\ RegReply(t) \/ LoginReply(t) \/ OtherReply(t)
    /\ answered' = [answered EXCEPT ![req[t]] = @ + 1]
    /\ req' = [req EXCEPT ![t] = NoRequest]
    /\ step' = [step EXCEPT ![t] = "idle"]
    /\ insertId' = [insertId EXCEPT ![t] = -1]
    /\ view' = [view EXCEPT ![t] = NoView]
    /\ UNCHANGED <<vars, tables, between, handled, lost, faults>>

-----------------------------------------------------------------------------
(* The arms of the worker's switch.                                        *)

Arm(type) == worker = "work" /\ inHand[1].type = type

\* friendModel::insert, the first statement.  No transaction: its result is
\* not looked at and the second follows in any case.
FriendFirst ==
    /\ Arm("ADD_FRIEND") /\ ~between
    /\ InsertFriend(inHand[1].userid, inHand[1].friendid)
    /\ between' = TRUE
    /\ UNCHANGED <<vars, handlers, history>>

\* Mutant of FriendSecond: nothing more is tried when the first row was refused.
FriendSecond_AfterSuccess ==
    /\ between
    /\ IF BagIn(<<inHand[1].userid, inHand[1].friendid>>, friend)
       THEN InsertFriend(inHand[1].friendid, inHand[1].userid)
       ELSE UNCHANGED <<tables, lost, faults>>
    /\ between' = FALSE
    /\ Execute(TRUE)
    /\ UNCHANGED <<handlers, history>>

\* Mutant of SecondRow: the arguments of the first sprintf.
SecondRow_Same == InsertFriend(inHand[1].userid, inHand[1].friendid)

SecondRow == InsertFriend(inHand[1].friendid, inHand[1].userid)

\* The second statement, and the end of the arm, which reports nothing.
FriendSecond ==
    /\ between
    /\ SecondRow
    /\ between' = FALSE
    /\ Execute(TRUE)
    /\ UNCHANGED <<handlers, history>>

\* No connection: neither statement is tried.
FriendUnreached ==
    /\ Arm("ADD_FRIEND") /\ ~between
    /\ Fault
    /\ lost' = lost (+) SetToBag({<<inHand[1].userid, inHand[1].friendid>>})
                    (+) SetToBag({<<inHand[1].friendid, inHand[1].userid>>})
    /\ Execute(TRUE)
    /\ UNCHANGED <<tables, handlers, between, history>>

\* Mutant of JoinGroup: no such arm, the task goes to none.
JoinGroup_Dropped ==
    /\ Arm("ADD_GROUP_USER")
    /\ Execute(FALSE)
    /\ UNCHANGED <<tables, lost, faults, handlers, between, history>>

\* groupModel::addGroup: false is reported on cerr.
JoinGroup ==
    /\ Arm("ADD_GROUP_USER")
    /\ InsertMember(inHand[1].groupid, inHand[1].userid, "normal")
    /\ Execute(groupuser' # groupuser)
    /\ UNCHANGED <<handlers, between, history>>

\* groupModel::createGroup: the new id goes into a local Group and is gone.
CreateGroup ==
    /\ Arm("CREATE_GROUP")
    /\ \/ /\ allgroup' = Append(allgroup, inHand[1].name)
          /\ UNCHANGED <<lost, faults>>
       \/ /\ Refused(\E i \in DOMAIN allgroup : allgroup[i] = inHand[1].name)
          /\ lost' = lost (+) SetToBag({<<inHand[1].name>>})
          /\ UNCHANGED allgroup
    /\ Execute(allgroup' # allgroup)
    /\ UNCHANGED <<user, friend, groupuser, handlers, between, history>>

WorkerArm == FriendFirst \/ FriendSecond \/ FriendUnreached \/ JoinGroup \/ CreateGroup

WorkerPop == (PopLock \/ PopWait \/ PopTask) /\ UNCHANGED accountVars

Wakeup == SpuriousWakeup /\ UNCHANGED accountVars

HandlerStep(t) ==
    \/ RegInsert(t) \/ HandlerLock(t) \/ HandlerPush(t) \/ HandlerUnlock(t)
    \/ CreatorInsert(t) \/ QueryFriends(t) \/ QueryGroups(t)
    \/ \E g \in view[t].left : QueryMembers(t, g)
    \/ Reply(t)

AccountsNext ==
    \/ \E t \in Threads : HandlerStep(t) \/ \E r \in Request : Arrive(t, r)
    \/ WorkerPop \/ WorkerArm \/ Wakeup

allVars == <<vars, accountVars>>

AccountsSpec == AccountsInit /\ [][AccountsNext]_allVars

(***************************************************************************)
(* As in DbTask: the scheduler runs a thread that can run, and MySQL       *)
(* answers a statement, if only with an error.                             *)
(***************************************************************************)
AccountsFairness ==
    /\ \A t \in Threads : WF_allVars(HandlerStep(t))
    /\ WF_allVars(WorkerPop \/ WorkerArm)

AccountsFairSpec == AccountsSpec /\ AccountsFairness

-----------------------------------------------------------------------------
(* What there is to say of the rows a task writes, wherever they are.      *)

Writes(k) ==
    CASE k.type = "ADD_FRIEND"     -> <<<<k.userid, k.friendid>>, <<k.friendid, k.userid>>>>
      [] k.type = "ADD_GROUP_USER" -> <<<<k.groupid, k.userid, "normal">>>>
      [] k.type = "CREATE_GROUP"   -> <<<<k.name>>>>

Copies(row, bag) == IF BagIn(row, bag) THEN bag[row] ELSE 0

\* How often the tasks of s write row.
WrittenBy(s, row) ==
    Cardinality({w \in (DOMAIN s) \X {1, 2} :
        w[2] \in DOMAIN Writes(s[w[1]]) /\ Writes(s[w[1]])[w[2]] = row})

\* How often the table that row belongs to has it.
Stored(row) ==
    CASE Len(row) = 1 -> Cardinality({i \in DOMAIN allgroup : allgroup[i] = row[1]})
      [] Len(row) = 2 -> Copies(row, friend)
      [] Len(row) = 3 -> Copies(row, groupuser)

RowsOf(r) == {Writes(TaskOf(r))[j] : j \in DOMAIN Writes(TaskOf(r))}

Rows == UNION {RowsOf(r) : r \in Pushing}

\* Which request asks for which row, with its j-th statement.
Asks == {a \in Pushing \X {1, 2} \X Rows :
            LET rows == Writes(TaskOf(a[1]))
            IN  a[2] \in DOMAIN rows /\ rows[a[2]] = a[3]}

\* How often the requests that f counts ask for row.
AskedBy(f, row) ==
    Cardinality({c \in Asks \X (1..MaxCopies) : c[1][3] = row /\ c[2] <= f[c[1][1]]})

(* Types of the variables of this module. *)
AccountsTypeOK ==
    /\ user \in Seq(Name)
    /\ req \in [Threads -> Request \cup {NoRequest}]
    /\ step \in [Threads -> {"idle", "insert", "push", "creator", "friends", "groups",
                             "members", "reply"}]
    /\ insertId \in [Threads -> {-1} \cup DOMAIN user]
    /\ between \in BOOLEAN
    /\ handled \in [Request -> 0..MaxCopies]
    /\ answered \in [Request -> 0..MaxCopies]
    /\ faults \in 0..MaxFaults

(* A registration is answered with the account it created: the row with    *)
(* that id has that name, and no two registrations, of two clients at once *)
(* or of one client that sent its request twice, are given the same id.    *)
OwnAccount ==
    /\ \A e \in registered : e.id \in DOMAIN user /\ user[e.id] = e.name
    /\ \A e, f \in registered : e.id = f.id => e = f

(* A friendship is mutual, except for rows MySQL refused and while the     *)
(* worker is between the two statements.                                   *)
FriendsMutual ==
    \A r \in Pushing : r.kind = "addFriend" =>
        LET there == <<r.user, r.arg>>
            back  == <<r.arg, r.user>>
            half  == between /\ <<inHand[1].userid, inHand[1].friendid>> = there
            halfBack == between /\ <<inHand[1].userid, inHand[1].friendid>> = back
        IN  Stored(there) + Copies(there, lost) + (IF halfBack THEN 1 ELSE 0)
              = Stored(back) + Copies(back, lost) + (IF half THEN 1 ELSE 0)

(* The ACK, and the answer that says that joining a group succeeded, go    *)
(* out before anything is written.  For each of them the rows asked for    *)
(* are in their table, refused, or due from a task not finished; and there *)
(* are no more of them than copies of the request were handled, however    *)
(* often it was sent again.                                                *)
AnsweredIsOnRecord ==
    \A row \in Rows :
        AskedBy(answered, row)
          <= Stored(row) + Copies(row, lost) + WrittenBy(inHand \o dbQueue, row)

EffectsBounded ==
    \A row \in Rows : Stored(row) + Copies(row, lost) <= AskedBy(handled, row)

(* The lists shown at login, read by one statement after another while     *)
(* groups are created and joined: every group the user was in when the     *)
(* request arrived is shown, no group that does not exist is, and the user *)
(* is among the members of each, unless a query failed.                    *)
ViewIsConsistent ==
    \A t \in Threads : LET v == view[t] IN
        /\ v.groups \subseteq DOMAIN allgroup
        /\ step[t] = "members" /\ ~v.failed =>
              /\ v.before \subseteq v.groups
              /\ \A g \in v.groups \ v.left : req[t].user \in v.members[g]

(* What was answered is done in the end, when the server has a worker: the *)
(* rows are inserted or refused, although nobody waits for them.           *)
AllRecorded ==
    \A row \in Rows : AskedBy(answered, row) <= Stored(row) + Copies(row, lost)

RecordedInTheEnd == worker # "none" => <>[]AllRecorded

(* The handlers use the queue as DbTask says, so that what is proved of it *)
(* holds here.                                                             *)
QueueSpec == Spec
=============================================================================
