---------------------------- MODULE AccountsProofs ----------------------------
(***************************************************************************)
(* Theorems about the queue of DbTask, for every set of threads and of     *)
(* tasks and every number of pushes, and then about Accounts, which uses   *)
(* it, for every set of requests and every number of copies, faults and    *)
(* rows.                                                                   *)
(***************************************************************************)
EXTENDS Accounts, SequenceTheorems, FiniteSetTheorems, TLAPS

(* The queue.                                                              *)

(* One task is in hand exactly while the switch runs. *)
HandMatchesPhase == Len(inHand) = (IF worker = "work" THEN 1 ELSE 0)

(* The inductive invariant: the properties, and what they rest on.         *)
IInv == /\ TypeOK
        /\ MutualExclusion
        /\ HandMatchesPhase
        /\ NoLostWakeup
        /\ InOrderOnce

(* Appending to the second of two concatenated sequences appends to their  *)
(* concatenation.                                                          *)
LEMMA ConcatAppend ==
    ASSUME NEW p \in Seq(Task), NEW q \in Seq(Task), NEW k \in Task
    PROVE  p \o Append(q, k) = Append(p \o q, k)
<1>1. Append(q, k) = q \o <<k>> /\ <<k>> \in Seq(Task)
  BY AppendIsConcat
<1>2. p \o q \in Seq(Task)
  BY ConcatProperties
<1>3. Append(p \o q, k) = (p \o q) \o <<k>>
  BY <1>2, AppendIsConcat
<1> QED
  BY <1>1, <1>3, ConcatAssociative

(* What a one-element sequence does at either end of another.              *)
LEMMA OneElement ==
    ASSUME NEW p \in Seq(Task), NEW q \in Seq(Task), NEW k \in Task
    PROVE  /\ <<k>> \o q # <<>>
           /\ Head(<<k>> \o q) = k
           /\ Tail(<<k>> \o q) = q
           /\ p \o <<k>> = Append(p, k)
<1>1. <<k>> \in Seq(Task) /\ Len(<<k>>) = 1 /\ <<k>>[1] = k
  BY SMT
<1>2. /\ <<k>> \o q \in Seq(Task)
      /\ Len(<<k>> \o q) = 1 + Len(q)
      /\ \A i \in 1..(1 + Len(q)) :
            (<<k>> \o q)[i] = IF i <= 1 THEN <<k>>[i] ELSE q[i - 1]
  BY <1>1, SMT
<1>3. <<k>> \o q # <<>> /\ Head(<<k>> \o q) = k
  BY <1>1, <1>2, SMT
<1>4. Tail(<<k>> \o q) = q
  BY <1>1, <1>2, SMT
<1>5. p \o <<k>> = Append(p, k)
  BY AppendIsConcat
<1> QED
  BY <1>3, <1>4, <1>5

(* A sequence of length one is its head.                                   *)
LEMMA Singleton ==
    ASSUME NEW S, NEW p \in Seq(S), Len(p) = 1
    PROVE  p = <<p[1]>> /\ p[1] \in S /\ p # <<>>
  BY SMT

LEMMA InitIInv == Init => IInv
  BY DbTaskAssumption, SMT
  DEF Init, IInv, TypeOK, MutualExclusion, HandMatchesPhase, NoLostWakeup,
      InOrderOnce

LEMMA StepIInv == IInv /\ [Next]_vars => IInv'
<1> SUFFICES ASSUME IInv, [Next]_vars PROVE IInv'
  OBVIOUS
<1> USE DbTaskAssumption
    DEF IInv, TypeOK, MutualExclusion, HandMatchesPhase, NoLostWakeup,
        InOrderOnce, Free
<1>1. ASSUME NEW t \in Threads, PushLock(t) PROVE IInv'
  BY <1>1 DEF PushLock
<1>2. ASSUME NEW t \in Threads, NEW k \in Task, PushTask(t, k) PROVE IInv'
  <2>1. /\ dbQueue' \in Seq(Task) /\ pushed' \in Seq(Task)
        /\ pushed' = Append(pushed, k) /\ dbQueue' = Append(dbQueue, k)
    BY <1>2 DEF PushTask, Enqueue
  <2>2. executed' \o inHand' \o dbQueue' = pushed'
    <3>1. executed \o inHand \in Seq(Task)
      BY ConcatProperties
    <3>2. (executed \o inHand) \o Append(dbQueue, k)
            = Append((executed \o inHand) \o dbQueue, k)
      BY <3>1, ConcatAppend
    <3> QED
      BY <1>2, <2>1, <3>2 DEF PushTask
  <2>3. worker # "check" /\ worker' # "wait"
    BY <1>2 DEF PushTask, NotifyOne
  <2> QED
    BY <1>2, <2>1, <2>2, <2>3 DEF PushTask, NotifyOne
<1>3. ASSUME NEW t \in Threads, PushUnlock(t) PROVE IInv'
  BY <1>3 DEF PushUnlock
<1>4. CASE PopLock
  BY <1>4 DEF PopLock
<1>5. CASE PopWait
  BY <1>5 DEF PopWait
<1>6. CASE PopTask
  <2>1. inHand = <<>> /\ inHand' = <<Head(dbQueue)>> /\ dbQueue' = Tail(dbQueue)
    BY <1>6 DEF PopTask, FrontTask
  <2>2. /\ Head(dbQueue) \in Task /\ Tail(dbQueue) \in Seq(Task)
        /\ <<Head(dbQueue)>> \o Tail(dbQueue) = dbQueue
    BY <1>6, SMT DEF PopTask
  <2>3. executed' \o inHand' \o dbQueue' = pushed'
    BY <1>6, <2>1, <2>2, SMT DEF PopTask
  <2> QED
    BY <1>6, <2>1, <2>2, <2>3 DEF PopTask
<1>7. CASE SpuriousWakeup
  BY <1>7 DEF SpuriousWakeup
<1>8. ASSUME NEW ok \in BOOLEAN, Execute(ok) PROVE IInv'
  <2>1. inHand' = <<>> /\ executed' = executed \o inHand
    BY <1>8 DEF Execute
  <2>2. executed' \in Seq(Task) /\ inHand' \in Seq(Task) /\ failed' \in Nat
    BY <1>8, <2>1, SMT DEF Execute
  <2>3. executed' \o inHand' \o dbQueue' = pushed'
    BY <1>8, <2>1, <2>2, SMT DEF Execute
  <2> QED
    BY <1>8, <2>1, <2>2, <2>3 DEF Execute
<1>9. CASE UNCHANGED vars
  BY <1>9 DEF vars
<1> QED
  BY <1>1, <1>2, <1>3, <1>4, <1>5, <1>6, <1>7, <1>8, <1>9
  DEF Next, Push, InPush, WorkerStep

(* The queue keeps its types, in every behaviour.                          *)
THEOREM TypeCorrect == Spec => []TypeOK
<1>1. IInv => TypeOK
  BY DEF IInv
<1> QED
  BY InitIInv, StepIInv, <1>1, PTL DEF Spec

(* No two threads are ever inside push() and pop() together.               *)
THEOREM MutexCorrect == Spec => []MutualExclusion
<1>1. IInv => MutualExclusion
  BY DEF IInv
<1> QED
  BY InitIInv, StepIInv, <1>1, PTL DEF Spec

(* Nothing pushed is lost, repeated or overtaken.                          *)
THEOREM OrderCorrect == Spec => []InOrderOnce
<1>1. IInv => InOrderOnce
  BY DEF IInv
<1> QED
  BY InitIInv, StepIInv, <1>1, PTL DEF Spec

(* The worker never sleeps on a task.                                      *)
THEOREM WakeupCorrect == Spec => []NoLostWakeup
<1>1. IInv => NoLostWakeup
  BY DEF IInv
<1> QED
  BY InitIInv, StepIInv, <1>1, PTL DEF Spec

(* Every step of the queue is a step of the abstract log or invisible.     *)
LEMMA StepLog ==
    IInv /\ [Next]_vars => [Log!Next]_<<inHand \o dbQueue, executed>>
<1> SUFFICES ASSUME IInv, [Next]_vars
             PROVE  [Log!Next]_<<inHand \o dbQueue, executed>>
  OBVIOUS
<1> USE DEF IInv, TypeOK, HandMatchesPhase
<1>1. ASSUME NEW t \in Threads, NEW k \in Task, PushTask(t, k)
      PROVE  Log!Submit(k)
  <2>1. inHand' = inHand /\ executed' = executed /\ dbQueue' = Append(dbQueue, k)
    BY <1>1 DEF PushTask, Enqueue
  <2>2. inHand \o Append(dbQueue, k) = Append(inHand \o dbQueue, k)
    BY ConcatAppend
  <2> QED
    BY <2>1, <2>2 DEF Log!Submit
<1>2. CASE PopTask
  <2>1. /\ inHand = <<>> /\ inHand' = <<Head(dbQueue)>>
        /\ dbQueue' = Tail(dbQueue) /\ executed' = executed
    BY <1>2 DEF PopTask, FrontTask
  <2>2. <<Head(dbQueue)>> \o Tail(dbQueue) = inHand \o dbQueue
    BY <1>2, <2>1, SMT DEF PopTask
  <2> QED
    BY <2>1, <2>2
<1>3. ASSUME NEW ok \in BOOLEAN, Execute(ok) PROVE Log!Perform
  <2>1. /\ inHand' = <<>> /\ dbQueue' = dbQueue
        /\ executed' = executed \o inHand /\ Len(inHand) = 1
    BY <1>3 DEF Execute
  <2>2. inHand = <<inHand[1]>> /\ inHand[1] \in Task
    BY <2>1, Singleton
  <2>3. /\ inHand \o dbQueue # <<>>
        /\ Head(inHand \o dbQueue) = inHand[1]
        /\ Tail(inHand \o dbQueue) = dbQueue
        /\ executed \o inHand = Append(executed, inHand[1])
    BY <2>1, <2>2, OneElement
  <2>4. inHand' \o dbQueue' = dbQueue
    BY <2>1, SMT
  <2> QED
    BY <2>1, <2>3, <2>4 DEF Log!Perform
<1>4. ASSUME NEW t \in Threads, PushLock(t) \/ PushUnlock(t)
      PROVE  UNCHANGED <<inHand \o dbQueue, executed>>
  BY <1>4 DEF PushLock, PushUnlock
<1>5. CASE PopLock \/ PopWait \/ SpuriousWakeup \/ UNCHANGED vars
  BY <1>5 DEF PopLock, PopWait, SpuriousWakeup, vars
<1> QED
  BY <1>1, <1>2, <1>3, <1>4, <1>5
  DEF Next, Push, InPush, WorkerStep, Log!Next

(* The queue with its mutex, its condition variable and its threads        *)
(* implements the abstract log.                                            *)
THEOREM ImplementsLog == Spec => LogSpec
<1>1. Init => Log!Init
  BY SMT DEF Init, Log!Init
<1> QED
  BY InitIInv, StepIInv, StepLog, <1>1, PTL DEF Spec, LogSpec, Log!Spec

-----------------------------------------------------------------------------
(* The handlers that use it.                                               *)

Steps == {"idle", "insert", "push", "creator", "friends", "groups", "members", "reply"}

(* What a handler is about, and where it may be in push().                 *)
HandlerInv ==
    /\ pc \in [Threads -> {"idle", "locked", "pushed"}]
    /\ req \in [Threads -> Request \cup {NoRequest}]
    /\ step \in [Threads -> Steps]
    /\ \A t \in Threads :
        /\ step[t] = "push" => req[t] \in Pushing
        /\ pc[t] # "idle" => step[t] = "push"
        /\ step[t] = "insert" => req[t].kind = "reg"

LEMMA InitHandler == AccountsInit => HandlerInv
  BY DEF AccountsInit, Init, HandlerInv, Steps

(* What Arrive gives a handler to do fits its request.                     *)
LEMMA ArriveHandler ==
    ASSUME HandlerInv, NEW t \in Threads, NEW r \in Request, Arrive(t, r)
    PROVE  HandlerInv'
<1>1. r.kind \in Kinds
  BY AccountsAssumption
<1>2. /\ FirstStep(r.kind) \in Steps
      /\ FirstStep(r.kind) = "push" => r \in Pushing
      /\ FirstStep(r.kind) = "insert" => r.kind = "reg"
  BY <1>1 DEF FirstStep, Steps, Kinds, Pushing
<1>3. pc' = pc /\ step[t] = "idle" /\ req' = [req EXCEPT ![t] = r]
      /\ step' = [step EXCEPT ![t] = FirstStep(r.kind)]
  BY DEF Arrive, vars
<1> QED
  BY <1>2, <1>3 DEF HandlerInv

LEMMA StepHandler ==
    ASSUME HandlerInv, [AccountsNext]_allVars
    PROVE  HandlerInv'
<1> USE DEF HandlerInv
<1>1. ASSUME NEW t \in Threads, HandlerStep(t) PROVE HandlerInv'
  <2>1. CASE RegInsert(t) \/ CreatorInsert(t)
    BY <2>1 DEF RegInsert, CreatorInsert, vars, Steps
  <2>2. CASE HandlerLock(t)
    BY <2>2 DEF HandlerLock, PushLock, accountVars, handlers
  <2>3. CASE HandlerPush(t)
    BY <2>3 DEF HandlerPush, PushTask, accountVars, handlers
  <2>4. CASE HandlerUnlock(t)
    <3>1. /\ pc' = [pc EXCEPT ![t] = "idle"] /\ req' = req
          /\ \E s \in {"creator", "reply"} : step' = [step EXCEPT ![t] = s]
      BY <2>4 DEF HandlerUnlock, PushUnlock
    <3> QED
      BY <3>1 DEF Steps
  <2>5. CASE QueryFriends(t) \/ QueryGroups(t)
    BY <2>5 DEF QueryFriends, QueryGroups, vars, Steps
  <2>6. CASE \E g \in view[t].left : QueryMembers(t, g)
    BY <2>6 DEF QueryMembers, vars
  <2>7. CASE Reply(t)
    <3>1. /\ pc' = pc /\ step[t] \in {"members", "reply"}
          /\ req' = [req EXCEPT ![t] = NoRequest]
          /\ step' = [step EXCEPT ![t] = "idle"]
      BY <2>7 DEF Reply, RegReply, LoginReply, OtherReply, vars
    <3> QED
      BY <3>1 DEF Steps
  <2> QED
    BY <1>1, <2>1, <2>2, <2>3, <2>4, <2>5, <2>6, <2>7 DEF HandlerStep
<1>2. CASE WorkerPop \/ WorkerArm \/ Wakeup \/ UNCHANGED allVars
  <2>1. pc' = pc /\ req' = req /\ step' = step
    BY <1>2 DEF WorkerPop, PopLock, PopWait, PopTask, WorkerArm, FriendFirst,
        FriendSecond, FriendUnreached, JoinGroup, CreateGroup, Execute, Wakeup,
        SpuriousWakeup, allVars, accountVars, handlers, vars
  <2> QED
    BY <2>1
<1> QED
  BY <1>1, <1>2, ArriveHandler DEF AccountsNext

-----------------------------------------------------------------------------
(* The composition implements the queue it is built on.                    *)

(* Every step of a handler and of a worker's arm is a step of DbTask or    *)
(* leaves its variables alone.                                             *)
LEMMA StepQueue ==
    ASSUME HandlerInv, [AccountsNext]_allVars
    PROVE  [Next]_vars
<1>1. ASSUME NEW t \in Threads, HandlerStep(t)
      PROVE  [Next]_vars
  <2>1. CASE HandlerLock(t)
    BY <2>1 DEF HandlerLock, Next, Push
  <2>2. CASE HandlerPush(t)
    <3>1. pc[t] = "locked"
      BY <2>2 DEF HandlerPush, PushTask
    <3>2. TaskOf(req[t]) \in Task
      BY <3>1, AccountsAssumption DEF HandlerInv
    <3> QED
      BY <2>2, <3>2 DEF HandlerPush, Next, Push, InPush
  <2>3. CASE HandlerUnlock(t)
    BY <2>3 DEF HandlerUnlock, Next, Push, InPush
  <2> QED
    BY <1>1, <2>1, <2>2, <2>3
    DEF HandlerStep, RegInsert, CreatorInsert, QueryFriends, QueryGroups,
        QueryMembers, Reply
<1>2. CASE WorkerPop \/ Wakeup
  BY <1>2 DEF WorkerPop, Wakeup, Next, WorkerStep
<1>3. CASE WorkerArm
  <2>1. (\E ok \in BOOLEAN : Execute(ok)) \/ UNCHANGED vars
    BY <1>3 DEF WorkerArm, FriendFirst, FriendSecond, FriendUnreached, JoinGroup,
        CreateGroup
  <2> QED
    BY <2>1 DEF Next, WorkerStep
<1>4. ASSUME NEW t \in Threads, NEW r \in Request, Arrive(t, r)
      PROVE  [Next]_vars
  BY <1>4 DEF Arrive
<1> QED
  BY <1>1, <1>2, <1>3, <1>4 DEF AccountsNext, allVars

(* The handlers and the worker's arms keep to the protocol of the queue.   *)
THEOREM QueueCorrect == AccountsSpec => QueueSpec
<1>1. AccountsInit => Init
  BY DEF AccountsInit
<1> QED
  BY <1>1, InitHandler, StepHandler, StepQueue, PTL DEF AccountsSpec, QueueSpec, Spec

(* So that what is proved of the queue holds of the server: no two threads *)
(* at the std::queue, no task lost, repeated or overtaken, and no worker   *)
(* asleep with tasks to do.                                                *)
THEOREM QueueInvariants ==
    AccountsSpec => [](MutualExclusion /\ InOrderOnce /\ NoLostWakeup)
  BY QueueCorrect, MutexCorrect, OrderCorrect, WakeupCorrect, PTL DEF QueueSpec

-----------------------------------------------------------------------------
(* A registration is answered with the account it created.                 *)

(* An id that a handler holds is the row of its own INSERT; nobody else    *)
(* holds it, and nobody was answered with it.                              *)
OwnInv ==
    /\ user \in Seq(Name)
    /\ insertId \in [Threads -> Int]
    /\ \A t \in Threads : insertId[t] # -1 =>
        /\ step[t] = "reply" /\ req[t].kind = "reg"
        /\ insertId[t] \in DOMAIN user /\ user[insertId[t]] = req[t].arg
    /\ \A t, s \in Threads : insertId[t] = insertId[s] /\ insertId[t] # -1 => t = s
    /\ \A e \in registered : \A t \in Threads : insertId[t] # e.id
    /\ OwnAccount

LEMMA InitOwn == AccountsInit => OwnInv
<1> SUFFICES ASSUME AccountsInit PROVE OwnInv
  OBVIOUS
<1>1. insertId = [t \in Threads |-> -1] /\ registered = {} /\ user = FirstUsers
  BY DEF AccountsInit
<1> QED
  BY <1>1, AccountsAssumption DEF OwnInv, OwnAccount

(* A step that leaves the table, the answers and the ids alone, and the    *)
(* handler of every thread that holds one.                                 *)
LEMMA OwnFrame ==
    ASSUME OwnInv, HandlerInv, user' = user, insertId' = insertId,
           registered' = registered,
           \A t \in Threads : step[t] = "reply" => step'[t] = "reply" /\ req'[t] = req[t]
    PROVE  OwnInv'
  BY DEF OwnInv, OwnAccount

(* The INSERT: the row goes to the end, so that its id is new.             *)
LEMMA OwnInsert ==
    ASSUME OwnInv, HandlerInv, NEW t \in Threads, RegInsert(t)
    PROVE  OwnInv'
<1>1. /\ req' = req /\ registered' = registered /\ step[t] = "insert"
      /\ step' = [step EXCEPT ![t] = "reply"]
  BY DEF RegInsert, history
<1>2. req[t].kind = "reg" /\ insertId[t] = -1
  BY <1>1 DEF HandlerInv, OwnInv
<1>3. req[t] \in Request
  BY <1>2 DEF HandlerInv, NoRequest
<1>4. req[t].arg \in Name
  BY <1>2, <1>3 DEF Name
<1>5. CASE /\ user' = Append(user, req[t].arg)
           /\ insertId' = [insertId EXCEPT ![t] = Len(user')]
  <2>1. /\ user' \in Seq(Name) /\ Len(user') = Len(user) + 1
        /\ Len(user) \in Nat /\ DOMAIN user = 1..Len(user)
        /\ DOMAIN user' = 1..(Len(user) + 1)
        /\ user'[Len(user) + 1] = req[t].arg
        /\ \A i \in DOMAIN user : user'[i] = user[i]
    BY <1>4, <1>5 DEF OwnInv
  <2>2. \A s \in Threads : insertId[s] # Len(user) + 1
    BY <2>1 DEF OwnInv
  <2>3. \A e \in registered : e.id # Len(user) + 1
    BY <2>1 DEF OwnInv, OwnAccount
  <2>4. /\ insertId' \in [Threads -> Int] /\ insertId'[t] = Len(user) + 1
        /\ \A s \in Threads \ {t} : insertId'[s] = insertId[s] /\ step'[s] = step[s]
        /\ step'[t] = "reply"
    BY <1>1, <1>5, <2>1 DEF OwnInv, HandlerInv
  <2>5. /\ \A s \in Threads : insertId'[s] # -1 =>
            /\ step'[s] = "reply" /\ req'[s].kind = "reg"
            /\ insertId'[s] \in DOMAIN user' /\ user'[insertId'[s]] = req'[s].arg
    <3> SUFFICES ASSUME NEW s \in Threads, insertId'[s] # -1
                 PROVE  /\ step'[s] = "reply" /\ req'[s].kind = "reg"
                        /\ insertId'[s] \in DOMAIN user' /\ user'[insertId'[s]] = req'[s].arg
      OBVIOUS
    <3>1. CASE s = t
      BY <3>1, <1>1, <1>2, <2>1, <2>4
    <3>2. CASE s # t
      <4>1. /\ step[s] = "reply" /\ req[s].kind = "reg"
            /\ insertId[s] \in DOMAIN user /\ user[insertId[s]] = req[s].arg
        BY <3>2, <2>4 DEF OwnInv
      <4>2. insertId'[s] = insertId[s] /\ step'[s] = step[s] /\ req'[s] = req[s]
        BY <3>2, <2>4, <1>1
      <4>3. insertId[s] \in DOMAIN user'
        BY <4>1, <2>1
      <4> QED
        BY <4>1, <4>2, <4>3, <2>1
    <3> QED
      BY <3>1, <3>2
  <2>6. \A e \in registered : e.id \in DOMAIN user' /\ user'[e.id] = e.name
    BY <2>1 DEF OwnInv, OwnAccount
  <2>7. /\ \A s1, s2 \in Threads : insertId'[s1] = insertId'[s2] /\ insertId'[s1] # -1 => s1 = s2
        /\ \A e \in registered : \A s \in Threads : insertId'[s] # e.id
    BY <2>2, <2>3, <2>4 DEF OwnInv
  <2> QED
    BY <1>1, <2>1, <2>4, <2>5, <2>6, <2>7 DEF OwnInv, OwnAccount
<1>6. CASE UNCHANGED <<user, insertId>>
  BY <1>1, <1>6, OwnFrame DEF HandlerInv
<1> QED
  BY <1>5, <1>6 DEF RegInsert

(* The answer: the id passes from the handler to the answers.              *)
LEMMA OwnReply ==
    ASSUME OwnInv, HandlerInv, NEW t \in Threads, Reply(t)
    PROVE  OwnInv'
<1>1. /\ user' = user
      /\ insertId' = [insertId EXCEPT ![t] = -1]
      /\ req' = [req EXCEPT ![t] = NoRequest]
      /\ step' = [step EXCEPT ![t] = "idle"]
  BY DEF Reply, tables
<1>2. /\ \A s \in Threads \ {t} : /\ insertId'[s] = insertId[s] /\ step'[s] = step[s]
                                  /\ req'[s] = req[s]
      /\ insertId'[t] = -1 /\ insertId' \in [Threads -> Int]
  BY <1>1 DEF OwnInv, HandlerInv
<1>3. /\ \A s \in Threads : insertId'[s] # -1 =>
          /\ step'[s] = "reply" /\ req'[s].kind = "reg"
          /\ insertId'[s] \in DOMAIN user' /\ user'[insertId'[s]] = req'[s].arg
      /\ \A s1, s2 \in Threads : insertId'[s1] = insertId'[s2] /\ insertId'[s1] # -1 => s1 = s2
  BY <1>1, <1>2 DEF OwnInv
<1>4. CASE registered' = registered
  <2>1. \A e \in registered : e.id # -1
    BY DEF OwnInv, OwnAccount
  <2>2. \A e \in registered : \A s \in Threads : insertId'[s] # e.id
    BY <2>1, <1>2 DEF OwnInv
  <2> QED
    BY <1>1, <1>2, <1>3, <1>4, <2>2 DEF OwnInv, OwnAccount
<1>5. CASE RegReply(t) /\ insertId[t] # -1
  <2> DEFINE new == [id |-> insertId[t], name |-> req[t].arg, of |-> req[t],
                     nth |-> answered[req[t]]]
  <2>1. registered' = registered \cup {new}
    BY <1>5 DEF RegReply, GeneratedId
  <2>2. new.id = insertId[t] /\ new.name = req[t].arg
    OBVIOUS
  <2> HIDE DEF new
  <2>3. new.id \in DOMAIN user /\ user[new.id] = new.name /\ new.id # -1
    BY <1>5, <2>2 DEF OwnInv
  <2>4. \A e \in registered : e.id # new.id /\ e.id # -1
    BY <2>2 DEF OwnInv, OwnAccount
  <2>5. \A e \in registered' : \A s \in Threads : insertId'[s] # e.id
    BY <1>2, <1>5, <2>1, <2>2, <2>3, <2>4 DEF OwnInv
  <2>6. \A e \in registered' : e.id \in DOMAIN user /\ user[e.id] = e.name
    BY <2>1, <2>3 DEF OwnInv, OwnAccount
  <2>7. \A e, f \in registered' : e.id = f.id => e = f
    BY <2>1, <2>4 DEF OwnInv, OwnAccount
  <2> QED
    BY <1>1, <1>2, <1>3, <2>5, <2>6, <2>7 DEF OwnInv, OwnAccount
<1> QED
  BY <1>4, <1>5 DEF Reply, RegReply, LoginReply, OtherReply

LEMMA StepOwn ==
    ASSUME OwnInv, HandlerInv, [AccountsNext]_allVars
    PROVE  OwnInv'
<1>1. ASSUME NEW t \in Threads, HandlerStep(t) PROVE OwnInv'
  <2>1. CASE HandlerLock(t) \/ HandlerPush(t)
    BY <2>1, OwnFrame DEF HandlerLock, HandlerPush, accountVars, tables, handlers, history
  <2>2. CASE HandlerUnlock(t)
    <3>1. /\ UNCHANGED <<user, insertId, registered, req>>
          /\ pc[t] = "pushed"
          /\ \E x : step' = [step EXCEPT ![t] = x]
      BY <2>2 DEF HandlerUnlock, PushUnlock, tables, history
    <3>2. step[t] = "push"
      BY <3>1 DEF HandlerInv
    <3> QED
      BY <3>1, <3>2, OwnFrame DEF HandlerInv
  <2>3. CASE \/ CreatorInsert(t) \/ QueryFriends(t) \/ QueryGroups(t)
             \/ \E g \in view[t].left : QueryMembers(t, g)
    <3>1. /\ UNCHANGED <<user, insertId, registered, req>>
          /\ step[t] # "reply"
          /\ \E x : step' = [step EXCEPT ![t] = x] \/ step' = step
      BY <2>3 DEF CreatorInsert, InsertMember, QueryFriends, QueryGroups, QueryMembers,
          tables, history
    <3> QED
      BY <3>1, OwnFrame DEF HandlerInv
  <2> QED
    BY <1>1, <2>1, <2>2, <2>3, OwnInsert, OwnReply DEF HandlerStep
<1>2. ASSUME NEW t \in Threads, NEW r \in Request, Arrive(t, r) PROVE OwnInv'
  <2>1. /\ UNCHANGED <<user, insertId, registered>> /\ step[t] = "idle"
        /\ req' = [req EXCEPT ![t] = r]
        /\ step' = [step EXCEPT ![t] = FirstStep(r.kind)]
    BY <1>2 DEF Arrive, tables
  <2> QED
    BY <2>1, OwnFrame DEF HandlerInv
<1>3. CASE WorkerPop \/ WorkerArm \/ Wakeup \/ UNCHANGED allVars
  <2>1. UNCHANGED <<user, insertId, registered, req, step>>
    BY <1>3 DEF WorkerPop, WorkerArm, FriendFirst, FriendSecond, SecondRow,
        FriendUnreached, JoinGroup, CreateGroup, InsertFriend, InsertMember, Wakeup,
        allVars, accountVars, tables, handlers, history
  <2> QED
    BY <2>1, OwnFrame
<1> QED
  BY <1>1, <1>2, <1>3 DEF AccountsNext

(* With any number of clients that register at once, and of copies of a    *)
(* request, an answer names the row its own INSERT made, and no other      *)
(* answer names it.                                                        *)
THEOREM OwnAccountCorrect == AccountsSpec => []OwnAccount
  BY InitHandler, StepHandler, InitOwn, StepOwn, PTL DEF AccountsSpec, OwnInv

-----------------------------------------------------------------------------
(* A friendship is mutual.                                                 *)

(* The rows <<u, f>> that were inserted or refused. *)
Settled(u, f) == Copies(<<u, f>>, friend) + Copies(<<u, f>>, lost)

(* One if the worker has tried <<u, f>> and not yet <<f, u>>. *)
Half(u, f) ==
    IF between /\ inHand[1].userid = u /\ inHand[1].friendid = f THEN 1 ELSE 0

Counts(bag) == \A row \in DOMAIN bag : bag[row] \in Nat

MutualInv ==
    /\ Counts(friend) /\ Counts(lost)
    /\ between \in BOOLEAN
    /\ between => Arm("ADD_FRIEND")
    /\ \A u, f : Settled(u, f) + Half(f, u) = Settled(f, u) + Half(u, f)

(* Adding a row to a bag. *)
LEMMA BagAdd ==
    ASSUME NEW bag, NEW row, Counts(bag)
    PROVE  LET more == bag (+) SetToBag({row}) IN
           /\ Counts(more)
           /\ \A x : /\ Copies(x, more) = Copies(x, bag) + (IF x = row THEN 1 ELSE 0)
                     /\ Copies(x, bag) \in Nat
<1> DEFINE more == bag (+) SetToBag({row})
<1>1. DOMAIN more = DOMAIN bag \cup {row}
  BY DEF (+), SetToBag
<1>2. \A x \in DOMAIN more :
        more[x] = (IF x \in DOMAIN bag THEN bag[x] ELSE 0) + (IF x = row THEN 1 ELSE 0)
  BY DEF (+), SetToBag
<1> HIDE DEF more
<1>3. Counts(more)
  BY <1>1, <1>2 DEF Counts
<1>4. \A x : /\ Copies(x, more) = Copies(x, bag) + (IF x = row THEN 1 ELSE 0)
             /\ Copies(x, bag) \in Nat
  BY <1>1, <1>2 DEF Copies, BagIn, BagToSet, Counts
<1> QED
  BY <1>3, <1>4 DEF more

(* One statement on the table friend settles its row once.                 *)
LEMMA SettleFriend ==
    ASSUME MutualInv, NEW a, NEW b, InsertFriend(a, b)
    PROVE  /\ Counts(friend') /\ Counts(lost')
           /\ \A u, f : /\ Settled(u, f)' = Settled(u, f) + (IF u = a /\ f = b THEN 1 ELSE 0)
                        /\ Settled(u, f) \in Nat
<1>1. Counts(friend) /\ Counts(lost)
  BY DEF MutualInv
<1>2. \A u, f : <<u, f>> = <<a, b>> <=> u = a /\ f = b
  OBVIOUS
<1>3. \A u, f : Settled(u, f)' = Copies(<<u, f>>, friend') + Copies(<<u, f>>, lost')
  BY DEF Settled
<1>4. \A x : Copies(x, friend) \in Nat /\ Copies(x, lost) \in Nat
  BY <1>1 DEF Copies, Counts, BagIn, BagToSet
<1>5. CASE friend' = friend (+) SetToBag({<<a, b>>}) /\ lost' = lost
  <2>1. /\ Counts(friend')
        /\ \A x : Copies(x, friend') = Copies(x, friend) + (IF x = <<a, b>> THEN 1 ELSE 0)
    BY <1>1, <1>5, BagAdd
  <2> QED
    BY <1>1, <1>2, <1>3, <1>4, <1>5, <2>1 DEF Settled
<1>6. CASE lost' = lost (+) SetToBag({<<a, b>>}) /\ friend' = friend
  <2>1. /\ Counts(lost')
        /\ \A x : Copies(x, lost') = Copies(x, lost) + (IF x = <<a, b>> THEN 1 ELSE 0)
    BY <1>1, <1>6, BagAdd
  <2>2. ASSUME NEW u, NEW f
        PROVE  /\ Settled(u, f)' = Settled(u, f) + (IF u = a /\ f = b THEN 1 ELSE 0)
               /\ Settled(u, f) \in Nat
    <3>1. Copies(<<u, f>>, lost') = Copies(<<u, f>>, lost) + (IF u = a /\ f = b THEN 1 ELSE 0)
      BY <1>2, <2>1
    <3> QED
      BY <1>3, <1>4, <1>6, <3>1 DEF Settled
  <2> QED
    BY <1>1, <1>6, <2>1, <2>2
<1> QED
  BY <1>5, <1>6 DEF InsertFriend, Insert

(* A row of another table that is refused settles no friendship.           *)
LEMMA SettleOther ==
    ASSUME MutualInv, friend' = friend, NEW row,
           lost' = lost \/ lost' = lost (+) SetToBag({row}),
           \A u, f : <<u, f>> # row
    PROVE  /\ Counts(friend') /\ Counts(lost')
           /\ \A u, f : Settled(u, f)' = Settled(u, f)
<1>1. Counts(friend) /\ Counts(lost)
  BY DEF MutualInv
<1>2. CASE lost' = lost
  BY <1>1, <1>2 DEF Settled
<1>3. CASE lost' = lost (+) SetToBag({row})
  <2>1. \A u, f : Settled(u, f)' = Copies(<<u, f>>, friend) + Copies(<<u, f>>, lost')
    BY DEF Settled
  <2>2. /\ Counts(lost')
        /\ \A x : /\ Copies(x, lost') = Copies(x, lost) + (IF x = row THEN 1 ELSE 0)
                  /\ Copies(x, lost) \in Nat
    BY <1>1, <1>3, BagAdd
  <2> QED
    BY <1>1, <2>1, <2>2 DEF Settled
<1> QED
  BY <1>2, <1>3

(* A pair is no row of another table.                                      *)
LEMMA RowLengths ==
    /\ \A u, f, x : <<u, f>> # <<x>>
    /\ \A u, f, x, y, z : <<u, f>> # <<x, y, z>>
<1>1. ASSUME NEW u, NEW f, NEW x PROVE <<u, f>> # <<x>>
  <2>1. DOMAIN <<u, f>> = 1..2 /\ DOMAIN <<x>> = 1..1
    OBVIOUS
  <2>2. 1..2 # 1..1
    <3>1. 2 \in 1..2 /\ 2 \notin 1..1
      BY SMT
    <3> QED
      BY <3>1, Zenon
  <2> QED
    BY <2>1, <2>2
<1>2. ASSUME NEW u, NEW f, NEW x, NEW y, NEW z PROVE <<u, f>> # <<x, y, z>>
  <2>1. DOMAIN <<u, f>> = 1..2 /\ DOMAIN <<x, y, z>> = 1..3
    OBVIOUS
  <2>2. 1..2 # 1..3
    <3>1. 3 \in 1..3 /\ 3 \notin 1..2
      BY SMT
    <3> QED
      BY <3>1, Zenon
  <2> QED
    BY <2>1, <2>2
<1> QED
  BY <1>1, <1>2

LEMMA InitMutual == AccountsInit => MutualInv
<1> SUFFICES ASSUME AccountsInit PROVE MutualInv
  OBVIOUS
<1>1. friend = EmptyBag /\ lost = EmptyBag /\ between = FALSE
  BY DEF AccountsInit
<1>2. DOMAIN EmptyBag = {}
  BY DEF EmptyBag, SetToBag
<1> QED
  BY <1>1, <1>2 DEF MutualInv, Counts, Settled, Half, Copies, BagIn, BagToSet

(* The steps that neither settle a row nor end an arm.                     *)
LEMMA MutualFrame ==
    ASSUME MutualInv, friend' = friend, lost' = lost, between' = between,
           between => inHand' = inHand /\ worker' = worker
    PROVE  MutualInv'
<1>1. \A u, f : Settled(u, f)' = Settled(u, f) /\ Half(u, f)' = Half(u, f)
  BY DEF Settled, Half, MutualInv
<1> QED
  BY <1>1 DEF MutualInv, Arm

(* A row refused outside the friend table, by a handler or by an arm.      *)
LEMMA MutualOther ==
    ASSUME MutualInv, friend' = friend, between' = between, NEW row,
           lost' = lost \/ lost' = lost (+) SetToBag({row}),
           \A u, f : <<u, f>> # row,
           between => inHand' = inHand /\ worker' = worker
    PROVE  MutualInv'
<1>1. /\ Counts(friend') /\ Counts(lost')
      /\ \A u, f : Settled(u, f)' = Settled(u, f)
  BY SettleOther
<1>2. \A u, f : Half(u, f)' = Half(u, f)
  BY DEF Half, MutualInv
<1> QED
  BY <1>1, <1>2 DEF MutualInv, Arm

LEMMA MutualFriend ==
    ASSUME MutualInv, FriendFirst \/ FriendSecond \/ FriendUnreached
    PROVE  MutualInv'
<1>0. PICK a, b : a = inHand[1].userid /\ b = inHand[1].friendid
  OBVIOUS
<1>1. CASE FriendFirst
  <2>1. InsertFriend(a, b) /\ between = FALSE /\ between' = TRUE
        /\ inHand' = inHand /\ worker' = worker /\ Arm("ADD_FRIEND")
    BY <1>0, <1>1 DEF FriendFirst, InsertFriend, vars, MutualInv
  <2>2. /\ Counts(friend') /\ Counts(lost')
        /\ \A u, f : /\ Settled(u, f)' = Settled(u, f) + (IF u = a /\ f = b THEN 1 ELSE 0)
                     /\ Settled(u, f) \in Nat
    BY <2>1, SettleFriend
  <2>3. \A u, f : /\ Half(u, f) = 0
                  /\ Half(u, f)' = IF u = a /\ f = b THEN 1 ELSE 0
    BY <1>0, <2>1 DEF Half
  <2>4. \A u, f : Settled(u, f)' + Half(f, u)' = Settled(f, u)' + Half(u, f)'
    <3> TAKE u, f
    <3>1. Settled(u, f) = Settled(f, u)
      BY <2>2, <2>3 DEF MutualInv
    <3> QED
      BY <2>2, <2>3, <3>1
  <2> QED
    BY <2>1, <2>2, <2>4 DEF MutualInv, Arm
<1>2. CASE FriendSecond
  <2>1. InsertFriend(b, a) /\ between = TRUE /\ between' = FALSE
    BY <1>0, <1>2 DEF FriendSecond, SecondRow, InsertFriend, MutualInv
  <2>2. /\ Counts(friend') /\ Counts(lost')
        /\ \A u, f : /\ Settled(u, f)' = Settled(u, f) + (IF u = b /\ f = a THEN 1 ELSE 0)
                     /\ Settled(u, f) \in Nat
    BY <2>1, SettleFriend
  <2>3. \A u, f : /\ Half(u, f) = (IF u = a /\ f = b THEN 1 ELSE 0)
                  /\ Half(u, f)' = 0
    BY <1>0, <2>1 DEF Half
  <2>4. \A u, f : Settled(u, f)' + Half(f, u)' = Settled(f, u)' + Half(u, f)'
    <3> TAKE u, f
    <3>1. Settled(u, f) + Half(f, u) = Settled(f, u) + Half(u, f)
      BY DEF MutualInv
    <3> QED
      BY <2>2, <2>3, <3>1
  <2> QED
    BY <2>1, <2>2, <2>4 DEF MutualInv
<1>3. CASE FriendUnreached
  <2> DEFINE once == lost (+) SetToBag({<<a, b>>})
  <2>1. /\ between = FALSE /\ between' = FALSE /\ friend' = friend
        /\ lost' = once (+) SetToBag({<<b, a>>})
    BY <1>0, <1>3 DEF FriendUnreached, tables, MutualInv
  <2>2. /\ Counts(once)
        /\ \A x : /\ Copies(x, once) = Copies(x, lost) + (IF x = <<a, b>> THEN 1 ELSE 0)
                  /\ Copies(x, lost) \in Nat
    BY BagAdd DEF MutualInv
  <2> HIDE DEF once
  <2>3. /\ Counts(lost')
        /\ \A x : Copies(x, lost') = Copies(x, once) + (IF x = <<b, a>> THEN 1 ELSE 0)
    BY <2>1, <2>2, BagAdd
  <2>4. \A x : Copies(x, friend) \in Nat
    BY DEF MutualInv, Copies, Counts, BagIn, BagToSet
  <2>5. \A u, f : /\ Settled(u, f)' = Copies(<<u, f>>, friend) + Copies(<<u, f>>, lost')
                  /\ Settled(u, f) = Settled(f, u)
    <3> TAKE u, f
    <3>1. Settled(u, f)' = Copies(<<u, f>>, friend) + Copies(<<u, f>>, lost')
      BY <2>1 DEF Settled
    <3>2. Settled(u, f) \in Nat /\ Settled(f, u) \in Nat
      BY <2>2, <2>4 DEF Settled
    <3>3. Settled(u, f) + Half(f, u) = Settled(f, u) + Half(u, f)
      BY DEF MutualInv
    <3>4. Half(f, u) = 0 /\ Half(u, f) = 0
      BY <2>1 DEF Half
    <3> QED
      BY <3>1, <3>2, <3>3, <3>4
  <2>6. \A u, f : Settled(u, f)' = Settled(f, u)'
    <3> TAKE u, f
    <3>1. /\ <<u, f>> = <<a, b>> <=> <<f, u>> = <<b, a>>
          /\ <<u, f>> = <<b, a>> <=> <<f, u>> = <<a, b>>
      OBVIOUS
    <3> QED
      BY <2>2, <2>3, <2>4, <2>5, <3>1 DEF Settled
  <2>7. \A u, f : Half(u, f)' = 0
    BY <2>1 DEF Half
  <2> QED
    BY <2>1, <2>3, <2>6, <2>7 DEF MutualInv
<1> QED
  BY <1>1, <1>2, <1>3

LEMMA StepMutual ==
    ASSUME MutualInv, [AccountsNext]_allVars
    PROVE  MutualInv'
<1>1. ASSUME NEW t \in Threads, HandlerStep(t) PROVE MutualInv'
  <2>1. CASE CreatorInsert(t)
    <3>1. /\ UNCHANGED <<friend, between, inHand, worker>>
          /\ \/ lost' = lost
             \/ lost' = lost (+) SetToBag({<<NoGroup, req[t].user, "creator">>})
      BY <2>1 DEF CreatorInsert, InsertMember, Insert, vars
    <3> QED
      BY <3>1, MutualOther, RowLengths
  <2>2. CASE HandlerPush(t)
    <3>1. UNCHANGED <<friend, lost, between, inHand>>
          /\ worker' = IF worker = "wait" THEN "relock" ELSE worker
      BY <2>2 DEF HandlerPush, PushTask, NotifyOne, accountVars, tables
    <3>2. between => worker = "work"
      BY DEF MutualInv, Arm
    <3> QED
      BY <3>1, <3>2, MutualFrame
  <2>3. CASE ~CreatorInsert(t) /\ ~HandlerPush(t)
    <3>1. UNCHANGED <<friend, lost, between, inHand, worker>>
      BY <1>1, <2>3 DEF HandlerStep, RegInsert, HandlerLock, PushLock, HandlerUnlock,
          PushUnlock, QueryFriends, QueryGroups, QueryMembers, Reply, accountVars, tables,
          vars
    <3> QED
      BY <3>1, MutualFrame
  <2> QED
    BY <2>1, <2>2, <2>3
<1>2. ASSUME NEW t \in Threads, NEW r \in Request, Arrive(t, r) PROVE MutualInv'
  <2>1. UNCHANGED <<friend, lost, between, inHand, worker>>
    BY <1>2 DEF Arrive, tables, vars
  <2> QED
    BY <2>1, MutualFrame
<1>3. CASE WorkerPop \/ Wakeup
  <2>1. UNCHANGED <<friend, lost, between>> /\ worker # "work"
    BY <1>3 DEF WorkerPop, PopLock, PopWait, PopTask, Wakeup, SpuriousWakeup,
        accountVars, tables
  <2>2. ~between
    BY <2>1 DEF MutualInv, Arm
  <2> QED
    BY <2>1, <2>2, MutualFrame
<1>4. CASE JoinGroup
  <2>1. /\ UNCHANGED <<friend, between>>
        /\ \/ lost' = lost
           \/ lost' = lost (+) SetToBag({<<inHand[1].groupid, inHand[1].userid, "normal">>})
        /\ inHand[1].type = "ADD_GROUP_USER"
    BY <1>4 DEF JoinGroup, InsertMember, Insert, Arm
  <2>2. ~between
    BY <2>1 DEF MutualInv, Arm
  <2> QED
    BY <2>1, <2>2, MutualOther, RowLengths
<1>5. CASE CreateGroup
  <2>1. /\ UNCHANGED <<friend, between>>
        /\ lost' = lost \/ lost' = lost (+) SetToBag({<<inHand[1].name>>})
        /\ inHand[1].type = "CREATE_GROUP"
    BY <1>5 DEF CreateGroup, Arm
  <2>2. ~between
    BY <2>1 DEF MutualInv, Arm
  <2> QED
    BY <2>1, <2>2, MutualOther, RowLengths
<1>6. CASE UNCHANGED allVars
  <2>1. UNCHANGED <<friend, lost, between, inHand, worker>>
    BY <1>6 DEF allVars, accountVars, tables, vars
  <2> QED
    BY <2>1, MutualFrame
<1> QED
  BY <1>1, <1>2, <1>3, <1>4, <1>5, <1>6, MutualFriend DEF AccountsNext, WorkerArm

LEMMA MutualIsMutual == MutualInv => FriendsMutual
<1> SUFFICES ASSUME MutualInv, NEW r \in Pushing, r.kind = "addFriend"
             PROVE  LET there == <<r.user, r.arg>>
                        back  == <<r.arg, r.user>>
                        half  == between /\ <<inHand[1].userid, inHand[1].friendid>> = there
                        halfBack == between /\ <<inHand[1].userid, inHand[1].friendid>> = back
                    IN  Stored(there) + Copies(there, lost) + (IF halfBack THEN 1 ELSE 0)
                          = Stored(back) + Copies(back, lost) + (IF half THEN 1 ELSE 0)
  BY DEF FriendsMutual
<1>1. \A u, f : Stored(<<u, f>>) = Copies(<<u, f>>, friend)
  BY DEF Stored
<1>2. Settled(r.user, r.arg) + Half(r.arg, r.user) = Settled(r.arg, r.user) + Half(r.user, r.arg)
  BY DEF MutualInv
<1> QED
  BY <1>1, <1>2 DEF Settled, Half

(* Whatever is asked for, in whatever order, and whichever statements      *)
(* fail: the rows of a friendship are inserted or refused in pairs, but    *)
(* for the worker being half-way.                                          *)
THEOREM FriendsMutualCorrect == AccountsSpec => []FriendsMutual
  BY InitMutual, StepMutual, MutualIsMutual, PTL DEF AccountsSpec

-----------------------------------------------------------------------------
(* Types, and what the handlers have yet to answer.                        *)

(* A copy handled and not answered is the one a handler works on, and each *)
(* request has one thread.                                                 *)
CopiesInv ==
    /\ HandlerInv
    /\ handled \in [Request -> 0..MaxCopies] /\ answered \in [Request -> Nat]
    /\ faults \in 0..MaxFaults
    /\ \A t \in Threads : /\ step[t] = "idle" <=> req[t] = NoRequest
                          /\ req[t] \in Request => req[t].by = t
    /\ \A r \in Request :
          handled[r] = answered[r] + (IF req[r.by] = r THEN 1 ELSE 0)

LEMMA RequestFacts ==
    /\ NoRequest \notin Request /\ \A r \in Request : r.by \in Threads
    /\ {MaxCopies, MaxRequests, MaxFaults} \subseteq Nat
<1>1. \A r \in Request : r.kind \in Kinds
  BY AccountsAssumption
<1>2. NoRequest.kind \notin Kinds
  BY DEF NoRequest, Kinds
<1> QED
  BY <1>1, <1>2, AccountsAssumption

LEMMA InitCopies == AccountsInit => CopiesInv
  BY InitHandler, RequestFacts DEF AccountsInit, CopiesInv

(* A statement that fails is counted, and no more fail than MaxFaults.     *)
LEMMA FaultBound ==
    ASSUME CopiesInv, Fault \/ faults' = faults
    PROVE  faults' \in 0..MaxFaults
  BY RequestFacts DEF CopiesInv, Fault

LEMMA StepCopies ==
    ASSUME CopiesInv, [AccountsNext]_allVars
    PROVE  CopiesInv'
<1>0. HandlerInv /\ HandlerInv'
  BY StepHandler DEF CopiesInv
<1>1. faults' \in 0..MaxFaults
  <2>1. Fault \/ faults' = faults
    BY DEF AccountsNext, HandlerStep, Arrive, RegInsert, HandlerLock, HandlerPush, HandlerUnlock,
        CreatorInsert, QueryFriends, QueryGroups, QueryMembers, Reply, WorkerPop, WorkerArm,
        FriendFirst, FriendSecond, SecondRow, FriendUnreached, JoinGroup, CreateGroup, Wakeup,
        InsertFriend, InsertMember, Insert, Refused, allVars, accountVars
  <2> QED
    BY <2>1, FaultBound
<1>2. ASSUME NEW t \in Threads, NEW r \in Request, Arrive(t, r) PROVE CopiesInv'
  <2>1. /\ handled' = [handled EXCEPT ![r] = @ + 1] /\ handled[r] < MaxCopies
        /\ answered' = answered /\ req' = [req EXCEPT ![t] = r]
        /\ step' = [step EXCEPT ![t] = FirstStep(r.kind)]
        /\ step[t] = "idle" /\ r.by = t
    BY <1>2 DEF Arrive
  <2>2. FirstStep(r.kind) # "idle" /\ req[t] = NoRequest
    BY <2>1 DEF FirstStep, CopiesInv
  <2>3. handled'[r] = handled[r] + 1 /\ handled[r] = answered[r] /\ handled[r] \in Nat
    BY <2>1, <2>2, RequestFacts DEF CopiesInv
  <2>4. handled' \in [Request -> 0..MaxCopies]
    BY <2>1, RequestFacts DEF CopiesInv
  <2>5. \A s \in Threads : /\ step'[s] = "idle" <=> req'[s] = NoRequest
                           /\ req'[s] \in Request => req'[s].by = s
    BY <1>0, <2>1, <2>2, RequestFacts DEF CopiesInv, HandlerInv
  <2>6. \A q \in Request : handled'[q] = answered'[q] + (IF req'[q.by] = q THEN 1 ELSE 0)
    <3> TAKE q \in Request
    <3>1. CASE q = r
      BY <1>0, <2>1, <2>3, <3>1, RequestFacts DEF HandlerInv, CopiesInv
    <3>2. CASE q # r /\ q.by = t
      BY <1>0, <2>1, <2>2, <3>2, RequestFacts DEF HandlerInv, CopiesInv
    <3>3. CASE q.by # t
      BY <1>0, <2>1, <3>3, RequestFacts DEF HandlerInv, CopiesInv
    <3> QED
      BY <3>1, <3>2, <3>3
  <2> QED
    BY <1>0, <1>1, <2>1, <2>4, <2>5, <2>6 DEF CopiesInv
<1>3. ASSUME NEW t \in Threads, Reply(t) PROVE CopiesInv'
  <2>1. /\ answered' = [answered EXCEPT ![req[t]] = @ + 1] /\ handled' = handled
        /\ req' = [req EXCEPT ![t] = NoRequest]
        /\ step' = [step EXCEPT ![t] = "idle"] /\ step[t] # "idle"
    BY <1>3 DEF Reply, RegReply, LoginReply, OtherReply
  <2>2. req[t] \in Request /\ req[t].by = t
    BY <1>0, <2>1 DEF CopiesInv, HandlerInv
  <2>3. answered' \in [Request -> Nat]
    BY <2>1, <2>2 DEF CopiesInv
  <2>5. \A s \in Threads : /\ step'[s] = "idle" <=> req'[s] = NoRequest
                           /\ req'[s] \in Request => req'[s].by = s
    BY <1>0, <2>1, <2>2, RequestFacts DEF CopiesInv, HandlerInv
  <2>6. \A q \in Request : handled'[q] = answered'[q] + (IF req'[q.by] = q THEN 1 ELSE 0)
    <3> TAKE q \in Request
    <3>1. CASE q = req[t]
      BY <1>0, <2>1, <2>2, <3>1, RequestFacts DEF HandlerInv, CopiesInv
    <3>2. CASE q # req[t] /\ q.by = t
      BY <1>0, <2>1, <2>2, <3>2, RequestFacts DEF HandlerInv, CopiesInv
    <3>3. CASE q.by # t
      BY <1>0, <2>1, <2>2, <3>3, RequestFacts DEF HandlerInv, CopiesInv
    <3> QED
      BY <3>1, <3>2, <3>3
  <2> QED
    BY <1>0, <1>1, <2>1, <2>3, <2>5, <2>6 DEF CopiesInv
<1>4. ASSUME UNCHANGED <<handled, answered, req>>,
             step' = step \/ \E t \in Threads, s \in Steps \ {"idle"} :
                                step[t] # "idle" /\ step' = [step EXCEPT ![t] = s]
      PROVE  CopiesInv'
  <2>1. \A s \in Threads : step'[s] = "idle" <=> step[s] = "idle"
    BY <1>0, <1>4 DEF HandlerInv
  <2> QED
    BY <1>0, <1>1, <1>4, <2>1 DEF CopiesInv
<1>5. ASSUME NEW t \in Threads, HandlerStep(t), ~Reply(t) PROVE CopiesInv'
  <2>1. CASE HandlerUnlock(t)
    <3>1. /\ UNCHANGED <<handled, answered, req>> /\ pc[t] = "pushed"
          /\ step' = [step EXCEPT ![t] = "creator"] \/ step' = [step EXCEPT ![t] = "reply"]
      BY <2>1 DEF HandlerUnlock, PushUnlock, history
    <3>2. step[t] = "push"
      BY <1>0, <3>1 DEF HandlerInv
    <3> QED
      BY <1>4, <3>1, <3>2 DEF Steps
  <2>2. CASE ~HandlerUnlock(t)
    <3>1. /\ UNCHANGED <<handled, answered, req>>
          /\ \/ step' = step
             \/ step[t] # "idle" /\ step' = [step EXCEPT ![t] = "reply"]
             \/ step[t] # "idle" /\ step' = [step EXCEPT ![t] = "groups"]
             \/ step[t] # "idle" /\ step' = [step EXCEPT ![t] = "members"]
      BY <1>5, <2>2 DEF HandlerStep, RegInsert, HandlerLock, HandlerPush, CreatorInsert,
          QueryFriends, QueryGroups, QueryMembers, accountVars, handlers, history
    <3> QED
      BY <1>4, <3>1 DEF Steps
  <2> QED
    BY <2>1, <2>2
<1>6. CASE WorkerPop \/ WorkerArm \/ Wakeup \/ UNCHANGED allVars
  <2>1. UNCHANGED <<handled, answered, req, step>>
    BY <1>6 DEF WorkerPop, WorkerArm, FriendFirst, FriendSecond, FriendUnreached, JoinGroup,
        CreateGroup, Wakeup, allVars, accountVars, handlers, history
  <2> QED
    BY <1>4, <2>1
<1> QED
  BY <1>2, <1>3, <1>5, <1>6 DEF AccountsNext

(* The variables keep their types: no id a handler holds is out of the     *)
(* table, and no more copies are acknowledged than were handled.           *)
THEOREM AccountsTypeCorrect == AccountsSpec => []AccountsTypeOK
<1>1. CopiesInv /\ OwnInv /\ MutualInv => AccountsTypeOK
  <2> SUFFICES ASSUME CopiesInv, OwnInv, MutualInv PROVE AccountsTypeOK
    OBVIOUS
  <2>1. insertId \in [Threads -> {-1} \cup DOMAIN user]
    BY DEF OwnInv
  <2>2. answered \in [Request -> 0..MaxCopies]
    <3>1. \A r \in Request : handled[r] \in 0..MaxCopies /\ answered[r] \in Nat
                             /\ answered[r] <= handled[r] /\ MaxCopies \in Nat
      BY RequestFacts DEF CopiesInv
    <3> QED
      BY <3>1 DEF CopiesInv
  <2> QED
    BY <2>1, <2>2 DEF AccountsTypeOK, CopiesInv, OwnInv, MutualInv, HandlerInv, Steps
<1> QED
  BY <1>1, InitHandler, StepHandler, InitCopies, StepCopies, InitOwn, StepOwn, InitMutual,
     StepMutual, PTL DEF AccountsSpec
-----------------------------------------------------------------------------
(* The lists that login shows.                                             *)

GroupName == {k.name : k \in {q \in Task : q.type = "CREATE_GROUP"}}

(* The tables that the lists come from, with the queue that fills them.    *)
RecordInv ==
    /\ HandlerInv /\ IInv
    /\ user \in Seq(Name) /\ allgroup \in Seq(GroupName)

LEMMA InitRecord == AccountsInit => RecordInv
<1> SUFFICES ASSUME AccountsInit PROVE RecordInv
  OBVIOUS
<1>1. user = FirstUsers /\ allgroup = <<>> /\ Init
  BY DEF AccountsInit
<1> QED
  BY <1>1, InitHandler, InitIInv, AccountsAssumption DEF RecordInv

(* The task of an arm that runs.                                           *)
LEMMA ArmTask ==
    ASSUME RecordInv, NEW type, Arm(type)
    PROVE  inHand[1] \in Task /\ inHand[1].type = type /\ inHand = <<inHand[1]>>
<1>1. inHand \in Seq(Task) /\ Len(inHand) = 1
  BY DEF Arm, RecordInv, IInv, TypeOK, HandMatchesPhase
<1> QED
  BY <1>1, Singleton DEF Arm

LEMMA AppendGrows ==
    ASSUME NEW S, NEW s \in Seq(S), NEW x \in S
    PROVE  /\ Append(s, x) \in Seq(S)
           /\ DOMAIN s \subseteq DOMAIN Append(s, x)
<1>1. Append(s, x) \in Seq(S) /\ Len(Append(s, x)) = Len(s) + 1 /\ Len(s) \in Nat
  BY AppendProperties
<1>2. DOMAIN s = 1..Len(s) /\ DOMAIN Append(s, x) = 1..(Len(s) + 1)
  BY <1>1, LenProperties
<1> QED
  BY <1>1, <1>2

(* Rows are added to the tables and none is deleted.                       *)
LEMMA StepRecord ==
    ASSUME RecordInv, [AccountsNext]_allVars
    PROVE  /\ RecordInv'
           /\ DOMAIN user \subseteq DOMAIN user'
           /\ DOMAIN allgroup \subseteq DOMAIN allgroup'
           /\ DOMAIN groupuser \subseteq DOMAIN groupuser'
<1>1. HandlerInv' /\ IInv'
  BY StepHandler, StepQueue, StepIInv DEF RecordInv
<1>2. user' \in Seq(Name) /\ DOMAIN user \subseteq DOMAIN user'
  <2>1. CASE \E t \in Threads : RegInsert(t)
    <3>1. PICK t \in Threads : RegInsert(t)
      BY <2>1
    <3>2. req[t].arg \in Name
      <4>1. req[t].kind = "reg" /\ req[t] \in Request
        BY <3>1 DEF RegInsert, RecordInv, HandlerInv, NoRequest
      <4> QED
        BY <4>1 DEF Name
    <3>3. user' = Append(user, req[t].arg) \/ user' = user
      BY <3>1 DEF RegInsert
    <3> QED
      BY <3>2, <3>3, AppendGrows DEF RecordInv
  <2>2. CASE ~\E t \in Threads : RegInsert(t)
    <3>1. user' = user
      BY <2>2 DEF AccountsNext, HandlerStep, Arrive, HandlerLock, HandlerPush, HandlerUnlock,
          CreatorInsert, QueryFriends, QueryGroups, QueryMembers, Reply, WorkerPop, WorkerArm,
          FriendFirst, FriendSecond, SecondRow, FriendUnreached, JoinGroup, CreateGroup, Wakeup,
          InsertFriend, InsertMember, allVars, accountVars, tables
    <3> QED
      BY <3>1 DEF RecordInv
  <2> QED
    BY <2>1, <2>2
<1>3. allgroup' \in Seq(GroupName) /\ DOMAIN allgroup \subseteq DOMAIN allgroup'
  <2>1. CASE CreateGroup
    <3>1. inHand[1].name \in GroupName
      BY <2>1, ArmTask DEF CreateGroup, GroupName
    <3>2. allgroup' = Append(allgroup, inHand[1].name) \/ allgroup' = allgroup
      BY <2>1 DEF CreateGroup
    <3> QED
      BY <3>1, <3>2, AppendGrows DEF RecordInv
  <2>2. CASE ~CreateGroup
    <3>1. allgroup' = allgroup
      BY <2>2 DEF AccountsNext, HandlerStep, Arrive, HandlerLock, HandlerPush, HandlerUnlock,
          RegInsert, CreatorInsert, QueryFriends, QueryGroups, QueryMembers, Reply, WorkerPop,
          WorkerArm, FriendFirst, FriendSecond, SecondRow, FriendUnreached, JoinGroup, Wakeup,
          InsertFriend, InsertMember, allVars, accountVars, tables
    <3> QED
      BY <3>1 DEF RecordInv
  <2> QED
    BY <2>1, <2>2
<1>4. DOMAIN groupuser \subseteq DOMAIN groupuser'
  <2>1. (\E row : groupuser' = groupuser (+) SetToBag({row})) \/ groupuser' = groupuser
    BY DEF AccountsNext, HandlerStep, Arrive, HandlerLock, HandlerPush, HandlerUnlock,
        RegInsert, CreatorInsert, QueryFriends, QueryGroups, QueryMembers, Reply, WorkerPop,
        WorkerArm, FriendFirst, FriendSecond, SecondRow, FriendUnreached, JoinGroup, CreateGroup,
        Wakeup, InsertFriend, InsertMember, Insert, allVars, accountVars, tables
  <2> QED
    BY <2>1 DEF (+)
<1> QED
  BY <1>1, <1>2, <1>3, <1>4 DEF RecordInv

Reading == {"friends", "groups", "members"}

(* What login has read so far, for the user of the request it works on.    *)
Shown(t) ==
    /\ view[t].groups \subseteq DOMAIN allgroup
    /\ step[t] \in Reading => /\ req[t].kind = "login"
                              /\ req[t].user \in DOMAIN user
                              /\ view[t].before \subseteq OnRecord(req[t].user)
    /\ step[t] = "members" /\ ~view[t].failed =>
          /\ view[t].before \subseteq view[t].groups
          /\ view[t].left \subseteq OnRecord(req[t].user)
          /\ \A g \in view[t].groups \ view[t].left :
                g \in DOMAIN view[t].members /\ req[t].user \in view[t].members[g]

ViewInv ==
    /\ RecordInv
    /\ DOMAIN view = Threads
    /\ \A t \in Threads : DOMAIN view[t] = DOMAIN NoView /\ Shown(t)

LEMMA InitView == AccountsInit => ViewInv
  BY InitRecord DEF AccountsInit, ViewInv, Shown, NoView, Reading

(* A handler that does not move sees no less for what others insert.       *)
LEMMA ShownStill ==
    ASSUME ViewInv, [AccountsNext]_allVars, NEW t \in Threads, view'[t] = view[t],
           req'[t] = req[t], step'[t] = step[t] \/ step'[t] \notin Reading
    PROVE  Shown(t)'
<1>1. /\ DOMAIN user \subseteq DOMAIN user' /\ DOMAIN allgroup \subseteq DOMAIN allgroup'
      /\ DOMAIN groupuser \subseteq DOMAIN groupuser'
  BY StepRecord DEF ViewInv
<1>2. OnRecord(req[t].user) \subseteq OnRecord(req[t].user)'
  BY <1>1 DEF OnRecord, BagToSet
<1> QED
  BY <1>1, <1>2 DEF ViewInv, Shown, Reading
LEMMA ViewFrame ==
    ASSUME ViewInv, [AccountsNext]_allVars, UNCHANGED view,
           \A t \in Threads : req'[t] = req[t] /\ (step'[t] = step[t] \/ step'[t] \notin Reading)
    PROVE  ViewInv'
  BY StepRecord, ShownStill DEF ViewInv

LEMMA ViewOne ==
    ASSUME ViewInv, [AccountsNext]_allVars, NEW t \in Threads, NEW v,
           DOMAIN v = DOMAIN NoView, view' \in {view, [view EXCEPT ![t] = v]}, view'[t] = v,
           Shown(t)', \A s \in Threads \ {t} : req'[s] = req[s] /\ step'[s] = step[s]
    PROVE  ViewInv'
<1>1. DOMAIN view' = Threads /\ \A s \in Threads \ {t} : view'[s] = view[s]
  BY DEF ViewInv
<1>2. \A s \in Threads : Shown(s)'
  BY <1>1, ShownStill
<1> QED
  BY <1>1, <1>2, StepRecord DEF ViewInv

(* A field of a view, and the others.                                      *)
LEMMA ViewFields ==
    ASSUME NEW v, DOMAIN v = DOMAIN NoView, NEW x
    PROVE  /\ LET w == [v EXCEPT !.friends = x]
              IN  /\ DOMAIN w = DOMAIN NoView /\ w.groups = v.groups /\ w.left = v.left
                  /\ w.members = v.members /\ w.failed = v.failed /\ w.before = v.before
           /\ LET w == [v EXCEPT !.before = x]
              IN  /\ DOMAIN w = DOMAIN NoView /\ w.groups = v.groups /\ w.left = v.left
                  /\ w.members = v.members /\ w.failed = v.failed /\ w.before = x
           /\ LET w == [v EXCEPT !.failed = TRUE]
              IN  /\ DOMAIN w = DOMAIN NoView /\ w.groups = v.groups /\ w.left = v.left
                  /\ w.members = v.members /\ w.failed /\ w.before = v.before
           /\ LET w == [v EXCEPT !.groups = x, !.left = x]
              IN  /\ DOMAIN w = DOMAIN NoView /\ w.groups = x /\ w.left = x
                  /\ w.members = v.members /\ w.failed = v.failed /\ w.before = v.before
           /\ \A y : LET w == [v EXCEPT !.left = x, !.members = y]
                     IN  /\ DOMAIN w = DOMAIN NoView /\ w.groups = v.groups /\ w.left = x
                         /\ w.members = y /\ w.failed = v.failed /\ w.before = v.before
           /\ LET w == [v EXCEPT !.left = x, !.failed = TRUE]
              IN  /\ DOMAIN w = DOMAIN NoView /\ w.groups = v.groups /\ w.left = x
                  /\ w.members = v.members /\ w.failed /\ w.before = v.before
<1>1. DOMAIN NoView = {"friends", "groups", "left", "members", "failed", "before"}
  BY DEF NoView
<1> QED
  BY <1>1

LEMMA ViewArrive ==
    ASSUME ViewInv, NEW t \in Threads, NEW r \in Request, Arrive(t, r)
    PROVE  ViewInv'
<1> DEFINE b == IF r.kind = "login" THEN OnRecord(r.user) ELSE {}
           w == [view[t] EXCEPT !.before = b]
<1>0. [AccountsNext]_allVars
  BY DEF AccountsNext
<1>1. /\ view' = [view EXCEPT ![t] = w]
      /\ req' = [req EXCEPT ![t] = r] /\ step' = [step EXCEPT ![t] = FirstStep(r.kind)]
      /\ UNCHANGED <<user, allgroup, groupuser>>
      /\ r.kind = "login" => r.user \in DOMAIN user
  BY DEF Arrive, tables
<1>2. /\ DOMAIN w = DOMAIN NoView /\ w.groups = view[t].groups /\ w.before = b
  BY ViewFields DEF ViewInv
<1> HIDE DEF w
<1>3. /\ view'[t] = w /\ req'[t] = r /\ step'[t] = FirstStep(r.kind)
      /\ \A s \in Threads \ {t} : req'[s] = req[s] /\ step'[s] = step[s]
  BY <1>1 DEF ViewInv, RecordInv, HandlerInv
<1>4. FirstStep(r.kind) # "members" /\ (FirstStep(r.kind) \in Reading => r.kind = "login")
  BY DEF FirstStep, Reading
<1>5. OnRecord(r.user)' = OnRecord(r.user)
  BY <1>1 DEF OnRecord
<1>6. Shown(t)'
  BY <1>1, <1>2, <1>3, <1>4, <1>5 DEF Shown, ViewInv
<1> QED
  BY <1>0, <1>1, <1>2, <1>3, <1>6, ViewOne

LEMMA ViewQueries ==
    ASSUME ViewInv, NEW t \in Threads,
           QueryFriends(t) \/ QueryGroups(t) \/ \E g \in view[t].left : QueryMembers(t, g)
    PROVE  ViewInv'
<1>0. [AccountsNext]_allVars
  BY DEF AccountsNext, HandlerStep
<1> DEFINE u == req[t].user
           v == view[t]
<1>5. UNCHANGED <<user, allgroup, groupuser, req>> /\ step[t] \in Reading
  BY DEF QueryFriends, QueryGroups, QueryMembers, tables, Reading
<1>6. \A x : OnRecord(x)' = OnRecord(x)
  BY <1>5 DEF OnRecord
<1>1. /\ UNCHANGED <<user, allgroup, groupuser, req>> /\ step[t] \in Reading
      /\ DOMAIN v = DOMAIN NoView /\ u \in DOMAIN user /\ req[t].kind = "login"
      /\ v.before \subseteq OnRecord(u) /\ v.groups \subseteq DOMAIN allgroup
      /\ \A x : OnRecord(x)' = OnRecord(x)
  BY <1>5, <1>6 DEF ViewInv, Shown
<1>2. CASE QueryFriends(t)
  <2>1. PICK w : /\ view' \in {view, [view EXCEPT ![t] = w]} /\ view'[t] = w
                 /\ DOMAIN w = DOMAIN NoView /\ w.groups = v.groups /\ w.before = v.before
    <3> DEFINE f == [v EXCEPT !.friends = {x \in DOMAIN user : BagIn(<<req[t].user, x>>, friend)}]
    <3>1. view' = [view EXCEPT ![t] = f] \/ view' = view
      BY <1>2 DEF QueryFriends
    <3>2. DOMAIN f = DOMAIN NoView /\ f.groups = v.groups /\ f.before = v.before
      BY <1>1, ViewFields
    <3> HIDE DEF f
    <3>3. view' = [view EXCEPT ![t] = f] => view'[t] = f
      BY DEF ViewInv
    <3> QED
      BY <1>1, <3>1, <3>2, <3>3
  <2>2. view'[t] = w /\ step' = [step EXCEPT ![t] = "groups"] /\ step'[t] = "groups"
    BY <1>2, <2>1 DEF QueryFriends, ViewInv, RecordInv, HandlerInv
  <2>3. Shown(t)'
    BY <1>1, <2>1, <2>2 DEF Shown
  <2> QED
    BY <1>0, <1>1, <2>1, <2>2, <2>3, ViewOne DEF ViewInv, RecordInv, HandlerInv
<1>3. CASE QueryGroups(t)
  <2>1. PICK w : /\ view' = [view EXCEPT ![t] = w] /\ DOMAIN w = DOMAIN NoView
                 /\ w.before = v.before /\ w.groups \subseteq DOMAIN allgroup
                 /\ w.failed \/ (w.groups = OnRecord(u) /\ w.left = OnRecord(u))
    <3> DEFINE f == [v EXCEPT !.groups = OnRecord(req[t].user), !.left = OnRecord(req[t].user)]
               e == [v EXCEPT !.failed = TRUE]
    <3>1. view' = [view EXCEPT ![t] = f] \/ view' = [view EXCEPT ![t] = e]
      BY <1>3 DEF QueryGroups, ViewInv
    <3>2. /\ DOMAIN f = DOMAIN NoView /\ f.groups = OnRecord(u) /\ f.left = OnRecord(u)
          /\ f.before = v.before
          /\ DOMAIN e = DOMAIN NoView /\ e.groups = v.groups /\ e.failed /\ e.before = v.before
      BY <1>1, ViewFields
    <3>3. OnRecord(u) \subseteq DOMAIN allgroup
      BY DEF OnRecord
    <3> QED
      BY <1>1, <3>1, <3>2, <3>3
  <2>2. view'[t] = w /\ step' = [step EXCEPT ![t] = "members"] /\ step'[t] = "members"
    BY <1>3, <2>1 DEF QueryGroups, ViewInv, RecordInv, HandlerInv
  <2>3. Shown(t)'
    BY <1>1, <2>1, <2>2 DEF Shown
  <2> QED
    BY <1>0, <1>1, <2>1, <2>2, <2>3, ViewOne DEF ViewInv, RecordInv, HandlerInv
<1>4. CASE \E g \in view[t].left : QueryMembers(t, g)
  <2>1. PICK g \in v.left : QueryMembers(t, g)
    BY <1>4
  <2> DEFINE m == With(v.members, g, MembersOf(g, req[t].user))
  <2>2. PICK w : /\ view' = [view EXCEPT ![t] = w] /\ DOMAIN w = DOMAIN NoView
                 /\ w.before = v.before /\ w.groups = v.groups /\ w.left = v.left \ {g}
                 /\ w.failed \/ (w.failed = v.failed /\ w.members = m)
    <3> DEFINE f == [v EXCEPT !.left = v.left \ {g}, !.members = m]
               e == [v EXCEPT !.left = v.left \ {g}, !.failed = TRUE]
    <3>1. view' = [view EXCEPT ![t] = f] \/ view' = [view EXCEPT ![t] = e]
      BY <2>1 DEF QueryMembers, ViewInv
    <3>2. /\ DOMAIN f = DOMAIN NoView /\ f.groups = v.groups /\ f.left = v.left \ {g}
          /\ f.before = v.before /\ f.members = m /\ f.failed = v.failed
          /\ DOMAIN e = DOMAIN NoView /\ e.groups = v.groups /\ e.failed /\ e.before = v.before
          /\ e.left = v.left \ {g}
      BY <1>1, ViewFields
    <3> HIDE DEF f, e, m
    <3> QED
      BY <3>1, <3>2
  <2>3. view'[t] = w /\ step' = step /\ step[t] = "members"
    BY <2>1, <2>2 DEF QueryMembers, ViewInv
  <2>4. ASSUME ~w.failed
        PROVE  /\ v.before \subseteq v.groups /\ w.left \subseteq OnRecord(u)
               /\ \A h \in v.groups \ w.left : h \in DOMAIN m /\ u \in m[h]
    <3>1. /\ v.before \subseteq v.groups /\ v.left \subseteq OnRecord(u)
          /\ \A h \in v.groups \ v.left : h \in DOMAIN v.members /\ u \in v.members[h]
      BY <2>2, <2>3, <2>4 DEF ViewInv, Shown
    <3>2. u \in MembersOf(g, u)
      BY <1>1, <3>1 DEF OnRecord, MembersOf
    <3>3. /\ DOMAIN m = {g} \cup DOMAIN v.members
          /\ m[g] = MembersOf(g, u)
          /\ \A h \in DOMAIN v.members \ {g} : m[h] = v.members[h]
      BY DEF With
    <3> QED
      BY <2>2, <3>1, <3>2, <3>3
  <2> HIDE DEF m
  <2>5. Shown(t)'
    BY <1>1, <2>2, <2>3, <2>4 DEF Shown
  <2> QED
    BY <1>0, <1>1, <2>2, <2>3, <2>5, ViewOne
<1> QED
  BY <1>2, <1>3, <1>4

LEMMA StepView ==
    ASSUME ViewInv, [AccountsNext]_allVars
    PROVE  ViewInv'
<1>1. ASSUME NEW t \in Threads, Reply(t) PROVE ViewInv'
  <2>1. /\ view' = [view EXCEPT ![t] = NoView] /\ req' = [req EXCEPT ![t] = NoRequest]
        /\ step' = [step EXCEPT ![t] = "idle"] /\ view'[t] = NoView /\ step'[t] = "idle"
    BY <1>1 DEF Reply, ViewInv, RecordInv, HandlerInv
  <2>2. NoView.groups = {}
    BY DEF NoView
  <2>3. Shown(t)'
    BY <2>1, <2>2 DEF Shown, Reading
  <2>4. \A s \in Threads \ {t} : req'[s] = req[s] /\ step'[s] = step[s]
    BY <2>1 DEF ViewInv, RecordInv, HandlerInv
  <2> QED
    BY <2>1, <2>3, <2>4, ViewOne
<1>2. ASSUME NEW t \in Threads, HandlerStep(t), ~Reply(t),
             ~(QueryFriends(t) \/ QueryGroups(t) \/ \E g \in view[t].left : QueryMembers(t, g))
      PROVE  ViewInv'
  <2>1. /\ UNCHANGED <<view, req>>
        /\ \/ step' = step \/ step' = [step EXCEPT ![t] = "reply"]
           \/ step' = [step EXCEPT ![t] = "creator"]
    BY <1>2 DEF HandlerStep, RegInsert, HandlerLock, HandlerPush, HandlerUnlock, CreatorInsert,
        accountVars, handlers
  <2> QED
    BY <2>1, ViewFrame DEF ViewInv, RecordInv, HandlerInv, Reading
<1>3. CASE WorkerPop \/ WorkerArm \/ Wakeup \/ UNCHANGED allVars
  <2>1. UNCHANGED <<view, req, step>>
    BY <1>3 DEF WorkerPop, WorkerArm, FriendFirst, FriendSecond, FriendUnreached, JoinGroup,
        CreateGroup, Wakeup, allVars, accountVars, handlers
  <2> QED
    BY <2>1, ViewFrame
<1> QED
  BY <1>1, <1>2, <1>3, ViewArrive, ViewQueries DEF AccountsNext

(* However many groups are created and joined between the statements of a  *)
(* login: what it shows exists, it shows every group the user was in when  *)
(* the request arrived, and the user among the members of each, unless a   *)
(* query failed.                                                           *)
THEOREM ViewCorrect == AccountsSpec => []ViewIsConsistent
<1>1. ViewInv => ViewIsConsistent
  BY DEF ViewInv, Shown, ViewIsConsistent
<1> QED
  BY <1>1, InitView, StepView, PTL DEF AccountsSpec
-----------------------------------------------------------------------------
(* Every row asked for is counted: by the requests, by the tasks pushed,   *)
(* and by the tables and the INSERTs refused.                              *)

Hit(k, j, row) == j \in DOMAIN Writes(k) /\ Writes(k)[j] = row

One(p) == IF p THEN 1 ELSE 0

(* How often the task k writes row. *)
Times(k, row) == One(Hit(k, 1, row)) + One(Hit(k, 2, row))

Hits(s, row) == {w \in (DOMAIN s) \X {1, 2} : Hit(s[w[1]], w[2], row)}

LEMMA WrittenIs == \A s, row : WrittenBy(s, row) = Cardinality(Hits(s, row))
  BY DEF WrittenBy, Hits, Hit

LEMMA TimesNat == \A k, row : Times(k, row) \in Nat
  BY DEF Times, One

(* A set with up to two elements more. *)
LEMMA AddTwo ==
    ASSUME NEW S, IsFiniteSet(S), NEW x, NEW y, x \notin S, y \notin S, x # y,
           NEW p \in BOOLEAN, NEW q \in BOOLEAN,
           NEW T, T = S \cup {z \in {x} : p} \cup {z \in {y} : q}
    PROVE  /\ IsFiniteSet(T)
           /\ Cardinality(T) = Cardinality(S) + One(p) + One(q)
<1> DEFINE U == S \cup {z \in {x} : p}
<1>0. Cardinality(S) \in Nat
  BY FS_CardinalityType
<1>1. (p => U = S \cup {x}) /\ (~p => U = S)
  OBVIOUS
<1>2. y \notin U
  OBVIOUS
<1>3. (q => T = U \cup {y}) /\ (~q => T = U)
  OBVIOUS
<1> HIDE DEF U
<1>4. IsFiniteSet(U) /\ Cardinality(U) = (IF p THEN Cardinality(S) + 1 ELSE Cardinality(S))
  <2>1. CASE p
    BY <1>1, <2>1, FS_AddElement
  <2>2. CASE ~p
    BY <1>1, <2>2
  <2> QED
    BY <2>1, <2>2
<1>5. IsFiniteSet(T) /\ Cardinality(T) = (IF q THEN Cardinality(U) + 1 ELSE Cardinality(U))
  <2>1. CASE q
    BY <1>2, <1>3, <1>4, <2>1, FS_AddElement
  <2>2. CASE ~q
    BY <1>3, <1>4, <2>2
  <2> QED
    BY <2>1, <2>2
<1>6. One(p) = (IF p THEN 1 ELSE 0)
  BY Zenon DEF One
<1>7. One(q) = (IF q THEN 1 ELSE 0)
  BY Zenon DEF One
<1>8. Cardinality(U) = Cardinality(S) + One(p)
  <2>1. CASE p
    BY <1>4, <1>6, <2>1
  <2>2. CASE ~p
    BY <1>0, <1>4, <1>6, <2>2
  <2> QED
    BY <2>1, <2>2
<1>9. Cardinality(T) = Cardinality(U) + One(q)
  <2>1. Cardinality(U) \in Nat
    BY <1>4, FS_CardinalityType
  <2>2. CASE q
    BY <1>5, <1>7, <2>2
  <2>3. CASE ~q
    BY <1>5, <1>7, <2>1, <2>3
  <2> QED
    BY <2>2, <2>3
<1> QED
  BY <1>5, <1>8, <1>9

LEMMA HitsFinite ==
    ASSUME NEW s \in Seq(Task), NEW row
    PROVE  IsFiniteSet(Hits(s, row)) /\ WrittenBy(s, row) \in Nat
<1>1. DOMAIN s = 1..Len(s) /\ Len(s) \in Nat
  BY LenProperties
<1>3. 1..2 = {1, 2}
  OBVIOUS
<1>4. IsFiniteSet(1..2)
  <2>1. 1 \in Int /\ 2 \in Int
    OBVIOUS
  <2> QED
    BY <2>1, FS_Interval, Zenon
<1>2. IsFiniteSet(1..Len(s)) /\ IsFiniteSet({1, 2})
  BY <1>1, <1>3, <1>4, FS_Interval
<1>5. IsFiniteSet((DOMAIN s) \X {1, 2})
  BY <1>1, <1>2, FS_Product
<1> QED
  BY <1>5, WrittenIs, FS_Subset, FS_CardinalityType DEF Hits

(* A task more. *)
LEMMA WrittenAppend ==
    ASSUME NEW s \in Seq(Task), NEW k \in Task, NEW row
    PROVE  WrittenBy(Append(s, k), row) = WrittenBy(s, row) + Times(k, row)
<1> DEFINE n == Len(s) + 1
           t == Append(s, k)
<1>1. /\ t \in Seq(Task) /\ Len(s) \in Nat /\ DOMAIN s = 1..Len(s) /\ DOMAIN t = 1..n
      /\ t[n] = k /\ \A i \in DOMAIN s : t[i] = s[i]
  BY AppendProperties, LenProperties
<1>2. /\ <<n, 1>> \notin Hits(s, row) /\ <<n, 2>> \notin Hits(s, row) /\ <<n, 1>> # <<n, 2>>
  BY <1>1 DEF Hits
<1>3. Hits(t, row) = Hits(s, row) \cup {z \in {<<n, 1>>} : Hit(k, 1, row)}
                                  \cup {z \in {<<n, 2>>} : Hit(k, 2, row)}
  <2> HIDE DEF n, t
  <2>1. n \notin DOMAIN s /\ DOMAIN t = DOMAIN s \cup {n}
    BY <1>1 DEF n
  <2>2. \A i \in DOMAIN s : t[i] = s[i]
    BY <1>1
  <2>3. ASSUME NEW w \in Hits(t, row)
        PROVE  \/ w \in Hits(s, row)
               \/ w = <<n, 1>> /\ Hit(k, 1, row)
               \/ w = <<n, 2>> /\ Hit(k, 2, row)
    <3>1. PICK i \in DOMAIN s \cup {n}, j \in {1, 2} : w = <<i, j>> /\ Hit(t[i], j, row)
      BY <2>1 DEF Hits
    <3>2. CASE i \in DOMAIN s
      <4>1. Hit(s[i], j, row)
        BY <2>2, <3>1, <3>2
      <4>2. <<i, j>> \in Hits(s, row)
        BY <3>2, <4>1 DEF Hits
      <4> QED
        BY <3>1, <4>2
    <3>3. CASE i = n
      BY <1>1, <3>1, <3>3
    <3> QED
      BY <3>1, <3>2, <3>3
  <2>4. \A w \in Hits(s, row) : w \in Hits(t, row)
    BY <2>1, <2>2 DEF Hits
  <2>5. \A j \in {1, 2} : Hit(k, j, row) => <<n, j>> \in Hits(t, row)
    BY <1>1, <2>1 DEF Hits
  <2> QED
    BY <2>3, <2>4, <2>5
<1>4. IsFiniteSet(Hits(s, row)) /\ Cardinality(Hits(s, row)) \in Nat
  BY HitsFinite, FS_CardinalityType
<1>5. Hit(k, 1, row) \in BOOLEAN /\ Hit(k, 2, row) \in BOOLEAN
  BY DEF Hit
<1> HIDE DEF n, t
<1>6. Cardinality(Hits(t, row)) = Cardinality(Hits(s, row)) + One(Hit(k, 1, row)) + One(Hit(k, 2, row))
  BY <1>2, <1>3, <1>4, <1>5, AddTwo
<1> QED
  BY <1>4, <1>6, WrittenIs DEF Times, One, t

(* Tasks one after the other. *)
LEMMA WrittenConcat ==
    ASSUME NEW s \in Seq(Task), NEW q \in Seq(Task), NEW row
    PROVE  WrittenBy(s \o q, row) = WrittenBy(s, row) + WrittenBy(q, row)
<1> DEFINE m == Len(s)
           t == s \o q
           later == {w \in Hits(t, row) : w[1] > m}
<1>1. /\ t \in Seq(Task) /\ m \in Nat /\ Len(q) \in Nat
      /\ DOMAIN s = 1..m /\ DOMAIN q = 1..Len(q) /\ DOMAIN t = 1..(m + Len(q))
      /\ \A i \in 1..m : t[i] = s[i]
      /\ \A i \in 1..Len(q) : t[m + i] = q[i]
  <2>1. t \in Seq(Task) /\ Len(t) = m + Len(q) /\ m \in Nat /\ Len(q) \in Nat
    BY ConcatProperties, LenProperties
  <2>2. \A i \in 1..Len(t) : t[i] = IF i <= m THEN s[i] ELSE q[i - m]
    BY ConcatProperties
  <2> QED
    BY <2>1, <2>2, LenProperties
<1> HIDE DEF t, m
<1>2. Hits(t, row) = Hits(s, row) \cup later /\ Hits(s, row) \cap later = {}
  <2>1. ASSUME NEW w \in Hits(t, row) PROVE w \in Hits(s, row) \/ w \in later
    <3>1. /\ w = <<w[1], w[2]>> /\ w[1] \in 1..(m + Len(q)) /\ w[2] \in {1, 2}
          /\ Hit(t[w[1]], w[2], row)
      BY <1>1 DEF Hits
    <3>2. CASE w[1] > m
      BY <3>2
    <3>3. CASE ~(w[1] > m)
      <4>1. w[1] \in 1..m
        BY <1>1, <3>1, <3>3
      <4> QED
        BY <1>1, <3>1, <4>1 DEF Hits
    <3> QED
      BY <3>2, <3>3
  <2>2. ASSUME NEW w \in Hits(s, row) PROVE w \in Hits(t, row) /\ ~(w[1] > m)
    <3>1. /\ w = <<w[1], w[2]>> /\ w[1] \in 1..m /\ w[2] \in {1, 2}
          /\ Hit(s[w[1]], w[2], row)
      BY <1>1 DEF Hits
    <3>2. w[1] \in 1..(m + Len(q)) /\ ~(w[1] > m) /\ t[w[1]] = s[w[1]]
      BY <1>1, <3>1
    <3> QED
      BY <1>1, <3>1, <3>2 DEF Hits
  <2> QED
    BY <2>1, <2>2
<1>3. /\ IsFiniteSet(Hits(s, row)) /\ IsFiniteSet(Hits(q, row)) /\ IsFiniteSet(Hits(t, row))
  BY <1>1, HitsFinite
<1>4. IsFiniteSet(later)
  BY <1>3, FS_Subset
<1>5. Cardinality(later) = Cardinality(Hits(q, row))
  <2> DEFINE f == [w \in Hits(q, row) |-> <<w[1] + m, w[2]>>]
  <2>1. ASSUME NEW w \in Hits(q, row)
        PROVE  f[w] \in later /\ w[1] \in Nat /\ w = <<w[1], w[2]>>
    <3>1. /\ w = <<w[1], w[2]>> /\ w[1] \in 1..Len(q) /\ w[2] \in {1, 2}
          /\ Hit(q[w[1]], w[2], row)
      BY <1>1 DEF Hits
    <3>2. w[1] + m \in 1..(m + Len(q)) /\ w[1] + m > m /\ t[w[1] + m] = q[w[1]]
      <4>1. w[1] + m = m + w[1] /\ w[1] + m \in 1..(m + Len(q)) /\ w[1] + m > m
        BY <1>1, <3>1
      <4> QED
        BY <1>1, <3>1, <4>1
    <3>3. <<w[1] + m, w[2]>> \in Hits(t, row)
      BY <1>1, <3>1, <3>2 DEF Hits
    <3> QED
      BY <1>1, <3>1, <3>2, <3>3
  <2>2. ASSUME NEW w \in Hits(q, row), NEW v \in Hits(q, row), f[w] = f[v] PROVE w = v
    <3>1. w[1] + m = v[1] + m /\ w[2] = v[2]
      BY <2>2
    <3>3. w[1] \in Nat /\ v[1] \in Nat
      BY <2>1
    <3>2. w[1] = v[1]
      BY <1>1, <3>1, <3>3, SMT
    <3> QED
      BY <2>1, <3>1, <3>2
  <2>3. ASSUME NEW z \in later PROVE \E w \in Hits(q, row) : f[w] = z
    <3>1. /\ z = <<z[1], z[2]>> /\ z[1] \in 1..(m + Len(q)) /\ z[2] \in {1, 2}
          /\ Hit(t[z[1]], z[2], row) /\ z[1] > m
      BY <1>1 DEF Hits
    <3>2. z[1] - m \in 1..Len(q) /\ m + (z[1] - m) = z[1] /\ (z[1] - m) + m = z[1]
      BY <1>1, <3>1
    <3>3. t[z[1]] = q[z[1] - m]
      BY <1>1, <3>2
    <3>4. <<z[1] - m, z[2]>> \in Hits(q, row)
      BY <1>1, <3>1, <3>2, <3>3 DEF Hits
    <3> QED
      BY <3>1, <3>2, <3>4
  <2>4. f \in Bijection(Hits(q, row), later)
    <3>1. f \in [Hits(q, row) -> later]
      BY <2>1
    <3>2. f \in Injection(Hits(q, row), later)
      BY <2>2, <3>1 DEF Injection, IsInjective
    <3>3. f \in Surjection(Hits(q, row), later)
      BY <2>3, <3>1 DEF Surjection
    <3> QED
      BY <3>2, <3>3 DEF Bijection
  <2> QED
    BY <1>3, <2>4, FS_Bijection DEF ExistsBijection
<1>6. Cardinality(Hits(t, row)) = Cardinality(Hits(s, row)) + Cardinality(Hits(q, row))
  <2>1. Cardinality(Hits(s, row) \cap later) = 0
    BY <1>2, FS_EmptySet
  <2>2. Cardinality(Hits(s, row)) \in Nat /\ Cardinality(later) \in Nat
    BY <1>3, <1>4, FS_CardinalityType
  <2> HIDE DEF later
  <2>3. Cardinality(Hits(s, row) \cup later)
          = Cardinality(Hits(s, row)) + Cardinality(later) - Cardinality(Hits(s, row) \cap later)
    BY <1>3, <1>4, FS_Union
  <2> QED
    BY <1>2, <1>5, <2>1, <2>2, <2>3
<1> QED
  BY <1>6, WrittenIs DEF t
(* The task in hand, and then the others. *)
LEMMA WrittenOne ==
    ASSUME NEW s \in Seq(Task), NEW k \in Task, NEW row
    PROVE  /\ WrittenBy(s \o <<k>>, row) = WrittenBy(s, row) + Times(k, row)
           /\ WrittenBy(<<k>> \o s, row) = Times(k, row) + WrittenBy(s, row)
<1>1. <<k>> \in Seq(Task) /\ <<>> \in Seq(Task) /\ <<k>> = Append(<<>>, k)
  OBVIOUS
<1>2. Hits(<<>>, row) = {}
  BY DEF Hits
<1>3. WrittenBy(<<>>, row) = 0
  BY <1>2, WrittenIs, FS_EmptySet
<1>4. WrittenBy(<<k>>, row) = Times(k, row)
  <2>1. WrittenBy(Append(<<>>, k), row) = WrittenBy(<<>>, row) + Times(k, row)
    BY <1>1, WrittenAppend
  <2>2. Times(k, row) \in Nat
    BY TimesNat
  <2>3. WrittenBy(Append(<<>>, k), row) = Times(k, row)
    BY <1>3, <2>1, <2>2
  <2> QED
    BY <1>1, <2>3, Zenon
<1> DEFINE one == <<k>>
<1>5. one \in Seq(Task) /\ WrittenBy(one, row) = Times(k, row)
  BY <1>1, <1>4
<1> HIDE DEF one
<1>6. /\ WrittenBy(s \o one, row) = WrittenBy(s, row) + WrittenBy(one, row)
      /\ WrittenBy(one \o s, row) = WrittenBy(one, row) + WrittenBy(s, row)
  BY <1>5, WrittenConcat
<1> QED
  BY <1>5, <1>6 DEF one

(* What each kind of task writes. *)
LEMMA TimesOf ==
    ASSUME NEW k, NEW row
    PROVE  /\ k.type = "ADD_FRIEND" =>
                /\ Hit(k, 1, row) <=> row = <<k.userid, k.friendid>>
                /\ Hit(k, 2, row) <=> row = <<k.friendid, k.userid>>
           /\ k.type = "ADD_GROUP_USER" =>
                /\ Hit(k, 1, row) <=> row = <<k.groupid, k.userid, "normal">>
                /\ ~Hit(k, 2, row)
           /\ k.type = "CREATE_GROUP" => (Hit(k, 1, row) <=> row = <<k.name>>) /\ ~Hit(k, 2, row)
<1>1. CASE k.type = "ADD_FRIEND"
  <2>1. Writes(k) = <<<<k.userid, k.friendid>>, <<k.friendid, k.userid>>>>
    BY <1>1 DEF Writes
  <2> QED
    BY <1>1, <2>1 DEF Hit
<1>2. CASE k.type = "ADD_GROUP_USER"
  <2>1. Writes(k) = <<<<k.groupid, k.userid, "normal">>>>
    BY <1>2 DEF Writes
  <2> QED
    BY <1>2, <2>1 DEF Hit
<1>3. CASE k.type = "CREATE_GROUP"
  <2>1. Writes(k) = <<<<k.name>>>>
    BY <1>3 DEF Writes
  <2> QED
    BY <1>3, <2>1 DEF Hit
<1> QED
  BY <1>1, <1>2, <1>3

Pair(row) == \E u, f : row = <<u, f>>
Member(row) == \E g, u : row = <<g, u, "normal">>
Named(row) == \E n : row = <<n>>

LEMMA RowShape ==
    ASSUME NEW row \in Rows
    PROVE  Pair(row) \/ Member(row) \/ Named(row)
<1>1. PICK r \in Pushing : row \in RowsOf(r)
  BY DEF Rows
<1>2. PICK j \in DOMAIN Writes(TaskOf(r)) : row = Writes(TaskOf(r))[j]
  BY <1>1 DEF RowsOf
<1> DEFINE k == TaskOf(r)
<1>3. k.type \in {"ADD_FRIEND", "CREATE_GROUP", "ADD_GROUP_USER"}
  BY DEF TaskOf, Pushing
<1> HIDE DEF k
<1>4. row = Writes(k)[j] /\ j \in DOMAIN Writes(k)
  BY <1>2 DEF k
<1>5. CASE k.type = "ADD_FRIEND"
  <2>1. Writes(k) = <<<<k.userid, k.friendid>>, <<k.friendid, k.userid>>>>
    BY <1>5 DEF Writes
  <2> QED
    BY <1>4, <2>1 DEF Pair
<1>6. CASE k.type = "ADD_GROUP_USER"
  <2>1. Writes(k) = <<<<k.groupid, k.userid, "normal">>>>
    BY <1>6 DEF Writes
  <2> QED
    BY <1>4, <2>1 DEF Member
<1>7. CASE k.type = "CREATE_GROUP"
  <2>1. Writes(k) = <<<<k.name>>>>
    BY <1>7 DEF Writes
  <2> QED
    BY <1>4, <2>1 DEF Named
<1> QED
  BY <1>3, <1>5, <1>6, <1>7

LEMMA Shapes ==
    /\ \A row : Pair(row) => Len(row) = 2
    /\ \A row : Member(row) => Len(row) = 3
    /\ \A row : Named(row) => Len(row) = 1 /\ row = <<row[1]>>
  BY DEF Pair, Member, Named

(* A row tried: in its table, or refused. *)
Recorded(row) == Stored(row) + Copies(row, lost)

GroupsNamed(n) == {i \in DOMAIN allgroup : allgroup[i] = n}

LEMMA StoredIs ==
    ASSUME NEW row
    PROVE  /\ Pair(row) => Stored(row) = Copies(row, friend)
           /\ Member(row) => Stored(row) = Copies(row, groupuser)
           /\ Named(row) => Stored(row) = Cardinality(GroupsNamed(row[1]))
<1>1. CASE Pair(row)
  BY <1>1, Shapes DEF Stored, GroupsNamed
<1>2. CASE Member(row)
  BY <1>2, Shapes DEF Stored, GroupsNamed
<1>3. CASE Named(row)
  BY <1>3, Shapes DEF Stored, GroupsNamed
<1>4. (Pair(row) => ~Member(row) /\ ~Named(row)) /\ (Member(row) => ~Named(row))
  BY Shapes
<1> QED
  BY <1>1, <1>2, <1>3
TableTypes ==
    /\ Counts(friend) /\ Counts(groupuser) /\ Counts(lost) /\ allgroup \in Seq(GroupName)

LEMMA CopiesNat == ASSUME NEW bag, Counts(bag), NEW x PROVE Copies(x, bag) \in Nat
  BY DEF Copies, Counts, BagIn, BagToSet

LEMMA GroupsFinite ==
    ASSUME TableTypes, NEW n
    PROVE  IsFiniteSet(GroupsNamed(n)) /\ Cardinality(GroupsNamed(n)) \in Nat
<1>1. DOMAIN allgroup = 1..Len(allgroup) /\ Len(allgroup) \in Nat
  BY LenProperties DEF TableTypes
<1>2. IsFiniteSet(DOMAIN allgroup)
  BY <1>1, FS_Interval
<1> QED
  BY <1>2, FS_Subset, FS_CardinalityType DEF GroupsNamed

LEMMA RecordedNat ==
    ASSUME TableTypes, NEW row \in Rows
    PROVE  Stored(row) \in Nat /\ Copies(row, lost) \in Nat /\ Recorded(row) \in Nat
<1>1. Copies(row, friend) \in Nat /\ Copies(row, groupuser) \in Nat /\ Copies(row, lost) \in Nat
  BY CopiesNat DEF TableTypes
<1>2. Stored(row) \in Nat
  BY <1>1, RowShape, StoredIs, GroupsFinite
<1> QED
  BY <1>1, <1>2 DEF Recorded

(* A group more. *)
LEMMA GroupAdd ==
    ASSUME TableTypes, NEW x \in GroupName, allgroup' = Append(allgroup, x)
    PROVE  /\ allgroup' \in Seq(GroupName)
           /\ \A n : Cardinality(GroupsNamed(n)') = Cardinality(GroupsNamed(n)) + One(n = x)
<1> DEFINE m == Len(allgroup) + 1
<1>1. /\ allgroup' \in Seq(GroupName) /\ Len(allgroup) \in Nat
      /\ DOMAIN allgroup = 1..Len(allgroup) /\ DOMAIN allgroup' = 1..m
      /\ allgroup'[m] = x /\ \A i \in DOMAIN allgroup : allgroup'[i] = allgroup[i]
  BY AppendProperties, LenProperties DEF TableTypes
<1>2. m \notin DOMAIN allgroup /\ DOMAIN allgroup' = DOMAIN allgroup \cup {m}
  BY <1>1
<1> HIDE DEF m
<1>3. ASSUME NEW n
      PROVE  Cardinality(GroupsNamed(n)') = Cardinality(GroupsNamed(n)) + One(n = x)
  <2>1. CASE n = x
    <3>1. GroupsNamed(n)' = GroupsNamed(n) \cup {m} /\ m \notin GroupsNamed(n)
      BY <1>1, <1>2, <2>1 DEF GroupsNamed
    <3>2. Cardinality(GroupsNamed(n) \cup {m}) = Cardinality(GroupsNamed(n)) + 1
      BY <3>1, GroupsFinite, FS_AddElement
    <3> QED
      BY <2>1, <3>1, <3>2 DEF One
  <2>2. CASE n # x
    <3>1. GroupsNamed(n)' = GroupsNamed(n)
      BY <1>1, <1>2, <2>2 DEF GroupsNamed
    <3> QED
      BY <2>2, <3>1, GroupsFinite DEF One
  <2> QED
    BY <2>1, <2>2
<1> QED
  BY <1>1, <1>3

(* One INSERT: its row is in its table, or refused, once more.             *)
Tried(row) ==
    \/ lost' = lost (+) SetToBag({row}) /\ UNCHANGED <<friend, groupuser, allgroup>>
    \/ /\ Pair(row) /\ friend' = friend (+) SetToBag({row})
       /\ UNCHANGED <<groupuser, allgroup, lost>>
    \/ /\ Len(row) = 3 /\ groupuser' = groupuser (+) SetToBag({row})
       /\ UNCHANGED <<friend, allgroup, lost>>
    \/ /\ \E x \in GroupName : row = <<x>> /\ allgroup' = Append(allgroup, x)
       /\ UNCHANGED <<friend, groupuser, lost>>

LEMMA TryOne ==
    ASSUME TableTypes, NEW row, Tried(row)
    PROVE  TableTypes' /\ \A z \in Rows : Recorded(z)' = Recorded(z) + One(z = row)
<1>0. ASSUME NEW z \in Rows
      PROVE  /\ Recorded(z)' = Stored(z)' + Copies(z, lost')
             /\ Recorded(z) = Stored(z) + Copies(z, lost)
             /\ Copies(z, lost) \in Nat /\ Stored(z) \in Nat
  BY RecordedNat DEF Recorded
<1>4. \A z : /\ Pair(z) => Stored(z)' = Copies(z, friend')
             /\ Member(z) => Stored(z)' = Copies(z, groupuser')
             /\ Named(z) => Stored(z)' = Cardinality(GroupsNamed(z[1])')
  <2> TAKE z
  <2>1. CASE Pair(z)
    BY <2>1, Shapes DEF Stored
  <2>2. CASE Member(z)
    BY <2>2, Shapes DEF Stored
  <2>3. CASE Named(z)
    BY <2>3, Shapes DEF Stored, GroupsNamed
  <2>4. (Pair(z) => ~Member(z) /\ ~Named(z)) /\ (Member(z) => ~Named(z))
    BY Shapes
  <2> QED
    BY <2>1, <2>2, <2>3
<1>1. CASE lost' = lost (+) SetToBag({row}) /\ UNCHANGED <<friend, groupuser, allgroup>>
  <2>0. Counts(lost) /\ lost' = lost (+) SetToBag({row})
    BY <1>1 DEF TableTypes
  <2>1. /\ Counts(lost')
        /\ \A z : Copies(z, lost') = Copies(z, lost) + One(z = row)
    BY <2>0, BagAdd DEF One
  <2>2. TableTypes'
    BY <1>1, <2>1 DEF TableTypes
  <2>3. \A z \in Rows : Stored(z)' = Stored(z)
    BY <1>1 DEF Stored
  <2>4. ASSUME NEW z \in Rows PROVE Recorded(z)' = Recorded(z) + One(z = row)
    BY <1>0, <2>1, <2>3 DEF One
  <2> QED
    BY <2>2, <2>4
<1>2. CASE /\ Pair(row) /\ friend' = friend (+) SetToBag({row})
           /\ UNCHANGED <<groupuser, allgroup, lost>>
  <2>0. Counts(friend) /\ friend' = friend (+) SetToBag({row})
    BY <1>2 DEF TableTypes
  <2>1. /\ Counts(friend')
        /\ \A z : Copies(z, friend') = Copies(z, friend) + One(z = row)
    BY <2>0, BagAdd DEF One
  <2>2. TableTypes'
    BY <1>2, <2>1 DEF TableTypes
  <2>3. ASSUME NEW z \in Rows PROVE Stored(z)' = Stored(z) + One(z = row)
    <3>1. CASE Pair(z)
      BY <1>4, <2>1, <3>1, StoredIs
    <3>2. CASE Member(z) \/ Named(z)
      <4>1. z # row
        BY <1>2, <3>2, Shapes
      <4>2. Stored(z)' = Stored(z)
        BY <1>2, <1>4, <3>2, StoredIs DEF GroupsNamed
      <4> QED
        BY <1>0, <4>1, <4>2 DEF One
    <3> QED
      BY <3>1, <3>2, RowShape
  <2>4. ASSUME NEW z \in Rows PROVE Recorded(z)' = Recorded(z) + One(z = row)
    BY <1>0, <1>2, <2>3 DEF One
  <2> QED
    BY <2>2, <2>4
<1>3. CASE /\ Len(row) = 3 /\ groupuser' = groupuser (+) SetToBag({row})
           /\ UNCHANGED <<friend, allgroup, lost>>
  <2>0. Counts(groupuser) /\ groupuser' = groupuser (+) SetToBag({row})
    BY <1>3 DEF TableTypes
  <2>1. /\ Counts(groupuser')
        /\ \A z : Copies(z, groupuser') = Copies(z, groupuser) + One(z = row)
    BY <2>0, BagAdd DEF One
  <2>2. TableTypes'
    BY <1>3, <2>1 DEF TableTypes
  <2>3. ASSUME NEW z \in Rows PROVE Stored(z)' = Stored(z) + One(z = row)
    <3>1. CASE Member(z)
      BY <1>4, <2>1, <3>1, StoredIs
    <3>2. CASE Pair(z) \/ Named(z)
      <4>1. z # row
        BY <1>3, <3>2, Shapes
      <4>2. Stored(z)' = Stored(z)
        BY <1>3, <1>4, <3>2, StoredIs DEF GroupsNamed
      <4> QED
        BY <1>0, <4>1, <4>2 DEF One
    <3> QED
      BY <3>1, <3>2, RowShape
  <2>4. ASSUME NEW z \in Rows PROVE Recorded(z)' = Recorded(z) + One(z = row)
    BY <1>0, <1>3, <2>3 DEF One
  <2> QED
    BY <2>2, <2>4
<1>5. ASSUME NEW x \in GroupName, row = <<x>>, allgroup' = Append(allgroup, x),
             UNCHANGED <<friend, groupuser, lost>>
      PROVE  TableTypes' /\ \A z \in Rows : Recorded(z)' = Recorded(z) + One(z = row)
  <2>1. /\ allgroup' \in Seq(GroupName)
        /\ \A n : Cardinality(GroupsNamed(n)') = Cardinality(GroupsNamed(n)) + One(n = x)
    BY <1>5, GroupAdd
  <2>2. TableTypes'
    BY <1>5, <2>1 DEF TableTypes
  <2>3. ASSUME NEW z \in Rows PROVE Stored(z)' = Stored(z) + One(z = row)
    <3>1. CASE Named(z)
      <4>1. z[1] = x <=> z = row
        BY <1>5, <3>1, Shapes
      <4> QED
        BY <1>4, <2>1, <3>1, <4>1, StoredIs DEF One
    <3>2. CASE Pair(z) \/ Member(z)
      <4>1. z # row
        BY <1>5, <3>2, Shapes DEF Named
      <4>2. Stored(z)' = Stored(z)
        BY <1>5, <1>4, <3>2, StoredIs
      <4> QED
        BY <1>0, <4>1, <4>2 DEF One
    <3> QED
      BY <3>1, <3>2, RowShape
  <2>4. ASSUME NEW z \in Rows PROVE Recorded(z)' = Recorded(z) + One(z = row)
    BY <1>0, <1>5, <2>3 DEF One
  <2> QED
    BY <2>2, <2>4
<1> QED
  BY <1>1, <1>2, <1>3, <1>5 DEF Tried
(* The rows in the tables and the rows refused are those of the tasks      *)
(* executed, and the first of a friendship that the worker is half-way in. *)
RowInv ==
    /\ RecordInv /\ MutualInv /\ TableTypes
    /\ \A row \in Rows : Recorded(row) =
          WrittenBy(executed, row) + One(between /\ Hit(inHand[1], 1, row))

LEMMA InitRows == AccountsInit => RowInv
<1> SUFFICES ASSUME AccountsInit PROVE RowInv
  OBVIOUS
<1>1. /\ friend = EmptyBag /\ groupuser = EmptyBag /\ lost = EmptyBag /\ allgroup = <<>>
      /\ between = FALSE /\ executed = <<>>
  BY DEF AccountsInit, Init
<1>2. DOMAIN EmptyBag = {}
  BY DEF EmptyBag, SetToBag
<1>3. TableTypes
  BY <1>1, <1>2 DEF TableTypes, Counts
<1>4. \A row : Copies(row, EmptyBag) = 0
  BY <1>2 DEF Copies, BagIn, BagToSet
<1>5. \A n : GroupsNamed(n) = {}
  BY <1>1 DEF GroupsNamed
<1>6. ASSUME NEW row \in Rows PROVE Recorded(row) = 0
  <2>1. Stored(row) = 0
    BY <1>1, <1>4, <1>5, RowShape, StoredIs, FS_EmptySet
  <2> QED
    BY <1>1, <1>4, <2>1 DEF Recorded
<1>7. \A row : Hits(executed, row) = {}
  BY <1>1 DEF Hits
<1>8. \A row : WrittenBy(executed, row) = 0
  BY <1>7, WrittenIs, FS_EmptySet
<1> QED
  BY <1>1, <1>3, <1>6, <1>8, InitRecord, InitMutual DEF RowInv, One

(* The steps that try no row that is counted, and execute no task.         *)
LEMMA RowFrame ==
    ASSUME RowInv, RecordInv', MutualInv', TableTypes',
           \A row \in Rows : Recorded(row)' = Recorded(row),
           UNCHANGED <<executed, between>>, between => inHand' = inHand
    PROVE  RowInv'
<1>1. \A row \in Rows : (between /\ Hit(inHand[1], 1, row))' <=> between /\ Hit(inHand[1], 1, row)
  BY DEF MutualInv, RowInv
<1> QED
  BY <1>1 DEF RowInv, One

LEMMA RowTables ==
    ASSUME RowInv, UNCHANGED <<friend, groupuser, allgroup, lost>>
    PROVE  TableTypes' /\ \A row \in Rows : Recorded(row)' = Recorded(row)
<1>1. TableTypes'
  BY DEF RowInv, TableTypes
<1>2. \A row \in Rows : Stored(row)' = Stored(row)
  BY DEF Stored
<1> QED
  BY <1>1, <1>2 DEF Recorded

(* The end of an arm that tried what was left of its task.                 *)
LEMMA ArmEnds ==
    ASSUME RowInv, RecordInv', MutualInv', TableTypes', NEW type, Arm(type),
           NEW ok, Execute(ok), between' = FALSE,
           \A row \in Rows : Recorded(row)' = Recorded(row) + Times(inHand[1], row)
                                                - One(between /\ Hit(inHand[1], 1, row))
    PROVE  RowInv'
<1> DEFINE k == inHand[1]
<1>1. k \in Task /\ inHand = <<k>> /\ executed \in Seq(Task) /\ executed' = executed \o inHand
  BY ArmTask DEF RowInv, RecordInv, Execute, IInv, TypeOK
<1> HIDE DEF k
<1>2. ASSUME NEW row \in Rows PROVE Recorded(row)' = WrittenBy(executed', row)
  <2>1. WrittenBy(executed', row) = WrittenBy(executed, row) + Times(k, row)
    BY <1>1, WrittenOne
  <2>2. Recorded(row) = WrittenBy(executed, row) + One(between /\ Hit(k, 1, row))
    BY DEF RowInv, k
  <2>3. Recorded(row)' = Recorded(row) + Times(k, row) - One(between /\ Hit(k, 1, row))
    BY DEF k
  <2>4. /\ WrittenBy(executed, row) \in Nat /\ Times(k, row) \in Nat
        /\ One(between /\ Hit(k, 1, row)) \in Nat
    BY <1>1, HitsFinite, TimesNat DEF One
  <2> QED
    BY <2>1, <2>2, <2>3, <2>4
<1>3. ASSUME NEW row \in Rows
      PROVE  WrittenBy(executed', row) \in Nat /\ One(between /\ Hit(inHand[1], 1, row))' = 0
  <2>1. executed' \in Seq(Task)
    BY DEF RecordInv, IInv, TypeOK
  <2> QED
    BY <2>1, HitsFinite DEF One
<1>4. ASSUME NEW row \in Rows
      PROVE  Recorded(row)' = WrittenBy(executed', row) + One(between /\ Hit(inHand[1], 1, row))'
  BY <1>2, <1>3
<1> QED
  BY <1>4 DEF RowInv

LEMMA RowFriend ==
    ASSUME RowInv, RecordInv', MutualInv', FriendFirst \/ FriendSecond \/ FriendUnreached
    PROVE  RowInv'
<1> DEFINE k == inHand[1]
           there == <<k.userid, k.friendid>>
           back == <<k.friendid, k.userid>>
<1>0. TableTypes /\ Pair(there) /\ Pair(back) /\ between \in BOOLEAN
      /\ Arm("ADD_FRIEND") /\ k.type = "ADD_FRIEND"
  BY DEF RowInv, Pair, MutualInv, FriendFirst, FriendSecond, FriendUnreached, Arm
<1>1. \A row : /\ One(Hit(k, 1, row)) = One(row = there)
               /\ One(Hit(k, 2, row)) = One(row = back)
  BY <1>0, TimesOf DEF One
<1>2. \A row \in Rows : Recorded(row) \in Nat
  BY <1>0, RecordedNat
<1> HIDE DEF k, there, back
<1>3. CASE FriendFirst
  <2>1. /\ Tried(there) /\ between = FALSE /\ between' = TRUE /\ UNCHANGED <<inHand, executed>>
    BY <1>0, <1>3 DEF FriendFirst, InsertFriend, Insert, Tried, there, k, vars
  <2>2. /\ TableTypes'
        /\ \A row \in Rows : Recorded(row)' = Recorded(row) + One(row = there)
    BY <1>0, <2>1, TryOne
  <2>3. ASSUME NEW row \in Rows
        PROVE  Recorded(row)' = WrittenBy(executed', row) + One(between /\ Hit(inHand[1], 1, row))'
    <3>1. Recorded(row) = WrittenBy(executed, row) + 0
      BY <2>1 DEF RowInv, One
    <3>2. WrittenBy(executed, row) \in Nat
      BY HitsFinite DEF RowInv, RecordInv, IInv, TypeOK
    <3>3. One(between /\ Hit(inHand[1], 1, row))' = One(Hit(k, 1, row))
      BY <2>1 DEF One, k
    <3> QED
      BY <1>1, <2>1, <2>2, <3>1, <3>2, <3>3
  <2> QED
    BY <2>2, <2>3 DEF RowInv
<1>4. CASE FriendSecond
  <2>1. /\ Tried(back) /\ between = TRUE /\ between' = FALSE /\ Execute(TRUE)
    BY <1>0, <1>4 DEF FriendSecond, SecondRow, InsertFriend, Insert, Tried, back, k
  <2>2. /\ TableTypes'
        /\ \A row \in Rows : Recorded(row)' = Recorded(row) + One(row = back)
    BY <1>0, <2>1, TryOne
  <2>3. ASSUME NEW row \in Rows
        PROVE  Recorded(row)' = Recorded(row) + Times(inHand[1], row)
                                  - One(between /\ Hit(inHand[1], 1, row))
    <3>1. Times(inHand[1], row) = One(row = there) + One(row = back)
      BY <1>1 DEF Times, k
    <3>2. One(between /\ Hit(inHand[1], 1, row)) = One(row = there)
      BY <1>1, <2>1 DEF One, k
    <3> QED
      BY <1>2, <2>2, <3>1, <3>2 DEF One
  <2> QED
    BY <1>0, <2>1, <2>2, <2>3, ArmEnds
<1>5. CASE FriendUnreached
  <2> DEFINE once == lost (+) SetToBag({there})
  <2>1. /\ between = FALSE /\ between' = FALSE /\ Execute(TRUE)
        /\ UNCHANGED <<friend, groupuser, allgroup>>
        /\ lost' = once (+) SetToBag({back})
    BY <1>0, <1>5 DEF FriendUnreached, tables, there, back, k
  <2>2. /\ Counts(once)
        /\ \A x : /\ Copies(x, once) = Copies(x, lost) + (IF x = there THEN 1 ELSE 0)
                  /\ Copies(x, lost) \in Nat
    <3>1. Counts(lost)
      BY <1>0 DEF TableTypes
    <3> QED
      BY <3>1, BagAdd
  <2> HIDE DEF once
  <2>3. /\ Counts(lost')
        /\ \A x : Copies(x, lost') = Copies(x, once) + (IF x = back THEN 1 ELSE 0)
    BY <2>1, <2>2, BagAdd
  <2>4. TableTypes'
    BY <1>0, <2>1, <2>3 DEF TableTypes
  <2>5. ASSUME NEW row \in Rows
        PROVE  Recorded(row)' = Recorded(row) + Times(inHand[1], row)
                                  - One(between /\ Hit(inHand[1], 1, row))
    <3>1. Stored(row)' = Stored(row)
      BY <2>1 DEF Stored
    <3>2. Recorded(row)' = Stored(row) + Copies(row, lost') /\ Stored(row) \in Nat
          /\ Recorded(row) = Stored(row) + Copies(row, lost)
      BY <1>0, <3>1, RecordedNat DEF Recorded
    <3>3. Times(inHand[1], row) = One(row = there) + One(row = back)
      BY <1>1 DEF Times, k
    <3>4. One(between /\ Hit(inHand[1], 1, row)) = 0
      BY <2>1 DEF One
    <3> QED
      BY <2>2, <2>3, <3>2, <3>3, <3>4 DEF One
  <2> QED
    BY <1>0, <2>1, <2>4, <2>5, ArmEnds
<1> QED
  BY <1>3, <1>4, <1>5

LEMMA RowGroup ==
    ASSUME RowInv, RecordInv', MutualInv', JoinGroup \/ CreateGroup
    PROVE  RowInv'
<1> DEFINE k == inHand[1]
<1>0. /\ TableTypes /\ \A row \in Rows : Recorded(row) \in Nat
      /\ Arm("ADD_GROUP_USER") \/ Arm("CREATE_GROUP")
      /\ between = FALSE /\ between' = FALSE
  <2>1. TableTypes /\ between \in BOOLEAN /\ (between => Arm("ADD_FRIEND")) /\ between' = between
    BY DEF RowInv, MutualInv, JoinGroup, CreateGroup
  <2>2. Arm("ADD_GROUP_USER") \/ Arm("CREATE_GROUP")
    BY DEF JoinGroup, CreateGroup
  <2>3. ~between
    BY <2>1, <2>2 DEF Arm
  <2> QED
    BY <2>1, <2>2, <2>3, RecordedNat
<1>1. PICK row0 : /\ TableTypes' /\ (Tried(row0) \/ UNCHANGED <<friend, groupuser, allgroup, lost>>)
                  /\ \A row \in Rows : Recorded(row)' = Recorded(row) + One(row = row0)
                  /\ \A row : Times(k, row) = One(row = row0)
                  /\ \E ok : Execute(ok)
  <2>1. CASE JoinGroup
    <3> DEFINE row0 == <<k.groupid, k.userid, "normal">>
    <3>1. k.type = "ADD_GROUP_USER" /\ Len(row0) = 3
      BY <2>1 DEF JoinGroup, Arm
    <3>2. Tried(row0) /\ \E ok : Execute(ok)
      BY <2>1, <3>1 DEF JoinGroup, InsertMember, Insert, Tried
    <3>3. \A row : Times(k, row) = One(row = row0)
      BY <3>1, TimesOf DEF Times, One
    <3> HIDE DEF row0
    <3>4. TableTypes' /\ \A row \in Rows : Recorded(row)' = Recorded(row) + One(row = row0)
      BY <1>0, <3>2, TryOne
    <3> QED
      BY <3>2, <3>3, <3>4
  <2>2. CASE CreateGroup
    <3> DEFINE row0 == <<k.name>>
    <3>1. k.type = "CREATE_GROUP" /\ k.name \in GroupName
      BY <2>2, ArmTask DEF CreateGroup, Arm, GroupName, RowInv
    <3>2. Tried(row0) /\ \E ok : Execute(ok)
      BY <2>2, <3>1 DEF CreateGroup, Tried
    <3>3. \A row : Times(k, row) = One(row = row0)
      BY <3>1, TimesOf DEF Times, One
    <3> HIDE DEF row0
    <3>4. TableTypes' /\ \A row \in Rows : Recorded(row)' = Recorded(row) + One(row = row0)
      BY <1>0, <3>2, TryOne
    <3> QED
      BY <3>2, <3>3, <3>4
  <2> QED
    BY <2>1, <2>2
<1>2. PICK ok : Execute(ok)
  BY <1>1
<1>3. ASSUME NEW row \in Rows
      PROVE  Recorded(row)' = Recorded(row) + Times(inHand[1], row)
                                - One(between /\ Hit(inHand[1], 1, row))
  <2>1. One(between /\ Hit(inHand[1], 1, row)) = 0
    BY <1>0 DEF One
  <2> QED
    BY <1>0, <1>1, <2>1 DEF One
<1> QED
  BY <1>0, <1>1, <1>2, <1>3, ArmEnds

LEMMA StepRows ==
    ASSUME RowInv, [AccountsNext]_allVars
    PROVE  RowInv'
<1>0. RecordInv' /\ MutualInv' /\ TableTypes
  BY StepRecord, StepMutual DEF RowInv
<1>1. ASSUME NEW t \in Threads, CreatorInsert(t) PROVE RowInv'
  <2> DEFINE row0 == <<NoGroup, req[t].user, "creator">>
  <2>1. Tried(row0) /\ UNCHANGED <<executed, between, inHand>>
    BY <1>1 DEF CreatorInsert, InsertMember, Insert, Tried, vars
  <2>2. \A row \in Rows : row # row0
    <3>1. \A row : Member(row) => row # row0
      BY DEF Member
    <3>2. ~Pair(row0) /\ ~Named(row0)
      BY DEF Pair, Named
    <3> QED
      BY <3>1, <3>2, RowShape
  <2> HIDE DEF row0
  <2>3. TableTypes' /\ \A row \in Rows : Recorded(row)' = Recorded(row) + One(row = row0)
    BY <1>0, <2>1, TryOne
  <2>4. \A row \in Rows : Recorded(row)' = Recorded(row)
    BY <1>0, <2>2, <2>3, RecordedNat DEF One
  <2> QED
    BY <1>0, <2>1, <2>3, <2>4, RowFrame
<1>2. ASSUME NEW t \in Threads, HandlerStep(t), ~CreatorInsert(t) PROVE RowInv'
  <2>1. UNCHANGED <<friend, groupuser, allgroup, lost, executed, between, inHand>>
    BY <1>2 DEF HandlerStep, RegInsert, HandlerLock, PushLock, HandlerPush, PushTask, HandlerUnlock,
        PushUnlock, QueryFriends, QueryGroups, QueryMembers, Reply, accountVars, tables, vars
  <2> QED
    BY <1>0, <2>1, RowTables, RowFrame
<1>3. ASSUME NEW t \in Threads, NEW r \in Request, Arrive(t, r) PROVE RowInv'
  <2>1. UNCHANGED <<friend, groupuser, allgroup, lost, executed, between, inHand>>
    BY <1>3 DEF Arrive, tables, vars
  <2> QED
    BY <1>0, <2>1, RowTables, RowFrame
<1>4. CASE WorkerPop \/ Wakeup \/ UNCHANGED allVars
  <2>1. UNCHANGED <<friend, groupuser, allgroup, lost, executed, between>>
        /\ (inHand' = inHand \/ worker # "work")
    BY <1>4 DEF WorkerPop, PopLock, PopWait, PopTask, Wakeup, SpuriousWakeup, allVars, accountVars,
        tables, vars
  <2>2. between => inHand' = inHand
    BY <2>1 DEF RowInv, MutualInv, Arm
  <2> QED
    BY <1>0, <2>1, <2>2, RowTables, RowFrame
<1> QED
  BY <1>0, <1>1, <1>2, <1>3, <1>4, RowFriend, RowGroup DEF AccountsNext, WorkerArm

-----------------------------------------------------------------------------
(* What was asked for, and what was pushed of it.                          *)

Askers(f, row) == {c \in Asks \X (1..MaxCopies) : c[1][3] = row /\ c[2] <= f[c[1][1]]}

LEMMA AskedIs == \A f, row : AskedBy(f, row) = Cardinality(Askers(f, row))
  BY DEF AskedBy, Askers

LEMMA AskerIs ==
    ASSUME NEW f, NEW row \in Rows, NEW c
    PROVE  c \in Askers(f, row) <=>
              \E r \in Pushing, j \in {1, 2}, n \in 1..MaxCopies :
                  c = <<<<r, j, row>>, n>> /\ Hit(TaskOf(r), j, row) /\ n <= f[r]
<1>1. ASSUME c \in Askers(f, row)
      PROVE  \E r \in Pushing, j \in {1, 2}, n \in 1..MaxCopies :
                 c = <<<<r, j, row>>, n>> /\ Hit(TaskOf(r), j, row) /\ n <= f[r]
  <2>1. PICK a \in Asks, n \in 1..MaxCopies : c = <<a, n>>
    BY <1>1 DEF Askers
  <2>2. a[3] = row /\ n <= f[a[1]]
    BY <1>1, <2>1 DEF Askers
  <2>3. PICK r \in Pushing, j \in {1, 2}, z \in Rows : a = <<r, j, z>>
    BY DEF Asks
  <2>4. j \in DOMAIN Writes(TaskOf(r)) /\ Writes(TaskOf(r))[j] = z
    BY <2>3 DEF Asks
  <2>5. z = row
    BY <2>2, <2>3
  <2> QED
    BY <2>1, <2>2, <2>3, <2>4, <2>5 DEF Hit
<1>2. ASSUME NEW r \in Pushing, NEW j \in {1, 2}, NEW n \in 1..MaxCopies,
             c = <<<<r, j, row>>, n>>, Hit(TaskOf(r), j, row), n <= f[r]
      PROVE  c \in Askers(f, row)
  <2>1. <<r, j, row>> \in Asks
    BY <1>2 DEF Asks, Hit
  <2> QED
    BY <1>2, <2>1 DEF Askers
<1> QED
  BY <1>1, <1>2

(* Fewer copies ask for fewer rows. *)
LEMMA AskedLess ==
    ASSUME NEW f \in [Request -> Nat], NEW g \in [Request -> Nat],
           \A r \in Pushing : f[r] <= g[r],
           NEW row \in Rows, IsFiniteSet(Askers(g, row))
    PROVE  /\ IsFiniteSet(Askers(f, row))
           /\ AskedBy(f, row) \in Nat /\ AskedBy(g, row) \in Nat
           /\ AskedBy(f, row) <= AskedBy(g, row)
<1>1. Askers(f, row) \subseteq Askers(g, row)
  <2> SUFFICES ASSUME NEW c, c \in Askers(f, row) PROVE c \in Askers(g, row)
    OBVIOUS
  <2>1. PICK r \in Pushing, j \in {1, 2}, n \in 1..MaxCopies :
            c = <<<<r, j, row>>, n>> /\ Hit(TaskOf(r), j, row) /\ n <= f[r]
    BY AskerIs
  <2>2. n <= g[r]
    <3>1. n \in Int /\ r \in Request
      BY DEF Pushing
    <3>2. f[r] \in Nat /\ g[r] \in Nat /\ f[r] <= g[r]
      BY <3>1
    <3> QED
      BY <2>1, <3>1, <3>2
  <2> QED
    BY <2>1, <2>2, AskerIs
<1> QED
  BY <1>1, AskedIs, FS_Subset, FS_CardinalityType

LEMMA AskedSame ==
    ASSUME NEW f, NEW g, \A r \in Pushing : f[r] = g[r], NEW row \in Rows
    PROVE  Askers(f, row) = Askers(g, row) /\ AskedBy(f, row) = AskedBy(g, row)
<1>1. ASSUME NEW c PROVE c \in Askers(f, row) <=> c \in Askers(g, row)
  <2>1. c \in Askers(f, row) <=>
              \E r \in Pushing, j \in {1, 2}, n \in 1..MaxCopies :
                  c = <<<<r, j, row>>, n>> /\ Hit(TaskOf(r), j, row) /\ n <= f[r]
    BY AskerIs
  <2>2. c \in Askers(g, row) <=>
              \E r \in Pushing, j \in {1, 2}, n \in 1..MaxCopies :
                  c = <<<<r, j, row>>, n>> /\ Hit(TaskOf(r), j, row) /\ n <= g[r]
    BY AskerIs
  <2> QED
    BY <2>1, <2>2
<1> QED
  BY <1>1, AskedIs

(* One copy more of one request asks for what its task writes. *)
LEMMA AskedMore ==
    ASSUME NEW f \in [Request -> Nat], NEW g \in [Request -> Nat], NEW r \in Pushing,
           f[r] < MaxCopies, g[r] = f[r] + 1, \A q \in Pushing \ {r} : g[q] = f[q],
           NEW row \in Rows, IsFiniteSet(Askers(f, row))
    PROVE  /\ IsFiniteSet(Askers(g, row))
           /\ AskedBy(g, row) = AskedBy(f, row) + Times(TaskOf(r), row)
<1> DEFINE n == f[r] + 1
           x == <<<<r, 1, row>>, n>>
           y == <<<<r, 2, row>>, n>>
           p == Hit(TaskOf(r), 1, row)
           q == Hit(TaskOf(r), 2, row)
<1>1. f[r] \in Nat /\ MaxCopies \in Nat
  BY RequestFacts DEF Pushing
<1>2. n \in 1..MaxCopies
  BY <1>1
<1>3. x # y /\ p \in BOOLEAN /\ q \in BOOLEAN
  BY DEF Hit
<1>4. x \notin Askers(f, row) /\ y \notin Askers(f, row)
  <2>1. ASSUME NEW j, <<<<r, j, row>>, n>> \in Askers(f, row) PROVE FALSE
    <3>1. PICK s \in Pushing, i \in {1, 2}, m \in 1..MaxCopies :
              <<<<r, j, row>>, n>> = <<<<s, i, row>>, m>> /\ m <= f[s]
      BY <2>1, AskerIs
    <3>2. s = r /\ m = n
      BY <3>1
    <3> QED
      BY <1>1, <3>1, <3>2
  <2> QED
    BY <2>1
<1>5. Askers(g, row) = Askers(f, row) \cup {z \in {x} : p} \cup {z \in {y} : q}
  <2>1. ASSUME NEW c, c \in Askers(g, row)
        PROVE  c \in Askers(f, row) \cup {z \in {x} : p} \cup {z \in {y} : q}
    <3>1. PICK s \in Pushing, j \in {1, 2}, m \in 1..MaxCopies :
              c = <<<<s, j, row>>, m>> /\ Hit(TaskOf(s), j, row) /\ m <= g[s]
      BY <2>1, AskerIs
    <3>2. CASE s = r /\ m = n
      BY <3>1, <3>2
    <3>3. CASE ~(s = r /\ m = n)
      <4>1. m <= f[s]
        <5>1. CASE s = r
          BY <1>1, <3>1, <3>3, <5>1
        <5>2. CASE s # r
          BY <3>1, <5>2
        <5> QED
          BY <5>1, <5>2
      <4> QED
        BY <3>1, <4>1, AskerIs
    <3> QED
      BY <3>2, <3>3
  <2>2. Askers(f, row) \subseteq Askers(g, row)
    <3>1. \A s \in Pushing : f[s] \in Nat /\ g[s] \in Nat /\ f[s] <= g[s]
      BY DEF Pushing
    <3> SUFFICES ASSUME NEW c, c \in Askers(f, row) PROVE c \in Askers(g, row)
      OBVIOUS
    <3>2. PICK s \in Pushing, j \in {1, 2}, m \in 1..MaxCopies :
              c = <<<<s, j, row>>, m>> /\ Hit(TaskOf(s), j, row) /\ m <= f[s]
      BY AskerIs
    <3>3. m <= g[s]
      BY <3>1, <3>2
    <3> QED
      BY <3>2, <3>3, AskerIs
  <2>3. ASSUME NEW j \in {1, 2}, Hit(TaskOf(r), j, row)
        PROVE  <<<<r, j, row>>, n>> \in Askers(g, row)
    BY <1>1, <1>2, <2>3, AskerIs
  <2>4. {z \in {x} : p} \subseteq Askers(g, row) /\ {z \in {y} : q} \subseteq Askers(g, row)
    BY <2>3
  <2> QED
    BY <2>1, <2>2, <2>4
<1> DEFINE S == Askers(f, row)
           T == Askers(g, row)
<1> HIDE DEF x, y, p, q, S, T
<1>6. IsFiniteSet(T) /\ Cardinality(T) = Cardinality(S) + One(p) + One(q)
  BY <1>3, <1>4, <1>5, AddTwo DEF S, T
<1>7. AskedBy(g, row) = AskedBy(f, row) + One(p) + One(q)
  BY <1>6, AskedIs DEF S, T
<1>8. AskedBy(f, row) \in Nat /\ One(p) \in Nat /\ One(q) \in Nat
  BY AskedIs, FS_CardinalityType DEF One
<1> QED
  BY <1>6, <1>7, <1>8 DEF T, Times, p, q

(* The copy that a handler works on and has not pushed. *)
Waits(r) == req[r.by] = r /\ step[r.by] = "push" /\ pc[r.by] # "pushed"

\* How many copies of each request were pushed.
Pushes == [r \in Request |-> handled[r] - One(Waits(r))]

AskInv ==
    /\ CopiesInv /\ RecordInv
    /\ \A row \in Rows : /\ IsFiniteSet(Askers(handled, row))
                         /\ WrittenBy(pushed, row) = AskedBy(Pushes, row)

LEMMA PushesBetween ==
    ASSUME CopiesInv
    PROVE  /\ handled \in [Request -> Nat] /\ answered \in [Request -> Nat]
           /\ Pushes \in [Request -> Nat]
           /\ \A r \in Request : answered[r] <= Pushes[r] /\ Pushes[r] <= handled[r]
<1>1. ASSUME NEW r \in Request
      PROVE  /\ handled[r] \in Nat /\ answered[r] \in Nat
             /\ handled[r] - One(Waits(r)) \in Nat
             /\ answered[r] <= handled[r] - One(Waits(r))
             /\ handled[r] - One(Waits(r)) <= handled[r]
  <2>1. handled[r] \in Nat /\ answered[r] \in Nat
    BY RequestFacts DEF CopiesInv
  <2>2. handled[r] = answered[r] + (IF req[r.by] = r THEN 1 ELSE 0)
    BY DEF CopiesInv
  <2>3. CASE req[r.by] = r
    <3>1. One(Waits(r)) \in {0, 1} /\ handled[r] = answered[r] + 1
      BY <2>2, <2>3 DEF One
    <3> QED
      BY <2>1, <3>1
  <2>4. CASE req[r.by] # r
    <3>1. One(Waits(r)) = 0 /\ handled[r] = answered[r] + 0
      BY <2>2, <2>4 DEF One, Waits
    <3> QED
      BY <2>1, <3>1
  <2> QED
    BY <2>3, <2>4
<1>2. handled \in [Request -> Nat]
  BY RequestFacts DEF CopiesInv
<1>3. answered \in [Request -> Nat]
  BY DEF CopiesInv
<1> QED
  BY <1>1, <1>2, <1>3 DEF Pushes

LEMMA InitAsk == AccountsInit => AskInv
<1> SUFFICES ASSUME AccountsInit PROVE AskInv
  OBVIOUS
<1>1. /\ handled = [r \in Request |-> 0] /\ pushed = <<>>
      /\ CopiesInv /\ RecordInv
  BY InitCopies, InitRecord DEF AccountsInit, Init
<1>2. ASSUME NEW row \in Rows PROVE Askers(handled, row) = {}
  <2> SUFFICES ASSUME NEW c, c \in Askers(handled, row) PROVE FALSE
    OBVIOUS
  <2>1. PICK r \in Pushing, n \in 1..MaxCopies : n <= handled[r]
    BY AskerIs
  <2>2. handled[r] = 0
    BY <1>1 DEF Pushing
  <2> QED
    BY <2>1, <2>2
<1>3. ASSUME NEW row \in Rows PROVE IsFiniteSet(Askers(handled, row)) /\ AskedBy(handled, row) = 0
  BY <1>2, AskedIs, FS_EmptySet
<1>4. \A r \in Request : handled[r] \in Nat /\ Pushes[r] = handled[r]
  <2>1. \A r \in Request : ~Waits(r)
    BY RequestFacts DEF Waits, AccountsInit
  <2> QED
    BY <1>1, <2>1 DEF Pushes, One
<1>5. ASSUME NEW row \in Rows PROVE AskedBy(Pushes, row) = 0
  BY <1>3, <1>4, AskedSame DEF Pushing
<1>6. \A row : WrittenBy(pushed, row) = 0
  <2>1. \A row : Hits(pushed, row) = {}
    BY <1>1 DEF Hits
  <2> QED
    BY <2>1, WrittenIs, FS_EmptySet
<1> QED
  BY <1>1, <1>3, <1>5, <1>6 DEF AskInv

(* The steps that push nothing and take up no request to push. *)
LEMMA AskFrame ==
    ASSUME AskInv, CopiesInv', RecordInv', pushed' = pushed,
           \A r \in Pushing : handled'[r] = handled[r] /\ (Waits(r)' <=> Waits(r))
    PROVE  AskInv'
<1>1. \A r \in Pushing : Pushes'[r] = Pushes[r]
  <2> TAKE r \in Pushing
  <2>1. r \in Request
    BY DEF Pushing
  <2>2. Pushes'[r] = handled'[r] - One(Waits(r)')
    BY <2>1 DEF Pushes, One
  <2> QED
    BY <2>1, <2>2 DEF Pushes, One
<1>2. ASSUME NEW row \in Rows
      PROVE  IsFiniteSet(Askers(handled', row)) /\ WrittenBy(pushed', row) = AskedBy(Pushes', row)
  <2>1. Askers(handled', row) = Askers(handled, row)
    BY AskedSame
  <2>2. AskedBy(Pushes', row) = AskedBy(Pushes, row)
    BY <1>1, AskedSame
  <2> QED
    BY <2>1, <2>2 DEF AskInv
<1> QED
  BY <1>2 DEF AskInv, Askers, AskedBy, WrittenBy

LEMMA ArriveAsk ==
    ASSUME AskInv, CopiesInv', RecordInv', NEW t \in Threads, NEW r \in Request, Arrive(t, r)
    PROVE  AskInv'
<1>1. /\ handled' = [handled EXCEPT ![r] = @ + 1] /\ handled[r] < MaxCopies
      /\ req' = [req EXCEPT ![t] = r] /\ step' = [step EXCEPT ![t] = FirstStep(r.kind)]
      /\ step[t] = "idle" /\ r.by = t /\ pc' = pc /\ pushed' = pushed
  BY DEF Arrive, vars
<1>2. req[t] = NoRequest /\ pc[t] = "idle"
  BY <1>1 DEF AskInv, CopiesInv, HandlerInv
<1>3. handled \in [Request -> Nat] /\ handled' \in [Request -> Nat]
  BY PushesBetween, RequestFacts DEF AskInv, CopiesInv
<1>4. \A q \in Request \ {r} : handled'[q] = handled[q] /\ (Waits(q)' <=> Waits(q))
  <2> TAKE q \in Request \ {r}
  <2>1. handled'[q] = handled[q]
    BY <1>1, <1>3
  <2>2. CASE q.by = t
    <3>1. req'[t] = r
      BY <1>1 DEF AskInv, CopiesInv, HandlerInv
    <3> QED
      BY <1>2, <2>1, <2>2, <3>1, RequestFacts DEF Waits
  <2>3. CASE q.by # t
    <3>1. req'[q.by] = req[q.by] /\ step'[q.by] = step[q.by]
      BY <1>1, <2>3, RequestFacts DEF AskInv, CopiesInv, HandlerInv
    <3> QED
      BY <1>1, <2>1, <3>1 DEF Waits
  <2> QED
    BY <2>2, <2>3
<1>5. CASE r \notin Pushing
  <2>1. \A q \in Pushing : q \in Request \ {r}
    BY <1>5 DEF Pushing
  <2> QED
    BY <1>1, <1>4, <2>1, AskFrame
<1>6. CASE r \in Pushing
  <2>1. handled'[r] = handled[r] + 1 /\ handled[r] \in Nat
    BY <1>1, <1>3
  <2>2. ~Waits(r) /\ Waits(r)'
    <3>1. FirstStep(r.kind) = "push"
      BY <1>6 DEF Pushing, FirstStep
    <3>2. req'[t] = r /\ step'[t] = "push"
      BY <1>1, <3>1 DEF AskInv, CopiesInv, HandlerInv
    <3> QED
      BY <1>1, <1>2, <3>2, RequestFacts DEF Waits
  <2>3. \A q \in Pushing : Pushes'[q] = Pushes[q]
    <3> TAKE q \in Pushing
    <3>1. q \in Request
      BY DEF Pushing
    <3>2. Pushes'[q] = handled'[q] - One(Waits(q)') /\ Pushes[q] = handled[q] - One(Waits(q))
      BY <3>1 DEF Pushes, One
    <3>3. CASE q = r
      BY <2>1, <2>2, <3>2, <3>3 DEF One
    <3>4. CASE q # r
      BY <1>4, <3>1, <3>2, <3>4 DEF One
    <3> QED
      BY <3>3, <3>4
  <2>4. ASSUME NEW row \in Rows
        PROVE  /\ IsFiniteSet(Askers(handled', row))
               /\ WrittenBy(pushed', row) = AskedBy(Pushes', row)
    <3>1. IsFiniteSet(Askers(handled', row))
      <4>1. \A q \in Pushing \ {r} : handled'[q] = handled[q]
        BY <1>4 DEF Pushing
      <4>2. IsFiniteSet(Askers(handled, row))
        BY DEF AskInv
      <4> QED
        BY <1>1, <1>3, <1>6, <2>1, <4>1, <4>2, AskedMore
    <3>2. AskedBy(Pushes', row) = AskedBy(Pushes, row)
      BY <2>3, AskedSame
    <3> QED
      BY <1>1, <3>1, <3>2 DEF AskInv
  <2> QED
    BY <2>4 DEF AskInv, Askers, AskedBy, WrittenBy
<1> QED
  BY <1>5, <1>6

LEMMA PushAsk ==
    ASSUME AskInv, CopiesInv', RecordInv', NEW t \in Threads, HandlerPush(t)
    PROVE  AskInv'
<1>1. /\ pc[t] = "locked" /\ pushed' = Append(pushed, TaskOf(req[t]))
      /\ pc' = [pc EXCEPT ![t] = "pushed"] /\ UNCHANGED <<handled, req, step>>
  BY DEF HandlerPush, PushTask, accountVars, handlers, history
<1>2. req[t] \in Pushing /\ step[t] = "push"
  BY <1>1 DEF AskInv, CopiesInv, HandlerInv
<1> PICK r \in Pushing : r = req[t]
  BY <1>2
<1>3. r \in Request /\ r.by = t
  BY <1>2 DEF Pushing, AskInv, CopiesInv
<1>4. req[t] = r /\ pc'[t] = "pushed"
  BY <1>1 DEF AskInv, CopiesInv, HandlerInv
<1>5. Waits(r) /\ ~Waits(r)'
  BY <1>1, <1>2, <1>3, <1>4 DEF Waits
<1>6. \A q \in Request \ {r} : Waits(q)' <=> Waits(q)
  <2> TAKE q \in Request \ {r}
  <2>1. CASE q.by = t
    BY <1>1, <1>4, <2>1 DEF Waits
  <2>2. CASE q.by # t
    <3>1. pc'[q.by] = pc[q.by]
      BY <1>1, <2>2, RequestFacts DEF AskInv, CopiesInv, HandlerInv
    <3> QED
      BY <1>1, <3>1 DEF Waits
  <2> QED
    BY <2>1, <2>2
<1>7. /\ Pushes \in [Request -> Nat] /\ Pushes' \in [Request -> Nat]
      /\ \A q \in Request : Pushes[q] <= handled[q]
      /\ handled \in [Request -> 0..MaxCopies] /\ MaxCopies \in Nat
  <2>1. Pushes \in [Request -> Nat] /\ \A q \in Request : Pushes[q] <= handled[q]
    BY PushesBetween DEF AskInv
  <2>2. \A q \in Request : handled[q] \in Nat
    BY PushesBetween DEF AskInv
  <2>3. \A q \in Request : handled'[q] - One(Waits(q)') \in Nat
    <3> TAKE q \in Request
    <3>1. CASE q = r
      BY <1>1, <1>5, <2>2, <3>1 DEF One
    <3>2. CASE q # r
      <4>1. handled'[q] - One(Waits(q)') = Pushes[q]
        BY <1>1, <1>6, <3>2 DEF One, Pushes
      <4> QED
        BY <2>1, <4>1
    <3> QED
      BY <3>1, <3>2
  <2>4. Pushes' = [q \in Request |-> handled'[q] - One(Waits(q)')]
    BY DEF Pushes, One
  <2>5. handled \in [Request -> 0..MaxCopies] /\ MaxCopies \in Nat
    BY RequestFacts DEF AskInv, CopiesInv
  <2> QED
    BY <2>1, <2>3, <2>4, <2>5
<1>8. Pushes'[r] = Pushes[r] + 1 /\ Pushes[r] < MaxCopies
  <2>1. Pushes[r] = handled[r] - 1 /\ Pushes'[r] = handled'[r] - 0
    BY <1>3, <1>5 DEF Pushes, One
  <2>2. handled[r] \in 0..MaxCopies
    BY <1>3, <1>7
  <2>3. handled'[r] = handled[r] /\ handled[r] \in Int /\ handled[r] <= MaxCopies /\ MaxCopies \in Int
    BY <1>1, <1>7, <2>2
  <2> QED
    BY <2>1, <2>3
<1>9. \A q \in Pushing \ {r} : Pushes'[q] = Pushes[q]
  <2> TAKE q \in Pushing \ {r}
  <2>1. q \in Request \ {r}
    BY DEF Pushing
  <2> QED
    BY <1>1, <1>6, <2>1 DEF Pushes, One
<1>10. TaskOf(r) \in Task /\ pushed \in Seq(Task)
  BY AccountsAssumption DEF AskInv, RecordInv, IInv, TypeOK
<1>11. ASSUME NEW row \in Rows
       PROVE  /\ IsFiniteSet(Askers(handled', row))
              /\ WrittenBy(pushed', row) = AskedBy(Pushes', row)
  <2>1. IsFiniteSet(Askers(handled, row)) /\ WrittenBy(pushed, row) = AskedBy(Pushes, row)
    BY DEF AskInv
  <2>2. IsFiniteSet(Askers(Pushes, row))
    <3>1. \A q \in Pushing : Pushes[q] <= handled[q]
      BY <1>7 DEF Pushing
    <3>2. handled \in [Request -> Nat]
      BY PushesBetween DEF AskInv
    <3> QED
      BY <1>7, <2>1, <3>1, <3>2, AskedLess
  <2>3. AskedBy(Pushes', row) = AskedBy(Pushes, row) + Times(TaskOf(r), row)
    BY <1>2, <1>7, <1>8, <1>9, <2>2, AskedMore
  <2>4. WrittenBy(pushed', row) = WrittenBy(pushed, row) + Times(TaskOf(r), row)
    BY <1>1, <1>4, <1>10, WrittenAppend
  <2> QED
    BY <1>1, <2>1, <2>3, <2>4
<1> QED
  BY <1>11 DEF AskInv, Askers, AskedBy, WrittenBy

LEMMA StepAsk ==
    ASSUME AskInv, [AccountsNext]_allVars
    PROVE  AskInv'
<1>0. CopiesInv' /\ RecordInv' /\ HandlerInv
  BY StepCopies, StepRecord DEF AskInv, CopiesInv
<1>1. ASSUME NEW t \in Threads, HandlerStep(t), ~HandlerPush(t) PROVE AskInv'
  <2>1. UNCHANGED <<pushed, handled>>
    BY <1>1 DEF HandlerStep, RegInsert, HandlerLock, PushLock, HandlerUnlock, PushUnlock,
        CreatorInsert, QueryFriends, QueryGroups, QueryMembers, Reply, accountVars, history, vars
  <2>2. \A s \in Threads \ {t} : req'[s] = req[s] /\ step'[s] = step[s] /\ pc'[s] = pc[s]
    BY <1>0, <1>1 DEF HandlerInv, HandlerStep, RegInsert, HandlerLock, PushLock, HandlerUnlock,
        PushUnlock, CreatorInsert, QueryFriends, QueryGroups, QueryMembers, Reply, accountVars,
        handlers, vars
  <2>3. \/ /\ step[t] = "push" /\ pc[t] # "pushed" /\ step' = step /\ req' = req /\ pc'[t] # "pushed"
        \/ ~(step[t] = "push" /\ pc[t] # "pushed") /\ step'[t] # "push"
    <3>1. CASE HandlerLock(t)
      BY <1>0, <3>1 DEF HandlerInv, HandlerLock, PushLock, accountVars, handlers
    <3>2. CASE HandlerUnlock(t)
      BY <1>0, <3>2 DEF HandlerInv, HandlerUnlock, PushUnlock
    <3>3. CASE Reply(t)
      BY <1>0, <3>3 DEF HandlerInv, Reply, RegReply, LoginReply, OtherReply
    <3> QED
      BY <1>0, <1>1, <3>1, <3>2, <3>3 DEF HandlerInv, HandlerStep, RegInsert, CreatorInsert,
          QueryFriends, QueryGroups, QueryMembers
  <2>4. \A r \in Pushing : Waits(r)' <=> Waits(r)
    <3> TAKE r \in Pushing
    <3>1. r.by \in Threads
      BY RequestFacts DEF Pushing
    <3>2. CASE r.by = t
      BY <2>3, <3>2 DEF Waits
    <3>3. CASE r.by # t
      BY <2>2, <3>1, <3>3 DEF Waits
    <3> QED
      BY <3>2, <3>3
  <2> QED
    BY <1>0, <2>1, <2>4, AskFrame
<1>2. CASE WorkerPop \/ WorkerArm \/ Wakeup \/ UNCHANGED allVars
  <2>1. UNCHANGED <<pushed, handled, req, step, pc>>
    BY <1>2 DEF WorkerPop, PopLock, PopWait, PopTask, WorkerArm, FriendFirst, FriendSecond,
        FriendUnreached, JoinGroup, CreateGroup, Execute, Wakeup, SpuriousWakeup, allVars,
        accountVars, handlers, history, vars
  <2>2. \A r \in Pushing : Waits(r)' <=> Waits(r)
    BY <2>1 DEF Waits
  <2> QED
    BY <1>0, <2>1, <2>2, AskFrame
<1> QED
  BY <1>0, <1>1, <1>2, ArriveAsk, PushAsk DEF AccountsNext

(* The rows of the tasks pushed are those executed, in hand and queued.    *)
LEMMA PushedSum ==
    ASSUME RecordInv, NEW row
    PROVE  /\ WrittenBy(executed, row) \in Nat /\ WrittenBy(inHand, row) \in Nat
           /\ WrittenBy(dbQueue, row) \in Nat
           /\ WrittenBy(inHand \o dbQueue, row)
                = WrittenBy(inHand, row) + WrittenBy(dbQueue, row)
           /\ WrittenBy(pushed, row)
                = WrittenBy(executed, row) + WrittenBy(inHand, row) + WrittenBy(dbQueue, row)
<1>1. executed \in Seq(Task) /\ inHand \in Seq(Task) /\ dbQueue \in Seq(Task)
  BY DEF RecordInv, IInv, TypeOK
<1>2. (executed \o inHand) \o dbQueue = pushed
  BY DEF RecordInv, IInv, InOrderOnce
<1> DEFINE both == executed \o inHand
<1>3. both \in Seq(Task)
  BY <1>1
<1>4. WrittenBy(both, row) = WrittenBy(executed, row) + WrittenBy(inHand, row)
  BY <1>1, WrittenConcat
<1> HIDE DEF both
<1>5. WrittenBy(both \o dbQueue, row) = WrittenBy(both, row) + WrittenBy(dbQueue, row)
  BY <1>1, <1>3, WrittenConcat
<1>6. WrittenBy(pushed, row) = WrittenBy(both, row) + WrittenBy(dbQueue, row)
  BY <1>2, <1>5 DEF both
<1>7. WrittenBy(inHand \o dbQueue, row) = WrittenBy(inHand, row) + WrittenBy(dbQueue, row)
  BY <1>1, WrittenConcat
<1> QED
  BY <1>1, <1>4, <1>6, <1>7, HitsFinite

(* No row is tried more often than copies of a request that asks for it    *)
(* were handled: the client may send again what was done, and rows of one  *)
(* friendship are written without a transaction, but nothing is executed   *)
(* twice.                                                                  *)
THEOREM EffectsCorrect == AccountsSpec => []EffectsBounded
<1>1. RowInv /\ AskInv => EffectsBounded
  <2> SUFFICES ASSUME RowInv, AskInv, NEW row \in Rows
               PROVE  Recorded(row) <= AskedBy(handled, row)
    BY DEF EffectsBounded, Recorded
  <2>1. One(between /\ Hit(inHand[1], 1, row)) \in Nat
        /\ One(between /\ Hit(inHand[1], 1, row)) <= WrittenBy(inHand, row)
    <3>1. WrittenBy(inHand, row) \in Nat
      BY PushedSum DEF RowInv
    <3>2. CASE between
      <4>1. inHand[1] \in Task /\ inHand = <<inHand[1]>>
        BY <3>2, ArmTask DEF RowInv, MutualInv
      <4> DEFINE k == inHand[1]
      <4>2. k \in Task /\ inHand = <<k>>
        BY <4>1
      <4> HIDE DEF k
      <4>3. <<>> \in Seq(Task) /\ <<>> \o <<k>> = <<k>>
        BY <4>2
      <4>4. Hits(<<>>, row) = {}
        BY DEF Hits
      <4>5. WrittenBy(<<>>, row) = 0
        BY <4>4, WrittenIs, FS_EmptySet
      <4>6. WrittenBy(inHand, row) = 0 + Times(k, row)
        BY <4>2, <4>3, <4>5, WrittenOne
      <4> QED
        BY <3>2, <4>6 DEF Times, One, k
    <3>3. CASE ~between
      BY <3>1, <3>3 DEF One
    <3> QED
      BY <3>2, <3>3
  <2>2. /\ Recorded(row) = WrittenBy(executed, row) + One(between /\ Hit(inHand[1], 1, row))
        /\ WrittenBy(pushed, row) = AskedBy(Pushes, row)
        /\ IsFiniteSet(Askers(handled, row))
    BY DEF RowInv, AskInv
  <2>3. AskedBy(Pushes, row) \in Nat /\ AskedBy(handled, row) \in Nat
        /\ AskedBy(Pushes, row) <= AskedBy(handled, row)
    BY <2>2, PushesBetween, AskedLess DEF AskInv, Pushing
  <2> QED
    BY <2>1, <2>2, <2>3, PushedSum DEF RowInv
<1> QED
  BY <1>1, InitRows, StepRows, InitAsk, StepAsk, PTL DEF AccountsSpec

(* What was answered is on record: the ACK goes out before anything is     *)
(* written, but only after the task was pushed, and a task pushed is       *)
(* queued, in hand or has tried all its rows.                              *)
THEOREM AnsweredCorrect == AccountsSpec => []AnsweredIsOnRecord
<1>1. RowInv /\ AskInv => AnsweredIsOnRecord
  <2> SUFFICES ASSUME RowInv, AskInv, NEW row \in Rows
               PROVE  AskedBy(answered, row) <= Recorded(row) + WrittenBy(inHand \o dbQueue, row)
    BY DEF AnsweredIsOnRecord, Recorded
  <2>1. /\ Recorded(row) = WrittenBy(executed, row) + One(between /\ Hit(inHand[1], 1, row))
        /\ WrittenBy(pushed, row) = AskedBy(Pushes, row)
        /\ IsFiniteSet(Askers(handled, row))
    BY DEF RowInv, AskInv
  <2>2. IsFiniteSet(Askers(Pushes, row))
    BY <2>1, PushesBetween, AskedLess DEF AskInv, Pushing
  <2>3. AskedBy(answered, row) \in Nat /\ AskedBy(Pushes, row) \in Nat
        /\ AskedBy(answered, row) <= AskedBy(Pushes, row)
    BY <2>2, PushesBetween, AskedLess DEF AskInv, Pushing
  <2>4. One(between /\ Hit(inHand[1], 1, row)) \in Nat
    BY DEF One
  <2> QED
    BY <2>1, <2>3, <2>4, PushedSum DEF RowInv
<1> QED
  BY <1>1, InitRows, StepRows, InitAsk, StepAsk, PTL DEF AccountsSpec
=============================================================================
