--------------------------- MODULE ListenerProofs ---------------------------
(***************************************************************************)
(* The invariants of the accept loop and its workers (module Listener),    *)
(* for any number of connections, slots, processes and requests: the       *)
(* variables keep their types, tab_clients and rset stay two views of one  *)
(* set of connections, and an answer reaches the client that asked.        *)
(*                                                                         *)
(* None of the three is inductive.  The strengthening says what each step  *)
(* takes for granted: the parent calls accept only when a connection is    *)
(* queued; a connection is in one place at a time (the backlog, the table, *)
(* a worker); and a request is in one place at a time (the socket, or one  *)
(* worker that has read it), from Send until the client has its answer.    *)
(***************************************************************************)
EXTENDS Listener, TLAPS

\* select has found the listening socket readable: accept will not block.
AcceptHasOne ==
  parent = "accept" /\ Free \in pset => backlog # <<>>

\* A worker that has a request holds the descriptor it has read it from.
JobIsRead ==
  \A k \in Client :
    /\ worker[k].at = "writing" => worker[k].fd # Free /\ worker[k].job = worker[k].fd
    /\ worker[k].at = "closing" => worker[k].fd # Free

\* What is in the backlog is there once, and nowhere else.
BacklogIsFresh ==
  parent # "dead" =>
    /\ \A i, j \in 1..Len(backlog) : backlog[i] = backlog[j] => i = j
    /\ \A i \in 1..Len(backlog) : /\ backlog[i] \notin rset
                                  /\ backlog[i] \notin Forked
                                  /\ client[backlog[i]] # "out"

\* A client that has not connected is unknown to the parent.
OutIsUnknown ==
  parent # "dead" =>
    \A k \in Client : client[k] = "out" => k \notin rset /\ k \notin Forked

\* Worker w has read a request of k that it has not answered.
Holds(w, k) == worker[w].at = "writing" /\ worker[w].fd = k

\* A request of k waits: in the socket, or with a worker.
Pending(k) == k \in unread \/ \E w \in Client : Holds(w, k)

\* A request is in one place at a time.
OnePlace ==
  \A k, v, w \in Client :
    /\ Holds(v, k) => k \notin unread
    /\ Holds(v, k) /\ Holds(w, k) => v = w

\* A request that waits has no answer yet, and its client does not send.
PendingIsOwed ==
  \A k \in Client :
    /\ Pending(k) => Len(answers[k]) < sent[k]
    /\ Pending(k) => client[k] \notin {"out", "ready"}

TypeInv == TypeOK /\ AcceptHasOne /\ JobIsRead

TableInv == TableMatchesSet /\ BacklogIsFresh /\ OutIsUnknown

AnswerInv == AnswersAreMine /\ OnePlace /\ PendingIsOwed

----------------------------------------------------------------------------
(* Types. *)

\* The types hold in the initial state.
LEMMA InitTypeInv == Init => TypeInv
BY ListenerAssumption DEF Init, TypeInv, TypeOK, AcceptHasOne, JobIsRead,
   NoWorker, Worker

\* init_connection keeps the types: the backlog only grows.
LEMMA ConnectType == ASSUME NEW k \in Client, TypeInv, Connect(k) PROVE TypeInv'
<1>1. backlog' \in Seq(Client) /\ backlog' # <<>>
  BY DEF TypeInv, TypeOK, Connect
<1>2. QED
  BY <1>1 DEF TypeInv, TypeOK, AcceptHasOne, JobIsRead, Connect

\* send_message keeps the types: the bound on requests is its guard.
LEMMA SendType == ASSUME NEW k \in Client, TypeInv, Send(k) PROVE TypeInv'
<1>1. sent' \in [Client -> 0..MaxSent]
  BY ListenerAssumption DEF TypeInv, TypeOK, Send
<1>2. QED
  BY <1>1 DEF TypeInv, TypeOK, AcceptHasOne, JobIsRead, Send, parentVars

\* A client that quits keeps the types.
LEMMA CloseType == ASSUME NEW k \in Client, TypeInv, Close(k) PROVE TypeInv'
BY DEF TypeInv, TypeOK, AcceptHasOne, JobIsRead, Close, parentVars

\* select reports the listening socket only when a connection is queued.
LEMMA SelectType == ASSUME TypeInv, Select PROVE TypeInv'
BY ListenerAssumption DEF TypeInv, TypeOK, AcceptHasOne, JobIsRead, Select,
   clientVars

\* accept takes the oldest connection of the backlog.
LEMMA AcceptType == ASSUME TypeInv, Accept PROVE TypeInv'
<1>1. CASE Free \in pset
  <2>1. Head(backlog) \in Client /\ Tail(backlog) \in Seq(Client)
    BY <1>1 DEF TypeInv, TypeOK, AcceptHasOne, Accept
  <2>2. newsockfd' \in Client /\ backlog' \in Seq(Client)
    BY <1>1, <2>1 DEF Accept
  <2>3. tab_clients' \in [Slot -> Client \cup {Free}] /\ rset' \subseteq Client
    BY <1>1, <2>2 DEF Accept, FreeSlots, TypeInv, TypeOK
  <2>4. parent' \in {"scan", "dead"}
    BY <1>1 DEF Accept
  <2>5. QED
    BY <2>2, <2>3, <2>4 DEF TypeInv, TypeOK, AcceptHasOne, JobIsRead, Accept,
       clientVars
<1>2. CASE Free \notin pset
  BY <1>2 DEF TypeInv, TypeOK, AcceptHasOne, JobIsRead, Accept, clientVars
<1>3. QED
  BY <1>1, <1>2

\* A forked worker starts with the parent's copy of newsockfd, or with a
\* descriptor that the parent has closed.
LEMMA InheritedType == TypeOK => Inherited \in Client \cup {Free}
BY DEF TypeOK, Inherited

\* The slot that Fork takes holds a connection.
LEMMA ToServeType ==
  ASSUME TypeOK, NEW i \in ToServe
  PROVE  i \in Slot /\ tab_clients[i] \in Client
BY DEF TypeOK, ToServe

\* fork keeps the types.
LEMMA ForkType == ASSUME TypeInv, Fork PROVE TypeInv'
<1>1. PICK i \in ToServe :
        \/ /\ worker' = [worker EXCEPT ![tab_clients[i]] =
                           [at |-> "reading", fd |-> Inherited, job |-> Free]]
           /\ Forget(i, tab_clients[i])
           /\ UNCHANGED parent
        \/ /\ parent' = "dead"
           /\ UNCHANGED <<worker, pset, tab_clients, rset>>
  BY DEF Fork
<1>2. i \in Slot /\ tab_clients[i] \in Client
  BY ToServeType DEF TypeInv
<1>3. parent = "scan" /\ UNCHANGED <<client, sent, answers, shut, unread, backlog, newsockfd>>
  BY DEF Fork, clientVars
<1>4. CASE UNCHANGED parent /\ Forget(i, tab_clients[i])
  <2>1. [at |-> "reading", fd |-> Inherited, job |-> Free] \in Worker
    BY InheritedType DEF TypeInv, Worker
  <2>2. CASE worker' = [worker EXCEPT ![tab_clients[i]] =
                          [at |-> "reading", fd |-> Inherited, job |-> Free]]
    <3>1. worker' \in [Client -> Worker]
      BY <2>1, <2>2 DEF TypeInv, TypeOK
    <3>2. JobIsRead'
      BY <1>2, <2>2, <3>1 DEF TypeInv, TypeOK, JobIsRead
    <3>3. QED
      BY <1>2, <1>3, <1>4, <3>1, <3>2 DEF TypeInv, TypeOK, AcceptHasOne, Forget
  <2>3. QED
    BY <1>1, <1>3, <1>4, <2>2 DEF TypeInv, TypeOK, AcceptHasOne, JobIsRead
<1>5. CASE parent' = "dead" /\ UNCHANGED <<worker, pset, tab_clients, rset>>
  BY <1>3, <1>5 DEF TypeInv, TypeOK, AcceptHasOne, JobIsRead
<1>6. QED
  BY <1>1, <1>4, <1>5

\* The end of a scan keeps the types.
LEMMA LoopType == ASSUME TypeInv, Loop PROVE TypeInv'
BY DEF TypeInv, TypeOK, AcceptHasOne, JobIsRead, Loop, clientVars

\* What a step does to the record of worker k: it takes the phase at, keeps the
\* descriptor, and has the request job.  The other workers are as they were.
Becomes(k, at, job) ==
  worker' = [worker EXCEPT ![k] = [at |-> at, fd |-> worker[k].fd, job |-> job]]

\* What the record of each worker is then.
LEMMA BecomesFields ==
  ASSUME TypeOK, NEW k \in Client, NEW at, NEW job, Becomes(k, at, job)
  PROVE  /\ worker'[k].at = at /\ worker'[k].fd = worker[k].fd
         /\ worker'[k].job = job
         /\ \A w \in Client : w # k => worker'[w] = worker[w]
BY DEF TypeOK, Becomes

\* Such a step keeps the types of the workers, if it is so for worker k.
LEMMA BecomesType ==
  ASSUME TypeInv, NEW k \in Client, NEW at, NEW job, Becomes(k, at, job),
         at \in {"none", "reading", "writing", "closing", "gone"},
         job \in Client \cup {Free},
         at = "writing" => worker[k].fd # Free /\ job = worker[k].fd,
         at = "closing" => worker[k].fd # Free
  PROVE  worker' \in [Client -> Worker] /\ JobIsRead'
<1>1. worker[k].fd \in Client \cup {Free}
  BY DEF TypeInv, TypeOK, Worker
<1>2. [at |-> at, fd |-> worker[k].fd, job |-> job] \in Worker
  BY <1>1 DEF Worker
<1>3. worker' \in [Client -> Worker]
  BY <1>2 DEF TypeInv, TypeOK, Becomes
<1>4. JobIsRead'
  BY BecomesFields DEF TypeInv, JobIsRead
<1>5. QED
  BY <1>3, <1>4

\* A worker that ends keeps its descriptor and its request.
LEMMA GoneBecomes ==
  ASSUME TypeOK, NEW k \in Client, worker' = [worker EXCEPT ![k].at = "gone"]
  PROVE  Becomes(k, "gone", worker[k].job) /\ worker[k].job \in Client \cup {Free}
<1>1. worker[k] \in Worker
  BY DEF TypeOK
<1>2. [worker[k] EXCEPT !.at = "gone"]
        = [at |-> "gone", fd |-> worker[k].fd, job |-> worker[k].job]
  BY <1>1 DEF Worker
<1>3. QED
  BY <1>1, <1>2 DEF Becomes, Worker

\* A record of a worker with a new phase and a new request.
LEMMA WorkerExcept ==
  ASSUME NEW r \in Worker, NEW at, NEW job
  PROVE  [r EXCEPT !.at = at, !.job = job] = [at |-> at, fd |-> r.fd, job |-> job]
<1>1. r = [at |-> r.at, fd |-> r.fd, job |-> r.job]
  BY DEF Worker
<1>2. [r EXCEPT !.at = at] = [at |-> at, fd |-> r.fd, job |-> r.job]
  BY <1>1
<1>3. [[r EXCEPT !.at = at] EXCEPT !.job = job]
        = [[at |-> at, fd |-> r.fd, job |-> r.job] EXCEPT !.job = job]
  BY <1>2
<1>4. [r EXCEPT !.at = at, !.job = job] = [[r EXCEPT !.at = at] EXCEPT !.job = job]
  OBVIOUS
<1>5. QED
  BY <1>3, <1>4

\* The three results of read, for the record of the worker.
LEMMA ReadBecomes ==
  ASSUME TypeInv, NEW k \in Client, Read(k)
  PROVE  LET fd == worker[k].fd IN
         \/ Becomes(k, "gone", worker[k].job) /\ UNCHANGED unread
         \/ /\ fd \in unread /\ unread' = unread \ {fd}
            /\ Becomes(k, "writing", fd)
         \/ /\ fd # Free /\ UNCHANGED unread
            /\ Becomes(k, "closing", worker[k].job)
<1>1. worker[k] \in Worker
  BY DEF TypeInv, TypeOK
<1>2. [worker[k] EXCEPT !.at = "writing", !.job = worker[k].fd]
        = [at |-> "writing", fd |-> worker[k].fd, job |-> worker[k].fd]
  BY <1>1, WorkerExcept
<1>3. [worker[k] EXCEPT !.at = "closing"]
        = [at |-> "closing", fd |-> worker[k].fd, job |-> worker[k].job]
  BY <1>1 DEF Worker
<1>4. worker' = [worker EXCEPT ![k].at = "gone"] => Becomes(k, "gone", worker[k].job)
  BY GoneBecomes DEF TypeInv
<1>5. worker' = [worker EXCEPT ![k].at = "writing", ![k].job = worker[k].fd]
        => Becomes(k, "writing", worker[k].fd)
  BY <1>1, <1>2 DEF Becomes, TypeInv, TypeOK
<1>6. worker' = [worker EXCEPT ![k].at = "closing"]
        => Becomes(k, "closing", worker[k].job)
  BY <1>3 DEF Becomes
<1>7. QED
  BY <1>4, <1>5, <1>6 DEF Read

\* read keeps the types, and notes which request the worker has.
LEMMA ReadType == ASSUME NEW k \in Client, TypeInv, Read(k) PROVE TypeInv'
<1>1. worker[k] \in Worker /\ worker[k].job \in Client \cup {Free}
  BY DEF TypeInv, TypeOK, Worker
<1>2. unread' \subseteq Client
  BY DEF TypeInv, TypeOK, Read
<1>3. worker[k].fd \in unread => worker[k].fd \in Client /\ worker[k].fd # Free
  BY ListenerAssumption DEF TypeInv, TypeOK
<1>4. worker' \in [Client -> Worker] /\ JobIsRead'
  BY <1>1, <1>3, ReadBecomes, BecomesType
<1>5. QED
  BY <1>2, <1>4 DEF TypeInv, TypeOK, AcceptHasOne, Read, clientVars, parentVars

\* A worker whose write fails ends: the types hold.
LEMMA WriteFailsType ==
  ASSUME NEW k \in Client, TypeInv, WriteFails(k) PROVE TypeInv'
<1>1. worker' \in [Client -> Worker] /\ JobIsRead'
  BY GoneBecomes, BecomesType DEF TypeInv, WriteFails
<1>2. QED
  BY <1>1 DEF TypeInv, TypeOK, AcceptHasOne, WriteFails, clientVars, parentVars

\* A worker that writes has read the request of a client.
LEMMA WriterHas ==
  ASSUME TypeInv, NEW k \in Client, worker[k].at = "writing"
  PROVE  worker[k].fd \in Client /\ worker[k].job = worker[k].fd
BY DEF TypeInv, TypeOK, JobIsRead, Worker

\* After its answer, a worker reads again, without a request.
LEMMA WriteBecomes ==
  ASSUME TypeInv, NEW k \in Client,
         worker' = [worker EXCEPT ![k].at = "reading", ![k].job = Free]
  PROVE  Becomes(k, "reading", Free)
<1>1. worker[k] \in Worker
  BY DEF TypeInv, TypeOK
<1>2. [worker[k] EXCEPT !.at = "reading", !.job = Free]
        = [at |-> "reading", fd |-> worker[k].fd, job |-> Free]
  BY <1>1, WorkerExcept
<1>3. QED
  BY <1>1, <1>2 DEF Becomes, TypeInv, TypeOK

\* write keeps the types: what it answers is the request of a client.
LEMMA WriteType == ASSUME NEW k \in Client, TypeInv, Write(k) PROVE TypeInv'
<1>1. CASE WriteFails(k)
  BY <1>1, WriteFailsType
<1>2. CASE ~WriteFails(k)
  <2>1. worker[k].fd \in Client /\ worker[k].job \in Client
    BY WriterHas DEF Write
  <2>2. answers' = [answers EXCEPT ![worker[k].fd] = Append(@, worker[k].job)]
    BY <1>2 DEF Write, Peer
  <2>3. Append(answers[worker[k].fd], worker[k].job) \in Seq(Client)
    BY <2>1 DEF TypeInv, TypeOK
  <2>4. answers' \in [Client -> Seq(Client)]
    BY <2>1, <2>2, <2>3 DEF TypeInv, TypeOK
  <2>5. client' \in [Client -> {"out", "ready", "waiting", "closed"}]
    BY <1>2, <2>1 DEF Write, Peer, TypeInv, TypeOK
  <2>6. worker' \in [Client -> Worker] /\ JobIsRead'
    BY <1>2, WriteBecomes, BecomesType DEF Write
  <2>7. QED
    BY <1>2, <2>4, <2>5, <2>6 DEF Write, TypeInv, TypeOK, AcceptHasOne, parentVars
<1>3. QED
  BY <1>1, <1>2

\* shutdown keeps the types.
LEMMA FinishType == ASSUME NEW k \in Client, TypeInv, Finish(k) PROVE TypeInv'
<1>1. CASE WriteFails(k)
  BY <1>1, WriteFailsType
<1>2. CASE ~WriteFails(k)
  <2>1. worker' \in [Client -> Worker] /\ JobIsRead'
    BY <1>2, GoneBecomes, BecomesType DEF Finish, TypeInv
  <2>2. QED
    BY <1>2, <2>1 DEF Finish, TypeInv, TypeOK, AcceptHasOne, parentVars
<1>3. QED
  BY <1>1, <1>2

\* Every step of the parent, of a client or of a worker keeps the types.
LEMMA NextTypeInv == ASSUME TypeInv, [Next]_vars PROVE TypeInv'
<1>1. ASSUME Parent PROVE TypeInv'
  BY <1>1, SelectType, AcceptType, ForkType, LoopType DEF Parent
<1>2. ASSUME NEW k \in Client, Connect(k) \/ Send(k) \/ Close(k) PROVE TypeInv'
  BY <1>2, ConnectType, SendType, CloseType
<1>3. ASSUME NEW k \in Client, Work(k) PROVE TypeInv'
  BY <1>3, ReadType, WriteType, FinishType DEF Work
<1>4. ASSUME UNCHANGED vars PROVE TypeInv'
  BY <1>4 DEF TypeInv, TypeOK, AcceptHasOne, JobIsRead, vars
<1>5. QED
  BY <1>1, <1>2, <1>3, <1>4 DEF Next

\* The variables of the listener keep their types, for any numbers of
\* connections, slots, processes and requests; in particular accept is called
\* only when a connection is queued (server.c:60-74), and a worker answers a
\* request that it has read.
THEOREM ListenerTypes == Spec => []TypeInv
<1>1. Init => TypeInv
  BY InitTypeInv
<1>2. TypeInv /\ [Next]_vars => TypeInv'
  BY NextTypeInv
<1>3. QED
  BY <1>1, <1>2, PTL DEF Spec

\* The type invariant that the run accepting checks.
THEOREM ListenerTypeCorrect == Spec => []TypeOK
<1>1. TypeInv => TypeOK
  BY DEF TypeInv
<1>2. QED
  BY ListenerTypes, <1>1, PTL

----------------------------------------------------------------------------
(* The table and the set of the parent. *)

\* Before the first connection the table, the set and the backlog are empty.
LEMMA InitTableInv == Init => TableInv
BY DEF Init, TableInv, TableMatchesSet, BacklogIsFresh, OutIsUnknown, Forked,
   NoWorker

\* A step that leaves the parent's tables and the phase "none" of the workers
\* alone, and connects nobody, keeps the invariant.
LEMMA TableUndisturbed ==
  ASSUME TypeOK, TableInv, UNCHANGED <<backlog, tab_clients, rset, parent>>,
         Forked' = Forked,
         \A k \in Client : client'[k] = "out" <=> client[k] = "out"
  PROVE  TableInv'
<1>1. \A i \in 1..Len(backlog) : backlog[i] \in Client
  BY DEF TypeOK
<1>2. QED
  BY <1>1 DEF TableInv, TableMatchesSet, BacklogIsFresh, OutIsUnknown

\* The steps of a worker are such steps: it was forked, and stays so.
LEMMA WorkForked ==
  ASSUME TypeInv, NEW k \in Client, NEW at, NEW job, Becomes(k, at, job),
         worker[k].at # "none", at # "none"
  PROVE  Forked' = Forked
BY BecomesFields DEF TypeInv, Forked

\* No step of a worker disturbs the table.
LEMMA WorkTable ==
  ASSUME TypeInv, TableInv, NEW k \in Client, Work(k) PROVE TableInv'
<1>1. TypeOK
  BY DEF TypeInv
<1>2. ASSUME WriteFails(k), worker[k].at # "none" PROVE TableInv'
  BY <1>1, <1>2, GoneBecomes, WorkForked, TableUndisturbed
  DEF WriteFails, clientVars, parentVars
<1>3. CASE Read(k)
  <2>1. Forked' = Forked
    BY <1>3, ReadBecomes, WorkForked DEF Read
  <2>2. QED
    BY <1>1, <1>3, <2>1, TableUndisturbed DEF Read, clientVars, parentVars
<1>4. CASE Write(k) /\ ~WriteFails(k)
  <2>1. Forked' = Forked
    BY <1>4, WriteBecomes, WorkForked DEF Write
  <2>2. worker[k].fd \in Client
    BY <1>4, WriterHas DEF Write
  <2>3. \A j \in Client : client'[j] = "out" <=> client[j] = "out"
    BY <1>4, <2>2 DEF Write, Peer, TypeInv, TypeOK
  <2>4. UNCHANGED <<backlog, tab_clients, rset, parent>>
    BY <1>4 DEF Write, parentVars
  <2>5. QED
    BY <1>1, <2>1, <2>3, <2>4, TableUndisturbed
<1>5. CASE Finish(k) /\ ~WriteFails(k)
  <2>1. Forked' = Forked
    BY <1>1, <1>5, GoneBecomes, WorkForked DEF Finish
  <2>2. QED
    BY <1>1, <1>5, <2>1, TableUndisturbed DEF Finish, parentVars
<1>6. QED
  BY <1>2, <1>3, <1>4, <1>5 DEF Work, Write, Finish

\* A new connection is queued behind the others; nobody knew it.
LEMMA ConnectTable ==
  ASSUME TypeInv, TableInv, NEW k \in Client, Connect(k) PROVE TableInv'
<1>1. /\ client[k] = "out" /\ client' = [client EXCEPT ![k] = "ready"]
      /\ backlog' = Append(backlog, k)
      /\ UNCHANGED <<tab_clients, rset, parent, worker>>
  BY DEF Connect
<1>2. Forked' = Forked
  BY <1>1 DEF Forked
<1>3. TableMatchesSet'
  BY <1>1, <1>2 DEF TableInv, TableMatchesSet
<1>4. ASSUME parent # "dead" PROVE BacklogIsFresh'
  <2>1. k \notin rset /\ k \notin Forked
    BY <1>1, <1>4 DEF TableInv, OutIsUnknown
  <2>2. \A i \in 1..Len(backlog) : backlog[i] \in Client /\ backlog[i] # k
    BY <1>1, <1>4 DEF TableInv, BacklogIsFresh, TypeInv, TypeOK
  <2>3. /\ Len(backlog') = Len(backlog) + 1
        /\ backlog'[Len(backlog) + 1] = k
        /\ \A i \in 1..Len(backlog) : backlog'[i] = backlog[i]
    BY <1>1 DEF TypeInv, TypeOK
  <2>4. Len(backlog) \in Nat
    BY DEF TypeInv, TypeOK
  <2>5. \A i \in 1..Len(backlog') : i = Len(backlog) + 1 \/ i \in 1..Len(backlog)
    BY <2>3, <2>4
  <2>6. \A i \in 1..Len(backlog') : /\ backlog'[i] \notin rset
                                    /\ backlog'[i] \notin Forked
                                    /\ client'[backlog'[i]] # "out"
    BY <1>1, <1>4, <2>1, <2>2, <2>3, <2>5 DEF TableInv, BacklogIsFresh, TypeInv, TypeOK
  <2>7. \A i, j \in 1..Len(backlog') : backlog'[i] = backlog'[j] => i = j
    BY <1>4, <2>2, <2>3, <2>5 DEF TableInv, BacklogIsFresh
  <2>8. QED
    BY <1>1, <1>2, <2>6, <2>7 DEF BacklogIsFresh
<1>5. OutIsUnknown'
  BY <1>1, <1>2 DEF TableInv, OutIsUnknown, TypeInv, TypeOK
<1>6. QED
  BY <1>1, <1>3, <1>4, <1>5 DEF TableInv, BacklogIsFresh

\* Sending and quitting do not disturb the table.
LEMMA SendCloseTable ==
  ASSUME TypeInv, TableInv, NEW k \in Client, Send(k) \/ Close(k)
  PROVE  TableInv'
<1>1. UNCHANGED <<backlog, tab_clients, rset, parent, worker>>
  BY DEF Send, Close, parentVars
<1>2. \A j \in Client : client'[j] = "out" <=> client[j] = "out"
  BY DEF Send, Close, TypeInv, TypeOK
<1>3. Forked' = Forked
  BY <1>1 DEF Forked
<1>4. QED
  BY <1>1, <1>2, <1>3, TableUndisturbed DEF TypeInv

\* The oldest connection of the backlog leaves it for the first free slot: it
\* was not in the table, so the slots stay different.
LEMMA AcceptTable == ASSUME TypeInv, TableInv, Accept PROVE TableInv'
<1>1. UNCHANGED <<client, worker>> /\ Forked' = Forked /\ parent # "dead"
  BY DEF Accept, clientVars, Forked
<1>2. CASE Free \notin pset
  BY <1>1, <1>2, TableUndisturbed DEF Accept, TypeInv, TableInv, TableMatchesSet,
     BacklogIsFresh, OutIsUnknown
<1>3. CASE Free \in pset /\ parent' = "dead"
  BY <1>3 DEF TableInv, TableMatchesSet, BacklogIsFresh, OutIsUnknown
<1>4. CASE Free \in pset /\ parent' # "dead"
  <2> DEFINE h == Head(backlog)
  <2>1. backlog # <<>> /\ backlog \in Seq(Client)
    BY <1>4 DEF TypeInv, TypeOK, AcceptHasOne, Accept
  <2>2. /\ h = backlog[1] /\ h \in Client
        /\ Len(Tail(backlog)) = Len(backlog) - 1
        /\ \A i \in 1..Len(Tail(backlog)) : /\ Tail(backlog)[i] = backlog[i + 1]
                                            /\ i + 1 \in 1..Len(backlog)
        /\ 1 \in 1..Len(backlog)
    BY <2>1
  <2>3. h \notin rset /\ h \notin Forked /\ client[h] # "out"
    BY <1>1, <2>2 DEF TableInv, BacklogIsFresh
  <2>4. PICK i \in FreeSlots : /\ tab_clients' = [tab_clients EXCEPT ![i] = h]
                               /\ rset' = rset \cup {h}
    BY <1>4 DEF Accept
  <2>5. backlog' = Tail(backlog)
    BY <1>4 DEF Accept
  <2> HIDE DEF h
  <2>6. h # Free
    BY <2>2, ListenerAssumption
  <2>7. i \in Slot /\ tab_clients[i] = Free
    BY DEF FreeSlots
  <2>8. /\ tab_clients'[i] = h
        /\ \A j \in Slot : j # i => tab_clients'[j] = tab_clients[j]
    BY <2>4, <2>7 DEF TypeInv, TypeOK
  <2>9. \A j \in Slot : tab_clients[j] # h
    BY <1>1, <2>3, <2>6 DEF TableInv, TableMatchesSet
  <2>10. rset' = {tab_clients'[j] : j \in Slot} \ {Free}
    <3>1. rset = {tab_clients[j] : j \in Slot} \ {Free}
      BY <1>1 DEF TableInv, TableMatchesSet
    <3>2. QED
      BY <2>4, <2>6, <2>7, <2>8, <3>1
  <2>11. TableMatchesSet'
    BY <1>1, <2>3, <2>4, <2>7, <2>8, <2>9, <2>10 DEF TableInv, TableMatchesSet
  <2>12. \A j \in 1..Len(backlog') : backlog'[j] = backlog[j + 1] /\ j + 1 \in 1..Len(backlog)
    BY <2>2, <2>5
  <2>13. \A j \in 1..Len(backlog') : backlog'[j] # h
    BY <1>1, <2>2, <2>12 DEF TableInv, BacklogIsFresh
  <2>14. \A m, n \in 1..Len(backlog') : backlog'[m] = backlog'[n] => m = n
    BY <1>1, <2>12 DEF TableInv, BacklogIsFresh
  <2>15. BacklogIsFresh'
    BY <1>1, <2>4, <2>12, <2>13, <2>14 DEF TableInv, BacklogIsFresh
  <2>16. OutIsUnknown'
    BY <1>1, <2>3, <2>4 DEF TableInv, OutIsUnknown
  <2>17. QED
    BY <2>11, <2>15, <2>16 DEF TableInv
<1>5. QED
  BY <1>2, <1>3, <1>4

\* A connection leaves the table and the set when its worker is forked.
LEMMA ForkTable == ASSUME TypeInv, TableInv, Fork PROVE TableInv'
<1>1. UNCHANGED <<client, backlog>> /\ parent = "scan"
  BY DEF Fork, clientVars
<1>2. PICK i \in ToServe :
        \/ /\ worker' = [worker EXCEPT ![tab_clients[i]] =
                           [at |-> "reading", fd |-> Inherited, job |-> Free]]
           /\ Forget(i, tab_clients[i])
           /\ UNCHANGED parent
        \/ parent' = "dead"
  BY DEF Fork
<1>3. CASE parent' = "dead"
  BY <1>3 DEF TableInv, TableMatchesSet, BacklogIsFresh, OutIsUnknown
<1>4. CASE parent' # "dead"
  <2> DEFINE k == tab_clients[i]
  <2>1. i \in Slot /\ k \in Client /\ k # Free
    BY ToServeType, ListenerAssumption DEF TypeInv
  <2>2. /\ worker' = [worker EXCEPT ![k] =
                        [at |-> "reading", fd |-> Inherited, job |-> Free]]
        /\ tab_clients' = [tab_clients EXCEPT ![i] = Free]
        /\ rset' = rset \ {k}
    BY <1>2, <1>4 DEF Forget
  <2>3. k \in rset
    BY <1>1, <2>1 DEF TableInv, TableMatchesSet
  <2>4. \A j \in Slot : j # i => tab_clients[j] # k
    BY <1>1, <2>1 DEF TableInv, TableMatchesSet
  <2>5. /\ tab_clients'[i] = Free
        /\ \A j \in Slot : j # i => tab_clients'[j] = tab_clients[j]
    BY <2>1, <2>2 DEF TypeInv, TypeOK
  <2>6. Forked' = Forked \cup {k}
    BY <2>1, <2>2 DEF TypeInv, TypeOK, Forked
  <2>7. tab_clients[i] = k
    OBVIOUS
  <2> HIDE DEF k
  <2>8. rset' = {tab_clients'[j] : j \in Slot} \ {Free}
    <3>1. rset = {tab_clients[j] : j \in Slot} \ {Free}
      BY <1>1 DEF TableInv, TableMatchesSet
    <3>2. QED
      BY <2>1, <2>2, <2>4, <2>5, <2>7, <3>1
  <2>9. TableMatchesSet'
    BY <1>1, <2>2, <2>5, <2>6, <2>8 DEF TableInv, TableMatchesSet
  <2>10. BacklogIsFresh'
    BY <1>1, <2>2, <2>3, <2>6 DEF TableInv, BacklogIsFresh
  <2>11. OutIsUnknown'
    BY <1>1, <2>2, <2>3, <2>6 DEF TableInv, OutIsUnknown
  <2>12. QED
    BY <2>9, <2>10, <2>11 DEF TableInv
<1>5. QED
  BY <1>3, <1>4

\* Looking at the sockets, and at the end of the table, changes neither.
LEMMA SelectLoopTable ==
  ASSUME TypeInv, TableInv, Select \/ Loop PROVE TableInv'
<1>1. /\ UNCHANGED <<client, backlog, tab_clients, rset, worker>>
      /\ parent # "dead"
  BY DEF Select, Loop, clientVars
<1>2. Forked' = Forked
  BY <1>1 DEF Forked
<1>3. QED
  BY <1>1, <1>2 DEF TableInv, TableMatchesSet, BacklogIsFresh, OutIsUnknown

\* Every step keeps the table and the set together.
LEMMA NextTableInv == ASSUME TypeInv, TableInv, [Next]_vars PROVE TableInv'
<1>1. ASSUME Parent PROVE TableInv'
  BY <1>1, SelectLoopTable, AcceptTable, ForkTable DEF Parent
<1>2. ASSUME NEW k \in Client, Connect(k) \/ Send(k) \/ Close(k) PROVE TableInv'
  BY <1>2, ConnectTable, SendCloseTable
<1>3. ASSUME NEW k \in Client, Work(k) PROVE TableInv'
  BY <1>3, WorkTable
<1>4. ASSUME UNCHANGED vars PROVE TableInv'
  BY <1>4 DEF TableInv, TableMatchesSet, BacklogIsFresh, OutIsUnknown, Forked, vars
<1>5. QED
  BY <1>1, <1>2, <1>3, <1>4 DEF Next

\* While the server lives, tab_clients and rset hold the same connections,
\* each in one slot, and none of them has a worker yet (server.c:85-149).
THEOREM TableCorrect == Spec => []TableMatchesSet
<1>1. Init => TableInv
  BY InitTableInv
<1>2. TypeInv /\ TableInv /\ [Next]_vars => TableInv'
  BY NextTableInv
<1>3. TableInv => TableMatchesSet
  BY DEF TableInv
<1>4. QED
  BY <1>1, <1>2, <1>3, ListenerTypes, PTL DEF Spec

----------------------------------------------------------------------------
(* The answers. *)

\* Before the first request there is nothing to answer.
LEMMA InitAnswerInv == Init => AnswerInv
BY DEF Init, AnswerInv, AnswersAreMine, OnePlace, PendingIsOwed, Pending, Holds,
   NoWorker

\* A step after which no socket and no worker holds a request that it did not
\* hold before, and which lets no client send, keeps the invariant.
LEMMA NothingHeld ==
  ASSUME TypeOK, AnswerInv, UNCHANGED <<answers, sent>>,
         unread' \subseteq unread,
         \A w, k \in Client : Holds(w, k)' => Holds(w, k),
         \A k \in Client : client'[k] \in {"out", "ready"} =>
                             client[k] \in {"out", "ready"}
  PROVE  AnswerInv'
BY DEF AnswerInv, AnswersAreMine, OnePlace, PendingIsOwed, Pending

\* A worker that ends, or that has seen the end of the connection, holds no
\* request.
LEMMA EndHolds ==
  ASSUME TypeOK, NEW k \in Client, NEW at, NEW job, Becomes(k, at, job),
         at # "writing"
  PROVE  \A w, c \in Client : Holds(w, c)' => w # k /\ Holds(w, c)
BY BecomesFields DEF Holds

\* The parent gives no worker a request: it only forks.
LEMMA ParentAnswers == ASSUME TypeInv, AnswerInv, Parent PROVE AnswerInv'
<1>1. UNCHANGED <<client, sent, answers, unread>>
  BY DEF Parent, Select, Accept, Fork, Loop, clientVars
<1>2. \A w, k \in Client : Holds(w, k)' => Holds(w, k)
  <2>1. CASE Select \/ Accept \/ Loop
    BY <2>1 DEF Select, Accept, Loop, Holds
  <2>2. CASE Fork
    <3>1. PICK i \in ToServe :
            \/ worker' = [worker EXCEPT ![tab_clients[i]] =
                            [at |-> "reading", fd |-> Inherited, job |-> Free]]
            \/ UNCHANGED worker
      BY <2>2 DEF Fork
    <3>2. \A w \in Client : worker'[w].at = "writing" => worker'[w] = worker[w]
      BY <3>1, ToServeType DEF TypeInv, TypeOK
    <3>3. QED
      BY <3>2 DEF Holds
  <2>3. QED
    BY <2>1, <2>2 DEF Parent
<1>3. QED
  BY <1>1, <1>2, NothingHeld DEF TypeInv

\* Connecting and quitting neither send nor answer.
LEMMA ConnectCloseAnswers ==
  ASSUME TypeInv, AnswerInv, NEW k \in Client, Connect(k) \/ Close(k)
  PROVE  AnswerInv'
<1>1. UNCHANGED <<sent, answers, unread, worker>>
  BY DEF Connect, Close
<1>2. \A w, c \in Client : Holds(w, c)' => Holds(w, c)
  BY <1>1 DEF Holds
<1>3. \A c \in Client : client'[c] \in {"out", "ready"} =>
                          client[c] \in {"out", "ready"}
  BY DEF Connect, Close, TypeInv, TypeOK
<1>4. QED
  BY <1>1, <1>2, <1>3, NothingHeld DEF TypeInv

\* A client that is ready has all its answers: what it sends is its only
\* request that waits.
LEMMA SendAnswers ==
  ASSUME TypeInv, AnswerInv, NEW k \in Client, Send(k) PROVE AnswerInv'
<1>1. /\ client[k] = "ready" /\ client'[k] = "waiting" /\ sent'[k] = sent[k] + 1
      /\ unread' = unread \cup {k}
      /\ \A c \in Client : c # k => client'[c] = client[c] /\ sent'[c] = sent[c]
      /\ UNCHANGED <<answers, worker>>
  BY DEF Send, TypeInv, TypeOK
<1>2. ~Pending(k)
  BY <1>1 DEF AnswerInv, PendingIsOwed
<1>3. \A w, c \in Client : Holds(w, c)' <=> Holds(w, c)
  BY <1>1 DEF Holds
<1>4. \A c \in Client : c # k => (Pending(c)' <=> Pending(c))
  BY <1>1, <1>3 DEF Pending
<1>5. sent[k] \in Nat /\ Len(answers[k]) \in Nat /\ Len(answers[k]) <= sent[k]
  BY ListenerAssumption DEF TypeInv, TypeOK, AnswerInv, AnswersAreMine
<1>6. Len(answers[k]) < sent'[k]
  BY <1>1, <1>5
<1>7. AnswersAreMine'
  BY <1>1, <1>5, <1>6 DEF AnswerInv, AnswersAreMine
<1>8. OnePlace'
  BY <1>1, <1>2, <1>3 DEF AnswerInv, OnePlace, Pending
<1>9. PendingIsOwed'
  BY <1>1, <1>4, <1>6 DEF AnswerInv, PendingIsOwed
<1>10. QED
  BY <1>7, <1>8, <1>9 DEF AnswerInv

\* The request that a worker reads leaves the socket: nobody else reads it.
LEMMA ReadAnswers ==
  ASSUME TypeInv, AnswerInv, NEW k \in Client, Read(k) PROVE AnswerInv'
<1>1. UNCHANGED <<client, sent, answers>>
  BY DEF Read, clientVars
<1>2. TypeOK
  BY DEF TypeInv
<1>3. CASE UNCHANGED unread /\ \E at \in {"gone", "closing"}, job \in {worker[k].job} :
             Becomes(k, at, job)
  BY <1>1, <1>2, <1>3, EndHolds, NothingHeld
<1>4. CASE /\ worker[k].fd \in unread /\ unread' = unread \ {worker[k].fd}
           /\ Becomes(k, "writing", worker[k].fd)
  <2> DEFINE f == worker[k].fd
  <2>1. f \in Client /\ f \in unread /\ unread' = unread \ {f}
    BY <1>2, <1>4 DEF TypeOK
  <2>2. /\ worker'[k].at = "writing" /\ worker'[k].fd = f
        /\ \A w \in Client : w # k => worker'[w] = worker[w]
    BY <1>2, <1>4, BecomesFields
  <2> HIDE DEF f
  <2>3. worker[k].at = "reading"
    BY DEF Read
  <2>4. \A w, c \in Client : Holds(w, c)' <=> Holds(w, c) \/ (w = k /\ c = f)
    BY <2>2, <2>3 DEF Holds
  <2>5. \A w \in Client : ~Holds(w, f)
    BY <2>1 DEF AnswerInv, OnePlace
  <2>6. OnePlace'
    BY <2>1, <2>4, <2>5 DEF AnswerInv, OnePlace
  <2>7. \A c \in Client : Pending(c)' => Pending(c)
    BY <2>1, <2>4 DEF Pending
  <2>8. PendingIsOwed'
    BY <1>1, <2>7 DEF AnswerInv, PendingIsOwed
  <2>9. QED
    BY <1>1, <2>6, <2>8 DEF AnswerInv, AnswersAreMine
<1>5. QED
  BY <1>3, <1>4, ReadBecomes

\* A request whose answer cannot be written is lost with its worker.
LEMMA WriteFailsAnswers ==
  ASSUME TypeInv, AnswerInv, NEW k \in Client, WriteFails(k) PROVE AnswerInv'
<1>1. Becomes(k, "gone", worker[k].job)
  BY GoneBecomes DEF WriteFails, TypeInv
<1>2. \A w, c \in Client : Holds(w, c)' => Holds(w, c)
  BY <1>1, EndHolds DEF TypeInv
<1>3. QED
  BY <1>2, NothingHeld DEF WriteFails, clientVars, TypeInv

\* The answer is written to the descriptor that the request was read from, and
\* the request is held no more.
LEMMA WriteAnswers ==
  ASSUME TypeInv, AnswerInv, NEW k \in Client, Write(k) PROVE AnswerInv'
<1>1. CASE WriteFails(k)
  BY <1>1, WriteFailsAnswers
<1>2. CASE ~WriteFails(k)
  <2>0. PICK f \in Client : f = worker[k].fd
    BY WriterHas DEF Write
  <2>1. worker[k].job = f /\ Holds(k, f)
    BY <2>0, WriterHas DEF Write, Holds
  <2>2. /\ answers' = [answers EXCEPT ![f] = Append(@, f)]
        /\ client' = [client EXCEPT ![f] = IF @ = "waiting" THEN "ready" ELSE @]
        /\ UNCHANGED <<sent, unread>>
    BY <1>2, <2>0, <2>1 DEF Write, Peer
  <2>3. Becomes(k, "reading", Free)
    BY <1>2, WriteBecomes DEF Write
  <2>4. \A w, c \in Client : Holds(w, c)' => w # k /\ Holds(w, c)
    BY <2>3, EndHolds DEF TypeInv
  <2>5. f \notin unread /\ \A w \in Client : w # k => ~Holds(w, f)
    BY <2>1 DEF AnswerInv, OnePlace
  <2>6. ~Pending(f)'
    BY <2>2, <2>4, <2>5 DEF Pending
  <2>7. \A c \in Client : Pending(c)' => Pending(c) /\ c # f
    BY <2>2, <2>4, <2>6 DEF Pending
  <2>8. \A c \in Client : c # f => answers'[c] = answers[c] /\ client'[c] = client[c]
    BY <2>1, <2>2 DEF TypeInv, TypeOK
  <2>9. PendingIsOwed'
    BY <2>2, <2>7, <2>8 DEF AnswerInv, PendingIsOwed
  <2>10. OnePlace'
    BY <2>2, <2>4 DEF AnswerInv, OnePlace
  <2>11. /\ answers'[f] = Append(answers[f], f) /\ answers[f] \in Seq(Client)
         /\ \A i \in 1..Len(answers[f]) : answers[f][i] = f
    BY <2>1, <2>2 DEF TypeInv, TypeOK, AnswerInv, AnswersAreMine
  <2>12. /\ Len(answers'[f]) = Len(answers[f]) + 1
         /\ \A i \in 1..Len(answers'[f]) : answers'[f][i] = f
    BY <2>11
  <2>13. Len(answers[f]) < sent[f]
    BY <2>1 DEF AnswerInv, PendingIsOwed, Pending
  <2>14. Len(answers'[f]) <= sent'[f]
    <3>1. sent[f] \in Nat /\ Len(answers[f]) \in Nat
      BY <2>1, <2>11, ListenerAssumption DEF TypeInv, TypeOK
    <3>2. QED
      BY <2>2, <2>12, <2>13, <3>1
  <2>15. AnswersAreMine'
    BY <2>2, <2>8, <2>12, <2>14 DEF AnswerInv, AnswersAreMine
  <2>16. QED
    BY <2>9, <2>10, <2>15 DEF AnswerInv
<1>3. QED
  BY <1>1, <1>2

\* The answer to the end of file reaches nobody.
LEMMA FinishAnswers ==
  ASSUME TypeInv, AnswerInv, NEW k \in Client, Finish(k) PROVE AnswerInv'
<1>1. CASE WriteFails(k)
  BY <1>1, WriteFailsAnswers
<1>2. CASE ~WriteFails(k)
  <2>1. \A w, c \in Client : Holds(w, c)' => Holds(w, c)
    BY <1>2, GoneBecomes, EndHolds DEF Finish, TypeInv
  <2>2. QED
    BY <1>2, <2>1, NothingHeld DEF Finish, TypeInv
<1>3. QED
  BY <1>1, <1>2

\* Every step keeps one request per client, in one place.
LEMMA NextAnswerInv == ASSUME TypeInv, AnswerInv, [Next]_vars PROVE AnswerInv'
<1>1. ASSUME NEW k \in Client, Connect(k) \/ Send(k) \/ Close(k) PROVE AnswerInv'
  BY <1>1, ConnectCloseAnswers, SendAnswers
<1>2. ASSUME NEW k \in Client, Work(k) PROVE AnswerInv'
  BY <1>2, ReadAnswers, WriteAnswers, FinishAnswers DEF Work
<1>3. ASSUME UNCHANGED vars PROVE AnswerInv'
  BY <1>3 DEF AnswerInv, AnswersAreMine, OnePlace, PendingIsOwed, Pending, Holds, vars
<1>4. QED
  BY <1>1, <1>2, <1>3, ParentAnswers DEF Next

\* However many workers read the same socket (server.c:137), a client is only
\* sent the answers of its own requests, and at most one for each.
THEOREM AnswersCorrect == Spec => []AnswersAreMine
<1>1. Init => AnswerInv
  BY InitAnswerInv
<1>2. TypeInv /\ AnswerInv /\ [Next]_vars => AnswerInv'
  BY NextAnswerInv
<1>3. AnswerInv => AnswersAreMine
  BY DEF AnswerInv
<1>4. QED
  BY <1>1, <1>2, <1>3, ListenerTypes, PTL DEF Spec
=============================================================================
