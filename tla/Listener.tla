------------------------------ MODULE Listener ------------------------------
(***************************************************************************)
(* The accept loop of the server (src/server/server.c) and the life of the *)
(* worker processes it forks.  The parent selects on the listening socket  *)
(* and on the connections it has accepted; when a connection becomes       *)
(* readable for the first time it forks a worker for it and forgets it.    *)
(*                                                                         *)
(* A worker is forked for sock_client, but the descriptor it reads and     *)
(* writes is newsockfd (server.c:137), the last connection that accept     *)
(* returned.  A connection stands for its own descriptor: the parent holds *)
(* the descriptor of k exactly while k is in tab_clients, and a worker     *)
(* inherits those that the parent holds when it forks.                     *)
(*                                                                         *)
(* A client sends one request at a time and waits for its answer, as       *)
(* src/client/client.c does.                                               *)
(***************************************************************************)
EXTENDS Naturals, Sequences, FiniteSets

CONSTANTS
  Client,      \* connections, one per run of the client program
  Slots,       \* number of entries of tab_clients (FDSET_SIZE_CLIENT)
  MaxProc,     \* processes the system lets the server fork; none is waited for
  MaxSent,     \* bound: requests per connection
  Polite,      \* environment: a client connects only when every client that
               \* is connected has had its first answer, and none quits before
  Free         \* the value -1 of tab_clients

ASSUME ListenerAssumption ==
  /\ Free \notin Client
  /\ Slots \in Nat /\ MaxProc \in Nat /\ MaxSent \in Nat
  /\ Polite \in BOOLEAN

VARIABLES
  client,       \* client[k]: "out", "ready", "waiting" for an answer, "closed"
  sent,         \* sent[k]: requests that k has sent
  unread,       \* connections whose socket holds a request nobody has read
  answers,      \* answers[k]: sequence of the clients whose requests k was
                \* sent the answer of
  shut,         \* connections on which a worker has shut down writing
  backlog,      \* connections not accepted yet, oldest first
  tab_clients,
  rset,         \* the connections of rset; the listening socket always is in
  newsockfd,
  pset,         \* what the last select returned; Free for the listening socket
  parent,       \* "select", "accept", "scan", or "dead"
  worker        \* worker[k]: the worker forked when k was readable

vars == <<client, sent, unread, answers, shut, backlog, tab_clients, rset,
          newsockfd, pset, parent, worker>>
clientVars == <<client, sent, answers, shut>>
parentVars == <<backlog, tab_clients, rset, newsockfd, pset, parent>>

Worker == [at : {"none", "reading", "writing", "closing", "gone"},
           fd : Client \cup {Free},     \* its copy of newsockfd
           job : Client \cup {Free}]    \* whose request it handles

NoWorker == [at |-> "none", fd |-> Free, job |-> Free]

Slot == 1..Slots

TypeOK ==
  /\ client \in [Client -> {"out", "ready", "waiting", "closed"}]
  /\ sent \in [Client -> 0..MaxSent]
  /\ unread \subseteq Client
  /\ answers \in [Client -> Seq(Client)]
  /\ shut \subseteq Client
  /\ backlog \in Seq(Client)
  /\ tab_clients \in [Slot -> Client \cup {Free}]
  /\ rset \subseteq Client
  /\ newsockfd \in Client \cup {Free}
  /\ pset \subseteq Client \cup {Free}
  /\ parent \in {"select", "accept", "scan", "dead"}
  /\ worker \in [Client -> Worker]

Init ==
  /\ client = [k \in Client |-> "out"]
  /\ sent = [k \in Client |-> 0]
  /\ unread = {}
  /\ answers = [k \in Client |-> <<>>]
  /\ shut = {}
  /\ backlog = <<>>
  /\ tab_clients = [i \in Slot |-> Free]
  /\ rset = {}
  /\ newsockfd = Free
  /\ pset = {}
  /\ parent = "select"
  /\ worker = [k \in Client |-> NoWorker]

----------------------------------------------------------------------------
(* Clients. *)

\* Connected, without a first answer.  No code looks at it: Polite is an
\* assumption about when users start and end their programs.
Unserved == {k \in Client : /\ client[k] \in {"ready", "waiting"}
                            /\ answers[k] = <<>>}

\* init_connection; the kernel completes the connection before accept.
Connect(k) ==
  /\ client[k] = "out"
  /\ Polite => Unserved = {}
  /\ client' = [client EXCEPT ![k] = "ready"]
  /\ backlog' = Append(backlog, k)
  /\ UNCHANGED <<sent, unread, answers, shut, tab_clients, rset, newsockfd,
                 pset, parent, worker>>

\* send_message
Send(k) ==
  /\ client[k] = "ready"
  /\ sent[k] < MaxSent
  /\ client' = [client EXCEPT ![k] = "waiting"]
  /\ sent' = [sent EXCEPT ![k] = @ + 1]
  /\ unread' = unread \cup {k}
  /\ UNCHANGED <<answers, shut, parentVars, worker>>

\* quit, a command or the handler of SIGINT: it may come during a wait.
Close(k) ==
  /\ client[k] \in {"ready", "waiting"}
  /\ Polite => answers[k] # <<>>
  /\ client' = [client EXCEPT ![k] = "closed"]
  /\ UNCHANGED <<sent, unread, answers, shut, parentVars, worker>>

----------------------------------------------------------------------------
(* The parent. *)

\* read would not block: a request is there, or the client has closed.
Readable(k) == k \in unread \/ client[k] = "closed"

Select ==
  LET ready == {k \in rset : Readable(k)}
                 \cup (IF backlog = <<>> THEN {} ELSE {Free})
  IN  /\ parent = "select"
      /\ ready # {}
      /\ pset' = ready
      /\ parent' = "accept"
      /\ UNCHANGED <<clientVars, unread, backlog, tab_clients, rset, newsockfd,
                     worker>>

\* Free slots, of which the code takes the first.
FreeSlots == {i \in Slot : tab_clients[i] = Free}

\* FD_ISSET(sockfd, &pset): accept one connection, or exit(6).
Accept ==
  /\ parent = "accept"
  /\ \/ /\ Free \in pset
        /\ newsockfd' = Head(backlog)
        /\ backlog' = Tail(backlog)
        /\ \/ \E i \in FreeSlots :
                /\ \A j \in FreeSlots : i <= j
                /\ tab_clients' = [tab_clients EXCEPT ![i] = newsockfd']
                /\ rset' = rset \cup {newsockfd'}
                /\ parent' = "scan"
           \/ /\ FreeSlots = {}
              /\ parent' = "dead"
              /\ UNCHANGED <<tab_clients, rset>>
     \/ /\ Free \notin pset
        /\ parent' = "scan"
        /\ UNCHANGED <<backlog, tab_clients, rset, newsockfd>>
  /\ UNCHANGED <<clientVars, unread, pset, worker>>

\* Mutant: the scan stops one slot short.
ToServe_ShortScan == {i \in Slot : i < Slots /\ tab_clients[i] \in pset \ {Free}}

\* Slots whose connection is still set in pset.
ToServe == {i \in Slot : tab_clients[i] \in pset \ {Free}}

Forked == {k \in Client : worker[k].at # "none"}

\* Mutant: the connection stays in tab_clients and rset.
Forget_Keeps(i, k) ==
  /\ pset' = pset \ {k}
  /\ UNCHANGED <<tab_clients, rset>>

\* Mutant: the slot is cleared to 0, not to -1.
Forget_Zero(i, k) ==
  /\ pset' = pset \ {k}
  /\ tab_clients' = [tab_clients EXCEPT ![i] = 0]
  /\ rset' = rset \ {k}

\* FD_CLR on both sets, the slot becomes free, the parent closes its copy.
Forget(i, k) ==
  /\ pset' = pset \ {k}
  /\ tab_clients' = [tab_clients EXCEPT ![i] = Free]
  /\ rset' = rset \ {k}

\* Mutant: the parent closes the connection before it forks.
Inherited_Closed == Free

\* The descriptor newsockfd in a process forked now: dangling when the parent
\* has closed that connection.
Inherited == IF newsockfd \in rset THEN newsockfd ELSE Free

\* Fork a worker for the next readable connection of the table, or exit(7).
Fork ==
  /\ parent = "scan"
  /\ \E i \in ToServe :
       /\ \A j \in ToServe : i <= j
       /\ \/ /\ Cardinality(Forked) < MaxProc
             /\ worker' = [worker EXCEPT ![tab_clients[i]] =
                             [at |-> "reading", fd |-> Inherited, job |-> Free]]
             /\ Forget(i, tab_clients[i])
             /\ UNCHANGED parent
          \/ /\ Cardinality(Forked) = MaxProc
             /\ parent' = "dead"
             /\ UNCHANGED <<worker, pset, tab_clients, rset>>
  /\ UNCHANGED <<clientVars, unread, backlog, newsockfd>>

\* The table has been scanned.
Loop ==
  /\ parent = "scan"
  /\ ToServe = {}
  /\ parent' = "select"
  /\ pset' = {}
  /\ UNCHANGED <<clientVars, unread, backlog, tab_clients, rset, newsockfd,
                 worker>>

----------------------------------------------------------------------------
(* A worker, named by the connection it was forked for. *)

\* read returns a request, or 0 at end of file; read on a dangling descriptor
\* fails, exit(8).
Read(k) ==
  LET fd == worker[k].fd IN
  /\ worker[k].at = "reading"
  /\ \/ /\ fd = Free
        /\ worker' = [worker EXCEPT ![k].at = "gone"]
        /\ UNCHANGED unread
     \/ /\ fd \in unread
        /\ unread' = unread \ {fd}
        /\ worker' = [worker EXCEPT ![k].at = "writing", ![k].job = fd]
     \/ /\ fd # Free
        /\ fd \notin unread
        /\ client[fd] = "closed"
        /\ worker' = [worker EXCEPT ![k].at = "closing"]
        /\ UNCHANGED unread
  /\ UNCHANGED <<clientVars, parentVars>>

\* Mutant: the answer goes to the connection the worker was forked for.
Peer_SockClient(k) == k

\* Where dispatch_request writes: the descriptor it has read.
Peer(k) == worker[k].fd

\* Writing fails when a worker has shut the connection down, and may fail when
\* its client has quit: exit(9) or SIGPIPE.
WriteFails(k) ==
  /\ worker[k].fd \in shut \/ client[worker[k].fd] = "closed"
  /\ worker' = [worker EXCEPT ![k].at = "gone"]
  /\ UNCHANGED <<clientVars, unread, parentVars>>

\* The request has been dispatched: write the answer.
Write(k) ==
  /\ worker[k].at = "writing"
  /\ \/ /\ Peer(k) \notin shut
        /\ answers' = [answers EXCEPT ![Peer(k)] = Append(@, worker[k].job)]
        /\ client' = [client EXCEPT
                        ![Peer(k)] = IF @ = "waiting" THEN "ready" ELSE @]
        /\ worker' = [worker EXCEPT ![k].at = "reading", ![k].job = Free]
        /\ UNCHANGED <<sent, unread, shut, parentVars>>
     \/ WriteFails(k)

\* After end of file: an error answer that nobody reads, then the connection
\* that the worker was forked for, not the one it has read, is shut down.
Finish(k) ==
  /\ worker[k].at = "closing"
  /\ \/ /\ worker[k].fd \notin shut
        /\ shut' = shut \cup {k}
        /\ worker' = [worker EXCEPT ![k].at = "gone"]
        /\ UNCHANGED <<client, sent, answers, unread, parentVars>>
     \/ WriteFails(k)

----------------------------------------------------------------------------
Parent == Select \/ Accept \/ Fork \/ Loop
Work(k) == Read(k) \/ Write(k) \/ Finish(k)

Next ==
  \/ Parent
  \/ \E k \in Client : Connect(k) \/ Send(k) \/ Close(k) \/ Work(k)

Spec == Init /\ [][Next]_vars

\* The parent and the workers are processes of their own and never give up; a
\* client may stay silent for ever.
LiveSpec == Spec /\ WF_vars(Parent) /\ \A k \in Client : WF_vars(Work(k))

----------------------------------------------------------------------------
(* Properties. *)

\* Whatever connections the workers read, an answer reaches the client that
\* sent the request, and there is one answer per request at most: two workers
\* may read the same socket (server.c:137), and the answers carry the data of
\* whoever asked.
AnswersAreMine ==
  \A k \in Client :
    /\ \A i \in 1..Len(answers[k]) : answers[k][i] = k
    /\ Len(answers[k]) <= sent[k]

\* tab_clients and rset are two views of one set of connections, each in one
\* slot; a connection leaves both for good when its worker is forked.
TableMatchesSet ==
  parent # "dead" =>
    /\ rset = {tab_clients[i] : i \in Slot} \ {Free}
    /\ \A i, j \in Slot :
         tab_clients[i] = tab_clients[j] => i = j \/ tab_clients[i] = Free
    /\ rset \cap Forked = {}

\* As long as the server lives, a connection that has something to read does
\* not stay in the table: its slot becomes free for others.  The exception is
\* a request that the worker of another connection has taken in between.
SlotsAreReleased ==
  \A k \in Client :
    k \in rset /\ Readable(k)
      ~> k \notin rset \/ ~Readable(k) \/ parent = "dead"

\* A request is answered: the worker forked for its connection reads it and
\* writes its answer (server.c:124-139).
RequestsAreAnswered ==
  \A k \in Client : client[k] = "waiting" ~> client[k] # "waiting"
=============================================================================
