------------------------------- MODULE System -------------------------------
(***************************************************************************)
(* Clients and workers together: a client per connection, its requests     *)
(* handled by the worker of the connection, its answers used by the        *)
(* client.  The bytes between them are those of module Wire and the accept *)
(* loop that of Listener; here each connection has its own worker.         *)
(***************************************************************************)
EXTENDS Methods

VARIABLES cli, link

C == INSTANCE Client

sysvars == <<vars, cli, link>>

SystemInit == Init /\ C!Init

----------------------------------------------------------------------------
\* Requests being served that will store a new cookie, c's to come included.
Storing == {"create_account", "connect", "disconnect"}
CookiesLeft(c) ==
  ~Redraw => Cardinality({d \in Conn \ {c} : /\ frame[d].at \notin {"idle", "answered"}
                                             /\ req[d].method \in Storing})
               < Cardinality(Cookie \ drawn)

\* The request r is what c sends for its command: with the cookie it holds.
Sends(c, r, method) ==
  /\ r.method = method
  /\ r.id
  /\ cli[c].cookie # C!NotConnected => r.cookie = cli[c].cookie
  /\ method \in Storing => CookiesLeft(c)

\* Nobody reads what is sent on a lost connection.
Deliver(c, r) == IF link[c] = "up" THEN DispatchRequest(c, r)
                                   ELSE UNCHANGED vars

Ask(c) ==
  \E r \in Requests, command \in C!Menu(c) \ {"quit"} :
    /\ Sends(c, r, IF command = "relay_gazou" THEN "get_gazou" ELSE command)
    /\ C!Send(c, command, r.username)
    /\ Deliver(c, r)

AskRelay(c) ==
  \E r \in Requests :
    /\ Sends(c, r, "relay_gazou")
    /\ C!Choose(c, r.id_gazouilli)
    /\ Deliver(c, r)

Receive(c) ==
  /\ frame[c].at = "answered"
  /\ C!Receive(c, frame[c].code, frame[c].cookie, {e.id : e \in frame[c].page})
  /\ Ended(c)

Serve(c) == Handle(c) /\ UNCHANGED <<cli, link>>

\* A worker dies, and its connection with it.  When the program has ended its
\* worker ends too, at once or after the request it was at.
Die(c) ==
  \/ frame[c].at = "idle" /\ C!Lose(c) /\ UNCHANGED vars
  \/ frame[c].at \notin {"idle", "answered"} /\ Ended(c) /\ C!Lose(c)
  \/ cli[c].at = "gone" /\ Ended(c) /\ UNCHANGED <<cli, link>>

\* The program is run again.  It connects by a new socket and is served by a new
\* worker; c names connections one after the other, so the guard only says that
\* the name c is free to be used again.
Restart(c) ==
  /\ frame[c].at = "idle"
  /\ C!Restart(c)
  /\ UNCHANGED vars

Alone(c) ==
  /\ C!GiveUp(c) \/ C!SendFails(c) \/ C!ReceiveFails(c) \/ C!Quit(c)
  /\ UNCHANGED vars

SystemNext == \E c \in Conn :
  \/ Ask(c) \/ AskRelay(c) \/ Receive(c) \/ Alone(c) \/ Restart(c)
  \/ Serve(c) \/ Die(c)

SystemSpec == SystemInit /\ [][SystemNext]_sysvars

\* Workers and clients run: a worker never waits for another one, and a client
\* whose answer has come reads it.  Users need not type, workers need not die.
SystemLiveSpec ==
  SystemSpec /\ \A c \in Conn : WF_sysvars(Serve(c)) /\ WF_sysvars(Receive(c))

----------------------------------------------------------------------------
(* Properties. *)

\* Client and worker keep step: while a client waits, its worker handles or
\* has answered the very request the client is waiting for; otherwise the
\* worker is not at work.  Nothing in the code pairs the two but the client's
\* waiting (client.c:88-102): the id of an answer is compared and the answer
\* used all the same.
InStep ==
  /\ TypeOK /\ C!TypeOK
  /\ \A c \in Conn : link[c] = "up" /\ cli[c].at # "gone" =>
       IF C!Waiting(c)
         THEN frame[c].at # "idle" /\ req[c].method = C!Asked(c)
         ELSE frame[c].at \in {"idle", "answered"}

\* What the screen says is true: a client that shows a user name holds a
\* cookie of that account or of nobody, never of another one, and what the
\* server does for it is done in that name, however many programs log in to
\* the account and out of it (connect_server, disconnect and
\* handle_generic_error_code in client/methods.c, methods.c:287-294 on the
\* other side).
SessionIsMine ==
  ~Redraw => \A c \in Conn :
    LET f == cli[c] IN
    f.at # "gone" =>
      /\ (f.cookie = C!NotConnected) = (f.username = "")
      /\ Owners(f.cookie) \subseteq {f.username}
      /\ link[c] = "up" /\ C!Waiting(c) /\ req[c].method \in AuthenticatedMethods
           => frame[c].user \in {"", f.username}

\* Nobody writes in another one's name: whoever a step adds to or strikes from
\* the tables as a follower, a retweeter or an author is the user whom the
\* screen of the program shows that sent the request, if that program still
\* waits for the answer.  Between the cookie it sent and the statement that
\* writes lie the lookup of the name (methods.c:122) and other statements,
\* meanwhile other programs log in to the account and out of it, and no
\* handler looks at the cookie again before it writes.
Signatures ==
  {p[2] : p \in (user_subscription \ user_subscription')
                  \cup (user_subscription' \ user_subscription)}
  \cup {p[2] : p \in (tag_subscription \ tag_subscription')
                       \cup (tag_subscription' \ tag_subscription)}
  \cup {q.retweeter : q \in relay' \ relay}
  \cup {gazou'[i].author : i \in DOMAIN gazou' \ DOMAIN gazou}

WritesAreMine ==
  [][~Redraw => \A n \in Signatures : \E c \in Conn :
       /\ frame'[c] # frame[c]
       /\ link[c] = "up" /\ cli[c].at # "gone"
            => C!Waiting(c) /\ cli[c].username = n]_sysvars

\* The codes that the handlers answer are those that the switches of the
\* client know, command by command.  Only two answers end the program: code 2
\* to unfollow_user, and a refusal of the second request of relay_gazou, of
\* which it then reports code 0 (client/methods.c:758).
ExitsAreNamed ==
  \A c \in Conn : cli[c].at = "gone" /\ cli[c].why = "code" =>
    \/ cli[c].command = "unfollow_user" /\ cli[c].code = 2
    \/ cli[c].command = "relay_gazou" /\ cli[c].code = 0

\* A command comes back to the user, whatever other programs do, unless its
\* worker dies: then the client may wait for ever (client.c:121).
CommandEnds ==
  \A c \in Conn : C!Waiting(c) ~> ~C!Waiting(c) \/ link[c] = "lost"

\* A user who is not subscribed is told so and goes on ("| 1 | Non abonné |",
\* spec_protocole.md:340, and client/methods.c:354); the server answers 2
\* (methods.c:546), which the client does not know.
UnfollowRefusalIsShown ==
  \A c \in Conn :
    ~(cli[c].why = "code" /\ cli[c].command = "unfollow_user")
=============================================================================
