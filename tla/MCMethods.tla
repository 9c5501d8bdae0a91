----------------------------- MODULE MCMethods -----------------------------
(* Small instances of Methods for TLC. *)
EXTENDS MethodsService, TLC

CONSTANTS c1, c2

\* A request whose fields are all arbitrary; each run overrides those that
\* the methods it sends look at.
Blank == [method |-> Unreadable, id |-> TRUE, cookie |-> 1, username |-> "ana",
          password |-> "p", tag |-> "t", list_of_tags |-> {}, content |-> "hi",
          date |-> 1, id_gazouilli |-> 1, nb_gazou |-> 1]

Call(methods) == {[Blank EXCEPT !.method = m] : m \in methods}

User(n, k) == [name |-> n, password |-> "p", cookie |-> k]
Post(d, n, x) == [date |-> d, author |-> n, content |-> x]

NoGazou == <<>>
OneUser  == {User("ana", 1)}
TwoUsers == {User("ana", 1), User("bob", 2)}

----------------------------------------------------------------------------
(* Accounts and sessions: creations that race for a name, connections and   *)
(* disconnections with every cookie, messages that no handler takes.        *)
AccountRequests ==
  {[Blank EXCEPT !.method = m, !.username = n, !.password = p] :
     m \in {"create_account", "connect"}, n \in {"ana", "bob"}, p \in {"p", "q"}}
  \cup {[Blank EXCEPT !.method = "disconnect", !.cookie = k, !.id = i] :
          k \in Cookie, i \in BOOLEAN}
  \cup {[Blank EXCEPT !.method = "retweet"], [Blank EXCEPT !.id = FALSE]}

Symmetric == Permutations(Conn)

----------------------------------------------------------------------------
(* Posting, relaying and reading: ana posts texts with two tags or none, the *)
(* same one twice if it happens, and connects again; bob follows a tag or    *)
(* ana, reads his page while the tags are being attached, and relays.        *)
PostingRequests ==
  {[Blank EXCEPT !.method = "send_gazou", !.content = x, !.list_of_tags = T] :
     x \in Content, T \in {{}, {"t", "s"}}}
  \cup {[Blank EXCEPT !.method = m, !.cookie = 2, !.nb_gazou = n] :
          m \in {"follow_user", "follow_tag", "get_gazou", "relay_gazou"},
          n \in {2}}
  \cup Call({"connect"})

----------------------------------------------------------------------------
(* Every method but send_gazou, with little data: the interference between  *)
(* handlers.  A gazouilli of bob's is there; ana may follow a user and relay *)
(* a gazouilli that exist, or others that do not.  Some messages no handler  *)
(* takes, and one has no id; cookies collide.                                *)
OneGazou == <<Post(1, "bob", "hi")>>

ServiceRequests ==
  {[Blank EXCEPT !.method = m, !.username = n] :
     m \in {"follow_user", "unfollow_user"}, n \in {"bob", "eve"}}
  \cup {[Blank EXCEPT !.method = "relay_gazou", !.id_gazouilli = i] : i \in 1..2}
  \cup Call({"disconnect", "get_gazou", "follow_tag", "unfollow_tag", "list_followed_users",
             "list_followed_tags", "list_my_followers"})
  \cup {[Blank EXCEPT !.method = "create_account", !.username = "eve"],
        [Blank EXCEPT !.method = "connect"],
        [Blank EXCEPT !.method = "follow_tag", !.id = FALSE],
        [Blank EXCEPT !.method = "retweet"], Blank}

----------------------------------------------------------------------------
(* Two gazouillis at once: ana and bob post texts with the same tags, one    *)
(* request lacks its id, and each may be cut short by the end of its worker; *)
(* ana reads all there is of a tag, with no limit, and disconnects; bob      *)
(* connects, with cookies that collide.                                      *)
AnsweringRequests ==
  {[Blank EXCEPT !.method = "send_gazou", !.cookie = k, !.list_of_tags = {"t", "s"}] :
     k \in {1, 2}}
  \cup {[Blank EXCEPT !.method = "send_gazou", !.list_of_tags = {"t"}, !.id = FALSE],
        [Blank EXCEPT !.method = "get_gazou", !.nb_gazou = -1],
        [Blank EXCEPT !.method = "connect", !.username = "bob"]}
  \cup Call({"follow_tag", "disconnect"})

----------------------------------------------------------------------------
(* What the documents say and the code does not do.                         *)
BusyRequests  == Call({"follow_tag", "list_followed_tags"})
=============================================================================
