------------------------------ MODULE Service ------------------------------
(***************************************************************************)
(* What the server promises, one request at a time.  A request that comes  *)
(* with a cookie is first given the account that holds it; then it takes   *)
(* effect in one step, whose preconditions hold at that instant, or it is  *)
(* refused with a code that is true at that instant and changes nothing.   *)
(*                                                                         *)
(* Three methods promise less and say so here.  send_gazou stores the      *)
(* gazouilli in one step and attaches its tags one by one, and may be      *)
(* refused in between; connect replaces the cookie in one step and answers *)
(* with the one that is there in a later one; get_gazou chooses its page in *)
(* one step and answers later.                                             *)
(*                                                                         *)
(* Methods implements this specification (module MethodsService).  The     *)
(* table "tag" and the statements of a handler are hidden.                 *)
(***************************************************************************)
EXTENDS Store

CONSTANTS Conn, Requests, TooLong, Redraw, MaxGazou

VARIABLES
  request,   \* request[c]: what connection c has asked last
  session,   \* session[c]: how far the server is with it, and its answer
  issued     \* every cookie that was ever stored

vars == <<tables, request, session, issued>>

Phase == {"idle", "open", "granted", "labelling", "delivering", "answered"}

Fresh == [phase |-> "idle", who |-> "", gid |-> 0, owed |-> {}, code |-> 0,
          cookie |-> -1, list |-> {}, page |-> {}]

Init ==
  /\ StoreInit
  /\ request \in [Conn -> Requests]
  /\ session = [c \in Conn |-> Fresh]
  /\ issued = {u.cookie : u \in SeedUser}

Served(c) == session[c].phase \notin {"idle", "answered"}

\* Another request is being served, and may hold a lock of the database.
Contended(c) == \E d \in Conn \ {c} : Served(d)

\* c, whose request is open, asks for method m, and is somebody if it must be.
Asks(c, m)     == session[c].phase = "open" /\ request[c].method = m
AsksAsUser(c, m) == Asks(c, m) /\ session[c].who # ""

Become(c, s) == session' = [session EXCEPT ![c] = s] /\ UNCHANGED request

\* The answer to c.  Without "id" it is the format error whatever was done;
\* only a success carries parameters.
Reply(c, s, code) ==
  Become(c, IF code = 0 /\ request[c].id
              THEN [s EXCEPT !.phase = "answered"]
              ELSE [phase |-> "answered", who |-> s.who, gid |-> s.gid,
                    owed |-> {}, code |-> IF request[c].id THEN code ELSE 10,
                    cookie |-> -1, list |-> {}, page |-> {}])

Succeed(c) == Reply(c, session[c], 0)

NewCookies == IF Redraw THEN Cookie ELSE Cookie \ issued

----------------------------------------------------------------------------
(* Requests come, are given an account, and are over or lost. *)

Begin(c, r) ==
  /\ ~Served(c)
  /\ r.method = "send_gazou" => Len(gazou) < MaxGazou
  /\ request' = [request EXCEPT ![c] = r]
  /\ session' = [session EXCEPT ![c] = [Fresh EXCEPT !.phase = "open"]]
  /\ UNCHANGED <<tables, issued>>

Anonymous == {"create_account", "connect"}

Identify(c) ==
  /\ session[c].phase = "open"
  /\ session[c].who = ""
  /\ request[c].method \notin Anonymous
  /\ \E n \in Owners(request[c].cookie) :
       Become(c, [session[c] EXCEPT !.who = n])
  /\ UNCHANGED <<tables, issued>>

\* Its worker dies, or its answer has been taken.
Over(c) ==
  /\ session[c].phase # "idle"
  /\ \E r \in Requests : request' = [request EXCEPT ![c] = r]
  /\ session' = [session EXCEPT ![c] = Fresh]
  /\ UNCHANGED <<tables, issued>>

----------------------------------------------------------------------------
(* Accounts. *)

Row(c, k) == [name |-> request[c].username, password |-> request[c].password,
              cookie |-> k]

Create(c) ==
  /\ Asks(c, "create_account")
  /\ \E k \in NewCookies : /\ InsertableUser(Row(c, k))
                           /\ user' = user \cup {Row(c, k)}
                           /\ issued' = issued \cup {k}
  /\ Succeed(c)
  /\ UNCHANGED <<gazou, tag, gazou_tag, user_subscription, tag_subscription,
                 relay>>

\* n gets a new cookie, which no other account holds.
Replace(n) ==
  /\ \E k \in NewCookies : /\ UserUnique(WithCookie(n, k))
                           /\ user' = WithCookie(n, k)
                           /\ issued' = issued \cup {k}
  /\ UNCHANGED <<gazou, tag, gazou_tag, user_subscription, tag_subscription,
                 relay>>

Knows(c) == \E u \in UsersNamed(request[c].username) :
              u.password = request[c].password

Grant(c) ==
  /\ Asks(c, "connect")
  /\ Knows(c)
  /\ Replace(request[c].username)
  /\ Become(c, [session[c] EXCEPT !.phase = "granted"])

\* The cookie that is the account's now: another connection may have replaced
\* the one that Grant stored.
GiveCookie(c) ==
  /\ session[c].phase = "granted"
  /\ \E u \in UsersNamed(request[c].username) :
       Reply(c, [session[c] EXCEPT !.cookie = u.cookie], 0)
  /\ UNCHANGED <<tables, issued>>

Logout(c) ==
  /\ AsksAsUser(c, "disconnect")
  /\ Replace(session[c].who)
  /\ Succeed(c)

----------------------------------------------------------------------------
(* Gazouillis. *)

Gazouilli(c) == [date |-> request[c].date, author |-> session[c].who,
                 content |-> request[c].content]

Post(c) ==
  LET s == [session[c] EXCEPT !.gid = Len(gazou) + 1]
  IN  /\ AsksAsUser(c, "send_gazou")
      /\ request[c].content \notin TooLong
      /\ GazouUnique(Gazouilli(c))
      /\ gazou' = Append(gazou, Gazouilli(c))
      /\ IF request[c].list_of_tags = {}
           THEN Reply(c, s, 0)
           ELSE Become(c, [s EXCEPT !.phase = "labelling",
                                    !.owed = request[c].list_of_tags])
      /\ UNCHANGED <<user, tag, gazou_tag, user_subscription,
                     tag_subscription, relay, issued>>

\* send_gazou succeeds with its last tag, never before.
Label(c) ==
  /\ session[c].phase = "labelling"
  /\ \E t \in session[c].owed :
       LET s == [session[c] EXCEPT !.owed = @ \ {t}] IN
       /\ gazou_tag' = gazou_tag \cup {<<session[c].gid, t>>}
       /\ IF s.owed = {} THEN Reply(c, s, 0) ELSE Become(c, s)
  /\ UNCHANGED <<user, gazou, tag, user_subscription, tag_subscription, relay,
                 issued>>

RelayOf(c) == [gazou_id |-> request[c].id_gazouilli,
               retweeter |-> session[c].who, retweet_date |-> request[c].date]

\* A relay is new as a row: with another date the same user may have relayed
\* the same gazouilli on another connection in between.
Relay(c) ==
  /\ AsksAsUser(c, "relay_gazou")
  /\ request[c].id_gazouilli \in DOMAIN gazou
  /\ RelayOf(c) \notin relay
  /\ relay' = relay \cup {RelayOf(c)}
  /\ Succeed(c)
  /\ UNCHANGED <<user, gazou, tag, gazou_tag, user_subscription,
                 tag_subscription, issued>>

TakePage(c) ==
  /\ AsksAsUser(c, "get_gazou")
  /\ \E P \in Pages(RelayedFor(session[c].who) \cup WrittenFor(session[c].who),
                    request[c].nb_gazou) :
       LET s == [session[c] EXCEPT !.page = P] IN
       IF P = {} THEN Reply(c, s, 0)
                 ELSE Become(c, [s EXCEPT !.phase = "delivering"])
  /\ UNCHANGED <<tables, issued>>

GivePage(c) ==
  /\ session[c].phase = "delivering"
  /\ Succeed(c)
  /\ UNCHANGED <<tables, issued>>

----------------------------------------------------------------------------
(* Subscriptions. *)

UserPair(c) == <<request[c].username, session[c].who>>
TagPair(c)  == <<request[c].tag, session[c].who>>

\* The user who is followed exists when the subscription is stored; only the
\* pair is gone for sure after unfollow_user, because another connection of
\* the same user may have removed it before.
SubscribeToUser(c) ==
  /\ \/ /\ AsksAsUser(c, "follow_user")
        /\ request[c].username \in Registered
        /\ UserPair(c) \notin user_subscription
        /\ user_subscription' = user_subscription \cup {UserPair(c)}
     \/ /\ AsksAsUser(c, "unfollow_user")
        /\ request[c].username \in Registered
        /\ user_subscription' = user_subscription \ {UserPair(c)}
  /\ Succeed(c)
  /\ UNCHANGED <<user, gazou, tag, gazou_tag, tag_subscription, relay, issued>>

SubscribeToTag(c) ==
  /\ \/ /\ AsksAsUser(c, "follow_tag")
        /\ TagPair(c) \notin tag_subscription
        /\ tag_subscription' = tag_subscription \cup {TagPair(c)}
     \/ /\ AsksAsUser(c, "unfollow_tag")
        /\ tag_subscription' = tag_subscription \ {TagPair(c)}
  /\ Succeed(c)
  /\ UNCHANGED <<user, gazou, tag, gazou_tag, user_subscription, relay, issued>>

GiveList(c) ==
  /\ \/ /\ AsksAsUser(c, "list_followed_users")
        /\ Reply(c, [session[c] EXCEPT !.list = Followed(session[c].who)], 0)
     \/ /\ AsksAsUser(c, "list_followed_tags")
        /\ Reply(c, [session[c] EXCEPT !.list = FollowedTags(session[c].who)], 0)
     \/ /\ AsksAsUser(c, "list_my_followers")
        /\ Reply(c, [session[c] EXCEPT !.list = Followers(session[c].who)], 0)
  /\ UNCHANGED <<tables, issued>>

----------------------------------------------------------------------------
(* Refusals. *)

Methods13 == Anonymous \cup {"disconnect", "send_gazou", "follow_user",
  "follow_tag", "unfollow_user", "unfollow_tag", "list_followed_users",
  "list_followed_tags", "list_my_followers", "get_gazou", "relay_gazou"}

\* Code 1: what the request names is missing, or already there.
Misnamed(c) ==
  \/ Asks(c, "create_account") /\ request[c].username \in Registered
  \/ Asks(c, "connect") /\ request[c].username \notin Registered
  \/ AsksAsUser(c, "follow_user") /\ request[c].username \notin Registered
  \/ AsksAsUser(c, "unfollow_user") /\ request[c].username \notin Registered
  \/ AsksAsUser(c, "follow_tag") /\ TagPair(c) \in tag_subscription
  \/ AsksAsUser(c, "unfollow_tag") /\ TagPair(c) \notin tag_subscription
  \/ AsksAsUser(c, "relay_gazou") /\ request[c].id_gazouilli \notin DOMAIN gazou

\* Code 2: what it names is there, and the request still cannot be done.
Inapplicable(c) ==
  \/ /\ Asks(c, "connect")
     /\ request[c].username \in Registered
     /\ ~Knows(c)
  \/ AsksAsUser(c, "send_gazou") /\ request[c].content \in TooLong
  \/ AsksAsUser(c, "follow_user") /\ UserPair(c) \in user_subscription
  \/ AsksAsUser(c, "unfollow_user") /\ UserPair(c) \notin user_subscription
  \/ /\ AsksAsUser(c, "relay_gazou")
     /\ \E q \in relay : /\ q.gazou_id = request[c].id_gazouilli
                         /\ q.retweeter = session[c].who

\* A row that would break a UNIQUE constraint.
Clashes(c) ==
  \/ /\ Asks(c, "create_account")
     /\ \E k \in NewCookies : ~InsertableUser(Row(c, k))
  \/ /\ Asks(c, "connect")
     /\ \E k \in NewCookies : ~UserUnique(WithCookie(request[c].username, k))
  \/ /\ AsksAsUser(c, "disconnect")
     /\ \E k \in NewCookies : ~UserUnique(WithCookie(session[c].who, k))
  \/ AsksAsUser(c, "send_gazou") /\ ~GazouUnique(Gazouilli(c))
  \/ AsksAsUser(c, "relay_gazou") /\ RelayOf(c) \in relay
  \/ AsksAsUser(c, "follow_user") /\ UserPair(c) \in user_subscription
  \/ AsksAsUser(c, "follow_tag") /\ TagPair(c) \in tag_subscription

\* c is refused with this code, and that is true of the tables now.
Refuse(c, code) ==
  /\ Served(c)
  /\ \/ code = 1 /\ Misnamed(c)
     \/ code = 2 /\ Inapplicable(c)
     \/ code = 10 /\ request[c].method = ""
     \/ code = 11 /\ (Contended(c) \/ Clashes(c))
     \/ code = 13 /\ request[c].method \notin Methods13 \cup {""}
     \/ /\ code = 14
        /\ request[c].method \notin Anonymous
        /\ session[c].who = ""
        /\ Owners(request[c].cookie) = {} \/ Contended(c)
  /\ Reply(c, session[c], code)
  /\ UNCHANGED <<tables, issued>>

----------------------------------------------------------------------------
Next == \E c \in Conn :
  \/ \E r \in Requests : Begin(c, r)
  \/ Identify(c) \/ Over(c)
  \/ Create(c) \/ Grant(c) \/ GiveCookie(c) \/ Logout(c)
  \/ Post(c) \/ Label(c) \/ Relay(c) \/ TakePage(c) \/ GivePage(c)
  \/ SubscribeToUser(c) \/ SubscribeToTag(c) \/ GiveList(c)
  \/ \E code \in {1, 2, 10, 11, 13, 14} : Refuse(c, code)

Spec == Init /\ [][Next]_vars
=============================================================================
