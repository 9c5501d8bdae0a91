------------------------------ MODULE Methods ------------------------------
(***************************************************************************)
(* The request handlers of the server (src/server/methods.c), run by one   *)
(* worker process per connection.  A worker reads a request, executes the  *)
(* SQL statements of its handler one after the other and writes one        *)
(* answer; workers share nothing but the database, where their statements  *)
(* interleave because no handler opens a transaction.                      *)
(*                                                                         *)
(* frame[c].at names the statement the worker of connection c is about to  *)
(* execute; the local computation that follows a statement belongs to the  *)
(* same step.                                                              *)
(***************************************************************************)
EXTENDS Store

CONSTANTS
  Conn,        \* connections, each with its worker
  Requests,    \* what clients may send, a set of Request
  TooLong,     \* the texts of more than SPEC_GAZOU_SIZE characters
  Redraw,      \* may RANDOM() return a value it has returned before?
  MaxGazou     \* bound: no send_gazou arrives once the table holds this many

method_names == {"create_account", "connect", "disconnect", "send_gazou",
  "follow_user", "follow_tag", "unfollow_user", "unfollow_tag",
  "list_followed_users", "list_followed_tags", "list_my_followers",
  "get_gazou", "relay_gazou"}

\* The method of a message that is not JSON or has no "request" member.
Unreadable == ""

\* A request as the handlers see it.  "id" says whether the member is there;
\* a handler looks at the parameters of its own method only, the others hold
\* an arbitrary value.  A number that is missing is read as 0; a name, a
\* password, a tag, a date or a text is always there.  id_gazouilli 0 stands for
\* every number that is no id, and a negative nb_gazou is no limit.
Request == [method : STRING, id : BOOLEAN, cookie : Cookie, username : Name,
            password : Password, tag : Tag, list_of_tags : SUBSET Tag,
            content : Content, date : Date, id_gazouilli : Nat,
            nb_gazou : Int]

ASSUME RequestAssumption == Requests \subseteq Request /\ Requests # {}
ASSUME BoundAssumption   == Redraw \in BOOLEAN /\ MaxGazou \in Nat

SPEC_ERR_FORMAT           == 10
SPEC_ERR_INTERNAL_SRV     == 11
SPEC_ERR_NOT_IMPLEMENTED  == 13
SPEC_ERR_INCORRECT_COOKIE == 14

ReadAt  == {"start", "select_password", "select_cookie", "select_user",
            "select_subscription", "select_gazou", "select_relay",
            "select_list", "select_page", "select_tags"}
WriteAt == {"insert_user", "update_cookie", "insert_tag", "insert_gazou",
            "link_tag", "insert_subscription", "delete_subscription",
            "insert_relay"}
Place   == ReadAt \cup WriteAt \cup {"idle", "check_length", "answered"}

Frame == [at : Place,
          user : Name \cup {""},        \* the local username buffer
          todo : SUBSET Tag,            \* rest of the loops of new_gazou
          gid : Nat,                    \* sqlite3_last_insert_rowid
          left : SUBSET Entry,          \* rest of fill_tags_in_gazou_array
          code : Nat,                   \* the answer: 0, or its error_code
          cookie : Int,                 \* and its params
          list : SUBSET (Name \cup Tag),
          page : SUBSET Entry,
          shown : SUBSET (Entry \X Tag),
          wrote : BOOLEAN,              \* history: the request changed a table
          stale : BOOLEAN,              \* history: its cookie was revoked before
          pending : SUBSET Nat]         \* history: half-posted ids when page was read

VARIABLES
  req,     \* req[c]: the request the worker of c handles, or handled last
  frame,   \* frame[c]: locals of that worker, and its answer
  drawn    \* history: every cookie that was ever stored

vars == <<tables, req, frame, drawn>>

Idle == [at |-> "idle", user |-> "", todo |-> {}, gid |-> 0, left |-> {},
         code |-> 0, cookie |-> -1, list |-> {}, page |-> {}, shown |-> {},
         wrote |-> FALSE, stale |-> FALSE, pending |-> {}]

\* What req[c] holds before the first request of a connection; not looked at.
NoRequest == CHOOSE r \in Requests : TRUE

Init ==
  /\ StoreInit
  /\ req = [c \in Conn |-> NoRequest]
  /\ frame = [c \in Conn |-> Idle]
  /\ drawn = {u.cookie : u \in SeedUser}

----------------------------------------------------------------------------
(* Locks.  Other workers open the same file; no busy timeout is set, so a  *)
(* statement that meets a lock fails at once and exec_db returns 1.  A     *)
(* SELECT meets one when another worker is inside a writing statement, an  *)
(* INSERT, UPDATE or DELETE when another worker is inside any statement.   *)
(* A worker may be inside the statement its "at" names.                    *)

OthersInside(c, places) ==
  \E d \in Conn \ {c} : frame[d].at \in places /\ req[d].method \in method_names

ReadBusy(c)  == OthersInside(c, WriteAt)
WriteBusy(c) == OthersInside(c, ReadAt \cup WriteAt)

Step(c, f) == frame' = [frame EXCEPT ![c] = f] /\ UNCHANGED req

Goto(c, place) == [frame[c] EXCEPT !.at = place]

\* create_answer, then fill_answer: f becomes the frame of a worker whose
\* answer is on the wire.  A request without "id" gets the format error,
\* whatever its handler has done; only a result carries parameters.
Answered(c, f, code) ==
  IF code = 0 /\ req[c].id
    THEN [f EXCEPT !.at = "answered"]
    ELSE [f EXCEPT !.at = "answered", !.todo = {}, !.left = {},
                   !.code = IF req[c].id THEN code ELSE SPEC_ERR_FORMAT,
                   !.cookie = -1, !.list = {}, !.page = {}, !.shown = {}]

Answer(c, code) == Step(c, Answered(c, frame[c], code))

\* Mutant: the row count is not looked at.
Select_NoCount(c, place, ok, code, next) ==
  /\ frame[c].at = place
  /\ UNCHANGED <<tables, drawn>>
  /\ \/ Step(c, Goto(c, next))
     \/ ReadBusy(c) /\ Answer(c, SPEC_ERR_INTERNAL_SRV)

\* A SELECT whose row count decides: go on when ok, else answer code.
Select(c, place, ok, code, next) ==
  /\ frame[c].at = place
  /\ UNCHANGED <<tables, drawn>>
  /\ \/ ok /\ Step(c, Goto(c, next))
     \/ ~ok /\ Answer(c, code)
     \/ ReadBusy(c) /\ Answer(c, SPEC_ERR_INTERNAL_SRV)

\* Mutant: the name found is not copied to the caller's buffer.
Authenticate_NoCopy(c, next) ==
  /\ frame[c].at = "start"
  /\ UNCHANGED <<tables, drawn>>
  /\ IF Owners(req[c].cookie) = {} THEN Answer(c, SPEC_ERR_INCORRECT_COOKIE)
                                   ELSE Step(c, Goto(c, next))

\* Mutant: the WHERE clause is lost and the first row found is taken.
Authenticate_NoWhere(c, next) ==
  /\ frame[c].at = "start"
  /\ UNCHANGED <<tables, drawn>>
  /\ \E n \in Registered : Step(c, [Goto(c, next) EXCEPT !.user = n])

\* user_name_from_cookie as its callers use it: a failed statement and an
\* unknown cookie are the same refusal.
Authenticate(c, next) ==
  /\ frame[c].at = "start"
  /\ UNCHANGED <<tables, drawn>>
  /\ \/ \E n \in Owners(req[c].cookie) :
          Step(c, [Goto(c, next) EXCEPT !.user = n])
     \/ /\ Owners(req[c].cookie) = {} \/ ReadBusy(c)
        /\ Answer(c, SPEC_ERR_INCORRECT_COOKIE)

\* Mutant: the handler answers what new_gazou returned, not error 11.
Aborts_ReturnsEdr(c, place, clash) ==
  /\ frame[c].at = place
  /\ clash \/ WriteBusy(c)
  /\ UNCHANGED <<tables, drawn>>
  /\ Answer(c, IF place = "link_tag" THEN 3 ELSE SPEC_ERR_INTERNAL_SRV)

\* A writing statement at place that does not take effect: it met a lock, or
\* a UNIQUE constraint refuses it.
Aborts(c, place, clash) ==
  /\ frame[c].at = place
  /\ clash \/ WriteBusy(c)
  /\ UNCHANGED <<tables, drawn>>
  /\ Answer(c, SPEC_ERR_INTERNAL_SRV)

Wrote(f, change) == [f EXCEPT !.wrote = @ \/ change]

----------------------------------------------------------------------------
(* Cookies. *)

\* Mutant: every worker starts from the same random seed.
Random_SameSeed == Cookie

\* What ABS(RANDOM() % (INT_MAX-1)) may return.
Random == IF Redraw THEN Cookie ELSE Cookie \ drawn

\* Mutant: the result of the UPDATE is not looked at.
NewRandomCookie_Unchecked(c, n, f) ==
  /\ frame[c].at = "update_cookie"
  /\ \/ /\ \E k \in Random : /\ UserUnique(WithCookie(n, k))
                             /\ user' = WithCookie(n, k)
                             /\ drawn' = drawn \cup {k}
        /\ UNCHANGED <<gazou, tag, gazou_tag, user_subscription,
                       tag_subscription, relay>>
     \/ WriteBusy(c) /\ UNCHANGED <<tables, drawn>>
  /\ Step(c, f)

\* new_random_cookie for n; the worker continues with frame f.
NewRandomCookie(c, n, f) ==
  \/ /\ frame[c].at = "update_cookie"
     /\ \E k \in Random :
          /\ UserUnique(WithCookie(n, k))
          /\ user' = WithCookie(n, k)
          /\ drawn' = drawn \cup {k}
     /\ UNCHANGED <<gazou, tag, gazou_tag, user_subscription,
                    tag_subscription, relay>>
     /\ Step(c, Wrote(f, TRUE))
  \/ Aborts(c, "update_cookie",
            \E k \in Random : ~UserUnique(WithCookie(n, k)))

CreateAccount(c) ==
  LET r == req[c]
      Row(k) == [name |-> r.username, password |-> r.password, cookie |-> k]
  IN  /\ r.method = "create_account"
      /\ \/ Select(c, "start", UsersNamed(r.username) = {}, 1, "insert_user")
         \/ /\ frame[c].at = "insert_user"
            /\ \E k \in Random :
                 /\ InsertableUser(Row(k))
                 /\ user' = user \cup {Row(k)}
                 /\ drawn' = drawn \cup {k}
            /\ UNCHANGED <<gazou, tag, gazou_tag, user_subscription,
                           tag_subscription, relay>>
            /\ Step(c, Wrote(Answered(c, frame[c], 0), TRUE))
         \/ Aborts(c, "insert_user",
                   \E k \in Random : ~InsertableUser(Row(k)))

\* The cookie is stored by one statement and read back by another.
Connect(c) ==
  LET r == req[c] IN
  /\ r.method = "connect"
  /\ \/ Select(c, "start", UsersNamed(r.username) # {}, 1, "select_password")
     \/ Select(c, "select_password",
               \E u \in UsersNamed(r.username) : u.password = r.password,
               2, "update_cookie")
     \/ NewRandomCookie(c, r.username, Goto(c, "select_cookie"))
     \/ /\ frame[c].at = "select_cookie"
        /\ UNCHANGED <<tables, drawn>>
        /\ \/ \E u \in UsersNamed(r.username) :
                Step(c, Answered(c, [frame[c] EXCEPT !.cookie = u.cookie], 0))
           \/ ReadBusy(c) /\ Answer(c, SPEC_ERR_INTERNAL_SRV)

Disconnect(c) ==
  /\ req[c].method = "disconnect"
  /\ \/ Authenticate(c, "update_cookie")
     \/ NewRandomCookie(c, frame[c].user, Answered(c, frame[c], 0))

----------------------------------------------------------------------------
(* Gazouillis.  new_gazou is a run of statements with no transaction around *)
(* them; a failure returns at once and leaves what was written before it.  *)

\* Mutant: the loop over the tags does not advance.
InsertTag_NoAdvance(c) ==
  /\ frame[c].at = "insert_tag"
  /\ \E t \in frame[c].todo : tag' = tag \cup {t}
  /\ UNCHANGED <<user, gazou, gazou_tag, user_subscription, tag_subscription,
                 relay, drawn, req, frame>>

\* Mutant: a tag that meets a lock is not inserted, and the loop goes on.
InsertTag_Skips(c) ==
  /\ frame[c].at = "insert_tag"
  /\ \E t \in frame[c].todo :
       /\ \/ tag' = tag \cup {t}
          \/ WriteBusy(c) /\ UNCHANGED tag
       /\ Step(c, [frame[c] EXCEPT !.todo = @ \ {t},
                     !.at = IF frame[c].todo = {t} THEN "insert_gazou" ELSE @])
  /\ UNCHANGED <<user, gazou, gazou_tag, user_subscription, tag_subscription,
                 relay, drawn>>

\* INSERT OR IGNORE INTO tag, once per tag of the request.
InsertTag(c) ==
  \/ /\ frame[c].at = "insert_tag"
     /\ \E t \in frame[c].todo :
          /\ tag' = tag \cup {t}
          /\ Step(c, Wrote([frame[c] EXCEPT !.todo = @ \ {t},
                              !.at = IF frame[c].todo = {t}
                                       THEN "insert_gazou" ELSE "insert_tag"],
                           t \notin tag))
     /\ UNCHANGED <<user, gazou, gazou_tag, user_subscription,
                    tag_subscription, relay, drawn>>
  \/ Aborts(c, "insert_tag", FALSE)

\* INSERT INTO gazou, then the loop over the tags starts again.
InsertGazou(c) ==
  LET row == [date |-> req[c].date, author |-> frame[c].user,
              content |-> req[c].content]
      f   == Wrote([frame[c] EXCEPT !.gid = Len(gazou) + 1], TRUE)
  IN  \/ /\ frame[c].at = "insert_gazou"
         /\ GazouUnique(row)
         /\ gazou' = Append(gazou, row)
         /\ UNCHANGED <<user, tag, gazou_tag, user_subscription,
                        tag_subscription, relay, drawn>>
         /\ Step(c, IF req[c].list_of_tags = {}
                      THEN Answered(c, f, 0)
                      ELSE [f EXCEPT !.at = "link_tag",
                                     !.todo = req[c].list_of_tags])
      \/ Aborts(c, "insert_gazou", ~GazouUnique(row))

\* Mutant: a tag that meets a lock is skipped.
LinkTag_Skips(c) ==
  /\ frame[c].at = "link_tag"
  /\ \E t \in frame[c].todo :
       LET f == [frame[c] EXCEPT !.todo = @ \ {t}] IN
       /\ \/ gazou_tag' = gazou_tag \cup {<<frame[c].gid, t>>}
          \/ WriteBusy(c) /\ UNCHANGED gazou_tag
       /\ Step(c, IF f.todo = {} THEN Answered(c, f, 0) ELSE f)
  /\ UNCHANGED <<user, gazou, tag, user_subscription, tag_subscription, relay,
                 drawn>>

\* Mutant: the id is asked for when the tag is linked, and is the last one.
LinkTag_Latest(c) ==
  /\ frame[c].at = "link_tag"
  /\ \/ \E t \in frame[c].todo :
          LET f == [frame[c] EXCEPT !.todo = @ \ {t}] IN
          /\ gazou_tag' = gazou_tag \cup {<<Len(gazou), t>>}
          /\ Step(c, IF f.todo = {} THEN Answered(c, f, 0) ELSE f)
     \/ WriteBusy(c) /\ Answer(c, SPEC_ERR_INTERNAL_SRV) /\ UNCHANGED gazou_tag
  /\ UNCHANGED <<user, gazou, tag, user_subscription, tag_subscription, relay,
                 drawn>>

\* INSERT OR IGNORE INTO gazou_tag, once per tag of the request.
LinkTag(c) ==
  \/ /\ frame[c].at = "link_tag"
     /\ \E t \in frame[c].todo :
          LET f == [frame[c] EXCEPT !.todo = @ \ {t}] IN
          /\ gazou_tag' = gazou_tag \cup {<<frame[c].gid, t>>}
          /\ Step(c, IF f.todo = {} THEN Answered(c, f, 0) ELSE f)
     /\ UNCHANGED <<user, gazou, tag, user_subscription, tag_subscription,
                    relay, drawn>>
  \/ Aborts(c, "link_tag", FALSE)

\* The length is looked at between two statements.
CheckLength(c) ==
  /\ frame[c].at = "check_length"
  /\ UNCHANGED <<tables, drawn>>
  /\ \/ req[c].content \in TooLong /\ Answer(c, 2)
     \/ /\ req[c].content \notin TooLong
        /\ Step(c, [frame[c] EXCEPT !.todo = req[c].list_of_tags,
                      !.at = IF req[c].list_of_tags = {}
                               THEN "insert_gazou" ELSE "insert_tag"])

SendGazou(c) ==
  /\ req[c].method = "send_gazou"
  /\ \/ Authenticate(c, "check_length")
     \/ CheckLength(c)
     \/ InsertTag(c)
     \/ InsertGazou(c)
     \/ LinkTag(c)

RelayGazou(c) ==
  LET r   == req[c]
      row == [gazou_id |-> r.id_gazouilli, retweeter |-> frame[c].user,
              retweet_date |-> r.date]
  IN  /\ r.method = "relay_gazou"
      /\ \/ Authenticate(c, "select_gazou")
         \/ Select(c, "select_gazou", r.id_gazouilli \in DOMAIN gazou, 1,
                   "select_relay")
         \/ Select(c, "select_relay",
                   \A q \in relay : \/ q.gazou_id # r.id_gazouilli
                                    \/ q.retweeter # frame[c].user,
                   2, "insert_relay")
         \/ /\ frame[c].at = "insert_relay"
            /\ row \notin relay
            /\ relay' = relay \cup {row}
            /\ UNCHANGED <<user, gazou, tag, gazou_tag, user_subscription,
                           tag_subscription, drawn>>
            /\ Step(c, Wrote(Answered(c, frame[c], 0), TRUE))
         \/ Aborts(c, "insert_relay", row \in relay)

\* The UNION query of get_gazou.
SelectPage(c) ==
  /\ frame[c].at = "select_page"
  /\ UNCHANGED <<tables, drawn>>
  /\ \/ \E P \in Pages(RelayedFor(frame[c].user) \cup WrittenFor(frame[c].user),
                       req[c].nb_gazou) :
          LET f == [frame[c] EXCEPT !.page = P, !.left = P,
                      !.pending = {frame[d].gid : d \in
                                     {e \in Conn : frame[e].at = "link_tag"}}]
          IN  Step(c, IF P = {} THEN Answered(c, f, 0)
                                ELSE [f EXCEPT !.at = "select_tags"])
     \/ ReadBusy(c) /\ Answer(c, SPEC_ERR_INTERNAL_SRV)

\* Mutant: the loop stops one row short.
SelectTags_OffByOne(c) ==
  /\ frame[c].at = "select_tags"
  /\ UNCHANGED <<tables, drawn>>
  /\ \E e \in frame[c].left :
       LET f == [frame[c] EXCEPT !.left = @ \ {e},
                   !.shown = @ \cup ({e} \X TagsOf(e.id))]
       IN  Step(c, IF Cardinality(f.left) <= 1 THEN Answered(c, f, 0) ELSE f)

\* fill_tags_in_gazou_array: one query per row of the page.
SelectTags(c) ==
  /\ frame[c].at = "select_tags"
  /\ UNCHANGED <<tables, drawn>>
  /\ \/ \E e \in frame[c].left :
          LET f == [frame[c] EXCEPT !.left = @ \ {e},
                      !.shown = @ \cup ({e} \X TagsOf(e.id))]
          IN  Step(c, IF f.left = {} THEN Answered(c, f, 0) ELSE f)
     \/ ReadBusy(c) /\ Answer(c, SPEC_ERR_INTERNAL_SRV)

GetGazou(c) ==
  /\ req[c].method = "get_gazou"
  /\ Authenticate(c, "select_page") \/ SelectPage(c) \/ SelectTags(c)

----------------------------------------------------------------------------
(* Subscriptions. *)

\* The write of a follow or unfollow method: T' is the table after it.
WriteUserSubscription(c, place, T) ==
  /\ frame[c].at = place
  /\ user_subscription' = T
  /\ UNCHANGED <<user, gazou, tag, gazou_tag, tag_subscription, relay, drawn>>
  /\ Step(c, Wrote(Answered(c, frame[c], 0), T # user_subscription))

WriteTagSubscription(c, place, T) ==
  /\ frame[c].at = place
  /\ tag_subscription' = T
  /\ UNCHANGED <<user, gazou, tag, gazou_tag, user_subscription, relay, drawn>>
  /\ Step(c, Wrote(Answered(c, frame[c], 0), T # tag_subscription))

FollowUser(c) ==
  LET r   == req[c]
      row == <<r.username, frame[c].user>>
  IN  /\ r.method = "follow_user"
      /\ \/ Authenticate(c, "select_user")
         \/ Select(c, "select_user", UsersNamed(r.username) # {}, 1,
                   "select_subscription")
         \/ Select(c, "select_subscription", row \notin user_subscription, 2,
                   "insert_subscription")
         \/ /\ row \notin user_subscription
            /\ WriteUserSubscription(c, "insert_subscription",
                                     user_subscription \cup {row})
         \/ Aborts(c, "insert_subscription", row \in user_subscription)

UnfollowUser(c) ==
  LET r   == req[c]
      row == <<r.username, frame[c].user>>
  IN  /\ r.method = "unfollow_user"
      /\ \/ Authenticate(c, "select_user")
         \/ Select(c, "select_user", UsersNamed(r.username) # {}, 1,
                   "select_subscription")
         \/ Select(c, "select_subscription", row \in user_subscription, 2,
                   "delete_subscription")
         \/ WriteUserSubscription(c, "delete_subscription",
                                  user_subscription \ {row})
         \/ Aborts(c, "delete_subscription", FALSE)

FollowTag(c) ==
  LET row == <<req[c].tag, frame[c].user>> IN
  /\ req[c].method = "follow_tag"
  /\ \/ Authenticate(c, "select_subscription")
     \/ Select(c, "select_subscription", row \notin tag_subscription, 1,
               "insert_subscription")
     \/ /\ row \notin tag_subscription
        /\ WriteTagSubscription(c, "insert_subscription",
                                tag_subscription \cup {row})
     \/ Aborts(c, "insert_subscription", row \in tag_subscription)

UnfollowTag(c) ==
  LET row == <<req[c].tag, frame[c].user>> IN
  /\ req[c].method = "unfollow_tag"
  /\ \/ Authenticate(c, "select_subscription")
     \/ Select(c, "select_subscription", row \in tag_subscription, 1,
               "delete_subscription")
     \/ WriteTagSubscription(c, "delete_subscription",
                             tag_subscription \ {row})
     \/ Aborts(c, "delete_subscription", FALSE)

\* The three list methods differ in the column they select.
List(c, method, rows) ==
  /\ req[c].method = method
  /\ \/ Authenticate(c, "select_list")
     \/ /\ frame[c].at = "select_list"
        /\ UNCHANGED <<tables, drawn>>
        /\ \/ Step(c, Answered(c, [frame[c] EXCEPT !.list = rows], 0))
           \/ ReadBusy(c) /\ Answer(c, SPEC_ERR_INTERNAL_SRV)

ListFollowedUsers(c) ==
  List(c, "list_followed_users", Followed(frame[c].user))
ListFollowedTags(c) ==
  List(c, "list_followed_tags", FollowedTags(frame[c].user))
ListMyFollowers(c) ==
  List(c, "list_my_followers", Followers(frame[c].user))

----------------------------------------------------------------------------
(* Dispatch, and the environment. *)

\* actual_dispatch on a message it cannot read, and not_implemented.
RefuseMessage(c) ==
  /\ frame[c].at = "start"
  /\ req[c].method \notin method_names
  /\ Answer(c, IF req[c].method = Unreadable THEN SPEC_ERR_FORMAT
                                             ELSE SPEC_ERR_NOT_IMPLEMENTED)
  /\ UNCHANGED <<tables, drawn>>

\* dispatch_request: the worker reads the next request of its connection.
DispatchRequest(c, r) ==
  /\ frame[c].at \in {"idle", "answered"}
  /\ r.method = "send_gazou" => Len(gazou) < MaxGazou
  /\ req' = [req EXCEPT ![c] = r]
  /\ frame' = [frame EXCEPT ![c] =
                 [Idle EXCEPT !.at = "start",
                    !.stale = r.cookie \in drawn /\ Owners(r.cookie) = {}]]
  /\ UNCHANGED <<tables, drawn>>

\* The locals of a request are gone: the worker was killed between two
\* statements, which leaves in the tables what was written and the client
\* without an answer; or the answer was taken and dispatch_request returned.
\* The slot may then serve a connection of a new client.
Ended(c) ==
  /\ frame[c].at # "idle"
  /\ frame' = [frame EXCEPT ![c] = Idle]
  /\ req' = [req EXCEPT ![c] = NoRequest]
  /\ UNCHANGED <<tables, drawn>>

Handle(c) ==
  \/ CreateAccount(c) \/ Connect(c) \/ Disconnect(c)
  \/ SendGazou(c) \/ RelayGazou(c) \/ GetGazou(c)
  \/ FollowUser(c) \/ UnfollowUser(c) \/ FollowTag(c) \/ UnfollowTag(c)
  \/ ListFollowedUsers(c) \/ ListFollowedTags(c) \/ ListMyFollowers(c)
  \/ RefuseMessage(c)

Next == \E c \in Conn :
  \/ Handle(c)
  \/ \E r \in Requests : DispatchRequest(c, r)
  \/ Ended(c)

Spec == Init /\ [][Next]_vars

\* A worker that has read a request runs: it is a process of its own and no
\* statement waits for another one.
LiveSpec == Spec /\ \A c \in Conn : WF_vars(Handle(c))

----------------------------------------------------------------------------
(* Properties. *)

TypeOK ==
  /\ StoreTypeOK
  /\ req \in [Conn -> Requests]
  /\ frame \in [Conn -> Frame]
  /\ drawn \subseteq Cookie

\* c has been answered a request of this method, with this code.
Got(c, method, code) ==
  frame[c].at = "answered" /\ req[c].method = method /\ frame[c].code = code

\* create_account answered without error: the name belongs to one account,
\* with the password of this request.  Two workers may both have seen the name
\* free before either inserted it (methods.c:222-240); the loser must not be
\* told that the account is his.
AckedAccountIsMine ==
  \A c \in Conn : Got(c, "create_account", 0) =>
    {u.password : u \in UsersNamed(req[c].username)} = {req[c].password}

\* send_gazou or relay_gazou answered without error: the gazouilli is stored,
\* by the user whose cookie was sent, with every tag of the request, or the
\* relay is, and stays so: no result of a statement of new_gazou
\* (methods.c:142-182) may be dropped, and no worker may reach the rows of
\* another one.
AckedPostIsComplete ==
  \A c \in Conn :
    /\ Got(c, "send_gazou", 0) =>
         /\ frame[c].gid \in DOMAIN gazou
         /\ gazou[frame[c].gid] = [date |-> req[c].date,
                                   author |-> frame[c].user,
                                   content |-> req[c].content]
         /\ TagsOf(frame[c].gid) = req[c].list_of_tags
    /\ Got(c, "relay_gazou", 0) =>
         [gazou_id |-> req[c].id_gazouilli, retweeter |-> frame[c].user,
          retweet_date |-> req[c].date] \in relay

\* send_gazou refused after the gazouilli was inserted (methods.c:169-180): what
\* stays is the text of this request under the name of its sender, with no tag
\* but its own, and not all of them unless the refusal is for a missing id; and
\* so it remains, whoever posts meanwhile.
HalfPostsAreOwn ==
  \A c \in Conn :
    /\ frame[c].at = "answered" /\ frame[c].code # 0
    /\ req[c].method = "send_gazou" /\ frame[c].gid # 0
    => /\ frame[c].gid \in DOMAIN gazou
       /\ gazou[frame[c].gid] = [date |-> req[c].date,
                                 author |-> frame[c].user,
                                 content |-> req[c].content]
       /\ TagsOf(frame[c].gid) \subseteq req[c].list_of_tags
       /\ req[c].id => TagsOf(frame[c].gid) # req[c].list_of_tags

\* A request that is refused changes nothing.  The exceptions are the two
\* handlers that write and then execute one more statement, when that one
\* fails (error 11), and requests without id: there the client cannot tell
\* from the answer whether to retry.
RefusalsAreClean ==
  \A c \in Conn :
    frame[c].at = "answered" /\ frame[c].code # 0 /\ frame[c].wrote =>
      \/ ~req[c].id
      \/ /\ frame[c].code = SPEC_ERR_INTERNAL_SRV
         /\ req[c].method \in {"send_gazou", "connect"}

AuthenticatedMethods == method_names \ {"create_account", "connect"}

\* As long as RANDOM() does not repeat itself, a cookie that has been replaced
\* never authenticates again, whatever the workers interleave: a request that
\* arrives with it is refused and changes nothing.
RevokedStaysRevoked ==
  ~Redraw => \A c \in Conn :
    /\ frame[c].at = "answered"
    /\ frame[c].stale
    /\ req[c].method \in AuthenticatedMethods
    => /\ ~frame[c].wrote
       /\ frame[c].code \in {SPEC_ERR_INCORRECT_COOKIE, SPEC_ERR_FORMAT}

\* disconnect answered without error: its cookie authenticates nobody, even
\* when a connect of the same account ran between the two statements.
LogoutRevokes ==
  ~Redraw => \A c \in Conn :
    Got(c, "disconnect", 0) => Owners(req[c].cookie) = {}

\* The cookie that connect hands out opens the account that was asked for and no
\* other one.  Nobody checks that a random cookie is free, on the ground that a
\* collision is unlikely and the constraint of the table refuses it
\* (methods.c:233-235, 107-114); it is drawn by one statement and read back by
\* another, between which all accounts may change theirs.
HandedCookieIsMine ==
  [][\A c \in Conn : Got(c, "connect", 0)' /\ ~Got(c, "connect", 0) =>
       Owners(frame[c].cookie)' = {req[c].username}]_vars

\* get_gazou reads the page and the tags by separate statements, while others
\* post.  Every gazouilli that was not half-posted when the page was read is
\* delivered with all its tags.
SettledGazouShownWhole ==
  \A c \in Conn : Got(c, "get_gazou", 0) =>
    \A e \in frame[c].page : e.id \notin frame[c].pending =>
      {t \in Tag : <<e, t>> \in frame[c].shown} = TagsOf(e.id)

\* A worker that has read a request answers it, unless it is killed, however
\* busy the other workers keep the database.
EveryRequestAnswered ==
  \A c \in Conn : frame[c].at \notin {"idle", "answered"}
                      ~> frame[c].at \in {"idle", "answered"}

----------------------------------------------------------------------------
(* What the specification of the protocol or a comment of the code says, and *)
(* the code does not do.                                                     *)

\* While nobody connects or disconnects, error 14 means that the cookie is
\* nobody's ("une erreur liée à un cookie invalide", spec_protocole.md:127).
\* The handlers take a lock met by the SELECT for an unknown cookie
\* (methods.c:127-129, and 326-329 for one of them).
RefusedCookieIsInvalid ==
  \A c \in Conn :
    frame[c].at = "answered" /\ frame[c].code = SPEC_ERR_INCORRECT_COOKIE
      => Owners(req[c].cookie) = {}

----------------------------------------------------------------------------
(* Inductive invariants. *)

\* Places a worker reaches after the authentication of an authenticated
\* method; create_account and connect share "update_cookie" with disconnect.
Authenticated(c) ==
  /\ req[c].method \in AuthenticatedMethods
  /\ frame[c].at \notin {"idle", "start", "answered"}

\* What the worker of c has checked or written before the statement it is at;
\* it stays true until the worker writes, because accounts, tags and gazouillis
\* are never deleted.
CheckedBy(c) ==
  LET r == req[c]
      f == frame[c]
  IN  /\ Authenticated(c) => f.user \in Registered
      /\ f.at \in {"select_subscription", "insert_subscription"}
           /\ r.method = "follow_user" => r.username \in Registered
      /\ f.at \in {"check_length", "insert_tag", "insert_gazou", "link_tag"}
           => r.method = "send_gazou"
      /\ f.at = "insert_tag" => r.list_of_tags \ f.todo \subseteq tag
      /\ f.at \in {"insert_gazou", "link_tag"} => r.list_of_tags \subseteq tag
      /\ f.at = "link_tag" => /\ f.gid \in DOMAIN gazou
                              /\ f.todo \subseteq r.list_of_tags
      /\ f.at = "insert_relay" => r.id_gazouilli \in DOMAIN gazou
      /\ f.at = "select_relay" => r.id_gazouilli \in DOMAIN gazou

ReferencesInv ==
  TypeOK /\ ReferencesHold /\ \A c \in Conn : CheckedBy(c)

\* Cookies that are or were in the table are in "drawn", one owner each.
CookiesDrawn ==
  /\ UserUnique(user)
  /\ \A u \in user : u.cookie \in drawn

\* Without repetition a cookie that is nobody's stays nobody's.
SessionsInv ==
  /\ TypeOK
  /\ CookiesDrawn
  /\ ~Redraw => \A c \in Conn :
       /\ frame[c].stale =>
            /\ req[c].cookie \in drawn
            /\ Owners(req[c].cookie) = {}
            /\ req[c].method \in AuthenticatedMethods =>
                 /\ frame[c].at \in {"start", "answered"}
                 /\ ~frame[c].wrote
       /\ req[c].method = "disconnect" /\ frame[c].at = "update_cookie" =>
            /\ req[c].cookie \in drawn
            /\ Owners(req[c].cookie) \subseteq {frame[c].user}
       /\ Got(c, "disconnect", 0) => req[c].cookie \in drawn
  /\ RevokedStaysRevoked
  /\ LogoutRevokes
============================================================================
