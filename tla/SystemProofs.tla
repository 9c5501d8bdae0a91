---------------------------- MODULE SystemProofs ----------------------------
(***************************************************************************)
(* Proofs about System: clients and workers together, for every value of   *)
(* the constants.  The steps of the workers are steps of Methods, so that  *)
(* all that is proved of Methods holds here; what is new is the pairing of *)
(* each client with its worker.                                            *)
(*                                                                         *)
(* A client relies on three facts about the answer that it takes, which it *)
(* does not look at: that it answers the request it waits for, that its    *)
(* code is one its command knows, and that the cookie it carries belongs   *)
(* to the name it has sent.                                                *)
(***************************************************************************)
EXTENDS System, AnswersProofs

----------------------------------------------------------------------------
(* The inductive invariant. *)

\* The codes with which a handler refuses for a reason of its own.
OwnCodes(m) ==
  {k \in {1, 2} :
     \/ k = 1 /\ m \in {"create_account", "connect", "follow_user",
                        "unfollow_user", "follow_tag", "unfollow_tag",
                        "relay_gazou"}
     \/ k = 2 /\ m \in {"connect", "send_gazou", "follow_user",
                        "unfollow_user", "relay_gazou"}}

Codes(m) == OwnCodes(m) \cup {0, 10, 11, 13, 14}

\* The answer of the worker of c: a code of its method, and with the success
\* of connect a cookie that nobody else has been given since.
AnswerOf(c) ==
  /\ frame[c].code \in Codes(req[c].method)
  /\ frame[c].cookie \in Cookie \cup {C!NotConnected}
  /\ Got(c, "connect", 0) =>
       /\ frame[c].cookie \in drawn
       /\ ~Redraw => Owners(frame[c].cookie) \subseteq {req[c].username}

\* Where the client of c is, and whether it is logged in, agree.
ClientOf(c) ==
  LET f == cli[c]
  IN  /\ f.cookie = C!NotConnected <=> f.username = ""
      /\ f.at = "waiting" => f.command \in C!Menu(c) \ {"quit"}
      /\ f.at \in {"choosing", "relaying"} =>
           f.command = "relay_gazou" /\ f.cookie # C!NotConnected

\* The request that the worker of c has is the one its client waits for.
PairOf(c) ==
  LET f == cli[c]
      r == req[c]
  IN  link[c] = "up" /\ f.at # "gone" =>
        IF C!Waiting(c)
          THEN /\ frame[c].at # "idle"
               /\ r.method = C!Asked(c) /\ r.id
               /\ f.at = "waiting" => r.username = f.named
               /\ f.cookie # C!NotConnected => r.cookie = f.cookie
          ELSE frame[c].at \in {"idle", "answered"}

\* The cookie of the client is its own, and so is what is done with it.
MineOf(c) ==
  LET f == cli[c]
  IN  /\ f.cookie # C!NotConnected =>
           f.cookie \in drawn /\ Owners(f.cookie) \subseteq {f.username}
      /\ link[c] = "up" /\ C!Waiting(c) /\ req[c].method \in AuthenticatedMethods
           => frame[c].user \in {"", f.username}

ExitOf(c) ==
  cli[c].at = "gone" /\ cli[c].why = "code" =>
    \/ cli[c].command = "unfollow_user" /\ cli[c].code = 2
    \/ cli[c].command = "relay_gazou" /\ cli[c].code = 0

InStepOf(c) ==
  /\ AnswerOf(c) /\ ClientOf(c) /\ PairOf(c) /\ ExitOf(c)
  /\ ~Redraw => MineOf(c)

SystemInv == C!TypeOK /\ \A c \in Conn : InStepOf(c)

----------------------------------------------------------------------------
(* What a step of a handler may do to the answer it prepares. *)

Serving(c) ==
  /\ frame'[c].at # "idle"
  /\ frame'[c].user \in {frame[c].user} \cup Owners(req[c].cookie)
  /\ AnswerOf(c)'

\* What the handlers assume of their worker.
Ready(c) ==
  TypeOK /\ CleanOf(c) /\ AnswerOf(c) /\ frame[c].at \notin {"idle", "answered"}

LEMMA EveryMethodCodes ==
  ASSUME NEW m
  PROVE  {0, 10, 11, 13, 14} \subseteq Codes(m) /\ Codes(m) \subseteq Nat
BY DEF Codes, OwnCodes

LEMMA MethodCodes ==
  ASSUME NEW m
  PROVE  /\ m \in {"create_account", "connect", "follow_user", "unfollow_user",
                   "follow_tag", "unfollow_tag", "relay_gazou"}
              => 1 \in Codes(m) \ {0}
         /\ m \in {"connect", "send_gazou", "follow_user", "unfollow_user",
                   "relay_gazou"}
              => 2 \in Codes(m) \ {0}
BY DEF Codes, OwnCodes

\* A new frame that is no answer to connect.
LEMMA FrameServing ==
  ASSUME NEW c \in Conn, Ready(c), NEW f, Step(c, f), f.at # "idle",
         f.user \in {frame[c].user} \cup Owners(req[c].cookie),
         f.code \in Codes(req[c].method),
         f.cookie \in Cookie \cup {C!NotConnected},
         f.at = "answered" /\ f.code = 0 => req[c].method # "connect"
  PROVE  Serving(c)
<1>1. frame'[c] = f /\ req'[c] = req[c]
  BY StepFrame DEF Ready
<1>2. ~Got(c, "connect", 0)'
  BY <1>1 DEF Got
<1>3. QED
  BY <1>1, <1>2 DEF Serving, AnswerOf

\* The fields of an answer that matter here.
LEMMA AnsweredCookie ==
  ASSUME NEW c \in Conn, NEW f \in Frame, NEW code
  PROVE  Answered(c, f, code).cookie \in {f.cookie, -1}
BY DEF Answered, Frame

LEMMA RefusalServing ==
  ASSUME NEW c \in Conn, Ready(c), NEW k \in Codes(req[c].method) \ {0},
         Answer(c, k)
  PROVE  Serving(c)
<1> DEFINE f == Answered(c, frame[c], k)
<1>1. frame[c] \in Frame /\ 10 \in Codes(req[c].method)
  BY RequestType, EveryMethodCodes DEF Ready
<1>2. /\ f.at = "answered" /\ f.user = frame[c].user
      /\ f.code \in Codes(req[c].method) \ {0}
      /\ f.cookie \in Cookie \cup {C!NotConnected}
  BY <1>1, AnsweredFields, AnsweredCookie
  DEF Ready, AnswerOf, C!NotConnected, SPEC_ERR_FORMAT
<1>3. Step(c, f)
  BY DEF Answer
<1> HIDE DEF f
<1>4. QED
  BY <1>2, <1>3, FrameServing

\* A frame at another place, with the same answer so far.
LEMMA OnServing ==
  ASSUME NEW c \in Conn, Ready(c), NEW f, Step(c, f),
         f.at \notin {"idle", "answered"},
         f.user \in {frame[c].user} \cup Owners(req[c].cookie),
         f.code = frame[c].code, f.cookie = frame[c].cookie
  PROVE  Serving(c)
BY FrameServing DEF Ready, AnswerOf

\* A success, of another method than connect.
LEMMA SuccessServing ==
  ASSUME NEW c \in Conn, Ready(c), NEW f \in Frame, NEW change \in BOOLEAN,
         \/ Step(c, Answered(c, f, 0))
         \/ Step(c, Wrote(Answered(c, f, 0), change)),
         f.user = frame[c].user, f.code = frame[c].code,
         f.cookie = frame[c].cookie, req[c].method # "connect"
  PROVE  Serving(c)
<1> DEFINE g == Answered(c, f, 0)
<1>1. g \in Frame /\ 10 \in Codes(req[c].method)
  BY AnsweredType, EveryMethodCodes
<1>2. /\ g.at = "answered" /\ g.user = frame[c].user
      /\ g.code \in Codes(req[c].method)
      /\ g.cookie \in Cookie \cup {C!NotConnected}
  BY <1>1, AnsweredFields, AnsweredCookie
  DEF Ready, AnswerOf, C!NotConnected, SPEC_ERR_FORMAT
<1> HIDE DEF g
<1>3. /\ Wrote(g, change).at = "answered"
      /\ Wrote(g, change).user = frame[c].user
      /\ Wrote(g, change).code \in Codes(req[c].method)
      /\ Wrote(g, change).cookie \in Cookie \cup {C!NotConnected}
  BY <1>1, <1>2 DEF Wrote, Frame
<1>4. CASE Step(c, g)
  BY <1>2, <1>4, FrameServing
<1>5. CASE Step(c, Wrote(g, change))
  <2>1. PICK h : h = Wrote(g, change)
    OBVIOUS
  <2>2. QED
    BY <1>3, <1>5, <2>1, FrameServing
<1>6. QED
  BY <1>4, <1>5 DEF g

LEMMA GotoServing ==
  ASSUME TypeOK, NEW c \in Conn, NEW place, NEW n
  PROVE  /\ Goto(c, place).cookie = frame[c].cookie
         /\ [Goto(c, place) EXCEPT !.user = n].cookie = frame[c].cookie
BY RequestType DEF Goto, Frame

LEMMA SelectServing ==
  ASSUME NEW c \in Conn, Ready(c), NEW place, NEW ok, NEW code, NEW next,
         Select(c, place, ok, code, next), next \notin {"idle", "answered"},
         code \in Codes(req[c].method) \ {0}
  PROVE  Serving(c)
<1>1. TypeOK /\ 11 \in Codes(req[c].method) \ {0}
  BY EveryMethodCodes DEF Ready
<1>2. CASE Step(c, Goto(c, next))
  BY <1>1, <1>2, GotoKeeps, GotoServing, OnServing
<1>3. CASE Answer(c, code) \/ Answer(c, SPEC_ERR_INTERNAL_SRV)
  BY <1>1, <1>3, RefusalServing DEF SPEC_ERR_INTERNAL_SRV
<1>4. QED
  BY <1>2, <1>3 DEF Select

LEMMA AuthenticateServing ==
  ASSUME NEW c \in Conn, Ready(c), NEW next, Authenticate(c, next),
         next \notin {"idle", "answered"}
  PROVE  Serving(c)
<1>1. TypeOK /\ 14 \in Codes(req[c].method) \ {0}
  BY EveryMethodCodes DEF Ready
<1>2. ASSUME NEW n \in Owners(req[c].cookie),
             Step(c, [Goto(c, next) EXCEPT !.user = n])
      PROVE  Serving(c)
  <2>1. PICK f : f = [Goto(c, next) EXCEPT !.user = n]
    OBVIOUS
  <2>2. /\ f.at = next /\ f.user = n /\ f.code = frame[c].code
        /\ f.cookie = frame[c].cookie /\ Step(c, f)
    BY <1>1, <1>2, <2>1, GotoKeeps, GotoServing
  <2>3. QED
    BY <2>2, OnServing
<1>3. CASE Answer(c, SPEC_ERR_INCORRECT_COOKIE)
  BY <1>1, <1>3, RefusalServing DEF SPEC_ERR_INCORRECT_COOKIE
<1>4. QED
  BY <1>2, <1>3 DEF Authenticate

LEMMA BusyServing ==
  ASSUME NEW c \in Conn, Ready(c), Answer(c, SPEC_ERR_INTERNAL_SRV)
  PROVE  Serving(c)
BY EveryMethodCodes, RefusalServing DEF SPEC_ERR_INTERNAL_SRV

LEMMA AbortsServing ==
  ASSUME NEW c \in Conn, Ready(c), NEW place, NEW clash, Aborts(c, place, clash)
  PROVE  Serving(c)
BY BusyServing DEF Aborts

LEMMA LastWriteServing ==
  ASSUME NEW c \in Conn, Ready(c), NEW change \in BOOLEAN,
         Step(c, Wrote(Answered(c, frame[c], 0), change)),
         req[c].method # "connect"
  PROVE  Serving(c)
BY RequestType, SuccessServing DEF Ready

----------------------------------------------------------------------------
(* The handlers. *)

LEMMA FollowServing ==
  ASSUME NEW c \in Conn, Ready(c),
         FollowUser(c) \/ UnfollowUser(c) \/ FollowTag(c) \/ UnfollowTag(c)
  PROVE  Serving(c)
<1>1. req[c].method # "connect"
  BY DEF FollowUser, UnfollowUser, FollowTag, UnfollowTag
<1>2. ASSUME NEW place, NEW T,
             WriteUserSubscription(c, place, T) \/ WriteTagSubscription(c, place, T)
      PROVE  Serving(c)
  BY <1>1, <1>2, LastWriteServing
  DEF WriteUserSubscription, WriteTagSubscription
<1>3. ASSUME NEW next, Authenticate(c, next),
             next \in {"select_user", "select_subscription"}
      PROVE  Serving(c)
  BY <1>3, AuthenticateServing
<1>4. CASE FollowUser(c)
  <2> DEFINE row == <<req[c].username, frame[c].user>>
  <2>1. req[c].method = "follow_user"
    BY <1>4 DEF FollowUser
  <2>2. CASE Authenticate(c, "select_user")
    BY <1>3, <2>2
  <2>3. CASE Select(c, "select_user", UsersNamed(req[c].username) # {}, 1,
                    "select_subscription")
    BY <2>1, <2>3, MethodCodes, SelectServing
  <2>4. CASE Select(c, "select_subscription", row \notin user_subscription, 2,
                    "insert_subscription")
    BY <2>1, <2>4, MethodCodes, SelectServing
  <2>5. CASE WriteUserSubscription(c, "insert_subscription",
                                   user_subscription \cup {row})
    BY <1>2, <2>5
  <2>6. CASE Aborts(c, "insert_subscription", row \in user_subscription)
    BY <2>6, AbortsServing
  <2>7. QED
    BY <1>4, <2>2, <2>3, <2>4, <2>5, <2>6 DEF FollowUser
<1>5. CASE UnfollowUser(c)
  <2> DEFINE row == <<req[c].username, frame[c].user>>
  <2>1. req[c].method = "unfollow_user"
    BY <1>5 DEF UnfollowUser
  <2>2. CASE Authenticate(c, "select_user")
    BY <1>3, <2>2
  <2>3. CASE Select(c, "select_user", UsersNamed(req[c].username) # {}, 1,
                    "select_subscription")
    BY <2>1, <2>3, MethodCodes, SelectServing
  <2>4. CASE Select(c, "select_subscription", row \in user_subscription, 2,
                    "delete_subscription")
    BY <2>1, <2>4, MethodCodes, SelectServing
  <2>5. CASE WriteUserSubscription(c, "delete_subscription",
                                   user_subscription \ {row})
    BY <1>2, <2>5
  <2>6. CASE Aborts(c, "delete_subscription", FALSE)
    BY <2>6, AbortsServing
  <2>7. QED
    BY <1>5, <2>2, <2>3, <2>4, <2>5, <2>6 DEF UnfollowUser
<1>6. CASE FollowTag(c)
  <2> DEFINE row == <<req[c].tag, frame[c].user>>
  <2>1. req[c].method = "follow_tag"
    BY <1>6 DEF FollowTag
  <2>2. CASE Authenticate(c, "select_subscription")
    BY <1>3, <2>2
  <2>3. CASE Select(c, "select_subscription", row \notin tag_subscription, 1,
                    "insert_subscription")
    BY <2>1, <2>3, MethodCodes, SelectServing
  <2>4. CASE WriteTagSubscription(c, "insert_subscription",
                                  tag_subscription \cup {row})
    BY <1>2, <2>4
  <2>5. CASE Aborts(c, "insert_subscription", row \in tag_subscription)
    BY <2>5, AbortsServing
  <2>6. QED
    BY <1>6, <2>2, <2>3, <2>4, <2>5 DEF FollowTag
<1>7. CASE UnfollowTag(c)
  <2> DEFINE row == <<req[c].tag, frame[c].user>>
  <2>1. req[c].method = "unfollow_tag"
    BY <1>7 DEF UnfollowTag
  <2>2. CASE Authenticate(c, "select_subscription")
    BY <1>3, <2>2
  <2>3. CASE Select(c, "select_subscription", row \in tag_subscription, 1,
                    "delete_subscription")
    BY <2>1, <2>3, MethodCodes, SelectServing
  <2>4. CASE WriteTagSubscription(c, "delete_subscription",
                                  tag_subscription \ {row})
    BY <1>2, <2>4
  <2>5. CASE Aborts(c, "delete_subscription", FALSE)
    BY <2>5, AbortsServing
  <2>6. QED
    BY <1>7, <2>2, <2>3, <2>4, <2>5 DEF UnfollowTag
<1>8. QED
  BY <1>4, <1>5, <1>6, <1>7

LEMMA ListServing ==
  ASSUME NEW c \in Conn, Ready(c), NEW method, method # "connect",
         NEW rows \in SUBSET (Name \cup Tag), List(c, method, rows)
  PROVE  Serving(c)
<1>1. CASE Authenticate(c, "select_list")
  BY <1>1, AuthenticateServing
<1>2. CASE Answer(c, SPEC_ERR_INTERNAL_SRV)
  BY <1>2, BusyServing
<1>3. CASE Step(c, Answered(c, [frame[c] EXCEPT !.list = rows], 0))
  <2>1. PICK f : f = [frame[c] EXCEPT !.list = rows]
    OBVIOUS
  <2>2. /\ f \in Frame /\ f.user = frame[c].user /\ f.code = frame[c].code
        /\ f.cookie = frame[c].cookie
    BY <2>1, RequestType DEF Ready, Frame
  <2>3. Step(c, Answered(c, f, 0)) /\ req[c].method # "connect"
    BY <1>3, <2>1 DEF List
  <2>4. QED
    BY <2>2, <2>3, SuccessServing
<1>4. QED
  BY <1>1, <1>2, <1>3 DEF List

LEMMA CreateAccountServing ==
  ASSUME NEW c \in Conn, Ready(c), CreateAccount(c)
  PROVE  Serving(c)
<1>1. req[c].method = "create_account"
  BY DEF CreateAccount
<1>2. CASE Select(c, "start", UsersNamed(req[c].username) = {}, 1, "insert_user")
  BY <1>1, <1>2, MethodCodes, SelectServing
<1>3. CASE Step(c, Wrote(Answered(c, frame[c], 0), TRUE))
  BY <1>1, <1>3, LastWriteServing
<1>4. ASSUME NEW clash, Aborts(c, "insert_user", clash) PROVE Serving(c)
  BY <1>4, AbortsServing
<1>5. QED
  BY <1>2, <1>3, <1>4 DEF CreateAccount

LEMMA DisconnectServing ==
  ASSUME NEW c \in Conn, Ready(c), Disconnect(c)
  PROVE  Serving(c)
<1>1. req[c].method = "disconnect"
  BY DEF Disconnect
<1>2. CASE Authenticate(c, "update_cookie")
  BY <1>2, AuthenticateServing
<1>3. CASE Step(c, Wrote(Answered(c, frame[c], 0), TRUE))
  BY <1>1, <1>3, LastWriteServing
<1>4. ASSUME NEW clash, Aborts(c, "update_cookie", clash) PROVE Serving(c)
  BY <1>4, AbortsServing
<1>5. QED
  BY <1>2, <1>3, <1>4 DEF Disconnect, NewRandomCookie

\* connect answers with the cookie of the account it was asked for, which no
\* other account holds.
LEMMA ConnectServing ==
  ASSUME NEW c \in Conn, Ready(c), CookiesDrawn, Connect(c)
  PROVE  Serving(c)
<1>1. /\ req[c].method = "connect" /\ TypeOK /\ frame[c] \in Frame
      /\ CleanOf(c)
  BY RequestType DEF Connect, Ready
<1>2. ASSUME NEW ok, Select(c, "start", ok, 1, "select_password")
      PROVE  Serving(c)
  BY <1>1, <1>2, MethodCodes, SelectServing
<1>3. ASSUME NEW ok, Select(c, "select_password", ok, 2, "update_cookie")
      PROVE  Serving(c)
  BY <1>1, <1>3, MethodCodes, SelectServing
<1>4. CASE Step(c, Wrote(Goto(c, "select_cookie"), TRUE))
  <2>1. PICK f : f = Wrote(Goto(c, "select_cookie"), TRUE)
    OBVIOUS
  <2>2. Goto(c, "select_cookie") \in Frame
    BY <1>1 DEF Goto, Frame, Place, ReadAt
  <2>3. /\ f.at = "select_cookie" /\ f.user = frame[c].user
        /\ f.code = frame[c].code /\ f.cookie = frame[c].cookie
    <3> DEFINE g == Goto(c, "select_cookie")
    <3>1. /\ g.at = "select_cookie" /\ g.user = frame[c].user
          /\ g.code = frame[c].code /\ g.cookie = frame[c].cookie
      BY <1>1 DEF Goto, Frame
    <3>2. f = Wrote(g, TRUE) /\ g \in Frame
      BY <2>1, <2>2
    <3> HIDE DEF g
    <3>3. f.at = g.at /\ f.user = g.user /\ f.code = g.code /\ f.cookie = g.cookie
      BY <3>2 DEF Wrote, Frame
    <3>4. QED
      BY <3>1, <3>3
  <2>4. QED
    BY <1>4, <2>1, <2>3, OnServing
<1>5. ASSUME NEW clash, Aborts(c, "update_cookie", clash) PROVE Serving(c)
  BY <1>5, AbortsServing
<1>6. ASSUME UNCHANGED <<tables, drawn>>, NEW u \in UsersNamed(req[c].username),
             Step(c, Answered(c, [frame[c] EXCEPT !.cookie = u.cookie], 0))
      PROVE  Serving(c)
  <2> DEFINE f == [frame[c] EXCEPT !.cookie = u.cookie]
             g == Answered(c, f, 0)
  <2>1. u \in user /\ u.name = req[c].username /\ u.cookie \in Cookie \cap drawn
        /\ u.cookie \in Int
    BY <1>1, CookieIsInt
    DEF UsersNamed, TypeOK, StoreTypeOK, UserRow, CookiesDrawn, Ready
  <2>2. f \in Frame /\ f.cookie = u.cookie /\ f.user = frame[c].user
        /\ f.code = frame[c].code
    BY <1>1, <2>1 DEF Frame
  <2> HIDE DEF f
  <2>3. /\ g.at = "answered" /\ g.user = frame[c].user
        /\ g.cookie \in {u.cookie, -1} /\ (req[c].id => g.cookie = u.cookie)
        /\ g.code = IF req[c].id THEN frame[c].code ELSE 10
    BY <2>2, AnsweredFields DEF Answered, Frame, SPEC_ERR_FORMAT
  <2>4. frame'[c] = g /\ req'[c] = req[c]
    BY <1>1, <1>6, StepFrame DEF f
  <2> HIDE DEF g
  <2>5. g.code \in Codes(req[c].method) /\ g.cookie \in Cookie \cup {C!NotConnected}
    BY <2>1, <2>3, EveryMethodCodes DEF Ready, AnswerOf, C!NotConnected
  <2>6. PICK j : j = u.cookie
    OBVIOUS
  <2>7. Owners(j)' \subseteq {req[c].username} /\ j \in drawn'
    <3>1. Owners(j) \subseteq {req[c].username}
      BY <2>1, <2>6 DEF Owners, CookiesDrawn, UserUnique
    <3>2. QED
      BY <1>6, <2>1, <2>6, <3>1 DEF Owners, tables
  <2>8. frame'[c].code = 0 => frame'[c].cookie = j
    BY <2>3, <2>4, <2>6
  <2>9. frame'[c].code = 0 => Owners(frame[c].cookie)' = Owners(j)'
    BY <2>8 DEF Owners
  <2>10. AnswerOf(c)'
    BY <2>4, <2>5, <2>7, <2>8, <2>9 DEF AnswerOf, Got
  <2>11. QED
    BY <2>3, <2>4, <2>10 DEF Serving
<1>7. CASE Answer(c, SPEC_ERR_INTERNAL_SRV)
  BY <1>7, BusyServing
<1>8. QED
  BY <1>2, <1>3, <1>4, <1>5, <1>6, <1>7 DEF Connect, NewRandomCookie

LEMMA RelayGazouServing ==
  ASSUME NEW c \in Conn, Ready(c), RelayGazou(c)
  PROVE  Serving(c)
<1>1. req[c].method = "relay_gazou"
  BY DEF RelayGazou
<1>2. CASE Authenticate(c, "select_gazou")
  BY <1>2, AuthenticateServing
<1>3. ASSUME NEW ok, Select(c, "select_gazou", ok, 1, "select_relay")
      PROVE  Serving(c)
  BY <1>1, <1>3, MethodCodes, SelectServing
<1>4. ASSUME NEW ok, Select(c, "select_relay", ok, 2, "insert_relay")
      PROVE  Serving(c)
  BY <1>1, <1>4, MethodCodes, SelectServing
<1>5. CASE Step(c, Wrote(Answered(c, frame[c], 0), TRUE))
  BY <1>1, <1>5, LastWriteServing
<1>6. ASSUME NEW clash, Aborts(c, "insert_relay", clash) PROVE Serving(c)
  BY <1>6, AbortsServing
<1>7. QED
  BY <1>2, <1>3, <1>4, <1>5, <1>6 DEF RelayGazou

LEMMA SendGazouServing ==
  ASSUME NEW c \in Conn, Ready(c), SendGazou(c)
  PROVE  Serving(c)
<1>1. /\ req[c].method = "send_gazou" /\ TypeOK /\ frame[c] \in Frame
      /\ req[c].list_of_tags \in SUBSET Tag
  BY RequestType DEF SendGazou, Ready, Request
<1>2. CASE Authenticate(c, "check_length")
  BY <1>2, AuthenticateServing
<1>3. CASE Answer(c, 2)
  BY <1>1, <1>3, MethodCodes, RefusalServing
<1>4. ASSUME NEW place, NEW clash, Aborts(c, place, clash) PROVE Serving(c)
  BY <1>4, AbortsServing
<1>5. ASSUME NEW f \in Frame, NEW change \in BOOLEAN,
             Step(c, f) \/ Step(c, Wrote(f, change)),
             f.at \in {"insert_tag", "insert_gazou", "link_tag"},
             f.user = frame[c].user, f.code = frame[c].code,
             f.cookie = frame[c].cookie
      PROVE  Serving(c)
  <2>1. PICK g : Step(c, g) /\ g \in {f, Wrote(f, change)}
    BY <1>5
  <2>2. /\ g.at = f.at /\ g.user = f.user /\ g.code = f.code
        /\ g.cookie = f.cookie
    BY <1>5, <2>1 DEF Wrote, Frame
  <2>3. QED
    BY <1>5, <2>1, <2>2, OnServing
<1>6. CASE CheckLength(c)
  <2> DEFINE f == [frame[c] EXCEPT !.todo = req[c].list_of_tags,
                     !.at = IF req[c].list_of_tags = {}
                              THEN "insert_gazou" ELSE "insert_tag"]
  <2>1. /\ f \in Frame /\ f.at \in {"insert_tag", "insert_gazou"}
        /\ f.user = frame[c].user /\ f.code = frame[c].code
        /\ f.cookie = frame[c].cookie
    BY <1>1 DEF Frame, Place, WriteAt
  <2>2. Answer(c, 2) \/ Step(c, f)
    BY <1>6 DEF CheckLength
  <2> HIDE DEF f
  <2>3. QED
    BY <1>3, <1>5, <2>1, <2>2
<1>7. CASE InsertTag(c)
  <2>1. ASSUME NEW t \in frame[c].todo,
               Step(c, Wrote([frame[c] EXCEPT !.todo = @ \ {t},
                                !.at = IF frame[c].todo = {t}
                                         THEN "insert_gazou" ELSE "insert_tag"],
                             t \notin tag))
        PROVE  Serving(c)
    <3> DEFINE f == [frame[c] EXCEPT !.todo = @ \ {t},
                       !.at = IF frame[c].todo = {t}
                                THEN "insert_gazou" ELSE "insert_tag"]
    <3>1. /\ f \in Frame /\ f.at \in {"insert_tag", "insert_gazou"}
          /\ f.user = frame[c].user /\ f.code = frame[c].code
          /\ f.cookie = frame[c].cookie
      BY <1>1 DEF Frame, Place, WriteAt
    <3>2. PICK change \in BOOLEAN : Step(c, Wrote(f, change))
      BY <2>1
    <3> HIDE DEF f
    <3>3. QED
      BY <1>5, <3>1, <3>2
  <2>2. QED
    BY <1>4, <1>7, <2>1 DEF InsertTag
<1>8. CASE InsertGazou(c)
  <2> DEFINE h == [frame[c] EXCEPT !.gid = Len(gazou) + 1]
             f == Wrote(h, TRUE)
             g == [f EXCEPT !.at = "link_tag", !.todo = req[c].list_of_tags]
  <2>1. Len(gazou) + 1 \in Nat
    BY <1>1 DEF TypeOK, StoreTypeOK
  <2>2. /\ h \in Frame /\ h.user = frame[c].user /\ h.code = frame[c].code
        /\ h.cookie = frame[c].cookie
    BY <1>1, <2>1 DEF Frame
  <2> HIDE DEF h
  <2>3. /\ f \in Frame /\ f.user = frame[c].user /\ f.code = frame[c].code
        /\ f.cookie = frame[c].cookie
    BY <2>2, WroteType DEF Wrote, Frame
  <2>4. \/ \E clash : Aborts(c, "insert_gazou", clash)
        \/ Step(c, Answered(c, f, 0))
        \/ Step(c, g)
    BY <1>8 DEF InsertGazou, h
  <2> HIDE DEF f
  <2>5. /\ g \in Frame /\ g.at = "link_tag" /\ g.user = f.user
        /\ g.code = f.code /\ g.cookie = f.cookie
    BY <1>1, <2>3 DEF Frame, Place, WriteAt
  <2> HIDE DEF g
  <2>6. CASE Step(c, Answered(c, f, 0))
    BY <1>1, <2>3, <2>6, SuccessServing
  <2>7. CASE Step(c, g)
    BY <1>5, <2>3, <2>5, <2>7
  <2>8. QED
    BY <1>4, <2>4, <2>6, <2>7
<1>9. CASE LinkTag(c)
  <2>1. ASSUME NEW t \in frame[c].todo, frame[c].at = "link_tag",
               Step(c, LET f == [frame[c] EXCEPT !.todo = @ \ {t}]
                       IN  IF f.todo = {} THEN Answered(c, f, 0) ELSE f)
        PROVE  Serving(c)
    <3> DEFINE f == [frame[c] EXCEPT !.todo = @ \ {t}]
    <3>1. /\ f \in Frame /\ f.at = "link_tag"
          /\ f.user = frame[c].user /\ f.code = frame[c].code
          /\ f.cookie = frame[c].cookie
      BY <1>1, <2>1 DEF Frame
    <3>2. Step(c, Answered(c, f, 0)) \/ Step(c, f)
      BY <2>1
    <3> HIDE DEF f
    <3>3. QED
      BY <1>1, <1>5, <3>1, <3>2, SuccessServing
  <2>2. QED
    BY <1>4, <1>9, <2>1 DEF LinkTag
<1>10. QED
  BY <1>2, <1>6, <1>7, <1>8, <1>9 DEF SendGazou

LEMMA GetGazouServing ==
  ASSUME NEW c \in Conn, Ready(c), GetGazou(c)
  PROVE  Serving(c)
<1>1. /\ req[c].method = "get_gazou" /\ TypeOK /\ frame[c] \in Frame
  BY RequestType DEF GetGazou, Ready
<1>2. CASE Authenticate(c, "select_page")
  BY <1>2, AuthenticateServing
<1>3. CASE Answer(c, SPEC_ERR_INTERNAL_SRV)
  BY <1>3, BusyServing
<1>4. CASE SelectPage(c)
  <2> DEFINE rows == RelayedFor(frame[c].user) \cup WrittenFor(frame[c].user)
             gids == {frame[d].gid : d \in {e \in Conn : frame[e].at = "link_tag"}}
             f(P) == [frame[c] EXCEPT !.page = P, !.left = P, !.pending = gids]
             g(P) == [f(P) EXCEPT !.at = "select_tags"]
  <2>1. ASSUME NEW P \in Pages(rows, req[c].nb_gazou),
               Step(c, IF P = {} THEN Answered(c, f(P), 0) ELSE g(P))
        PROVE  Serving(c)
    <3>1. P \in SUBSET Entry
      BY <1>1, TimelineType DEF Pages
    <3>2. gids \in SUBSET Nat
      <4>1. \A d \in Conn : frame[d].gid \in Nat
        BY <1>1 DEF TypeOK, Frame
      <4>2. QED
        BY <4>1
    <3> HIDE DEF gids
    <3>3. /\ f(P) \in Frame /\ f(P).user = frame[c].user
          /\ f(P).code = frame[c].code /\ f(P).cookie = frame[c].cookie
      BY <1>1, <3>1, <3>2 DEF Frame
    <3> HIDE DEF f
    <3>4. /\ g(P).at = "select_tags" /\ g(P).user = frame[c].user
          /\ g(P).code = frame[c].code /\ g(P).cookie = frame[c].cookie
      BY <3>3 DEF Frame
    <3> HIDE DEF g
    <3>5. CASE Step(c, Answered(c, f(P), 0))
      BY <1>1, <3>3, <3>5, SuccessServing
    <3>6. CASE Step(c, g(P))
      BY <3>4, <3>6, OnServing
    <3>7. QED
      BY <2>1, <3>5, <3>6
  <2>2. QED
    BY <1>3, <1>4, <2>1 DEF SelectPage
<1>5. CASE SelectTags(c)
  <2> DEFINE h(e) == [frame[c] EXCEPT !.left = @ \ {e},
                        !.shown = @ \cup ({e} \X TagsOf(e.id))]
  <2>1. ASSUME NEW e \in frame[c].left, frame[c].at = "select_tags",
               Step(c, IF h(e).left = {} THEN Answered(c, h(e), 0) ELSE h(e))
        PROVE  Serving(c)
    <3>1. e \in Entry /\ {e} \X TagsOf(e.id) \subseteq Entry \X Tag
      BY <1>1 DEF Frame, TagsOf
    <3>2. /\ h(e) \in Frame /\ h(e).at = "select_tags"
          /\ h(e).user = frame[c].user
          /\ h(e).code = frame[c].code /\ h(e).cookie = frame[c].cookie
      BY <1>1, <2>1, <3>1 DEF Frame
    <3> HIDE DEF h
    <3>3. CASE Step(c, Answered(c, h(e), 0))
      BY <1>1, <3>2, <3>3, SuccessServing
    <3>4. CASE Step(c, h(e))
      BY <3>2, <3>4, OnServing
    <3>5. QED
      BY <2>1, <3>3, <3>4
  <2>2. QED
    BY <1>3, <1>5, <2>1 DEF SelectTags
<1>6. QED
  BY <1>2, <1>4, <1>5 DEF GetGazou

\* A handler runs only between the reading of a request and its answer.
LEMMA HandleElsewhere ==
  ASSUME NEW c \in Conn, Handle(c)
  PROVE  frame[c].at \notin {"idle", "answered"}
BY DEF Handle, CreateAccount, Connect, Disconnect, SendGazou, RelayGazou,
       GetGazou, FollowUser, UnfollowUser, FollowTag, UnfollowTag,
       ListFollowedUsers, ListFollowedTags, ListMyFollowers, List,
       RefuseMessage, Select, Authenticate, Aborts, NewRandomCookie,
       CheckLength, InsertTag, InsertGazou, LinkTag, SelectPage, SelectTags,
       WriteUserSubscription, WriteTagSubscription

LEMMA HandleServing ==
  ASSUME TypeOK, CookiesDrawn, NEW c \in Conn, CleanOf(c), AnswerOf(c), Handle(c)
  PROVE  frame[c].at \notin {"idle", "answered"} /\ Serving(c)
<1>1. frame[c].at \notin {"idle", "answered"}
  BY HandleElsewhere
<1>2. Ready(c)
  BY <1>1 DEF Ready
<1>3. CASE RefuseMessage(c)
  <2>1. PICK k : k = IF req[c].method = Unreadable THEN SPEC_ERR_FORMAT
                                                   ELSE SPEC_ERR_NOT_IMPLEMENTED
    OBVIOUS
  <2>2. k \in Codes(req[c].method) \ {0}
    BY <2>1, EveryMethodCodes DEF SPEC_ERR_FORMAT, SPEC_ERR_NOT_IMPLEMENTED
  <2>3. Answer(c, k)
    BY <1>3, <2>1 DEF RefuseMessage
  <2>4. QED
    BY <1>1, <1>2, <2>2, <2>3, RefusalServing
<1>4. CASE ListFollowedUsers(c) \/ ListFollowedTags(c) \/ ListMyFollowers(c)
  <2>1. /\ Followed(frame[c].user) \in SUBSET (Name \cup Tag)
        /\ FollowedTags(frame[c].user) \in SUBSET (Name \cup Tag)
        /\ Followers(frame[c].user) \in SUBSET (Name \cup Tag)
    BY DEF Followed, FollowedTags, Followers
  <2>2. QED
    BY <1>1, <1>2, <1>4, <2>1, ListServing
    DEF ListFollowedUsers, ListFollowedTags, ListMyFollowers
<1>5. QED
  BY <1>1, <1>2, <1>3, <1>4, FollowServing, CreateAccountServing,
     DisconnectServing, ConnectServing, RelayGazouServing, SendGazouServing,
     GetGazouServing
  DEF Handle

----------------------------------------------------------------------------
(* What a client does with an answer. *)

LEMMA StartType == C!Start \in C!ClientRecord
BY DEF C!Start, C!ClientRecord, C!LoggedOutMenu

LEMMA PromptFields ==
  ASSUME NEW f \in C!ClientRecord
  PROVE  /\ C!Prompt(f) \in C!ClientRecord
         /\ C!Prompt(f).at = "prompt" /\ C!Prompt(f).cookie = f.cookie
         /\ C!Prompt(f).username = f.username
BY StartType DEF C!Prompt, C!Start, C!ClientRecord

LEMMA ExitFields ==
  ASSUME NEW reason \in {"quit", "lost", "code"}
  PROVE  /\ C!Exit(reason) \in C!ClientRecord
         /\ C!Exit(reason).at = "gone" /\ C!Exit(reason).why = reason
         /\ C!Exit(reason).cookie = C!NotConnected /\ C!Exit(reason).username = ""
BY StartType DEF C!Exit, C!Start, C!ClientRecord, C!NotConnected

LEMMA AbortFields ==
  ASSUME NEW f \in C!ClientRecord, NEW code \in Nat
  PROVE  /\ C!Abort(f, code) \in C!ClientRecord
         /\ C!Abort(f, code).at = "gone" /\ C!Abort(f, code).why = "code"
         /\ C!Abort(f, code).command = f.command /\ C!Abort(f, code).code = code
         /\ C!Abort(f, code).cookie = C!NotConnected
         /\ C!Abort(f, code).username = ""
BY ExitFields DEF C!Abort, C!ClientRecord

\* The ways a command may go on.
Stays(f, g) ==
  g.at = "prompt" /\ g.cookie = f.cookie /\ g.username = f.username
LogsOut(g) ==
  g.at = "prompt" /\ g.cookie = C!NotConnected /\ g.username = ""
Ends(f, g, code) ==
  /\ g.at = "gone" /\ g.why = "code" /\ g.command = f.command /\ g.code = code
  /\ g.cookie = C!NotConnected /\ g.username = ""

LEMMA GenericOutcome ==
  ASSUME NEW f \in C!ClientRecord, NEW code \in Nat
  PROVE  LET g == C!Generic(f, code)
         IN  /\ g \in C!ClientRecord
             /\ Stays(f, g) \/ LogsOut(g)
                  \/ (code \notin {10, 11, 13, 14} /\ Ends(f, g, code))
<1>1. CASE code \in {10, 11, 13}
  <2>1. C!Generic(f, code) = C!Prompt(f)
    BY <1>1 DEF C!Generic
  <2>2. QED
    BY <2>1, PromptFields DEF Stays
<1>2. CASE code = 14
  <2>1. C!Generic(f, code) = C!Start
    BY <1>2 DEF C!Generic, C!LoggedOut
  <2>2. C!Start.at = "prompt" /\ C!Start.cookie = C!NotConnected
        /\ C!Start.username = ""
    BY DEF C!Start
  <2>3. QED
    BY <2>1, <2>2, StartType DEF LogsOut
<1>3. CASE code \notin {10, 11, 13, 14}
  <2>1. C!Generic(f, code) = C!Abort(f, code)
    BY <1>3 DEF C!Generic
  <2>2. PICK g : g = C!Abort(f, code)
    OBVIOUS
  <2>3. /\ g \in C!ClientRecord /\ g.at = "gone" /\ g.why = "code"
        /\ g.command = f.command /\ g.code = code
        /\ g.cookie = C!NotConnected /\ g.username = ""
    BY <2>2, AbortFields
  <2>4. QED
    BY <1>3, <2>1, <2>2, <2>3 DEF Ends
<1>4. QED
  BY <1>1, <1>2, <1>3

LEMMA ShownOutcome ==
  ASSUME NEW f \in C!ClientRecord, NEW code \in Nat, NEW Own
  PROVE  LET g == C!Shown(f, code, Own)
         IN  /\ g \in C!ClientRecord
             /\ Stays(f, g) \/ LogsOut(g)
                  \/ (code \notin Own \cup {0, 10, 11, 13, 14} /\ Ends(f, g, code))
<1>1. CASE code \in Own \cup {0}
  BY <1>1, PromptFields DEF C!Shown, Stays
<1>2. CASE code \notin Own \cup {0}
  BY <1>2, GenericOutcome DEF C!Shown
<1>3. QED
  BY <1>1, <1>2

\* What an answer with a code of its method does to a client that waits for it.
Outcome(f, g, code, k) ==
  /\ g \in C!ClientRecord
  /\ \/ Stays(f, g)
     \/ LogsOut(g)
     \/ /\ f.at = "waiting" /\ f.command = "connect" /\ code = 0
        /\ g.at = "prompt" /\ g.cookie = k /\ g.username = f.named
     \/ /\ f.at = "waiting" /\ f.command = "relay_gazou"
        /\ g.at = "choosing" /\ g.command = f.command
        /\ g.cookie = f.cookie /\ g.username = f.username
     \/ f.command = "unfollow_user" /\ Ends(f, g, 2)
     \/ f.at = "relaying" /\ Ends(f, g, 0)

LEMMA UseOutcome ==
  ASSUME NEW f \in C!ClientRecord, f.at \in {"waiting", "relaying"},
         NEW m, m = IF f.command = "relay_gazou" /\ f.at = "waiting"
                      THEN "get_gazou" ELSE f.command,
         NEW code \in Codes(m), NEW k \in Cookie \cup {C!NotConnected},
         NEW ids \in SUBSET Nat
  PROVE  Outcome(f, C!Use(f, code, k, ids), code, k)
<1> DEFINE g == C!Use(f, code, k, ids)
<1>1. code \in Nat /\ code \in {0, 1, 2, 10, 11, 13, 14}
  BY DEF Codes, OwnCodes
<1>2. CASE f.at = "relaying"
  <2>1. g = C!Relayed(f, code)
    BY <1>2 DEF C!Use
  <2>2. g = C!Prompt(f) \/ g = C!Abort(f, 0)
    BY <2>1 DEF C!Relayed, C!Generic
  <2>3. CASE g = C!Prompt(f)
    BY <2>3, PromptFields DEF Outcome, Stays
  <2>4. CASE g = C!Abort(f, 0)
    <3>1. PICK h : h = C!Abort(f, 0)
      OBVIOUS
    <3>2. /\ h \in C!ClientRecord /\ h.at = "gone" /\ h.why = "code"
          /\ h.command = f.command /\ h.code = 0
          /\ h.cookie = C!NotConnected /\ h.username = ""
      <4>1. 0 \in Nat
        OBVIOUS
      <4>2. QED
        BY <3>1, <4>1, AbortFields
    <3>3. QED
      BY <1>2, <2>4, <3>1, <3>2 DEF Outcome, Ends
  <2>5. QED
    BY <2>2, <2>3, <2>4
<1>3. ASSUME f.at = "waiting", NEW Own, g = C!Shown(f, code, Own),
             code \in Own \cup {0, 10, 11, 13, 14}
      PROVE  Outcome(f, g, code, k)
  BY <1>1, <1>3, ShownOutcome DEF Outcome
<1>4. CASE f.at = "waiting" /\ f.command = "connect"
  <2>1. g = C!ConnectServer(f, code, k)
    BY <1>4 DEF C!Use
  <2>2. CASE code = 0
    <3>1. g = [C!Prompt(f) EXCEPT !.cookie = k, !.username = f.named]
      BY <2>1, <2>2 DEF C!ConnectServer
    <3>2. f.named \in Name \cup {""}
      BY DEF C!ClientRecord
    <3>3. PICK h \in C!ClientRecord : h = C!Prompt(f) /\ h.at = "prompt"
      BY PromptFields
    <3>4. /\ [h EXCEPT !.cookie = k, !.username = f.named] \in C!ClientRecord
          /\ [h EXCEPT !.cookie = k, !.username = f.named].at = "prompt"
          /\ [h EXCEPT !.cookie = k, !.username = f.named].cookie = k
          /\ [h EXCEPT !.cookie = k, !.username = f.named].username = f.named
      BY <3>2, <3>3 DEF C!ClientRecord
    <3>5. QED
      BY <1>4, <2>2, <3>1, <3>3, <3>4 DEF Outcome
  <2>3. CASE code # 0
    <3>1. g = C!Shown(f, code, {1, 2})
      BY <2>1, <2>3 DEF C!ConnectServer
    <3>2. QED
      BY <1>1, <1>3, <1>4, <3>1
  <2>4. QED
    BY <2>2, <2>3
<1>5. CASE f.at = "waiting" /\ f.command = "relay_gazou"
  <2>1. g = C!RelayGazou(f, code, ids) /\ code \in {0, 10, 11, 13, 14}
    BY <1>5 DEF C!Use, Codes, OwnCodes
  <2>2. CASE code = 0 /\ ids # {}
    <3>1. g = [f EXCEPT !.at = "choosing", !.choices = ids]
      BY <2>1, <2>2 DEF C!RelayGazou
    <3>2. /\ [f EXCEPT !.at = "choosing", !.choices = ids] \in C!ClientRecord
          /\ [f EXCEPT !.at = "choosing", !.choices = ids].at = "choosing"
          /\ [f EXCEPT !.at = "choosing", !.choices = ids].command = f.command
          /\ [f EXCEPT !.at = "choosing", !.choices = ids].cookie = f.cookie
          /\ [f EXCEPT !.at = "choosing", !.choices = ids].username = f.username
      BY DEF C!ClientRecord
    <3>3. QED
      BY <1>5, <3>1, <3>2 DEF Outcome
  <2>3. CASE ~(code = 0 /\ ids # {})
    <3>1. g = C!Shown(f, code, {})
      BY <2>1, <2>3 DEF C!RelayGazou
    <3>2. QED
      BY <1>3, <1>5, <2>1, <3>1
  <2>4. QED
    BY <2>2, <2>3
<1>6. CASE f.at = "waiting" /\ f.command = "unfollow_user"
  <2>1. g = C!Shown(f, code, {1})
    BY <1>6 DEF C!Use, C!UnfollowUser
  <2>2. QED
    BY <1>1, <1>6, <2>1, ShownOutcome DEF Outcome
<1>7. CASE f.at = "waiting" /\ f.command = "disconnect"
  <2>1. g = (IF code = 0 THEN C!Start ELSE C!Generic(f, code))
        /\ code \in {0, 10, 11, 13, 14}
    BY <1>7 DEF C!Use, C!Disconnect, C!LoggedOut, Codes, OwnCodes
  <2>2. C!Start.at = "prompt" /\ C!Start.cookie = C!NotConnected
        /\ C!Start.username = ""
    BY DEF C!Start
  <2>3. QED
    BY <1>1, <2>1, <2>2, StartType, GenericOutcome DEF Outcome, LogsOut
<1>8. CASE f.at = "waiting" /\ f.command \in {"create_account", "follow_tag",
                                             "unfollow_tag"}
  <2>1. g = C!Shown(f, code, {1}) /\ code \in {0, 1, 10, 11, 13, 14}
    BY <1>8
    DEF C!Use, C!CreateAccount, C!FollowTag, C!UnfollowTag, Codes, OwnCodes
  <2>2. QED
    BY <1>3, <1>8, <2>1
<1>9. CASE f.at = "waiting" /\ f.command \in {"send_gazou", "follow_user"}
  <2>1. g = C!Shown(f, code, {1, 2})
    BY <1>9 DEF C!Use, C!SendGazou, C!FollowUser
  <2>2. QED
    BY <1>1, <1>3, <1>9, <2>1
<1>10. CASE f.at = "waiting" /\ f.command \in {"quit", "get_gazou",
         "list_followed_users", "list_my_followers", "list_followed_tags"}
  <2>1. g = C!Shown(f, code, {}) /\ code \in {0, 10, 11, 13, 14}
    BY <1>10 DEF C!Use, C!Lists, C!GetGazou, Codes, OwnCodes
  <2>2. QED
    BY <1>3, <1>10, <2>1
<1>11. f.command \in C!LoggedOutMenu \cup C!LoggedInMenu
  BY DEF C!ClientRecord
<1>12. QED
  BY <1>2, <1>4, <1>5, <1>6, <1>7, <1>8, <1>9, <1>10, <1>11
  DEF C!LoggedOutMenu, C!LoggedInMenu
----------------------------------------------------------------------------
(* Every step is one of the workers, or leaves them alone. *)

LEMMA StepsOfWorkers ==
  ASSUME NEW c \in Conn,
         \/ Ask(c) \/ AskRelay(c) \/ Receive(c) \/ Alone(c) \/ Restart(c)
         \/ Serve(c) \/ Die(c)
  PROVE  \/ UNCHANGED vars
         \/ Handle(c)
         \/ \E r \in Requests : DispatchRequest(c, r)
         \/ Ended(c)
BY DEF Ask, AskRelay, Deliver, Receive, Alone, Restart, Serve, Die

\* Clients add no behaviour to the workers: what is proved of the handlers of
\* methods.c holds when their requests come from the client program.
THEOREM SystemRunsWorkers == SystemSpec => Spec
<1>1. SystemInit => Init
  BY DEF SystemInit
<1>2. [SystemNext]_sysvars => [Next]_vars
  <2>1. CASE UNCHANGED sysvars
    BY <2>1 DEF sysvars
  <2>2. CASE SystemNext
    BY <2>2, StepsOfWorkers DEF SystemNext, Next
  <2>3. QED
    BY <2>1, <2>2
<1>3. QED
  BY <1>1, <1>2, PTL DEF SystemSpec, Spec

\* The steps of c leave the other clients and workers alone, and the cookies
\* of others in force or revoked.
Elsewhere(c) ==
  /\ CookiesGrow
  /\ \A d \in Conn \ {c} : /\ frame'[d] = frame[d] /\ req'[d] = req[d]
                           /\ cli'[d] = cli[d] /\ link'[d] = link[d]

LEMMA StepElsewhere ==
  ASSUME TypeOK, CookiesDrawn, C!TypeOK, NEW c \in Conn,
         \/ Ask(c) \/ AskRelay(c) \/ Receive(c) \/ Alone(c) \/ Restart(c)
         \/ Serve(c) \/ Die(c)
  PROVE  Elsewhere(c)
<1>1. CookiesGrow /\ \A d \in Conn \ {c} : frame'[d] = frame[d] /\ req'[d] = req[d]
  <2>1. CASE UNCHANGED vars
    BY <2>1, CookiesUnchanged DEF vars, tables
  <2>2. CASE Handle(c)
    BY <2>2, HandleGrows, HandleKeepsFlag DEF FlagKept
  <2>3. CASE (\E r \in Requests : DispatchRequest(c, r)) \/ Ended(c)
    BY <2>3, EnvironmentFrame, CookiesUnchanged DEF tables
  <2>4. QED
    BY <2>1, <2>2, <2>3, StepsOfWorkers
<1>2. \A d \in Conn \ {c} : cli'[d] = cli[d] /\ link'[d] = link[d]
  BY DEF Ask, AskRelay, Receive, Alone, Restart, Serve, Die, C!Send, C!Choose,
         C!Receive, C!GiveUp, C!SendFails, C!ReceiveFails, C!Quit, C!Restart,
         C!Lose, C!Become, C!TypeOK
<1>3. QED
  BY <1>1, <1>2 DEF Elsewhere

\* An answer stays what it is while cookies are replaced.
LEMMA AnswerKept ==
  ASSUME NEW d \in Conn, AnswerOf(d), CookiesGrow,
         frame'[d] = frame[d], req'[d] = req[d]
  PROVE  AnswerOf(d)'
<1> DEFINE k == frame[d].cookie
<1>1. k \in drawn => k \in drawn' /\ (~Redraw => OwnersNext(k) \subseteq Owners(k))
  BY DEF CookiesGrow
<1>2. Owners(frame[d].cookie)' = OwnersNext(k)
  BY DEF Owners, OwnersNext
<1>3. QED
  BY <1>1, <1>2 DEF AnswerOf, Got

\* So does the session of a client.
LEMMA SessionHeld ==
  ASSUME CookiesGrow, ~Redraw, NEW k \in drawn, NEW n,
         Owners(k) \subseteq {n}
  PROVE  k \in drawn' /\ OwnersNext(k) \subseteq {n}
BY DEF CookiesGrow

LEMMA InStepKept ==
  ASSUME NEW d \in Conn, InStepOf(d), CookiesGrow,
         frame'[d] = frame[d], req'[d] = req[d],
         cli'[d] = cli[d], link'[d] = link[d]
  PROVE  InStepOf(d)'
<1>1. AnswerOf(d)'
  BY AnswerKept DEF InStepOf
<1>2. ClientOf(d)' /\ PairOf(d)' /\ ExitOf(d)'
  BY DEF InStepOf, ClientOf, PairOf, ExitOf, C!Menu, C!Waiting, C!Asked
<1>3. ASSUME ~Redraw PROVE MineOf(d)'
  <2> DEFINE k == cli[d].cookie
  <2>1. MineOf(d)
    BY <1>3 DEF InStepOf
  <2>2. k # C!NotConnected =>
          k \in drawn' /\ OwnersNext(k) \subseteq {cli[d].username}
    BY <1>3, <2>1, SessionHeld DEF MineOf
  <2>3. Owners(cli[d].cookie)' = OwnersNext(k)
    BY DEF Owners, OwnersNext
  <2>4. QED
    BY <2>1, <2>2, <2>3 DEF MineOf, C!Waiting
<1>4. QED
  BY <1>1, <1>2, <1>3 DEF InStepOf
----------------------------------------------------------------------------
(* The steps of one client and its worker. *)

\* What the steps of c start from.
Before(c) ==
  /\ TypeOK /\ CookiesDrawn /\ CleanOf(c)
  /\ C!TypeOK /\ InStepOf(c)

\* The record of a client after a step of it.
LEMMA Becomes ==
  ASSUME C!TypeOK, NEW c \in Conn, NEW f \in C!ClientRecord, C!Become(c, f),
         UNCHANGED link
  PROVE  C!TypeOK' /\ cli'[c] = f /\ link'[c] = link[c]
BY DEF C!TypeOK, C!Become

\* A worker that rests, or has just read a request, has no answer yet.
LEMMA NoAnswerYet ==
  ASSUME TypeOK, NEW c \in Conn,
         (\E r \in Requests : DispatchRequest(c, r)) \/ Ended(c)
  PROVE  AnswerOf(c)' /\ frame'[c].user = ""
<1>1. frame'[c].cookie = -1 /\ frame'[c].user = ""
  <2>1. ASSUME NEW r \in Requests, DispatchRequest(c, r)
        PROVE  frame'[c].cookie = -1 /\ frame'[c].user = ""
    <3> DEFINE h == r.cookie \in drawn /\ Owners(r.cookie) = {}
    <3>1. frame'[c] = [Idle EXCEPT !.at = "start", !.stale = h]
      BY <2>1 DEF DispatchRequest, TypeOK
    <3> HIDE DEF h
    <3>2. QED
      BY <3>1 DEF Idle
  <2>2. ASSUME Ended(c)
        PROVE  frame'[c].cookie = -1 /\ frame'[c].user = ""
    BY <2>2 DEF Ended, TypeOK, Idle
  <2>3. QED
    BY <2>1, <2>2
<1>2. frame'[c].at \in {"idle", "start"} /\ frame'[c].code = 0
  BY EnvironmentFrame
<1>3. 0 \in Codes(req'[c].method)
  BY EveryMethodCodes
<1>4. QED
  BY <1>1, <1>2, <1>3 DEF AnswerOf, Got, C!NotConnected

\* The first clause of MineOf after a step that lets c keep its cookie.
LEMMA MineKept ==
  ASSUME NEW c \in Conn, ~Redraw, MineOf(c), CookiesGrow,
         cli'[c].cookie = cli[c].cookie, cli'[c].username = cli[c].username,
         link'[c] = "up" /\ C!Waiting(c)'
           /\ req'[c].method \in AuthenticatedMethods
         => frame'[c].user \in {"", cli[c].username}
  PROVE  MineOf(c)'
<1> DEFINE k == cli[c].cookie
<1>1. k # C!NotConnected =>
        k \in drawn' /\ OwnersNext(k) \subseteq {cli[c].username}
  BY SessionHeld DEF MineOf
<1>2. Owners(cli[c].cookie)' = OwnersNext(k)
  BY DEF Owners, OwnersNext
<1>3. QED
  BY <1>1, <1>2 DEF MineOf

\* A client without a cookie has no session to keep.
LEMMA MineOfNobody ==
  ASSUME NEW c \in Conn, cli'[c].cookie = C!NotConnected, ~C!Waiting(c)'
  PROVE  MineOf(c)'
BY DEF MineOf

LEMMA AskInStep ==
  ASSUME NEW c \in Conn, Before(c), CookiesGrow, Ask(c)
  PROVE  C!TypeOK' /\ InStepOf(c)'
<1>1. PICK r \in Requests, command \in C!Menu(c) \ {"quit"} :
        /\ Sends(c, r, IF command = "relay_gazou" THEN "get_gazou" ELSE command)
        /\ C!Send(c, command, r.username)
        /\ Deliver(c, r)
  BY DEF Ask
<1>2. r.username \in Name /\ command \in C!LoggedOutMenu \cup C!LoggedInMenu
  BY <1>1, RequestAssumption DEF Request, C!Menu
<1>3. cli[c] \in C!ClientRecord
  BY DEF Before, C!TypeOK
<1>4. PICK f : f = [cli[c] EXCEPT !.at = "waiting", !.command = command,
                                  !.named = r.username]
  OBVIOUS
<1>5. /\ f \in C!ClientRecord /\ f.at = "waiting" /\ f.command = command
      /\ f.named = r.username /\ f.cookie = cli[c].cookie
      /\ f.username = cli[c].username
  BY <1>2, <1>3, <1>4 DEF C!ClientRecord
<1>6. C!TypeOK' /\ cli'[c] = f /\ link'[c] = link[c]
  BY <1>1, <1>4, <1>5, Becomes DEF Before, C!Send
<1>7. ClientOf(c)'
  BY <1>1, <1>5, <1>6 DEF Before, InStepOf, ClientOf, C!Menu
<1>8. ExitOf(c)'
  BY <1>5, <1>6 DEF ExitOf
<1>9. CASE link[c] = "up"
  <2>1. DispatchRequest(c, r)
    BY <1>1, <1>9 DEF Deliver
  <2>2. frame'[c].at = "start" /\ req'[c] = r
    <3>1. frame'[c].at \in {"idle", "start"}
      BY <2>1, EnvironmentFrame DEF Before
    <3>2. frame'[c].at # "idle" /\ req'[c] = r
      BY <2>1 DEF DispatchRequest, Before, TypeOK, Idle
    <3>3. QED
      BY <3>1, <3>2
  <2>3. AnswerOf(c)' /\ frame'[c].user = ""
    BY <2>1, NoAnswerYet DEF Before
  <2>4. PairOf(c)'
    BY <1>1, <1>5, <1>6, <2>2 DEF PairOf, C!Waiting, C!Asked, Sends
  <2>5. ~Redraw => MineOf(c)'
    BY <1>5, <1>6, <2>3, MineKept DEF Before, InStepOf
  <2>6. QED
    BY <1>6, <1>7, <1>8, <2>3, <2>4, <2>5 DEF InStepOf
<1>10. CASE link[c] # "up"
  <2>1. UNCHANGED vars
    BY <1>1, <1>10 DEF Deliver
  <2>2. AnswerOf(c)'
    BY <2>1, AnswerKept DEF Before, InStepOf, vars
  <2>3. PairOf(c)'
    BY <1>6, <1>10 DEF PairOf
  <2>4. ~Redraw => MineOf(c)'
    BY <1>5, <1>6, <1>10, MineKept DEF Before, InStepOf
  <2>5. QED
    BY <1>6, <1>7, <1>8, <2>2, <2>3, <2>4 DEF InStepOf
<1>11. QED
  BY <1>9, <1>10

LEMMA AskRelayInStep ==
  ASSUME NEW c \in Conn, Before(c), CookiesGrow, AskRelay(c)
  PROVE  C!TypeOK' /\ InStepOf(c)'
<1>1. PICK r \in Requests :
        /\ Sends(c, r, "relay_gazou")
        /\ C!Choose(c, r.id_gazouilli)
        /\ Deliver(c, r)
  BY DEF AskRelay
<1>2. cli[c] \in C!ClientRecord
  BY DEF Before, C!TypeOK
<1>3. PICK f : f = [cli[c] EXCEPT !.at = "relaying", !.choices = {}]
  OBVIOUS
<1>4. /\ f \in C!ClientRecord /\ f.at = "relaying"
      /\ f.command = cli[c].command /\ f.cookie = cli[c].cookie
      /\ f.username = cli[c].username
  BY <1>2, <1>3 DEF C!ClientRecord
<1>5. C!TypeOK' /\ cli'[c] = f /\ link'[c] = link[c]
  BY <1>1, <1>3, <1>4, Becomes DEF Before, C!Choose
<1>6. /\ cli[c].command = "relay_gazou" /\ cli[c].cookie # C!NotConnected
      /\ cli[c].username # ""
  BY <1>1 DEF Before, InStepOf, ClientOf, C!Choose
<1>7. ClientOf(c)' /\ ExitOf(c)'
  BY <1>4, <1>5, <1>6 DEF ClientOf, ExitOf
<1>8. CASE link[c] = "up"
  <2>1. DispatchRequest(c, r)
    BY <1>1, <1>8 DEF Deliver
  <2>2. frame'[c].at # "idle" /\ req'[c] = r
    BY <2>1 DEF DispatchRequest, Before, TypeOK, Idle
  <2>3. AnswerOf(c)' /\ frame'[c].user = ""
    BY <2>1, NoAnswerYet DEF Before
  <2>4. PairOf(c)'
    BY <1>1, <1>4, <1>5, <1>6, <2>2 DEF PairOf, C!Waiting, C!Asked, Sends
  <2>5. ~Redraw => MineOf(c)'
    BY <1>4, <1>5, <2>3, MineKept DEF Before, InStepOf
  <2>6. QED
    BY <1>5, <1>7, <2>3, <2>4, <2>5 DEF InStepOf
<1>9. CASE link[c] # "up"
  <2>1. UNCHANGED vars
    BY <1>1, <1>9 DEF Deliver
  <2>2. AnswerOf(c)'
    BY <2>1, AnswerKept DEF Before, InStepOf, vars
  <2>3. PairOf(c)'
    BY <1>5, <1>9 DEF PairOf
  <2>4. ~Redraw => MineOf(c)'
    BY <1>4, <1>5, <1>9, MineKept DEF Before, InStepOf
  <2>5. QED
    BY <1>5, <1>7, <2>2, <2>3, <2>4 DEF InStepOf
<1>10. QED
  BY <1>8, <1>9

\* The answer that a client takes: that of its own worker to its own request.
LEMMA TakenAnswer ==
  ASSUME NEW c \in Conn, Before(c), Receive(c)
  PROVE  /\ cli[c] \in C!ClientRecord /\ cli[c].at \in {"waiting", "relaying"}
         /\ req[c].method = IF cli[c].command = "relay_gazou"
                               /\ cli[c].at = "waiting"
                              THEN "get_gazou" ELSE cli[c].command
         /\ frame[c].code \in Codes(req[c].method)
         /\ frame[c].cookie \in Cookie \cup {C!NotConnected}
         /\ {e.id : e \in frame[c].page} \in SUBSET Nat
         /\ cli[c].at = "waiting" => req[c].username = cli[c].named
         /\ req[c].username \in Name
<1>1. cli[c] \in C!ClientRecord
  BY DEF Before, C!TypeOK
<1>2. cli[c].at \in {"waiting", "relaying"} /\ link[c] = "up"
  BY DEF Receive, C!Receive, C!Waiting
<1>3. PairOf(c) /\ AnswerOf(c)
  BY DEF Before, InStepOf
<1>4. /\ req[c].method = C!Asked(c)
      /\ cli[c].at = "waiting" => req[c].username = cli[c].named
  BY <1>2, <1>3 DEF PairOf, C!Waiting
<1>5. \A e \in frame[c].page : e.id \in Nat
  <2>1. frame[c].page \in SUBSET Entry
    BY DEF Before, TypeOK, Frame
  <2>2. QED
    BY <2>1 DEF Entry
<1>6. req[c].username \in Name
  BY RequestAssumption DEF Before, TypeOK, Request
<1>7. QED
  BY <1>1, <1>2, <1>3, <1>4, <1>5, <1>6 DEF C!Asked, AnswerOf

LEMMA ReceiveInStep ==
  ASSUME NEW c \in Conn, Before(c), CookiesGrow, Receive(c)
  PROVE  C!TypeOK' /\ InStepOf(c)'
<1>1. PICK f : f = cli[c]
  OBVIOUS
<1>2. PICK ids : ids = {e.id : e \in frame[c].page}
  OBVIOUS
<1>3. PICK k : k = frame[c].cookie
  OBVIOUS
<1>4. PICK code : code = frame[c].code
  OBVIOUS
<1>5. PICK m : m = req[c].method
  OBVIOUS
<1>6. PICK g : g = C!Use(f, code, k, ids)
  OBVIOUS
<1>7. /\ f \in C!ClientRecord /\ f.at \in {"waiting", "relaying"}
      /\ m = IF f.command = "relay_gazou" /\ f.at = "waiting"
               THEN "get_gazou" ELSE f.command
      /\ code \in Codes(m) /\ k \in Cookie \cup {C!NotConnected}
      /\ ids \in SUBSET Nat
  BY <1>1, <1>2, <1>3, <1>4, <1>5, TakenAnswer
<1>8. Outcome(f, g, code, k)
  BY <1>6, <1>7, UseOutcome
<1>9. C!Become(c, g) /\ UNCHANGED link
  BY <1>1, <1>2, <1>3, <1>4, <1>6 DEF Receive, C!Receive
<1>10. C!TypeOK' /\ cli'[c] = g /\ link'[c] = link[c]
  BY <1>8, <1>9, Becomes DEF Outcome, Before
<1>11. Ended(c) /\ TypeOK /\ ClientOf(c) /\ (~Redraw => MineOf(c)) /\ AnswerOf(c)
  BY DEF Receive, Before, InStepOf
<1>12. AnswerOf(c)' /\ frame'[c].at = "idle"
  BY <1>11, NoAnswerYet DEF Ended, TypeOK, Idle
<1>13. g.at \in {"prompt", "choosing", "gone"}
  BY <1>8 DEF Outcome, Stays, LogsOut, Ends
<1>14. PairOf(c)'
  BY <1>10, <1>12, <1>13 DEF PairOf, C!Waiting
<1>15. ExitOf(c)'
  <2>1. f.at = "relaying" => f.command = "relay_gazou"
    BY <1>1, <1>11 DEF ClientOf
  <2>2. QED
    BY <1>7, <1>8, <1>10, <2>1 DEF ExitOf, Outcome, Stays, LogsOut, Ends
<1>16. CASE g.cookie = f.cookie /\ g.username = f.username /\ g.at = "prompt"
  <2>1. ClientOf(c)'
    BY <1>1, <1>10, <1>11, <1>16 DEF ClientOf
  <2>2. ~Redraw => MineOf(c)'
    BY <1>1, <1>10, <1>11, <1>16, MineKept DEF C!Waiting
  <2>3. QED
    BY <1>10, <1>12, <1>14, <1>15, <2>1, <2>2 DEF InStepOf
<1>17. CASE g.cookie = C!NotConnected /\ g.username = "" /\ g.at \in {"prompt", "gone"}
  <2>1. ClientOf(c)'
    BY <1>10, <1>17 DEF ClientOf
  <2>2. MineOf(c)'
    BY <1>10, <1>17, MineOfNobody DEF C!Waiting
  <2>3. QED
    BY <1>10, <1>12, <1>14, <1>15, <2>1, <2>2 DEF InStepOf
<1>18. CASE /\ f.at = "waiting" /\ f.command = "relay_gazou"
            /\ g.at = "choosing" /\ g.command = f.command
            /\ g.cookie = f.cookie /\ g.username = f.username
  <2>1. f.cookie # C!NotConnected
    BY <1>1, <1>11, <1>18 DEF ClientOf, C!Menu, C!LoggedOutMenu
  <2>2. ClientOf(c)'
    BY <1>1, <1>10, <1>11, <1>18, <2>1 DEF ClientOf
  <2>3. ~Redraw => MineOf(c)'
    BY <1>1, <1>10, <1>11, <1>18, MineKept DEF C!Waiting
  <2>4. QED
    BY <1>10, <1>12, <1>14, <1>15, <2>2, <2>3 DEF InStepOf
<1>19. CASE /\ f.at = "waiting" /\ f.command = "connect" /\ code = 0
            /\ g.at = "prompt" /\ g.cookie = k /\ g.username = f.named
  <2>1. Got(c, "connect", 0)
    BY <1>4, <1>5, <1>7, <1>19 DEF Got, Receive
  <2>2. k \in drawn /\ (~Redraw => Owners(k) \subseteq {req[c].username})
    BY <1>3, <1>11, <2>1 DEF AnswerOf
  <2>3. req[c].username = f.named /\ f.named # ""
    BY <1>1, <1>19, TakenAnswer, NameAssumption
  <2>4. k # C!NotConnected
    <3>1. k \in Nat
      BY <1>11, <2>2, CookieAssumption DEF TypeOK
    <3>2. QED
      BY <3>1 DEF C!NotConnected
  <2>5. ClientOf(c)'
    BY <1>10, <1>19, <2>3, <2>4 DEF ClientOf
  <2>6. ASSUME ~Redraw PROVE MineOf(c)'
    <3>1. k \in drawn' /\ OwnersNext(k) \subseteq {f.named}
      BY <2>2, <2>3, <2>6, SessionHeld
    <3>2. Owners(cli[c].cookie)' = OwnersNext(k)
      BY <1>10, <1>19 DEF Owners, OwnersNext
    <3>3. QED
      BY <1>10, <1>19, <3>1, <3>2 DEF MineOf, C!Waiting
  <2>7. QED
    BY <1>10, <1>12, <1>14, <1>15, <2>5, <2>6 DEF InStepOf
<1>20. QED
  BY <1>8, <1>16, <1>17, <1>18, <1>19 DEF Outcome, Stays, LogsOut, Ends

LEMMA ServeInStep ==
  ASSUME NEW c \in Conn, Before(c), CookiesGrow, Serve(c)
  PROVE  C!TypeOK' /\ InStepOf(c)'
<1>1. /\ TypeOK /\ CookiesDrawn /\ CleanOf(c) /\ Handle(c)
      /\ AnswerOf(c) /\ ClientOf(c) /\ PairOf(c) /\ ExitOf(c)
      /\ ~Redraw => MineOf(c)
  BY DEF Before, InStepOf, Serve
<1>2. frame[c].at \notin {"idle", "answered"} /\ Serving(c)
  BY <1>1, HandleServing
<1>3. UNCHANGED <<cli, link>> /\ req'[c] = req[c]
  BY <1>1, HandleKeepsFlag DEF Serve, FlagKept
<1>4. C!TypeOK' /\ ClientOf(c)' /\ ExitOf(c)'
  BY <1>1, <1>3 DEF Before, C!TypeOK, ClientOf, C!Menu, ExitOf
<1>5. PairOf(c)'
  BY <1>1, <1>2, <1>3 DEF PairOf, C!Waiting, C!Asked, Serving
<1>6. ASSUME ~Redraw PROVE MineOf(c)'
  <2>1. ASSUME link[c] = "up", C!Waiting(c), req[c].method \in AuthenticatedMethods
        PROVE  frame'[c].user \in {"", cli[c].username}
    <3>1. frame[c].user \in {"", cli[c].username}
      BY <1>1, <1>6, <2>1 DEF MineOf
    <3>2. req[c].method = C!Asked(c)
          /\ (cli[c].cookie # C!NotConnected => req[c].cookie = cli[c].cookie)
      BY <1>1, <2>1 DEF PairOf, C!Waiting
    <3>3. cli[c].cookie # C!NotConnected
      BY <1>1, <2>1, <3>2
      DEF ClientOf, C!Waiting, C!Asked, C!Menu, C!LoggedOutMenu,
          AuthenticatedMethods
    <3>4. Owners(req[c].cookie) \subseteq {cli[c].username}
      BY <1>1, <1>6, <3>2, <3>3 DEF MineOf
    <3>5. QED
      BY <1>2, <3>1, <3>4 DEF Serving
  <2>2. QED
    BY <1>1, <1>3, <1>6, <2>1, MineKept DEF C!Waiting
<1>7. QED
  BY <1>2, <1>4, <1>5, <1>6 DEF InStepOf, Serving

LEMMA DieInStep ==
  ASSUME NEW c \in Conn, Before(c), CookiesGrow, Die(c)
  PROVE  C!TypeOK' /\ InStepOf(c)'
<1>1. /\ TypeOK /\ AnswerOf(c) /\ ClientOf(c) /\ ExitOf(c)
      /\ ~Redraw => MineOf(c)
  BY DEF Before, InStepOf
<1>2. cli' = cli /\ C!TypeOK' /\ (cli[c].at = "gone" \/ link'[c] # "up")
  BY DEF Before, Die, C!Lose, C!TypeOK
<1>3. AnswerOf(c)'
  <2>1. CASE UNCHANGED vars
    BY <1>1, <2>1, AnswerKept DEF vars
  <2>2. CASE Ended(c)
    BY <1>1, <2>2, NoAnswerYet
  <2>3. QED
    BY <2>1, <2>2 DEF Die
<1>4. ClientOf(c)' /\ ExitOf(c)'
  BY <1>1, <1>2 DEF ClientOf, C!Menu, ExitOf
<1>5. PairOf(c)'
  BY <1>2 DEF PairOf
<1>6. ~Redraw => MineOf(c)'
  BY <1>1, <1>2, MineKept DEF C!Waiting
<1>7. QED
  BY <1>2, <1>3, <1>4, <1>5, <1>6 DEF InStepOf

LEMMA RestartInStep ==
  ASSUME NEW c \in Conn, Before(c), CookiesGrow, Restart(c)
  PROVE  C!TypeOK' /\ InStepOf(c)'
<1>1. TypeOK /\ AnswerOf(c) /\ frame[c].at = "idle" /\ UNCHANGED vars
  BY DEF Before, InStepOf, Restart
<1>2. PICK f : f = C!Start
  OBVIOUS
<1>3. /\ f \in C!ClientRecord /\ f.at = "prompt"
      /\ f.cookie = C!NotConnected /\ f.username = ""
  BY <1>2, StartType DEF C!Start
<1>4. C!TypeOK' /\ cli'[c] = f
  BY <1>2, <1>3 DEF Before, Restart, C!Restart, C!Become, C!TypeOK
<1>5. AnswerOf(c)'
  BY <1>1, AnswerKept DEF vars
<1>6. ClientOf(c)' /\ ExitOf(c)' /\ MineOf(c)'
  BY <1>3, <1>4 DEF ClientOf, ExitOf, MineOf, C!Waiting
<1>7. PairOf(c)'
  BY <1>1, <1>3, <1>4 DEF PairOf, C!Waiting, vars
<1>8. QED
  BY <1>4, <1>5, <1>6, <1>7 DEF InStepOf

LEMMA AloneInStep ==
  ASSUME NEW c \in Conn, Before(c), CookiesGrow, Alone(c)
  PROVE  C!TypeOK' /\ InStepOf(c)'
<1>1. /\ TypeOK /\ AnswerOf(c) /\ ClientOf(c) /\ PairOf(c)
      /\ ~Redraw => MineOf(c)
      /\ C!TypeOK /\ UNCHANGED vars
  BY DEF Before, InStepOf, Alone
<1>2. AnswerOf(c)'
  BY <1>1, AnswerKept DEF vars
<1>3. CASE /\ C!Become(c, C!Prompt(cli[c])) /\ UNCHANGED link
           /\ link[c] = "up" => cli[c].at = "choosing"
  <2>1. PICK f : f = C!Prompt(cli[c])
    OBVIOUS
  <2>2. /\ f \in C!ClientRecord /\ f.at = "prompt"
        /\ f.cookie = cli[c].cookie /\ f.username = cli[c].username
    BY <1>1, <2>1, PromptFields DEF C!TypeOK
  <2>3. C!TypeOK' /\ cli'[c] = f /\ link'[c] = link[c]
    BY <1>1, <1>3, <2>1, <2>2, Becomes
  <2>4. ClientOf(c)' /\ ExitOf(c)'
    BY <1>1, <2>2, <2>3 DEF ClientOf, ExitOf
  <2>5. PairOf(c)'
    BY <1>1, <1>3, <2>2, <2>3 DEF PairOf, C!Waiting, vars
  <2>6. ~Redraw => MineOf(c)'
    BY <1>1, <2>2, <2>3, MineKept DEF C!Waiting
  <2>7. QED
    BY <1>2, <2>3, <2>4, <2>5, <2>6 DEF InStepOf
<1>4. ASSUME NEW reason \in {"quit", "lost"},
             C!Become(c, C!Exit(reason)), UNCHANGED link
      PROVE  C!TypeOK' /\ InStepOf(c)'
  <2>1. PICK f : f = C!Exit(reason)
    OBVIOUS
  <2>2. /\ f \in C!ClientRecord /\ f.at = "gone" /\ f.why = reason
        /\ f.cookie = C!NotConnected /\ f.username = ""
    BY <2>1, ExitFields
  <2>3. C!TypeOK' /\ cli'[c] = f /\ link'[c] = link[c]
    BY <1>1, <1>4, <2>1, <2>2, Becomes
  <2>4. ClientOf(c)' /\ ExitOf(c)' /\ PairOf(c)'
    BY <2>2, <2>3 DEF ClientOf, ExitOf, PairOf
  <2>5. MineOf(c)'
    BY <2>2, <2>3, MineOfNobody DEF C!Waiting
  <2>6. QED
    BY <1>2, <2>3, <2>4, <2>5 DEF InStepOf
<1>5. QED
  <2>1. \/ C!Become(c, C!Prompt(cli[c])) /\ UNCHANGED link
           /\ (link[c] = "up" => cli[c].at = "choosing")
        \/ C!Become(c, C!Exit("quit")) /\ UNCHANGED link
        \/ C!Become(c, C!Exit("lost")) /\ UNCHANGED link
    BY DEF Alone, C!GiveUp, C!SendFails, C!ReceiveFails, C!Quit
  <2>2. QED
    BY <1>3, <1>4, <2>1

----------------------------------------------------------------------------
(* The inductive step, and the theorems. *)

LEMMA InitInStep == SystemInit => SystemInv
<1> SUFFICES ASSUME SystemInit PROVE SystemInv
  OBVIOUS
<1>1. C!TypeOK
  BY StartType DEF SystemInit, C!Init, C!TypeOK
<1>2. ASSUME NEW c \in Conn PROVE InStepOf(c)
  <2>1. frame[c] = Idle /\ cli[c] = C!Start
    BY DEF SystemInit, Init, C!Init
  <2>2. frame[c].at = "idle" /\ frame[c].code = 0 /\ frame[c].cookie = -1
    <3>1. Idle.at = "idle" /\ Idle.code = 0 /\ Idle.cookie = -1
      BY DEF Idle
    <3>2. QED
      BY <2>1, <3>1
  <2>3. /\ cli[c].at = "prompt" /\ cli[c].cookie = C!NotConnected
        /\ cli[c].username = ""
    <3>1. /\ C!Start.at = "prompt" /\ C!Start.cookie = C!NotConnected
          /\ C!Start.username = ""
      BY DEF C!Start
    <3>2. QED
      BY <2>1, <3>1
  <2>4. 0 \in Codes(req[c].method)
    BY EveryMethodCodes
  <2>5. AnswerOf(c)
    BY <2>2, <2>4 DEF AnswerOf, Got, C!NotConnected
  <2>6. ClientOf(c) /\ PairOf(c) /\ MineOf(c) /\ ExitOf(c)
    BY <2>2, <2>3 DEF ClientOf, PairOf, MineOf, ExitOf, C!Waiting
  <2>7. QED
    BY <2>5, <2>6 DEF InStepOf
<1>3. QED
  BY <1>1, <1>2 DEF SystemInv

LEMMA NextInStep ==
  SystemInv /\ TypeOK /\ CookiesDrawn /\ AnswersInv /\ [SystemNext]_sysvars
    => SystemInv'
<1>1. ASSUME SystemInv, TypeOK, CookiesDrawn, UNCHANGED sysvars
      PROVE  SystemInv'
  <2>1. CookiesGrow
    BY <1>1, CookiesUnchanged DEF sysvars, vars, tables
  <2>2. \A d \in Conn : InStepOf(d)'
    BY <1>1, <2>1, InStepKept DEF SystemInv, sysvars, vars
  <2>3. C!TypeOK'
    BY <1>1 DEF SystemInv, C!TypeOK, sysvars
  <2>4. QED
    BY <2>2, <2>3 DEF SystemInv
<1>2. ASSUME SystemInv, TypeOK, CookiesDrawn, AnswersInv, NEW c \in Conn,
             \/ Ask(c) \/ AskRelay(c) \/ Receive(c) \/ Alone(c) \/ Restart(c)
             \/ Serve(c) \/ Die(c)
      PROVE  SystemInv'
  <2>1. Before(c)
    BY <1>2 DEF SystemInv, AnswersInv, Before
  <2>2. Elsewhere(c)
    BY <1>2, <2>1, StepElsewhere DEF Before
  <2>3. C!TypeOK' /\ InStepOf(c)'
    BY <1>2, <2>1, <2>2, AskInStep, AskRelayInStep, ReceiveInStep, AloneInStep,
       RestartInStep, ServeInStep, DieInStep DEF Elsewhere
  <2>4. \A d \in Conn \ {c} : InStepOf(d)'
    BY <1>2, <2>2, InStepKept DEF SystemInv, Elsewhere
  <2>5. QED
    BY <2>3, <2>4 DEF SystemInv
<1>3. QED
  BY <1>1, <1>2 DEF SystemNext

\* A client and its worker are at the same request in every reachable state,
\* and the answer is one that the client can use.
THEOREM SystemAlways == SystemSpec => []SystemInv
<1>1. SystemSpec => [](TypeOK /\ CookiesDrawn /\ AnswersInv)
  <2>1. SessionsInv => CookiesDrawn
    BY DEF SessionsInv
  <2>2. QED
    BY <2>1, SystemRunsWorkers, TypeCorrect, SessionsAlways, AnswersAlways, PTL
<1>2. QED
  BY <1>1, InitInStep, NextInStep, PTL DEF SystemSpec

\* While a client waits, its worker handles or has answered the very request
\* that the client waits for, and is at rest otherwise, although nothing but
\* the client's waiting pairs the two (write_read of client.c, dispatch_request
\* of dispatch.c).
THEOREM InStepCorrect == SystemSpec => []InStep
<1>1. SystemInv /\ TypeOK => InStep
  BY DEF SystemInv, InStepOf, PairOf, InStep
<1>2. QED
  BY <1>1, SystemAlways, SystemRunsWorkers, TypeCorrect, PTL

\* A client that shows a user name holds a cookie of that account or of nobody,
\* and what the server does for it is done in that name (connect_server and
\* disconnect of the client, user_name_from_cookie and new_random_cookie of
\* the server).
THEOREM SessionIsMineCorrect == SystemSpec => []SessionIsMine
<1>1. ASSUME SystemInv, TypeOK PROVE SessionIsMine
  <2> SUFFICES ASSUME ~Redraw, NEW c \in Conn, cli[c].at # "gone"
               PROVE  /\ (cli[c].cookie = C!NotConnected) = (cli[c].username = "")
                      /\ Owners(cli[c].cookie) \subseteq {cli[c].username}
                      /\ link[c] = "up" /\ C!Waiting(c)
                           /\ req[c].method \in AuthenticatedMethods
                           => frame[c].user \in {"", cli[c].username}
    BY DEF SessionIsMine
  <2>1. ClientOf(c) /\ MineOf(c)
    BY <1>1 DEF SystemInv, InStepOf
  <2>2. Owners(C!NotConnected) = {}
    <3>1. \A u \in user : u.cookie \in Nat
      BY <1>1, CookieAssumption DEF TypeOK, StoreTypeOK, UserRow
    <3>2. \A u \in user : u.cookie # C!NotConnected
      BY <3>1 DEF C!NotConnected
    <3>3. QED
      BY <3>2 DEF Owners
  <2>3. QED
    BY <2>1, <2>2 DEF ClientOf, MineOf
<1>2. QED
  BY <1>1, SystemAlways, SystemRunsWorkers, TypeCorrect, PTL

\* Of all the answers that the handlers give, only two end the client: code 2
\* to unfollow_user, and a refused relay_gazou (the switches of
\* client/methods.c against the error codes of server/methods.c).
THEOREM ExitsCorrect == SystemSpec => []ExitsAreNamed
<1>1. SystemInv => ExitsAreNamed
  BY DEF SystemInv, InStepOf, ExitOf, ExitsAreNamed
<1>2. QED
  BY <1>1, SystemAlways, PTL
----------------------------------------------------------------------------
(* Who signs what a step writes. *)

\* The tables whose rows name a follower, a retweeter or an author.
signed == <<user_subscription, tag_subscription, relay, gazou>>

\* The step of c signs as its user only, for a method that looks the user up.
SignsAs(c) ==
  \A n \in Signatures : /\ n = frame[c].user
                        /\ req[c].method \in AuthenticatedMethods
                        /\ frame'[c] # frame[c]

LEMMA NothingSigned ==
  ASSUME UNCHANGED signed
  PROVE  Signatures = {}
BY DEF Signatures, signed

LEMMA NamesSign ==
  ASSUME TypeOK, TypeOK'
  PROVE  Signatures \subseteq Name
<1>1. \A p \in user_subscription \cup user_subscription' : p[2] \in Name
  BY DEF TypeOK, StoreTypeOK
<1>2. \A p \in tag_subscription \cup tag_subscription' : p[2] \in Name
  BY DEF TypeOK, StoreTypeOK
<1>3. \A q \in relay' : q.retweeter \in Name
  BY DEF TypeOK, StoreTypeOK, RelayRow
<1>4. \A i \in DOMAIN gazou' : gazou'[i].author \in Name
  <2>1. gazou' \in Seq(GazouRow)
    BY DEF TypeOK, StoreTypeOK
  <2>2. \A i \in DOMAIN gazou' : gazou'[i] \in GazouRow
    BY <2>1
  <2>3. QED
    BY <2>2 DEF GazouRow
<1>5. QED
  BY <1>1, <1>2, <1>3, <1>4 DEF Signatures

\* An answer moves the worker from the place of its statement.
LEMMA LastWriteMoves ==
  ASSUME TypeOK, NEW c \in Conn, NEW f \in Frame, NEW change \in BOOLEAN,
         \/ Step(c, Wrote(Answered(c, f, 0), change))
         \/ Step(c, Answered(c, f, 0)),
         frame[c].at # "answered"
  PROVE  frame'[c] # frame[c]
<1>1. PICK g : g = Answered(c, f, 0)
  OBVIOUS
<1>2. g \in Frame /\ g.at = "answered"
  BY <1>1, AnsweredType, AnsweredFields
<1>3. Wrote(g, change).at = "answered"
  BY <1>2 DEF Wrote, Frame
<1>4. frame'[c] = g \/ frame'[c] = Wrote(g, change)
  BY <1>1, StepFrame
<1>5. QED
  BY <1>2, <1>3, <1>4

LEMMA UserSubscriptionSigns ==
  ASSUME TypeOK, NEW c \in Conn, NEW place, place # "answered",
         NEW followed, NEW T,
         T \in {user_subscription \cup {<<followed, frame[c].user>>},
                user_subscription \ {<<followed, frame[c].user>>}},
         WriteUserSubscription(c, place, T),
         req[c].method \in AuthenticatedMethods
  PROVE  SignsAs(c)
<1>1. Signatures \subseteq {frame[c].user}
  BY DEF Signatures, WriteUserSubscription
<1>2. frame'[c] # frame[c]
  BY RequestType, LastWriteMoves DEF WriteUserSubscription
<1>3. QED
  BY <1>1, <1>2 DEF SignsAs

LEMMA TagSubscriptionSigns ==
  ASSUME TypeOK, NEW c \in Conn, NEW place, place # "answered",
         NEW t, NEW T,
         T \in {tag_subscription \cup {<<t, frame[c].user>>},
                tag_subscription \ {<<t, frame[c].user>>}},
         WriteTagSubscription(c, place, T),
         req[c].method \in AuthenticatedMethods
  PROVE  SignsAs(c)
<1>1. Signatures \subseteq {frame[c].user}
  BY DEF Signatures, WriteTagSubscription
<1>2. frame'[c] # frame[c]
  BY RequestType, LastWriteMoves DEF WriteTagSubscription
<1>3. QED
  BY <1>1, <1>2 DEF SignsAs

LEMMA FollowSigns ==
  ASSUME TypeOK, NEW c \in Conn,
         FollowUser(c) \/ UnfollowUser(c) \/ FollowTag(c) \/ UnfollowTag(c)
  PROVE  SignsAs(c)
<1>1. req[c].method \in AuthenticatedMethods
  BY DEF FollowUser, UnfollowUser, FollowTag, UnfollowTag,
         AuthenticatedMethods, method_names
<1>2. CASE UNCHANGED signed
  BY <1>2, NothingSigned DEF SignsAs
<1>3. CASE FollowUser(c) \/ UnfollowUser(c)
  <2> DEFINE row == <<req[c].username, frame[c].user>>
  <2>1. \/ UNCHANGED signed
        \/ WriteUserSubscription(c, "insert_subscription",
                                 user_subscription \cup {row})
        \/ WriteUserSubscription(c, "delete_subscription",
                                 user_subscription \ {row})
    BY <1>3 DEF FollowUser, UnfollowUser, Authenticate, Select, Aborts,
                signed, tables
  <2>2. QED
    BY <1>1, <1>2, <2>1, UserSubscriptionSigns
<1>4. CASE FollowTag(c) \/ UnfollowTag(c)
  <2> DEFINE row == <<req[c].tag, frame[c].user>>
  <2>1. \/ UNCHANGED signed
        \/ WriteTagSubscription(c, "insert_subscription",
                                tag_subscription \cup {row})
        \/ WriteTagSubscription(c, "delete_subscription",
                                tag_subscription \ {row})
    BY <1>4 DEF FollowTag, UnfollowTag, Authenticate, Select, Aborts,
                signed, tables
  <2>2. QED
    BY <1>1, <1>2, <2>1, TagSubscriptionSigns
<1>5. QED
  BY <1>3, <1>4

LEMMA RelaySigns ==
  ASSUME TypeOK, NEW c \in Conn, RelayGazou(c)
  PROVE  SignsAs(c)
<1> DEFINE row == [gazou_id |-> req[c].id_gazouilli,
                   retweeter |-> frame[c].user, retweet_date |-> req[c].date]
<1>1. CASE UNCHANGED signed
  BY <1>1, NothingSigned DEF SignsAs
<1>2. CASE /\ frame[c].at = "insert_relay" /\ relay' = relay \cup {row}
           /\ UNCHANGED <<gazou, user_subscription, tag_subscription>>
           /\ Step(c, Wrote(Answered(c, frame[c], 0), TRUE))
  <2>1. Signatures \subseteq {frame[c].user}
    BY <1>2 DEF Signatures
  <2>2. frame'[c] # frame[c]
    BY <1>2, RequestType, LastWriteMoves
  <2>3. req[c].method \in AuthenticatedMethods
    BY DEF RelayGazou, AuthenticatedMethods, method_names
  <2>4. QED
    BY <2>1, <2>2, <2>3 DEF SignsAs
<1>3. QED
  BY <1>1, <1>2
  DEF RelayGazou, Authenticate, Select, Aborts, signed, tables

LEMMA SendSigns ==
  ASSUME TypeOK, NEW c \in Conn, SendGazou(c)
  PROVE  SignsAs(c)
<1> DEFINE row == [date |-> req[c].date, author |-> frame[c].user,
                   content |-> req[c].content]
           h   == [frame[c] EXCEPT !.gid = Len(gazou) + 1]
           f   == Wrote(h, TRUE)
           g   == [f EXCEPT !.at = "link_tag", !.todo = req[c].list_of_tags]
<1>1. CASE UNCHANGED signed
  BY <1>1, NothingSigned DEF SignsAs
<1>2. CASE /\ frame[c].at = "insert_gazou" /\ gazou' = Append(gazou, row)
           /\ UNCHANGED <<user_subscription, tag_subscription, relay>>
           /\ Step(c, Answered(c, f, 0)) \/ Step(c, g)
  <2>1. gazou \in Seq(GazouRow) /\ frame[c] \in Frame
    BY RequestType DEF TypeOK, StoreTypeOK
  <2>2. \A i \in DOMAIN gazou' \ DOMAIN gazou : gazou'[i] = row
    <3>1. PICK r : r = row
      OBVIOUS
    <3>2. gazou' = Append(gazou, r)
      BY <1>2, <3>1
    <3>3. \A i \in DOMAIN gazou' \ DOMAIN gazou : gazou'[i] = r
      BY <2>1, <3>2
    <3>4. QED
      BY <3>1, <3>3
  <2>3. Signatures \subseteq {frame[c].user}
    BY <1>2, <2>2 DEF Signatures
  <2>4. h \in Frame
    <3>1. Len(gazou) + 1 \in Nat
      BY <2>1
    <3>2. QED
      BY <2>1, <3>1 DEF Frame
  <2> HIDE DEF h
  <2>5. f \in Frame
    BY <2>4, WroteType
  <2> HIDE DEF f
  <2>6. g.at = "link_tag"
    BY <2>5 DEF Frame
  <2> HIDE DEF g
  <2>7. frame'[c] # frame[c]
    BY <1>2, <2>5, <2>6, LastWriteMoves, StepFrame
  <2>8. req[c].method \in AuthenticatedMethods
    BY DEF SendGazou, AuthenticatedMethods, method_names
  <2>9. QED
    BY <2>3, <2>7, <2>8 DEF SignsAs
<1>3. CASE InsertGazou(c)
  BY <1>1, <1>2, <1>3 DEF InsertGazou, Aborts, signed, tables
<1>4. CASE Authenticate(c, "check_length") \/ CheckLength(c)
           \/ InsertTag(c) \/ LinkTag(c)
  BY <1>1, <1>4
  DEF Authenticate, CheckLength, InsertTag, LinkTag, Aborts, signed, tables
<1>5. QED
  BY <1>3, <1>4 DEF SendGazou

LEMMA HandleSigns ==
  ASSUME TypeOK, NEW c \in Conn, Handle(c)
  PROVE  SignsAs(c)
<1>1. CASE UNCHANGED signed
  BY <1>1, NothingSigned DEF SignsAs
<1>2. CASE CreateAccount(c) \/ Connect(c) \/ Disconnect(c)
  BY <1>1, <1>2
  DEF CreateAccount, Connect, Disconnect, NewRandomCookie, Authenticate, Select,
      Aborts, signed, tables
<1>3. CASE GetGazou(c) \/ RefuseMessage(c)
  BY <1>1, <1>3
  DEF GetGazou, SelectPage, SelectTags, RefuseMessage, Authenticate, signed,
      tables
<1>4. CASE ListFollowedUsers(c) \/ ListFollowedTags(c) \/ ListMyFollowers(c)
  BY <1>1, <1>4
  DEF ListFollowedUsers, ListFollowedTags, ListMyFollowers, List, Authenticate,
      signed, tables
<1>5. QED
  BY <1>2, <1>3, <1>4, FollowSigns, RelaySigns, SendSigns DEF Handle

\* What a step stores as followed, relayed or written by somebody is done by
\* the worker of a program that shows his name and waits for the answer: the
\* cookie it sent was looked up once (user_name_from_cookie), and neither the
\* logins of others nor the statements in between change in whose name the
\* handlers of server/methods.c write.
THEOREM WritesCorrect == SystemSpec => WritesAreMine
<1> DEFINE Mine ==
      ~Redraw => \A n \in Signatures : \E c \in Conn :
        /\ frame'[c] # frame[c]
        /\ link[c] = "up" /\ cli[c].at # "gone"
             => C!Waiting(c) /\ cli[c].username = n
<1>1. ASSUME SystemInv, TypeOK, TypeOK', [SystemNext]_sysvars
      PROVE  Mine
  <2>1. CASE UNCHANGED signed
    BY <2>1, NothingSigned
  <2>2. ASSUME NEW c \in Conn, Handle(c)
        PROVE  Mine
    <3> SUFFICES ASSUME ~Redraw, NEW n \in Signatures,
                        link[c] = "up", cli[c].at # "gone"
                 PROVE  C!Waiting(c) /\ cli[c].username = n
      BY <1>1, <2>2, HandleSigns DEF SignsAs
    <3>1. n = frame[c].user /\ req[c].method \in AuthenticatedMethods
      BY <1>1, <2>2, HandleSigns DEF SignsAs
    <3>2. n # ""
      BY <1>1, NamesSign, NameAssumption
    <3>3. PairOf(c) /\ MineOf(c)
      BY <1>1 DEF SystemInv, InStepOf
    <3>4. C!Waiting(c)
      BY <2>2, <3>3, HandleElsewhere DEF PairOf
    <3>5. QED
      BY <3>1, <3>2, <3>3, <3>4 DEF MineOf
  <2>3. ASSUME NEW c \in Conn, (\E r \in Requests : DispatchRequest(c, r)) \/ Ended(c)
        PROVE  UNCHANGED signed
    BY <2>3 DEF DispatchRequest, Ended, signed, tables
  <2>4. UNCHANGED vars => UNCHANGED signed
    BY DEF vars, signed, tables
  <2>5. CASE UNCHANGED sysvars
    BY <2>1, <2>4, <2>5 DEF sysvars
  <2>6. CASE SystemNext
    BY <2>1, <2>2, <2>3, <2>4, <2>6, StepsOfWorkers DEF SystemNext
  <2>7. QED
    BY <1>1, <2>5, <2>6
<1>2. SystemSpec => []TypeOK
  BY SystemRunsWorkers, TypeCorrect, PTL
<1>3. SystemInv /\ TypeOK /\ TypeOK' /\ [SystemNext]_sysvars => [Mine]_sysvars
  BY <1>1
<1>4. QED
  BY <1>2, <1>3, SystemAlways, PTL DEF SystemSpec, WritesAreMine
=============================================================================
