--------------------------- MODULE SessionsProofs ---------------------------
(* Proofs about the cookies of Methods: a cookie that has been replaced never *)
(* authenticates again, for every value of the constants.                    *)
EXTENDS MethodsProofs

----------------------------------------------------------------------------
(* The invariant, worker by worker. *)

\* What SessionsInv says of the worker of c when RANDOM() does not repeat.
SessionOf(c) ==
  /\ frame[c].stale =>
       /\ req[c].cookie \in drawn
       /\ Owners(req[c].cookie) = {}
       /\ req[c].method \in AuthenticatedMethods =>
            /\ frame[c].at \in {"start", "answered"}
            /\ ~frame[c].wrote
            /\ frame[c].at = "answered" =>
                 frame[c].code \in {SPEC_ERR_INCORRECT_COOKIE, SPEC_ERR_FORMAT}
  /\ req[c].method = "disconnect" /\ frame[c].at = "update_cookie" =>
       /\ req[c].cookie \in drawn
       /\ Owners(req[c].cookie) \subseteq {frame[c].user}
  /\ Got(c, "disconnect", 0) =>
       /\ req[c].cookie \in drawn
       /\ Owners(req[c].cookie) = {}

LEMMA SessionsByWorker ==
  SessionsInv <=> /\ TypeOK
                  /\ CookiesDrawn
                  /\ ~Redraw => \A c \in Conn : SessionOf(c)
BY DEF SessionsInv, SessionOf, RevokedStaysRevoked, LogoutRevokes

LEMMA SessionsByWorkerNext ==
  SessionsInv' <=> /\ TypeOK'
                   /\ CookiesDrawn'
                   /\ ~Redraw => \A c \in Conn : SessionOf(c)'
BY DEF SessionsInv, SessionOf, RevokedStaysRevoked, LogoutRevokes

\* The owners of k after the step.
OwnersNext(k) == {u.name : u \in {v \in user' : v.cookie = k}}

\* Cookies are only added, and none that was ever stored gets a new owner.
CookiesGrow ==
  /\ CookiesDrawn'
  /\ drawn \subseteq drawn'
  /\ ~Redraw => \A k \in drawn : OwnersNext(k) \subseteq Owners(k)

\* What a worker relies on survives the steps of the others.
LEMMA SessionKept ==
  ASSUME ~Redraw, CookiesGrow, NEW d \in Conn, SessionOf(d),
         frame'[d] = frame[d], req'[d] = req[d]
  PROVE  SessionOf(d)'
<1> DEFINE k == req[d].cookie
<1>1. k \in drawn => k \in drawn' /\ OwnersNext(k) \subseteq Owners(k)
  BY DEF CookiesGrow
<1>2. Owners(req[d].cookie)' = OwnersNext(k)
  BY DEF Owners, OwnersNext
<1> QED
  BY <1>1, <1>2 DEF SessionOf, Got

LEMMA CookiesUnchanged ==
  ASSUME CookiesDrawn, UNCHANGED <<user, drawn>>
  PROVE  CookiesGrow
BY DEF CookiesGrow, CookiesDrawn, UserUnique, Owners, OwnersNext

----------------------------------------------------------------------------
(* The two statements that store a cookie. *)

LEMMA WithCookieGrows ==
  ASSUME TypeOK, CookiesDrawn, NEW n, NEW k \in Random,
         UserUnique(WithCookie(n, k)), user' = WithCookie(n, k),
         drawn' = drawn \cup {k}
  PROVE  CookiesGrow
<1> DEFINE F(u) == IF u.name = n THEN [u EXCEPT !.cookie = k] ELSE u
<1>1. ASSUME NEW u \in user
      PROVE  /\ F(u).name = u.name
             /\ F(u).cookie = IF u.name = n THEN k ELSE u.cookie
  <2>1. u \in UserRow
    BY DEF TypeOK, StoreTypeOK
  <2> QED
    BY <2>1 DEF UserRow
<1>2. user' = {F(u) : u \in user}
  BY DEF WithCookie
<1> HIDE DEF F
<1>3. UserUnique(user)'
  BY DEF UserUnique
<1>4. \A w \in user' : w.cookie \in drawn'
  BY <1>1, <1>2 DEF CookiesDrawn
<1>5. ASSUME ~Redraw, NEW j \in drawn PROVE OwnersNext(j) \subseteq Owners(j)
  <2> SUFFICES ASSUME NEW w \in user', w.cookie = j
               PROVE  w.name \in Owners(j)
    BY DEF OwnersNext
  <2>1. PICK u \in user : w = F(u)
    BY <1>2
  <2>2. k # j
    BY <1>5 DEF Random
  <2>3. u.cookie = j /\ w.name = u.name
    BY <1>1, <2>1, <2>2
  <2> QED
    BY <2>3 DEF Owners
<1> QED
  BY <1>3, <1>4, <1>5 DEF CookiesGrow, CookiesDrawn

LEMMA InsertUserGrows ==
  ASSUME CookiesDrawn, NEW k \in Random, NEW row, row.cookie = k,
         InsertableUser(row), user' = user \cup {row}, drawn' = drawn \cup {k}
  PROVE  CookiesGrow
<1>1. UserUnique(user)'
  BY DEF UserUnique, InsertableUser, CookiesDrawn
<1>2. \A w \in user' : w.cookie \in drawn'
  BY DEF CookiesDrawn
<1>3. ASSUME ~Redraw, NEW j \in drawn PROVE OwnersNext(j) \subseteq Owners(j)
  BY <1>3 DEF Owners, OwnersNext, Random
<1> QED
  BY <1>1, <1>2, <1>3 DEF CookiesGrow, CookiesDrawn

LEMMA NewRandomCookieGrows ==
  ASSUME TypeOK, CookiesDrawn, NEW c \in Conn, NEW n, NEW f,
         NewRandomCookie(c, n, f)
  PROVE  CookiesGrow
BY WithCookieGrows, CookiesUnchanged
DEF NewRandomCookie, Aborts, tables

LEMMA CreateAccountGrows ==
  ASSUME CookiesDrawn, NEW c \in Conn, CreateAccount(c)
  PROVE  CookiesGrow
<1> DEFINE r == req[c]
           Row(k) == [name |-> r.username, password |-> r.password, cookie |-> k]
<1>1. CASE UNCHANGED <<user, drawn>>
  BY <1>1, CookiesUnchanged
<1>2. ASSUME NEW k \in Random, InsertableUser(Row(k)),
             user' = user \cup {Row(k)}, drawn' = drawn \cup {k}
      PROVE  CookiesGrow
  BY <1>2, InsertUserGrows
<1> QED
  BY <1>1, <1>2 DEF CreateAccount, Select, Aborts, tables

\* A statement that stores no cookie leaves the cookies alone.
LEMMA HandleGrows ==
  ASSUME TypeOK, CookiesDrawn, NEW c \in Conn, Handle(c)
  PROVE  CookiesGrow
<1>1. CASE Disconnect(c)
  BY <1>1, NewRandomCookieGrows, CookiesUnchanged
  DEF Disconnect, Authenticate, tables
<1>2. CASE Connect(c)
  BY <1>2, NewRandomCookieGrows, CookiesUnchanged
  DEF Connect, Select, tables
<1>3. CASE SendGazou(c)
  <2>1. UNCHANGED <<user, drawn>>
    BY <1>3 DEF SendGazou, Authenticate, CheckLength, InsertTag, InsertGazou,
                LinkTag, Aborts, tables
  <2> QED
    BY <2>1, CookiesUnchanged
<1>4. CASE RelayGazou(c) \/ GetGazou(c)
  <2>1. UNCHANGED <<user, drawn>>
    BY <1>4 DEF RelayGazou, GetGazou, Authenticate, Select, SelectPage,
                SelectTags, Aborts, tables
  <2> QED
    BY <2>1, CookiesUnchanged
<1>5. CASE FollowUser(c) \/ UnfollowUser(c) \/ FollowTag(c) \/ UnfollowTag(c)
  <2>1. UNCHANGED <<user, drawn>>
    BY <1>5 DEF FollowUser, UnfollowUser, FollowTag, UnfollowTag, Authenticate,
                Select, WriteUserSubscription, WriteTagSubscription, Aborts,
                tables
  <2> QED
    BY <2>1, CookiesUnchanged
<1>6. CASE \/ ListFollowedUsers(c) \/ ListFollowedTags(c)
           \/ ListMyFollowers(c) \/ RefuseMessage(c)
  <2>1. UNCHANGED <<user, drawn>>
    BY <1>6 DEF ListFollowedUsers, ListFollowedTags, ListMyFollowers, List,
                RefuseMessage, Authenticate, tables
  <2> QED
    BY <2>1, CookiesUnchanged
<1> QED
  BY <1>1, <1>2, <1>3, <1>4, <1>5, <1>6, CreateAccountGrows DEF Handle

----------------------------------------------------------------------------
(* What a handler makes of the frame of its worker. *)

\* The frames that a step may leave: the history flag "stale" of f is h.
Stale(f, h) == "stale" \in DOMAIN f /\ f.stale = h

LEMMA AnsweredStale ==
  ASSUME NEW c, NEW f, NEW h, NEW code, Stale(f, h)
  PROVE  Stale(Answered(c, f, code), h)
BY DEF Stale, Answered

LEMMA WroteStale ==
  ASSUME NEW f, NEW h, NEW change, Stale(f, h)
  PROVE  Stale(Wrote(f, change), h)
BY DEF Stale, Wrote

LEMMA FrameStale ==
  ASSUME TypeOK, NEW c \in Conn
  PROVE  Stale(frame[c], frame[c].stale)
BY RequestType DEF Stale, Frame

LEMMA GotoStale ==
  ASSUME TypeOK, NEW c \in Conn, NEW place, NEW n
  PROVE  /\ Stale(Goto(c, place), frame[c].stale)
         /\ Stale([Goto(c, place) EXCEPT !.user = n], frame[c].stale)
BY FrameStale DEF Stale, Goto

\* The step moves the worker of c alone, and leaves its flag as it is.
FlagKept(c) ==
  /\ frame'[c].stale = frame[c].stale
  /\ req'[c] = req[c]
  /\ \A d \in Conn \ {c} : frame'[d] = frame[d] /\ req'[d] = req[d]

LEMMA StepKeepsFlag ==
  ASSUME TypeOK, NEW c \in Conn, NEW f, Step(c, f), Stale(f, frame[c].stale)
  PROVE  FlagKept(c)
BY StepFrame DEF FlagKept, Stale

LEMMA AnswerKeepsFlag ==
  ASSUME TypeOK, NEW c \in Conn, NEW code, Answer(c, code)
  PROVE  FlagKept(c)
BY StepKeepsFlag, AnsweredStale, FrameStale DEF Answer

LEMMA SelectKeepsFlag ==
  ASSUME TypeOK, NEW c \in Conn, NEW place, NEW ok, NEW code, NEW next,
         Select(c, place, ok, code, next)
  PROVE  FlagKept(c)
BY StepKeepsFlag, AnswerKeepsFlag, GotoStale DEF Select

LEMMA AuthenticateKeepsFlag ==
  ASSUME TypeOK, NEW c \in Conn, NEW next, Authenticate(c, next)
  PROVE  FlagKept(c)
BY StepKeepsFlag, AnswerKeepsFlag, GotoStale DEF Authenticate

LEMMA AbortsKeepsFlag ==
  ASSUME TypeOK, NEW c \in Conn, NEW place, NEW clash, Aborts(c, place, clash)
  PROVE  FlagKept(c)
BY AnswerKeepsFlag DEF Aborts

\* A write that is the last statement of its handler.
LEMMA LastWriteKeepsFlag ==
  ASSUME TypeOK, NEW c \in Conn, NEW change,
         Step(c, Wrote(Answered(c, frame[c], 0), change))
  PROVE  FlagKept(c)
BY StepKeepsFlag, WroteStale, AnsweredStale, FrameStale

LEMMA NewRandomCookieKeepsFlag ==
  ASSUME TypeOK, NEW c \in Conn, NEW n, NEW f, Stale(f, frame[c].stale),
         NewRandomCookie(c, n, f)
  PROVE  FlagKept(c)
BY StepKeepsFlag, WroteStale, AbortsKeepsFlag DEF NewRandomCookie

LEMMA CreateAccountKeepsFlag ==
  ASSUME TypeOK, NEW c \in Conn, CreateAccount(c)
  PROVE  FlagKept(c)
BY SelectKeepsFlag, LastWriteKeepsFlag, AbortsKeepsFlag DEF CreateAccount

LEMMA ConnectKeepsFlag ==
  ASSUME TypeOK, NEW c \in Conn, Connect(c)
  PROVE  FlagKept(c)
<1>1. ASSUME NEW k, Step(c, Answered(c, [frame[c] EXCEPT !.cookie = k], 0))
      PROVE  FlagKept(c)
  <2>1. Stale([frame[c] EXCEPT !.cookie = k], frame[c].stale)
    BY FrameStale DEF Stale
  <2> QED
    BY <1>1, <2>1, StepKeepsFlag, AnsweredStale
<1>2. CASE NewRandomCookie(c, req[c].username, Goto(c, "select_cookie"))
  BY <1>2, NewRandomCookieKeepsFlag, GotoStale
<1> QED
  BY <1>1, <1>2, SelectKeepsFlag, AnswerKeepsFlag DEF Connect

LEMMA DisconnectKeepsFlag ==
  ASSUME TypeOK, NEW c \in Conn, Disconnect(c)
  PROVE  FlagKept(c)
<1>1. Stale(Answered(c, frame[c], 0), frame[c].stale)
  BY AnsweredStale, FrameStale
<1> QED
  BY <1>1, AuthenticateKeepsFlag, NewRandomCookieKeepsFlag DEF Disconnect

LEMMA SendGazouKeepsFlag ==
  ASSUME TypeOK, NEW c \in Conn, SendGazou(c)
  PROVE  FlagKept(c)
<1> DEFINE h == frame[c].stale
<1>1. CASE CheckLength(c)
  <2>1. ASSUME NEW t, NEW p
        PROVE  Stale([frame[c] EXCEPT !.todo = t, !.at = p], h)
    BY FrameStale DEF Stale
  <2> QED
    BY <1>1, <2>1, StepKeepsFlag, AnswerKeepsFlag DEF CheckLength
<1>2. CASE InsertTag(c)
  <2>1. ASSUME NEW t, NEW p
        PROVE  Stale([frame[c] EXCEPT !.todo = @ \ t, !.at = p], h)
    BY FrameStale DEF Stale
  <2> QED
    BY <1>2, <2>1, StepKeepsFlag, WroteStale, AbortsKeepsFlag DEF InsertTag
<1>3. CASE InsertGazou(c)
  <2> DEFINE f(i) == Wrote([frame[c] EXCEPT !.gid = i], TRUE)
  <2>1. ASSUME NEW i PROVE Stale(f(i), h)
    <3>1. Stale([frame[c] EXCEPT !.gid = i], h)
      BY FrameStale DEF Stale
    <3> QED
      BY <3>1, WroteStale
  <2> HIDE DEF f
  <2>2. ASSUME NEW i, NEW p, NEW t
        PROVE  Stale([f(i) EXCEPT !.at = p, !.todo = t], h)
    BY <2>1 DEF Stale
  <2>3. ASSUME NEW i, NEW t,
               Step(c, IF t = {} THEN Answered(c, f(i), 0)
                       ELSE [f(i) EXCEPT !.at = "link_tag", !.todo = t])
        PROVE  FlagKept(c)
    BY <2>1, <2>2, <2>3, StepKeepsFlag, AnsweredStale
  <2> QED
    BY <1>3, <2>3, AbortsKeepsFlag DEF InsertGazou, f
<1>4. CASE LinkTag(c)
  <2>1. ASSUME NEW t PROVE Stale([frame[c] EXCEPT !.todo = @ \ t], h)
    BY FrameStale DEF Stale
  <2> QED
    BY <1>4, <2>1, StepKeepsFlag, AnsweredStale, AbortsKeepsFlag DEF LinkTag
<1> QED
  BY <1>1, <1>2, <1>3, <1>4, AuthenticateKeepsFlag DEF SendGazou

LEMMA RelayGazouKeepsFlag ==
  ASSUME TypeOK, NEW c \in Conn, RelayGazou(c)
  PROVE  FlagKept(c)
BY AuthenticateKeepsFlag, SelectKeepsFlag, LastWriteKeepsFlag, AbortsKeepsFlag
DEF RelayGazou

LEMMA GetGazouKeepsFlag ==
  ASSUME TypeOK, NEW c \in Conn, GetGazou(c)
  PROVE  FlagKept(c)
<1> DEFINE h == frame[c].stale
<1>1. ASSUME NEW P, NEW G,
             Step(c, LET f == [frame[c] EXCEPT !.page = P, !.left = P,
                                               !.pending = G]
                     IN  IF P = {} THEN Answered(c, f, 0)
                                   ELSE [f EXCEPT !.at = "select_tags"])
      PROVE  FlagKept(c)
  <2> DEFINE f == [frame[c] EXCEPT !.page = P, !.left = P, !.pending = G]
  <2>1. Stale(f, h)
    BY FrameStale DEF Stale
  <2> HIDE DEF f
  <2>2. Stale([f EXCEPT !.at = "select_tags"], h)
    BY <2>1 DEF Stale
  <2>3. Step(c, IF P = {} THEN Answered(c, f, 0)
                          ELSE [f EXCEPT !.at = "select_tags"])
    BY <1>1 DEF f
  <2> QED
    BY <2>1, <2>2, <2>3, StepKeepsFlag, AnsweredStale
<1>2. CASE SelectPage(c)
  BY <1>1, <1>2, AnswerKeepsFlag DEF SelectPage
<1>3. CASE SelectTags(c)
  <2>1. ASSUME NEW s, NEW t
        PROVE  Stale([frame[c] EXCEPT !.left = @ \ s, !.shown = @ \cup t], h)
    BY FrameStale DEF Stale
  <2> QED
    BY <1>3, <2>1, StepKeepsFlag, AnsweredStale, AnswerKeepsFlag
    DEF SelectTags
<1> QED
  BY <1>2, <1>3, AuthenticateKeepsFlag DEF GetGazou

LEMMA FollowKeepsFlag ==
  ASSUME TypeOK, NEW c \in Conn,
         FollowUser(c) \/ UnfollowUser(c) \/ FollowTag(c) \/ UnfollowTag(c)
  PROVE  FlagKept(c)
<1>1. ASSUME NEW place, NEW T,
             \/ WriteUserSubscription(c, place, T)
             \/ WriteTagSubscription(c, place, T)
      PROVE  FlagKept(c)
  BY <1>1, LastWriteKeepsFlag DEF WriteUserSubscription, WriteTagSubscription
<1> QED
  BY <1>1, AuthenticateKeepsFlag, SelectKeepsFlag, AbortsKeepsFlag
  DEF FollowUser, UnfollowUser, FollowTag, UnfollowTag

LEMMA ListKeepsFlag ==
  ASSUME TypeOK, NEW c \in Conn, NEW method, NEW rows, List(c, method, rows)
  PROVE  FlagKept(c)
<1>1. Stale([frame[c] EXCEPT !.list = rows], frame[c].stale)
  BY FrameStale DEF Stale
<1> QED
  BY <1>1, AuthenticateKeepsFlag, StepKeepsFlag, AnsweredStale,
     AnswerKeepsFlag DEF List

LEMMA HandleKeepsFlag ==
  ASSUME TypeOK, NEW c \in Conn, Handle(c)
  PROVE  FlagKept(c)
<1>1. CASE ListFollowedUsers(c) \/ ListFollowedTags(c) \/ ListMyFollowers(c)
  BY <1>1, ListKeepsFlag
  DEF ListFollowedUsers, ListFollowedTags, ListMyFollowers
<1>2. CASE RefuseMessage(c)
  BY <1>2, AnswerKeepsFlag DEF RefuseMessage
<1> QED
  BY <1>1, <1>2, CreateAccountKeepsFlag, ConnectKeepsFlag,
     DisconnectKeepsFlag, SendGazouKeepsFlag, RelayGazouKeepsFlag,
     GetGazouKeepsFlag, FollowKeepsFlag DEF Handle

\* A worker that has read an authenticated request begins by authenticating.
LEMMA AuthenticatesFirst ==
  ASSUME NEW c \in Conn, Handle(c), frame[c].at \in {"start", "answered"},
         req[c].method \in AuthenticatedMethods
  PROVE  frame[c].at = "start" /\ \E next : Authenticate(c, next)
<1> USE DEF AuthenticatedMethods, method_names
<1>1. CASE Disconnect(c)
  BY <1>1 DEF Disconnect, NewRandomCookie, Aborts, Authenticate
<1>2. CASE SendGazou(c)
  BY <1>2 DEF SendGazou, CheckLength, InsertTag, InsertGazou, LinkTag, Aborts,
              Authenticate
<1>3. CASE RelayGazou(c)
  BY <1>3 DEF RelayGazou, Select, Aborts, Authenticate
<1>4. CASE GetGazou(c)
  BY <1>4 DEF GetGazou, SelectPage, SelectTags, Authenticate
<1>5. CASE FollowUser(c) \/ UnfollowUser(c)
  BY <1>5 DEF FollowUser, UnfollowUser, Select, WriteUserSubscription, Aborts,
              Authenticate
<1>6. CASE FollowTag(c) \/ UnfollowTag(c)
  BY <1>6 DEF FollowTag, UnfollowTag, Select, WriteTagSubscription, Aborts,
              Authenticate
<1>7. CASE ListFollowedUsers(c) \/ ListFollowedTags(c) \/ ListMyFollowers(c)
  BY <1>7 DEF ListFollowedUsers, ListFollowedTags, ListMyFollowers, List,
              Authenticate
<1>8. ~(CreateAccount(c) \/ Connect(c) \/ RefuseMessage(c))
  BY DEF CreateAccount, Connect, RefuseMessage
<1> QED
  BY <1>1, <1>2, <1>3, <1>4, <1>5, <1>6, <1>7, <1>8 DEF Handle

\* The fields of a refusal.
LEMMA RefusalFields ==
  ASSUME TypeOK, NEW c \in Conn, NEW code \in Nat \ {0}, Answer(c, code)
  PROVE  /\ frame'[c].at = "answered"
         /\ frame'[c].wrote = frame[c].wrote
         /\ frame'[c].user = frame[c].user /\ frame'[c].gid = frame[c].gid
         /\ frame'[c].code \in {code, SPEC_ERR_FORMAT}
         /\ req'[c] = req[c]
<1>1. frame'[c] = Answered(c, frame[c], code) /\ req'[c] = req[c]
  BY StepFrame DEF Answer
<1> QED
  BY <1>1, RequestType DEF Answered, Frame

\* A request that arrived with a replaced cookie is refused at once.
LEMMA StaleIsRefused ==
  ASSUME TypeOK, NEW c \in Conn, Handle(c), Owners(req[c].cookie) = {},
         frame[c].at \in {"start", "answered"},
         req[c].method \in AuthenticatedMethods
  PROVE  /\ frame'[c].at = "answered"
         /\ frame'[c].wrote = frame[c].wrote
         /\ frame'[c].code \in {SPEC_ERR_INCORRECT_COOKIE, SPEC_ERR_FORMAT}
<1>1. Answer(c, SPEC_ERR_INCORRECT_COOKIE)
  BY AuthenticatesFirst DEF Authenticate
<1> QED
  BY <1>1, RefusalFields DEF SPEC_ERR_INCORRECT_COOKIE

----------------------------------------------------------------------------
(* disconnect. *)

\* The UPDATE takes the cookie away from the only user who had it.
LEMMA RevokesCookie ==
  ASSUME TypeOK, NEW n, NEW j, NEW k, k # j, Owners(j) \subseteq {n},
         user' = WithCookie(n, k)
  PROVE  OwnersNext(j) = {}
<1> DEFINE F(u) == IF u.name = n THEN [u EXCEPT !.cookie = k] ELSE u
<1>1. user' = {F(u) : u \in user}
  BY DEF WithCookie
<1>2. ASSUME NEW w \in user', w.cookie = j PROVE FALSE
  <2>1. PICK u \in user : w = F(u)
    BY <1>1
  <2>2. u \in UserRow
    BY DEF TypeOK, StoreTypeOK
  <2>3. CASE u.name = n
    BY <1>2, <2>1, <2>2, <2>3 DEF UserRow
  <2>4. CASE u.name # n
    BY <1>2, <2>1, <2>4 DEF Owners
  <2> QED
    BY <2>3, <2>4
<1> QED
  BY <1>2 DEF OwnersNext

\* The second and third parts of SessionOf, which are about disconnect.
LogoutOf(c) ==
  /\ req[c].method = "disconnect" /\ frame[c].at = "update_cookie" =>
       /\ req[c].cookie \in drawn
       /\ Owners(req[c].cookie) \subseteq {frame[c].user}
  /\ Got(c, "disconnect", 0) =>
       /\ req[c].cookie \in drawn
       /\ Owners(req[c].cookie) = {}

LEMMA AuthenticateLogout ==
  ASSUME TypeOK, CookiesDrawn, NEW c \in Conn,
         Authenticate(c, "update_cookie")
  PROVE  LogoutOf(c)'
<1>1. ASSUME NEW n \in Owners(req[c].cookie),
             Step(c, [Goto(c, "update_cookie") EXCEPT !.user = n])
      PROVE  LogoutOf(c)'
  <2>1. /\ req[c].cookie \in drawn
        /\ Owners(req[c].cookie) \subseteq {n}
    BY DEF Owners, CookiesDrawn, UserUnique
  <2>2. frame[c] \in Frame
    BY RequestType
  <2>3. /\ [Goto(c, "update_cookie") EXCEPT !.user = n].user = n
        /\ [Goto(c, "update_cookie") EXCEPT !.user = n].at = "update_cookie"
    BY <2>2 DEF Goto, Frame
  <2>4. /\ frame'[c].user = n
        /\ frame'[c].at = "update_cookie"
        /\ req'[c] = req[c]
    BY <1>1, <2>3, StepFrame
  <2>5. UNCHANGED <<user, drawn>>
    BY DEF Authenticate, tables
  <2> QED
    BY <2>1, <2>4, <2>5 DEF LogoutOf, Got, Owners
<1>2. CASE Answer(c, SPEC_ERR_INCORRECT_COOKIE)
  <2>1. /\ frame'[c].at = "answered"
        /\ frame'[c].code # 0
    BY <1>2, RefusalFields DEF SPEC_ERR_INCORRECT_COOKIE, SPEC_ERR_FORMAT
  <2> QED
    BY <2>1 DEF LogoutOf, Got
<1> QED
  BY <1>1, <1>2 DEF Authenticate

LEMMA DisconnectLogout ==
  ASSUME TypeOK, CookiesDrawn, ~Redraw, NEW c \in Conn, SessionOf(c),
         Disconnect(c)
  PROVE  LogoutOf(c)'
<1> DEFINE j == req[c].cookie
           n == frame[c].user
           f == Wrote(Answered(c, frame[c], 0), TRUE)
<1>1. CASE Authenticate(c, "update_cookie")
  BY <1>1, AuthenticateLogout
<1>2. CASE Answer(c, SPEC_ERR_INTERNAL_SRV)
  <2>1. frame'[c].at = "answered" /\ frame'[c].code # 0
    BY <1>2, RefusalFields DEF SPEC_ERR_INTERNAL_SRV, SPEC_ERR_FORMAT
  <2> QED
    BY <2>1 DEF LogoutOf, Got
<1>3. ASSUME NEW k \in Random, frame[c].at = "update_cookie",
             user' = WithCookie(n, k), drawn' = drawn \cup {k}, Step(c, f)
      PROVE  LogoutOf(c)'
  <2>1. j \in drawn /\ Owners(j) \subseteq {n}
    BY <1>3 DEF SessionOf, Disconnect
  <2>2. k # j
    BY <2>1 DEF Random
  <2>3. OwnersNext(j) = {}
    BY <1>3, <2>1, <2>2, RevokesCookie
  <2>4. f.at = "answered"
    BY RequestType, AnsweredType, AnsweredAt, WroteAt
  <2> HIDE DEF f
  <2>5. frame'[c].at = "answered" /\ req'[c] = req[c]
    BY <1>3, <2>4, StepFrame
  <2>6. Owners(req[c].cookie)' = {} /\ j \in drawn'
    BY <1>3, <2>1, <2>3, <2>5 DEF Owners, OwnersNext
  <2> QED
    BY <2>5, <2>6 DEF LogoutOf, Got
<1> QED
  BY <1>1, <1>2, <1>3 DEF Disconnect, NewRandomCookie, Aborts

----------------------------------------------------------------------------
(* The inductive step, and the theorems. *)

LEMMA HandleLogout ==
  ASSUME TypeOK, CookiesDrawn, ~Redraw, NEW c \in Conn, SessionOf(c),
         Handle(c)
  PROVE  LogoutOf(c)'
<1>1. CASE req[c].method = "disconnect"
  <2>1. Disconnect(c)
    BY <1>1 DEF Handle, CreateAccount, Connect, SendGazou, RelayGazou,
                GetGazou, FollowUser, UnfollowUser, FollowTag, UnfollowTag,
                ListFollowedUsers, ListFollowedTags, ListMyFollowers, List,
                RefuseMessage, method_names
  <2> QED
    BY <2>1, DisconnectLogout
<1>2. CASE req[c].method # "disconnect"
  <2>1. req'[c].method # "disconnect"
    BY <1>2, HandleKeepsFlag DEF FlagKept
  <2> QED
    BY <2>1 DEF LogoutOf, Got
<1> QED
  BY <1>1, <1>2

LEMMA HandleSession ==
  ASSUME TypeOK, CookiesDrawn, ~Redraw, NEW c \in Conn, SessionOf(c),
         Handle(c)
  PROVE  SessionOf(c)'
<1> DEFINE j == req[c].cookie
<1>1. LogoutOf(c)'
  BY HandleLogout
<1>2. /\ frame'[c].stale = frame[c].stale
      /\ req'[c] = req[c]
  BY HandleKeepsFlag DEF FlagKept
<1>3. ASSUME frame[c].stale
      PROVE  /\ j \in drawn'
             /\ Owners(req[c].cookie)' = {}
             /\ req[c].method \in AuthenticatedMethods =>
                  /\ frame'[c].at \in {"start", "answered"}
                  /\ ~frame'[c].wrote
                  /\ frame'[c].at = "answered" =>
                       frame'[c].code \in
                         {SPEC_ERR_INCORRECT_COOKIE, SPEC_ERR_FORMAT}
  <2>1. j \in drawn /\ Owners(j) = {}
    BY <1>3 DEF SessionOf
  <2>2. j \in drawn' /\ OwnersNext(j) = {}
    BY <2>1, HandleGrows DEF CookiesGrow
  <2>3. Owners(req[c].cookie)' = {}
    BY <1>2, <2>2 DEF Owners, OwnersNext
  <2>4. ASSUME req[c].method \in AuthenticatedMethods
        PROVE  /\ frame'[c].at = "answered"
               /\ ~frame'[c].wrote
               /\ frame'[c].code \in
                    {SPEC_ERR_INCORRECT_COOKIE, SPEC_ERR_FORMAT}
    <3>1. frame[c].at \in {"start", "answered"} /\ ~frame[c].wrote
      BY <1>3, <2>4 DEF SessionOf
    <3> QED
      BY <2>1, <2>4, <3>1, StaleIsRefused
  <2> QED
    BY <2>2, <2>3, <2>4
<1> QED
  BY <1>1, <1>2, <1>3 DEF SessionOf, LogoutOf

\* A request that has just been read.
LEMMA DispatchSession ==
  ASSUME TypeOK, NEW c \in Conn, NEW r \in Requests, DispatchRequest(c, r)
  PROVE  SessionOf(c)'
<1> DEFINE s == r.cookie \in drawn /\ Owners(r.cookie) = {}
<1>1. frame'[c] = [Idle EXCEPT !.at = "start", !.stale = s] /\ req'[c] = r
  BY DEF TypeOK, DispatchRequest
<1> HIDE DEF s
<1>2. /\ frame'[c].at = "start"
      /\ frame'[c].stale = s
      /\ frame'[c].wrote = FALSE
  BY <1>1 DEF Idle
<1>3. UNCHANGED <<user, drawn>>
  BY DEF DispatchRequest, tables
<1> QED
  BY <1>1, <1>2, <1>3 DEF SessionOf, Got, Owners, s

LEMMA EndedSession ==
  ASSUME TypeOK, NEW c \in Conn, Ended(c)
  PROVE  SessionOf(c)'
<1>1. frame'[c] = Idle
  BY DEF TypeOK, Ended
<1>2. Idle.at = "idle" /\ Idle.stale = FALSE
  BY DEF Idle
<1>3. frame'[c].at = "idle" /\ ~frame'[c].stale
  BY <1>1, <1>2
<1> QED
  BY <1>3 DEF SessionOf, Got

LEMMA InitSessions == Init => SessionsInv
<1> SUFFICES ASSUME Init PROVE SessionsInv
  OBVIOUS
<1>1. CookiesDrawn
  BY SeedAssumption DEF Init, StoreInit, CookiesDrawn, UserUnique
<1>2. \A c \in Conn : SessionOf(c)
  BY DEF Init, Idle, SessionOf, Got
<1> QED
  BY <1>1, <1>2, InitType, SessionsByWorker

LEMMA NextSessions == SessionsInv /\ TypeOK' /\ [Next]_vars => SessionsInv'
<1>1. ASSUME SessionsInv, UNCHANGED vars PROVE SessionsInv'
  <2>1. TypeOK /\ CookiesDrawn /\ (~Redraw => \A c \in Conn : SessionOf(c))
    BY <1>1, SessionsByWorker
  <2>2. TypeOK' /\ CookiesDrawn'
    BY <1>1, <2>1 DEF TypeOK, StoreTypeOK, CookiesDrawn, vars, tables
  <2>3. CookiesGrow
    BY <1>1, <2>1, CookiesUnchanged DEF vars, tables
  <2>4. ~Redraw => \A c \in Conn : SessionOf(c)'
    BY <1>1, <2>1, <2>3, SessionKept DEF vars
  <2> QED
    BY <2>2, <2>4, SessionsByWorkerNext
<1>2. ASSUME SessionsInv, TypeOK', NEW c \in Conn,
             \/ Handle(c)
             \/ \E r \in Requests : DispatchRequest(c, r)
             \/ Ended(c)
      PROVE  SessionsInv'
  <2>1. TypeOK /\ CookiesDrawn /\ (~Redraw => \A d \in Conn : SessionOf(d))
    BY <1>2, SessionsByWorker
  <2>2. CookiesGrow
    BY <1>2, <2>1, HandleGrows, CookiesUnchanged
    DEF DispatchRequest, Ended, tables
  <2>3. \A d \in Conn \ {c} : frame'[d] = frame[d] /\ req'[d] = req[d]
    BY <1>2, <2>1, HandleKeepsFlag
    DEF FlagKept, TypeOK, DispatchRequest, Ended
  <2>4. ~Redraw => SessionOf(c)'
    BY <1>2, <2>1, HandleSession, DispatchSession, EndedSession
  <2>5. ~Redraw => \A d \in Conn : SessionOf(d)'
    BY <2>1, <2>2, <2>3, <2>4, SessionKept
  <2> QED
    BY <1>2, <2>2, <2>5, SessionsByWorkerNext DEF CookiesGrow
<1> QED
  BY <1>1, <1>2 DEF Next

\* The strengthened invariant of the cookies holds in every reachable state.
THEOREM SessionsAlways == Spec => []SessionsInv
<1> QED
  BY InitSessions, NextSessions, TypeCorrect, PTL DEF Spec

\* A request whose cookie had been replaced when it arrived is refused, and
\* changes nothing, however its statements interleave with those of the other
\* workers (user_name_from_cookie and new_random_cookie of methods.c).
THEOREM RevokedCorrect == Spec => []RevokedStaysRevoked
<1>1. SessionsInv => RevokedStaysRevoked
  BY DEF SessionsInv
<1> QED
  BY <1>1, SessionsAlways, PTL

\* When disconnect has answered without error, its cookie authenticates nobody,
\* from then on, even if a connect of the same account ran between its two
\* statements.
THEOREM LogoutCorrect == Spec => []LogoutRevokes
<1>1. SessionsInv => LogoutRevokes
  BY DEF SessionsInv
<1> QED
  BY <1>1, SessionsAlways, PTL
============================================================================
