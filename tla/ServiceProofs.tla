--------------------------- MODULE ServiceProofs ---------------------------
(***************************************************************************)
(* Methods implements Service, for every value of the constants: each      *)
(* statement that a worker executes is one action of the service, or one   *)
(* the service does not see.                                               *)
(*                                                                         *)
(* A handler acts on what its earlier statements found, the service on     *)
(* what is true when it acts.  The invariant of the refinement says that   *)
(* what a handler found is still true, whatever ran in between: accounts   *)
(* keep their names and passwords, gazouillis are never deleted.           *)
(***************************************************************************)
EXTENDS MethodsService, AnswersProofs

----------------------------------------------------------------------------
(* The refinement mapping. *)

\* The places at which a request is open for the service.
OpenAt == Place \ {"idle", "answered", "select_cookie", "link_tag", "select_tags"}

LEMMA PhaseOfPlace ==
  /\ \A p \in OpenAt : PhaseAt(p) = "open"
  /\ PhaseAt("idle") = "idle" /\ PhaseAt("answered") = "answered"
  /\ PhaseAt("select_cookie") = "granted" /\ PhaseAt("link_tag") = "labelling"
  /\ PhaseAt("select_tags") = "delivering"
  /\ \A p \in Place : PhaseAt(p) \in {"idle", "answered"} => p \in {"idle", "answered"}
BY DEF PhaseAt, OpenAt, Place, ReadAt, WriteAt

LEMMA OpenPlaces ==
  /\ {"start", "check_length", "select_password", "select_user",
      "select_subscription", "select_gazou", "select_relay", "select_list",
      "select_page", "insert_user", "update_cookie", "insert_tag",
      "insert_gazou", "insert_subscription", "delete_subscription",
      "insert_relay"} \subseteq OpenAt
  /\ OpenAt \cap {"idle", "answered", "select_cookie", "link_tag",
                  "select_tags"} = {}
BY DEF OpenAt, Place, ReadAt, WriteAt

\* A step of a worker is a step of its session.
LEMMA StepBecomes ==
  ASSUME TypeOK, NEW c \in Conn, NEW f, Step(c, f)
  PROVE  S!Become(c, SessionAt(f))
<1>1. PICK s : s = SessionAt(f)
  OBVIOUS
<1>2. \A d \in Conn : SessionAt(frame[d])' = IF d = c THEN s ELSE SessionAt(frame[d])
  BY <1>1 DEF Step, TypeOK, SessionAt
<1>3. QED
  BY <1>1, <1>2 DEF S!Become, Step

\* What the service sees of a frame, and of one that has written.
LEMMA SessionFields ==
  ASSUME NEW f
  PROVE  /\ SessionAt(f).phase = PhaseAt(f.at)
         /\ SessionAt(f).who = f.user /\ SessionAt(f).gid = f.gid
         /\ SessionAt(f).code = f.code /\ SessionAt(f).cookie = f.cookie
         /\ SessionAt(f).list = f.list /\ SessionAt(f).page = f.page
         /\ SessionAt(f).owed = IF f.at = "link_tag" THEN f.todo ELSE {}
BY DEF SessionAt

LEMMA WroteSession ==
  ASSUME NEW f \in Frame, NEW change \in BOOLEAN
  PROVE  SessionAt(Wrote(f, change)) = SessionAt(f)
<1>1. /\ Wrote(f, change).at = f.at /\ Wrote(f, change).user = f.user
      /\ Wrote(f, change).gid = f.gid /\ Wrote(f, change).todo = f.todo
      /\ Wrote(f, change).code = f.code /\ Wrote(f, change).cookie = f.cookie
      /\ Wrote(f, change).list = f.list /\ Wrote(f, change).page = f.page
  BY DEF Wrote, Frame
<1>2. QED
  BY <1>1 DEF SessionAt

\* A session as a record of its fields.
Fields(p, w, g, o, e, k, l, q) ==
  [phase |-> p, who |-> w, gid |-> g, owed |-> o, code |-> e, cookie |-> k,
   list |-> l, page |-> q]

\* The session of a frame with these fields.
LEMMA SessionEqual ==
  ASSUME NEW f, NEW p, NEW w, NEW g, NEW o, NEW e, NEW k, NEW l, NEW q,
         PhaseAt(f.at) = p, f.user = w, f.gid = g,
         (IF f.at = "link_tag" THEN f.todo ELSE {}) = o,
         f.code = e, f.cookie = k, f.list = l, f.page = q
  PROVE  SessionAt(f) = Fields(p, w, g, o, e, k, l, q)
BY DEF SessionAt, Fields

\* The session of a frame, with one field changed.
LEMMA ChangedSession ==
  ASSUME NEW f, f.at # "link_tag", NEW x
  PROVE  /\ [SessionAt(f) EXCEPT !.phase = x]
               = Fields(x, f.user, f.gid, {}, f.code, f.cookie, f.list, f.page)
         /\ [SessionAt(f) EXCEPT !.who = x]
               = Fields(PhaseAt(f.at), x, f.gid, {}, f.code, f.cookie, f.list, f.page)
         /\ [SessionAt(f) EXCEPT !.gid = x]
               = Fields(PhaseAt(f.at), f.user, x, {}, f.code, f.cookie, f.list, f.page)
         /\ [SessionAt(f) EXCEPT !.cookie = x]
               = Fields(PhaseAt(f.at), f.user, f.gid, {}, f.code, x, f.list, f.page)
         /\ [SessionAt(f) EXCEPT !.list = x]
               = Fields(PhaseAt(f.at), f.user, f.gid, {}, f.code, f.cookie, x, f.page)
         /\ [SessionAt(f) EXCEPT !.page = x]
               = Fields(PhaseAt(f.at), f.user, f.gid, {}, f.code, f.cookie, f.list, x)
<1>1. PICK p, w, g, e, k, l, q :
        /\ p = PhaseAt(f.at) /\ w = f.user /\ g = f.gid /\ e = f.code
        /\ k = f.cookie /\ l = f.list /\ q = f.page
  OBVIOUS
<1>2. SessionAt(f) = Fields(p, w, g, {}, e, k, l, q)
  BY <1>1 DEF SessionAt, Fields
<1> DEFINE r == Fields(p, w, g, {}, e, k, l, q)
<1>3. [r EXCEPT !.phase = x] = Fields(x, w, g, {}, e, k, l, q)
  BY DEF Fields
<1>4. [r EXCEPT !.who = x] = Fields(p, x, g, {}, e, k, l, q)
  BY DEF Fields
<1>5. [r EXCEPT !.gid = x] = Fields(p, w, x, {}, e, k, l, q)
  BY DEF Fields
<1>6. [r EXCEPT !.cookie = x] = Fields(p, w, g, {}, e, x, l, q)
  BY DEF Fields
<1>7. [r EXCEPT !.list = x] = Fields(p, w, g, {}, e, k, x, q)
  BY DEF Fields
<1>8. [r EXCEPT !.page = x] = Fields(p, w, g, {}, e, k, l, x)
  BY DEF Fields
<1>9. QED
  BY <1>1, <1>2, <1>3, <1>4, <1>5, <1>6, <1>7, <1>8, Zenon

\* An answer of a worker is the answer of the service.
LEMMA AnsweredReplies ==
  ASSUME TypeOK, NEW c \in Conn, NEW f \in Frame, NEW code \in Nat,
         f.at = "link_tag" /\ code = 0 /\ req[c].id => f.todo = {},
         NEW change \in BOOLEAN,
         \/ Step(c, Answered(c, f, code))
         \/ Step(c, Wrote(Answered(c, f, code), change))
  PROVE  S!Reply(c, SessionAt(f), code)
<1> DEFINE s == SessionAt(f)
           g == Answered(c, f, code)
<1>1. S!Become(c, SessionAt(g))
  BY AnsweredType, StepBecomes, WroteSession
<1>2. /\ g.at = "answered" /\ g.user = f.user /\ g.gid = f.gid
      /\ IF code = 0 /\ req[c].id
           THEN /\ g.code = f.code /\ g.cookie = f.cookie
                /\ g.list = f.list /\ g.page = f.page
           ELSE /\ g.code = (IF req[c].id THEN code ELSE 10)
                /\ g.cookie = -1 /\ g.list = {} /\ g.page = {}
  BY DEF Answered, Frame, SPEC_ERR_FORMAT
<1> HIDE DEF g
<1>3. CASE code = 0 /\ req[c].id
  <2>1. SessionAt(g) = [s EXCEPT !.phase = "answered"]
    BY <1>2, <1>3, PhaseOfPlace DEF SessionAt
  <2>2. QED
    BY <1>1, <1>3, <2>1 DEF S!Reply
<1>4. CASE ~(code = 0 /\ req[c].id)
  <2>1. PICK e : e = IF req[c].id THEN code ELSE 10
    OBVIOUS
  <2>2. SessionAt(g) = Fields("answered", f.user, f.gid, {}, e, -1, {}, {})
    BY <1>2, <1>4, <2>1, PhaseOfPlace, SessionEqual
  <2>3. s.who = f.user /\ s.gid = f.gid
    BY SessionFields
  <2> HIDE DEF s
  <2>4. QED
    BY <1>1, <1>4, <2>1, <2>2, <2>3 DEF S!Reply, Fields, s
<1>5. QED
  BY <1>3, <1>4

----------------------------------------------------------------------------
(* The steps that handlers share. *)

\* A step that the service does not see.
LEMMA HiddenStep ==
  ASSUME TypeOK, NEW c \in Conn, NEW f, Step(c, f),
         SessionAt(f) = SessionAt(frame[c]),
         UNCHANGED <<user, gazou, gazou_tag, user_subscription,
                     tag_subscription, relay, drawn>>
  PROVE  UNCHANGED S!vars
<1>1. \A d \in Conn : SessionAt(frame[d])' = SessionAt(frame[d])
  BY DEF Step, TypeOK, SessionAt
<1>2. UNCHANGED req
  BY DEF Step
<1>3. QED
  BY <1>1, <1>2 DEF S!vars, S!tables

\* A place at which a statement may be executed.
LEMMA ServedAt ==
  ASSUME NEW d \in Conn, frame[d].at \in Place
  PROVE  S!Served(d) <=> frame[d].at \notin {"idle", "answered"}
BY PhaseOfPlace DEF S!Served, SessionAt

\* A lock that a statement meets is held for another request.
LEMMA BusyIsContended ==
  ASSUME TypeOK, NEW c \in Conn, ReadBusy(c) \/ WriteBusy(c)
  PROVE  S!Contended(c)
<1>1. PICK d \in Conn \ {c} : frame[d].at \in ReadAt \cup WriteAt
  BY DEF ReadBusy, WriteBusy, OthersInside
<1>2. frame[d].at \in Place /\ frame[d].at \notin {"idle", "answered"}
  BY <1>1 DEF Place, ReadAt, WriteAt
<1>3. QED
  BY <1>1, <1>2, ServedAt DEF S!Contended

\* A refusal that the service would give too.
TrueCode(c, code) ==
  \/ code = 1 /\ S!Misnamed(c)
  \/ code = 2 /\ S!Inapplicable(c)
  \/ code = 10 /\ req[c].method = ""
  \/ code = 11 /\ (S!Contended(c) \/ S!Clashes(c))
  \/ code = 13 /\ req[c].method \notin S!Methods13 \cup {""}
  \/ /\ code = 14 /\ req[c].method \notin S!Anonymous /\ frame[c].user = ""
     /\ Owners(req[c].cookie) = {} \/ S!Contended(c)

LEMMA AnswerRefuses ==
  ASSUME TypeOK, NEW c \in Conn, NEW code \in Nat, Answer(c, code),
         UNCHANGED <<tables, drawn>>, frame[c].at \notin {"idle", "answered"},
         TrueCode(c, code)
  PROVE  S!Next /\ frame'[c].at = "answered"
<1>1. frame[c] \in Frame /\ frame[c].at \in Place
  BY RequestType DEF Frame
<1>2. code \in {1, 2, 10, 11, 13, 14} /\ code # 0
  <2>1. \/ code = 1 \/ code = 2 \/ code = 10 \/ code = 11 \/ code = 13
        \/ code = 14
    BY Zenon DEF TrueCode
  <2>2. QED
    BY <2>1
<1>3. S!Reply(c, SessionAt(frame[c]), code)
  BY <1>1, <1>2, AnsweredReplies DEF Answer
<1>4. S!Served(c)
  BY <1>1, ServedAt
<1>5. UNCHANGED <<S!tables, drawn>>
  BY DEF S!tables, tables
<1>6. S!Refuse(c, code)
  BY <1>3, <1>4, <1>5, SessionFields
  DEF S!Refuse, TrueCode, S!Owners, Owners
<1>7. frame'[c].at = "answered"
  BY <1>2, RefusalFields
<1>8. QED
  BY <1>2, <1>6, <1>7 DEF S!Next

\* A new place that the service does not tell from the old one.
LEMMA GotoHidden ==
  ASSUME TypeOK, NEW c \in Conn, frame[c].at \in OpenAt, NEW next \in OpenAt
  PROVE  SessionAt(Goto(c, next)) = SessionAt(frame[c])
<1>1. frame[c] \in Frame
  BY RequestType
<1>2. /\ Goto(c, next).at = next /\ Goto(c, next).user = frame[c].user
      /\ Goto(c, next).gid = frame[c].gid /\ Goto(c, next).code = frame[c].code
      /\ Goto(c, next).cookie = frame[c].cookie
      /\ Goto(c, next).list = frame[c].list /\ Goto(c, next).page = frame[c].page
  BY <1>1 DEF Goto, Frame
<1>3. /\ PhaseAt(next) = PhaseAt(frame[c].at)
      /\ next # "link_tag" /\ frame[c].at # "link_tag"
  BY PhaseOfPlace DEF OpenAt
<1>4. QED
  BY <1>2, <1>3 DEF SessionAt

\* A SELECT that decides: its refusal is true, and what it lets pass is hidden.
LEMMA SelectServes ==
  ASSUME TypeOK, NEW c \in Conn, NEW place \in OpenAt, NEW next \in OpenAt,
         NEW ok, NEW code \in {1, 2}, Select(c, place, ok, code, next),
         ~ok => TrueCode(c, code)
  PROVE  /\ S!Next \/ UNCHANGED S!vars
         /\ frame'[c].at = "answered" \/ (ok /\ frame'[c].at = next)
<1>1. frame[c].at = place /\ place \notin {"idle", "answered"}
  BY DEF Select, OpenAt
<1>2. CASE Step(c, Goto(c, next)) /\ ok
  <2>1. frame'[c].at = next
    BY <1>2, StepFrame, GotoKeeps
  <2>2. UNCHANGED S!vars
    BY <1>1, <1>2, GotoHidden, HiddenStep DEF Select, tables
  <2>3. QED
    BY <1>2, <2>1, <2>2
<1>3. CASE Answer(c, code) /\ ~ok
  BY <1>1, <1>3, AnswerRefuses DEF Select
<1>4. CASE Answer(c, SPEC_ERR_INTERNAL_SRV) /\ ReadBusy(c)
  BY <1>1, <1>4, AnswerRefuses, BusyIsContended
  DEF Select, TrueCode, SPEC_ERR_INTERNAL_SRV
<1>5. QED
  BY <1>2, <1>3, <1>4 DEF Select

\* A SELECT that meets a lock.
LEMMA BusyServes ==
  ASSUME TypeOK, NEW c \in Conn, frame[c].at \notin {"idle", "answered"},
         ReadBusy(c) \/ WriteBusy(c), UNCHANGED <<tables, drawn>>,
         Answer(c, SPEC_ERR_INTERNAL_SRV)
  PROVE  S!Next /\ frame'[c].at = "answered"
BY AnswerRefuses, BusyIsContended DEF TrueCode, SPEC_ERR_INTERNAL_SRV

\* The authentication: the request is given its account, or refused.
LEMMA AuthenticateServes ==
  ASSUME TypeOK, NEW c \in Conn, NEW next \in OpenAt, Authenticate(c, next),
         req[c].method \notin {"create_account", "connect"},
         frame[c].user = ""
  PROVE  /\ S!Next \/ UNCHANGED S!vars
         /\ frame'[c].at \in {"answered", next}
<1>1. frame[c] \in Frame /\ frame[c].at = "start"
  BY RequestType DEF Authenticate
<1>2. ASSUME NEW n \in Owners(req[c].cookie),
             Step(c, [Goto(c, next) EXCEPT !.user = n])
      PROVE  S!Next /\ frame'[c].at = next
  <2> DEFINE g == [Goto(c, next) EXCEPT !.user = n]
             s == SessionAt(frame[c])
  <2>1. /\ g.at = next /\ g.user = n /\ g.gid = frame[c].gid
        /\ g.code = frame[c].code /\ g.cookie = frame[c].cookie
        /\ g.list = frame[c].list /\ g.page = frame[c].page
    BY <1>1 DEF Goto, Frame
  <2>2. S!Become(c, SessionAt(g)) /\ frame'[c] = g
    BY <1>2, StepBecomes, StepFrame
  <2> HIDE DEF g
  <2>3. PhaseAt(next) = "open" /\ PhaseAt("start") = "open" /\ next # "link_tag"
    BY PhaseOfPlace DEF OpenAt, Place, ReadAt
  <2>4. SessionAt(g) = [s EXCEPT !.who = n]
    <3>1. SessionAt(g) = Fields("open", n, frame[c].gid, {}, frame[c].code,
                                frame[c].cookie, frame[c].list, frame[c].page)
      BY <2>1, <2>3 DEF SessionAt, Fields
    <3>2. [SessionAt(frame[c]) EXCEPT !.who = n]
            = Fields(PhaseAt(frame[c].at), n, frame[c].gid, {}, frame[c].code,
                     frame[c].cookie, frame[c].list, frame[c].page)
      BY <1>1, ChangedSession, Zenon
    <3>3. QED
      BY <1>1, <2>3, <3>1, <3>2, Zenon
  <2>5. s.phase = "open" /\ s.who = ""
    BY <1>1, <2>3, SessionFields
  <2> HIDE DEF s
  <2>6. S!Identify(c)
    BY <2>2, <2>4, <2>5
    DEF S!Identify, S!Anonymous, S!Owners, Owners, S!tables, tables,
        Authenticate, s
  <2>7. QED
    BY <2>1, <2>2, <2>6 DEF S!Next
<1>3. CASE /\ Answer(c, SPEC_ERR_INCORRECT_COOKIE)
           /\ Owners(req[c].cookie) = {} \/ ReadBusy(c)
  BY <1>1, <1>3, AnswerRefuses, BusyIsContended
  DEF Authenticate, TrueCode, SPEC_ERR_INCORRECT_COOKIE, S!Anonymous
<1>4. QED
  BY <1>2, <1>3 DEF Authenticate

\* A writing statement that fails.
LEMMA AbortsServes ==
  ASSUME TypeOK, NEW c \in Conn, NEW place \in WriteAt, NEW clash,
         Aborts(c, place, clash), clash => S!Clashes(c)
  PROVE  S!Next /\ frame'[c].at = "answered"
<1>1. frame[c].at \notin {"idle", "answered"}
  BY DEF Aborts, WriteAt
<1>2. QED
  BY <1>1, AnswerRefuses, BusyIsContended
  DEF Aborts, TrueCode, SPEC_ERR_INTERNAL_SRV

\* The last statement of a handler, when it takes effect.
LEMMA LastWriteServes ==
  ASSUME TypeOK, NEW c \in Conn, frame[c].at # "link_tag",
         NEW change \in BOOLEAN,
         Step(c, Wrote(Answered(c, frame[c], 0), change))
  PROVE  S!Succeed(c) /\ frame'[c].at = "answered"
<1>1. frame[c] \in Frame
  BY RequestType
<1>2. S!Reply(c, SessionAt(frame[c]), 0)
  BY <1>1, AnsweredReplies
<1>3. /\ Answered(c, frame[c], 0) \in Frame
      /\ Answered(c, frame[c], 0).at = "answered"
  BY <1>1, AnsweredType, AnsweredFields
<1>4. frame'[c].at = "answered"
  BY <1>3, WroteKeeps, StepFrame
<1>5. QED
  BY <1>2, <1>4 DEF S!Succeed

----------------------------------------------------------------------------
(* The invariant of the refinement. *)

\* What the worker of c has found and still relies on, beyond CheckedBy.
ReadyOf(c) ==
  LET r == req[c]
      f == frame[c]
  IN  /\ f.at = "start" => f.user = ""
      /\ r.method = "connect" /\ f.at \in {"select_password", "update_cookie"}
           => r.username \in Registered
      /\ r.method = "connect" /\ f.at = "update_cookie"
           => r.password \in Passwords(r.username)
      /\ r.method = "unfollow_user"
           /\ f.at \in {"select_subscription", "delete_subscription"}
           => r.username \in Registered
      /\ f.at \in {"insert_tag", "insert_gazou"} => r.content \notin TooLong

\* It survives the steps of the others, because accounts stay.
LEMMA ReadyOfOther ==
  ASSUME NEW d \in Conn, ReadyOf(d), AccountsKept,
         frame'[d] = frame[d], req'[d] = req[d]
  PROVE  ReadyOf(d)'
<1>1. PICK n : n = req[d].username
  OBVIOUS
<1>2. n \in Registered => n \in Registered' /\ Passwords(n)' = Passwords(n)
  <2>1. ASSUME n \in Registered PROVE Passwords(n)' # {}
    BY <2>1 DEF AccountsKept, Passwords, UsersNamed, Registered
  <2>2. QED
    BY <2>1 DEF AccountsKept, Passwords, UsersNamed, Registered
<1>3. Passwords(req[d].username)' = Passwords(n)'
  BY <1>1 DEF Passwords, UsersNamed
<1>4. QED
  BY <1>1, <1>2, <1>3 DEF ReadyOf

\* The methods that rely on nothing more.
LEMMA NothingMore ==
  ASSUME ReferencesInv', NEW c \in Conn, frame'[c].at # "start",
         req'[c].method \notin {"connect", "unfollow_user", "send_gazou"}
  PROVE  ReadyOf(c)'
<1>1. frame'[c].at \notin {"insert_tag", "insert_gazou"}
  BY DEF ReferencesInv, CheckedBy
<1>2. QED
  BY <1>1 DEF ReadyOf

\* What the actions of the service mention, in the terms of Methods.
LEMMA ServiceTerms ==
  ASSUME NEW c \in Conn
  PROVE  /\ S!UserPair(c) = <<req[c].username, frame[c].user>>
         /\ S!TagPair(c) = <<req[c].tag, frame[c].user>>
         /\ S!RelayOf(c) = RelayRowOf(c)
         /\ S!Gazouilli(c) = PostRow(c)
         /\ S!NewCookies = Random
         /\ S!Registered = Registered
         /\ \A n : S!UsersNamed(n) = UsersNamed(n)
         /\ \A k : S!Row(c, k) = [name |-> req[c].username,
                                  password |-> req[c].password, cookie |-> k]
         /\ \A n : /\ S!Followed(n) = Followed(n)
                   /\ S!Followers(n) = Followers(n)
                   /\ S!FollowedTags(n) = FollowedTags(n)
BY DEF S!UserPair, S!TagPair, S!RelayOf, RelayRowOf, S!Gazouilli, PostRow,
       S!NewCookies, Random, S!Registered, Registered, S!UsersNamed, UsersNamed,
       S!Row, SessionAt, S!Followed, Followed, S!Followers, Followers,
       S!FollowedTags, FollowedTags

\* A request that is open, and of somebody.
LEMMA AsksAt ==
  ASSUME NEW c \in Conn, frame[c].at \in OpenAt, NEW m
  PROVE  /\ S!Asks(c, m) <=> req[c].method = m
         /\ S!AsksAsUser(c, m) <=> req[c].method = m /\ frame[c].user # ""
BY PhaseOfPlace, SessionFields DEF S!Asks, S!AsksAsUser

LEMMA SomeUser ==
  ASSUME ReferencesInv, NEW c \in Conn, req[c].method \in AuthenticatedMethods,
         frame[c].at \notin {"idle", "start", "answered"}
  PROVE  frame[c].user # ""
<1>1. frame[c].user \in Registered
  BY DEF ReferencesInv, CheckedBy, Authenticated
<1>2. QED
  BY <1>1, NameAssumption
  DEF Registered, ReferencesInv, TypeOK, StoreTypeOK, UserRow

Serves(c) == (S!Next \/ UNCHANGED S!vars) /\ ReadyOf(c)'

\* The shared steps, in the methods that rely on nothing more.
Plain(c) ==
  /\ ReferencesInv /\ ReferencesInv' /\ Handle(c) /\ ReadyOf(c)
  /\ req[c].method \notin {"connect", "unfollow_user", "send_gazou"}

LEMMA PlainReady ==
  ASSUME NEW c \in Conn, Plain(c), frame'[c].at # "start"
  PROVE  ReadyOf(c)' /\ TypeOK /\ req'[c] = req[c]
BY HandleKeepsFlag, NothingMore DEF Plain, ReferencesInv, FlagKept

LEMMA PlainAuthenticate ==
  ASSUME NEW c \in Conn, Plain(c), NEW next \in OpenAt, next # "start",
         req[c].method # "create_account", Authenticate(c, next)
  PROVE  Serves(c)
<1>1. TypeOK /\ frame[c].user = ""
  BY DEF Plain, ReferencesInv, ReadyOf, Authenticate
<1>2. /\ S!Next \/ UNCHANGED S!vars
      /\ frame'[c].at \in {"answered", next}
  BY <1>1, AuthenticateServes DEF Plain
<1>3. QED
  BY <1>2, PlainReady DEF Serves

LEMMA PlainSelect ==
  ASSUME NEW c \in Conn, Plain(c), NEW place \in OpenAt, NEW next \in OpenAt,
         next # "start", NEW ok, NEW code \in {1, 2},
         Select(c, place, ok, code, next), ~ok => TrueCode(c, code)
  PROVE  Serves(c)
<1>1. TypeOK
  BY DEF Plain, ReferencesInv
<1>2. /\ S!Next \/ UNCHANGED S!vars
      /\ frame'[c].at \in {"answered", next}
  BY <1>1, SelectServes
<1>3. QED
  BY <1>2, PlainReady DEF Serves

LEMMA PlainAborts ==
  ASSUME NEW c \in Conn, Plain(c), NEW place \in WriteAt, NEW clash,
         Aborts(c, place, clash), clash => S!Clashes(c)
  PROVE  Serves(c)
<1>1. TypeOK
  BY DEF Plain, ReferencesInv
<1>2. S!Next /\ frame'[c].at = "answered"
  BY <1>1, AbortsServes
<1>3. QED
  BY <1>2, PlainReady DEF Serves

----------------------------------------------------------------------------
(* Subscriptions. *)

LEMMA FollowUserServes ==
  ASSUME NEW c \in Conn, Plain(c), FollowUser(c)
  PROVE  Serves(c)
<1> DEFINE row == <<req[c].username, frame[c].user>>
<1>0. TypeOK /\ ReferencesInv /\ req[c].method = "follow_user"
  BY DEF Plain, ReferencesInv, FollowUser
<1>1. ASSUME frame[c].at \in {"select_user", "select_subscription",
                              "insert_subscription"}
      PROVE  S!AsksAsUser(c, "follow_user")
  <2>1. frame[c].at \in OpenAt /\ frame[c].user # ""
    BY <1>0, <1>1, OpenPlaces, SomeUser DEF AuthenticatedMethods, method_names
  <2>2. QED
    BY <1>0, <2>1, AsksAt
<1>2. CASE Authenticate(c, "select_user")
  BY <1>0, <1>2, PlainAuthenticate, OpenPlaces
<1>3. CASE Select(c, "select_user", UsersNamed(req[c].username) # {}, 1,
                  "select_subscription")
  <2>1. UsersNamed(req[c].username) = {} => TrueCode(c, 1)
    BY <1>1, <1>3, ServiceTerms
    DEF Select, TrueCode, S!Misnamed, UsersNamed, Registered
  <2>2. QED
    BY <1>3, <2>1, PlainSelect, OpenPlaces
<1>4. CASE Select(c, "select_subscription", row \notin user_subscription, 2,
                  "insert_subscription")
  <2>1. row \in user_subscription => TrueCode(c, 2)
    BY <1>1, <1>4, ServiceTerms DEF Select, TrueCode, S!Inapplicable
  <2>2. QED
    BY <1>4, <2>1, PlainSelect, OpenPlaces
<1>5. CASE /\ row \notin user_subscription
           /\ WriteUserSubscription(c, "insert_subscription",
                                    user_subscription \cup {row})
  <2>1. S!Succeed(c) /\ frame'[c].at = "answered"
    BY <1>0, <1>5, LastWriteServes DEF WriteUserSubscription
  <2>2. req[c].username \in Registered
    BY <1>0, <1>5 DEF ReferencesInv, CheckedBy, WriteUserSubscription
  <2>3. S!SubscribeToUser(c)
    BY <1>1, <1>5, <2>1, <2>2, ServiceTerms
    DEF S!SubscribeToUser, WriteUserSubscription
  <2>4. QED
    BY <2>1, <2>3, PlainReady DEF S!Next, Serves
<1>6. CASE Aborts(c, "insert_subscription", row \in user_subscription)
  <2>1. row \in user_subscription => S!Clashes(c)
    BY <1>1, <1>6, ServiceTerms DEF Aborts, S!Clashes
  <2>2. QED
    BY <1>6, <2>1, PlainAborts DEF WriteAt
<1>7. QED
  BY <1>2, <1>3, <1>4, <1>5, <1>6 DEF FollowUser

\* unfollow_user, whose DELETE relies on the user found two statements before.
LEMMA UnfollowUserServes ==
  ASSUME ReferencesInv, ReferencesInv', NEW c \in Conn, ReadyOf(c),
         UnfollowUser(c)
  PROVE  Serves(c)
<1> DEFINE row == <<req[c].username, frame[c].user>>
<1>0. TypeOK /\ req'[c] = req[c] /\ req[c].method = "unfollow_user"
  BY HandleKeepsFlag DEF ReferencesInv, UnfollowUser, Handle, FlagKept
<1>1. ASSUME frame[c].at \in {"select_user", "select_subscription",
                              "delete_subscription"}
      PROVE  S!AsksAsUser(c, "unfollow_user")
  <2>1. frame[c].at \in OpenAt /\ frame[c].user # ""
    BY <1>0, <1>1, OpenPlaces, SomeUser DEF AuthenticatedMethods, method_names
  <2>2. QED
    BY <1>0, <2>1, AsksAt
<1>2. ASSUME frame'[c].at \in {"answered", "select_user", "select_subscription",
                               "delete_subscription"},
             frame'[c].at \in {"select_subscription", "delete_subscription"}
               => req[c].username \in Registered /\ UNCHANGED user
      PROVE  ReadyOf(c)'
  BY <1>0, <1>2 DEF ReadyOf, Registered
<1>3. CASE Authenticate(c, "select_user")
  <2>1. frame[c].user = ""
    BY <1>3 DEF ReadyOf, Authenticate
  <2>2. /\ S!Next \/ UNCHANGED S!vars
        /\ frame'[c].at \in {"answered", "select_user"}
    BY <1>0, <1>3, <2>1, AuthenticateServes, OpenPlaces
  <2>3. QED
    BY <1>2, <2>2 DEF Serves
<1>4. CASE Select(c, "select_user", UsersNamed(req[c].username) # {}, 1,
                  "select_subscription")
  <2>1. UsersNamed(req[c].username) = {} => TrueCode(c, 1)
    BY <1>1, <1>4, ServiceTerms
    DEF Select, TrueCode, S!Misnamed, UsersNamed, Registered
  <2>2. /\ S!Next \/ UNCHANGED S!vars
        /\ \/ frame'[c].at = "answered"
           \/ /\ UsersNamed(req[c].username) # {}
              /\ frame'[c].at = "select_subscription"
    BY <1>0, <1>4, <2>1, SelectServes, OpenPlaces
  <2>3. UNCHANGED user
    BY <1>4 DEF Select, tables
  <2>4. UsersNamed(req[c].username) # {} => req[c].username \in Registered
    BY DEF UsersNamed, Registered
  <2>5. QED
    BY <1>2, <2>2, <2>3, <2>4 DEF Serves
<1>5. CASE Select(c, "select_subscription", row \in user_subscription, 2,
                  "delete_subscription")
  <2>1. row \notin user_subscription => TrueCode(c, 2)
    BY <1>1, <1>5, ServiceTerms DEF Select, TrueCode, S!Inapplicable
  <2>2. /\ S!Next \/ UNCHANGED S!vars
        /\ frame'[c].at \in {"answered", "delete_subscription"}
    BY <1>0, <1>5, <2>1, SelectServes, OpenPlaces
  <2>3. UNCHANGED user /\ req[c].username \in Registered
    BY <1>0, <1>5 DEF Select, tables, ReadyOf
  <2>4. QED
    BY <1>2, <2>2, <2>3 DEF Serves
<1>6. CASE WriteUserSubscription(c, "delete_subscription",
                                 user_subscription \ {row})
  <2>1. S!Succeed(c) /\ frame'[c].at = "answered"
    BY <1>0, <1>6, LastWriteServes DEF WriteUserSubscription
  <2>2. req[c].username \in Registered
    BY <1>0, <1>6 DEF ReadyOf, WriteUserSubscription
  <2>3. S!SubscribeToUser(c)
    BY <1>1, <1>6, <2>1, <2>2, ServiceTerms
    DEF S!SubscribeToUser, WriteUserSubscription
  <2>4. QED
    BY <1>2, <2>1, <2>3 DEF S!Next, Serves
<1>7. CASE Aborts(c, "delete_subscription", FALSE)
  <2>1. S!Next /\ frame'[c].at = "answered"
    BY <1>0, <1>7, AbortsServes DEF WriteAt
  <2>2. QED
    BY <1>2, <2>1 DEF Serves
<1>8. QED
  BY <1>3, <1>4, <1>5, <1>6, <1>7 DEF UnfollowUser

LEMMA FollowTagServes ==
  ASSUME NEW c \in Conn, Plain(c), FollowTag(c) \/ UnfollowTag(c)
  PROVE  Serves(c)
<1> DEFINE row == <<req[c].tag, frame[c].user>>
<1>0. TypeOK /\ ReferencesInv /\ req[c].method \in {"follow_tag", "unfollow_tag"}
  BY DEF Plain, ReferencesInv, FollowTag, UnfollowTag
<1>1. ASSUME frame[c].at \in {"select_subscription", "insert_subscription",
                              "delete_subscription"}
      PROVE  S!AsksAsUser(c, req[c].method)
  <2>1. frame[c].at \in OpenAt /\ frame[c].user # ""
    BY <1>0, <1>1, OpenPlaces, SomeUser DEF AuthenticatedMethods, method_names
  <2>2. QED
    BY <2>1, AsksAt
<1>2. CASE Authenticate(c, "select_subscription")
  BY <1>0, <1>2, PlainAuthenticate, OpenPlaces
<1>3. CASE /\ req[c].method = "follow_tag"
           /\ Select(c, "select_subscription", row \notin tag_subscription, 1,
                     "insert_subscription")
  <2>1. row \in tag_subscription => TrueCode(c, 1)
    BY <1>1, <1>3, ServiceTerms DEF Select, TrueCode, S!Misnamed
  <2>2. QED
    BY <1>3, <2>1, PlainSelect, OpenPlaces
<1>4. CASE /\ req[c].method = "unfollow_tag"
           /\ Select(c, "select_subscription", row \in tag_subscription, 1,
                     "delete_subscription")
  <2>1. row \notin tag_subscription => TrueCode(c, 1)
    BY <1>1, <1>4, ServiceTerms DEF Select, TrueCode, S!Misnamed
  <2>2. QED
    BY <1>4, <2>1, PlainSelect, OpenPlaces
<1>5. ASSUME NEW place \in {"insert_subscription", "delete_subscription"}, NEW T,
             WriteTagSubscription(c, place, T),
             \/ /\ req[c].method = "follow_tag" /\ row \notin tag_subscription
                /\ T = tag_subscription \cup {row}
             \/ req[c].method = "unfollow_tag" /\ T = tag_subscription \ {row}
      PROVE  Serves(c)
  <2>1. S!Succeed(c) /\ frame'[c].at = "answered"
    BY <1>0, <1>5, LastWriteServes DEF WriteTagSubscription
  <2>2. S!AsksAsUser(c, req[c].method)
    BY <1>1, <1>5 DEF WriteTagSubscription
  <2>3. S!SubscribeToTag(c)
    BY <1>5, <2>1, <2>2, ServiceTerms
    DEF S!SubscribeToTag, WriteTagSubscription
  <2>4. QED
    BY <2>1, <2>3, PlainReady DEF S!Next, Serves
<1>6. CASE /\ req[c].method = "follow_tag"
           /\ Aborts(c, "insert_subscription", row \in tag_subscription)
  <2>1. row \in tag_subscription => S!Clashes(c)
    BY <1>1, <1>6, ServiceTerms DEF Aborts, S!Clashes
  <2>2. QED
    BY <1>6, <2>1, PlainAborts DEF WriteAt
<1>7. CASE Aborts(c, "delete_subscription", FALSE)
  BY <1>7, PlainAborts DEF WriteAt
<1>8. CASE FollowTag(c)
  BY <1>2, <1>3, <1>5, <1>6, <1>8 DEF FollowTag
<1>9. CASE UnfollowTag(c)
  BY <1>2, <1>4, <1>5, <1>7, <1>9 DEF UnfollowTag
<1>10. QED
  BY <1>8, <1>9

\* The list methods read one set and answer with it.
LEMMA ListServes ==
  ASSUME NEW c \in Conn, Plain(c), NEW method, NEW rows \in SUBSET (Name \cup Tag),
         List(c, method, rows),
         \/ method = "list_followed_users" /\ rows = Followed(frame[c].user)
         \/ method = "list_followed_tags" /\ rows = FollowedTags(frame[c].user)
         \/ method = "list_my_followers" /\ rows = Followers(frame[c].user)
  PROVE  Serves(c)
<1>0. /\ TypeOK /\ ReferencesInv /\ frame[c] \in Frame
      /\ req[c].method = method /\ method # "create_account"
  BY RequestType DEF Plain, ReferencesInv, List
<1>1. CASE Authenticate(c, "select_list")
  BY <1>0, <1>1, PlainAuthenticate, OpenPlaces
<1>2. CASE frame[c].at = "select_list" /\ ReadBusy(c) /\ UNCHANGED <<tables, drawn>>
             /\ Answer(c, SPEC_ERR_INTERNAL_SRV)
  BY <1>0, <1>2, BusyServes, PlainReady DEF Serves
<1>3. CASE frame[c].at = "select_list" /\ UNCHANGED <<tables, drawn>>
             /\ Step(c, Answered(c, [frame[c] EXCEPT !.list = rows], 0))
  <2> DEFINE f == [frame[c] EXCEPT !.list = rows]
  <2>1. /\ f \in Frame /\ f.at = "select_list" /\ f.list = rows
        /\ f.user = frame[c].user /\ f.gid = frame[c].gid
        /\ f.code = frame[c].code /\ f.cookie = frame[c].cookie
        /\ f.page = frame[c].page
    BY <1>0, <1>3 DEF Frame
  <2>2. Step(c, Answered(c, f, 0))
    BY <1>3
  <2> HIDE DEF f
  <2>3. S!Reply(c, SessionAt(f), 0)
    BY <1>0, <2>1, <2>2, AnsweredReplies
  <2>4. SessionAt(f) = [SessionAt(frame[c]) EXCEPT !.list = rows]
    <3>1. SessionAt(f) = Fields(PhaseAt(frame[c].at), frame[c].user,
                                frame[c].gid, {}, frame[c].code,
                                frame[c].cookie, rows, frame[c].page)
      BY <1>3, <2>1 DEF SessionAt, Fields
    <3>2. [SessionAt(frame[c]) EXCEPT !.list = rows]
            = Fields(PhaseAt(frame[c].at), frame[c].user, frame[c].gid, {},
                     frame[c].code, frame[c].cookie, rows, frame[c].page)
      <4>1. frame[c].at # "link_tag"
        BY <1>3
      <4>2. QED
        BY <4>1, ChangedSession, Zenon
    <3>3. QED
      BY <3>1, <3>2, Zenon
  <2>5. S!AsksAsUser(c, method)
    <3>1. frame[c].at \in OpenAt /\ frame[c].user # ""
      BY <1>0, <1>3, OpenPlaces, SomeUser DEF AuthenticatedMethods, method_names
    <3>2. QED
      BY <1>0, <3>1, AsksAt
  <2>6. S!Reply(c, [SessionAt(frame[c]) EXCEPT !.list = rows], 0)
    BY <2>3, <2>4, Zenon
  <2>7. S!GiveList(c)
    <3>1. PICK s : s = SessionAt(frame[c])
      OBVIOUS
    <3>2. [d \in Conn |-> SessionAt(frame[d])][c] = s
      BY <3>1
    <3>3. s.who = frame[c].user
      BY <3>1, SessionFields
    <3>4. \/ method = "list_followed_users" /\ rows = S!Followed(s.who)
          \/ method = "list_followed_tags" /\ rows = S!FollowedTags(s.who)
          \/ method = "list_my_followers" /\ rows = S!Followers(s.who)
      BY <3>3, ServiceTerms
    <3>5. S!Reply(c, [s EXCEPT !.list = rows], 0)
      BY <2>6, <3>1, Zenon
    <3>6. UNCHANGED <<S!tables, drawn>>
      BY <1>3 DEF S!tables, tables
    <3>7. QED
      BY <2>5, <3>2, <3>4, <3>5, <3>6, Zenon DEF S!GiveList
  <2>8. frame'[c].at = "answered"
    BY <1>0, <2>1, <2>2, AnsweredFields, StepFrame
  <2>9. QED
    BY <2>7, <2>8, PlainReady DEF S!Next, Serves
<1>4. QED
  BY <1>1, <1>2, <1>3 DEF List

LEMMA ListsServe ==
  ASSUME NEW c \in Conn, Plain(c),
         ListFollowedUsers(c) \/ ListFollowedTags(c) \/ ListMyFollowers(c)
  PROVE  Serves(c)
<1>1. /\ Followed(frame[c].user) \in SUBSET (Name \cup Tag)
      /\ FollowedTags(frame[c].user) \in SUBSET (Name \cup Tag)
      /\ Followers(frame[c].user) \in SUBSET (Name \cup Tag)
  BY DEF Followed, FollowedTags, Followers
<1>2. QED
  BY <1>1, ListServes DEF ListFollowedUsers, ListFollowedTags, ListMyFollowers

----------------------------------------------------------------------------
(* Messages that no handler takes, accounts, relays. *)

LEMMA RefuseMessageServes ==
  ASSUME NEW c \in Conn, Plain(c), RefuseMessage(c)
  PROVE  Serves(c)
<1>0. TypeOK
  BY DEF Plain, ReferencesInv
<1>1. PICK code \in Nat : code = IF req[c].method = Unreadable
                                   THEN SPEC_ERR_FORMAT
                                   ELSE SPEC_ERR_NOT_IMPLEMENTED
  BY DEF SPEC_ERR_FORMAT, SPEC_ERR_NOT_IMPLEMENTED
<1>2. Answer(c, code) /\ UNCHANGED <<tables, drawn>> /\ frame[c].at = "start"
  BY <1>1 DEF RefuseMessage
<1>3. TrueCode(c, code)
  BY <1>1 DEF RefuseMessage, TrueCode, SPEC_ERR_FORMAT,
     SPEC_ERR_NOT_IMPLEMENTED, Unreadable, method_names, S!Methods13, S!Anonymous
<1>4. QED
  BY <1>0, <1>2, <1>3, AnswerRefuses, PlainReady DEF Serves

LEMMA CreateAccountServes ==
  ASSUME NEW c \in Conn, Plain(c), CreateAccount(c)
  PROVE  Serves(c)
<1> DEFINE Row(k) == [name |-> req[c].username, password |-> req[c].password,
                      cookie |-> k]
<1>0. TypeOK /\ req[c].method = "create_account"
  BY DEF Plain, ReferencesInv, CreateAccount
<1>1. frame[c].at \in {"start", "insert_user"} => S!Asks(c, "create_account")
  BY <1>0, OpenPlaces, AsksAt
<1>2. CASE Select(c, "start", UsersNamed(req[c].username) = {}, 1, "insert_user")
  <2>1. UsersNamed(req[c].username) # {} => TrueCode(c, 1)
    BY <1>1, <1>2, ServiceTerms
    DEF Select, TrueCode, S!Misnamed, UsersNamed, Registered
  <2>2. QED
    BY <1>2, <2>1, PlainSelect, OpenPlaces
<1>3. ASSUME frame[c].at = "insert_user",
             NEW k \in Random, InsertableUser(Row(k)), user' = user \cup {Row(k)},
             drawn' = drawn \cup {k},
             UNCHANGED <<gazou, tag, gazou_tag, user_subscription,
                         tag_subscription, relay>>,
             Step(c, Wrote(Answered(c, frame[c], 0), TRUE))
      PROVE  Serves(c)
  <2>1. S!Succeed(c) /\ frame'[c].at = "answered"
    BY <1>0, <1>3, LastWriteServes
  <2>2. PICK row : row = Row(k)
    OBVIOUS
  <2>3. S!Row(c, k) = row /\ S!NewCookies = Random
    BY <2>2, ServiceTerms
  <2>4. S!InsertableUser(row) /\ user' = user \cup {row}
    BY <1>3, <2>2 DEF S!InsertableUser, InsertableUser
  <2>5. S!Create(c)
    BY <1>1, <1>3, <2>1, <2>3, <2>4 DEF S!Create
  <2>6. QED
    BY <2>1, <2>5, PlainReady DEF S!Next, Serves
<1>4. CASE Aborts(c, "insert_user", \E k \in Random : ~InsertableUser(Row(k)))
  <2>1. ASSUME NEW k \in Random, ~InsertableUser(Row(k)) PROVE S!Clashes(c)
    <3>1. PICK row : row = Row(k)
      OBVIOUS
    <3>2. S!Row(c, k) = row /\ S!NewCookies = Random
      BY <3>1, ServiceTerms
    <3>3. ~S!InsertableUser(row)
      BY <2>1, <3>1 DEF S!InsertableUser, InsertableUser
    <3>4. QED
      BY <1>1, <1>4, <3>2, <3>3 DEF Aborts, S!Clashes
  <2>2. QED
    BY <1>4, <2>1, PlainAborts DEF WriteAt
<1>5. QED
  BY <1>2, <1>3, <1>4 DEF CreateAccount

LEMMA RelayGazouServes ==
  ASSUME NEW c \in Conn, Plain(c), RelayGazou(c)
  PROVE  Serves(c)
<1>0. TypeOK /\ ReferencesInv /\ req[c].method = "relay_gazou"
  BY DEF Plain, ReferencesInv, RelayGazou
<1>1. ASSUME frame[c].at \in {"select_gazou", "select_relay", "insert_relay"}
      PROVE  S!AsksAsUser(c, "relay_gazou")
  <2>1. frame[c].at \in OpenAt /\ frame[c].user # ""
    BY <1>0, <1>1, OpenPlaces, SomeUser DEF AuthenticatedMethods, method_names
  <2>2. QED
    BY <1>0, <2>1, AsksAt
<1>2. CASE Authenticate(c, "select_gazou")
  BY <1>0, <1>2, PlainAuthenticate, OpenPlaces
<1>3. CASE Select(c, "select_gazou", req[c].id_gazouilli \in DOMAIN gazou, 1,
                  "select_relay")
  <2>1. req[c].id_gazouilli \notin DOMAIN gazou => TrueCode(c, 1)
    BY <1>1, <1>3 DEF Select, TrueCode, S!Misnamed
  <2>2. QED
    BY <1>3, <2>1, PlainSelect, OpenPlaces
<1>4. ASSUME NEW ok, Select(c, "select_relay", ok, 2, "insert_relay"),
             ok = (\A q \in relay : \/ q.gazou_id # req[c].id_gazouilli
                                    \/ q.retweeter # frame[c].user)
      PROVE  Serves(c)
  <2>1. ~ok => TrueCode(c, 2)
    BY <1>1, <1>4, SessionFields DEF Select, TrueCode, S!Inapplicable
  <2>2. QED
    BY <1>4, <2>1, PlainSelect, OpenPlaces
<1>5. ASSUME frame[c].at = "insert_relay", RelayRowOf(c) \notin relay,
             relay' = relay \cup {RelayRowOf(c)},
             UNCHANGED <<user, gazou, tag, gazou_tag, user_subscription,
                         tag_subscription, drawn>>,
             Step(c, Wrote(Answered(c, frame[c], 0), TRUE))
      PROVE  Serves(c)
  <2>1. S!Succeed(c) /\ frame'[c].at = "answered"
    BY <1>0, <1>5, LastWriteServes
  <2>2. req[c].id_gazouilli \in DOMAIN gazou
    BY <1>0, <1>5 DEF ReferencesInv, CheckedBy
  <2>3. S!Relay(c)
    BY <1>1, <1>5, <2>1, <2>2, ServiceTerms DEF S!Relay
  <2>4. QED
    BY <2>1, <2>3, PlainReady DEF S!Next, Serves
<1>6. CASE Aborts(c, "insert_relay", RelayRowOf(c) \in relay)
  <2>1. RelayRowOf(c) \in relay => S!Clashes(c)
    BY <1>1, <1>6, ServiceTerms DEF Aborts, S!Clashes
  <2>2. QED
    BY <1>6, <2>1, PlainAborts DEF WriteAt
<1>7. QED
  BY <1>2, <1>3, <1>4, <1>5, <1>6 DEF RelayGazou, RelayRowOf

----------------------------------------------------------------------------
(* Cookies. *)

\* What new_random_cookie does to the table, when it does something.
LEMMA ReplaceServes ==
  ASSUME NEW n, NEW k \in Random, UserUnique(WithCookie(n, k)),
         user' = WithCookie(n, k), drawn' = drawn \cup {k},
         UNCHANGED <<gazou, tag, gazou_tag, user_subscription,
                     tag_subscription, relay>>
  PROVE  S!Replace(n)
BY DEF S!Replace, S!NewCookies, Random, S!UserUnique, UserUnique, S!WithCookie,
       WithCookie

\* A cookie that some account has already.
LEMMA CookieClashes ==
  ASSUME NEW c \in Conn, NEW n, NEW k \in Random, ~UserUnique(WithCookie(n, k)),
         \/ S!Asks(c, "connect") /\ n = req[c].username
         \/ S!AsksAsUser(c, "disconnect") /\ n = frame[c].user
  PROVE  S!Clashes(c)
<1>1. PICK s : s = SessionAt(frame[c])
  OBVIOUS
<1>2. [d \in Conn |-> SessionAt(frame[d])][c] = s /\ s.who = frame[c].user
  BY <1>1, SessionFields
<1>3. k \in S!NewCookies /\ ~S!UserUnique(S!WithCookie(n, k))
  BY DEF S!NewCookies, Random, S!UserUnique, UserUnique, S!WithCookie, WithCookie
<1>4. QED
  BY <1>2, <1>3, Zenon DEF S!Clashes

LEMMA DisconnectServes ==
  ASSUME NEW c \in Conn, Plain(c), Disconnect(c)
  PROVE  Serves(c)
<1> DEFINE n == frame[c].user
<1>0. TypeOK /\ ReferencesInv /\ req[c].method = "disconnect"
  BY DEF Plain, ReferencesInv, Disconnect
<1>1. ASSUME frame[c].at = "update_cookie" PROVE S!AsksAsUser(c, "disconnect")
  <2>1. frame[c].at \in OpenAt /\ frame[c].user # ""
    BY <1>0, <1>1, OpenPlaces, SomeUser DEF AuthenticatedMethods, method_names
  <2>2. QED
    BY <1>0, <2>1, AsksAt
<1>2. CASE Authenticate(c, "update_cookie")
  BY <1>0, <1>2, PlainAuthenticate, OpenPlaces
<1>3. ASSUME frame[c].at = "update_cookie", NEW k \in Random,
             UserUnique(WithCookie(n, k)), user' = WithCookie(n, k),
             drawn' = drawn \cup {k},
             UNCHANGED <<gazou, tag, gazou_tag, user_subscription,
                         tag_subscription, relay>>,
             Step(c, Wrote(Answered(c, frame[c], 0), TRUE))
      PROVE  Serves(c)
  <2>1. S!Succeed(c) /\ frame'[c].at = "answered"
    BY <1>0, <1>3, LastWriteServes
  <2>2. S!Replace(frame[c].user)
    BY <1>3, ReplaceServes
  <2>3. PICK s : s = SessionAt(frame[c])
    OBVIOUS
  <2>4. [d \in Conn |-> SessionAt(frame[d])][c] = s /\ s.who = frame[c].user
    BY <2>3, SessionFields
  <2>5. S!Replace(s.who)
    BY <2>2, <2>4, Zenon
  <2>6. S!Logout(c)
    BY <1>1, <1>3, <2>1, <2>4, <2>5, Zenon DEF S!Logout
  <2>7. QED
    BY <2>1, <2>6, PlainReady DEF S!Next, Serves
<1>4. CASE Aborts(c, "update_cookie",
                  \E k \in Random : ~UserUnique(WithCookie(n, k)))
  <2>1. (\E k \in Random : ~UserUnique(WithCookie(n, k))) => S!Clashes(c)
    BY <1>1, <1>4, CookieClashes DEF Aborts
  <2>2. QED
    BY <1>4, <2>1, PlainAborts DEF WriteAt
<1>5. QED
  BY <1>2, <1>3, <1>4 DEF Disconnect, NewRandomCookie

\* connect relies, when it stores the cookie, on the name and the password that
\* it has looked at by two statements.
LEMMA ConnectServes ==
  ASSUME ReferencesInv, ReferencesInv', NEW c \in Conn, ReadyOf(c), Connect(c)
  PROVE  Serves(c)
<1> DEFINE n == req[c].username
<1>0. /\ TypeOK /\ req'[c] = req[c] /\ req[c].method = "connect"
      /\ frame[c] \in Frame
  BY HandleKeepsFlag, RequestType DEF ReferencesInv, Connect, Handle, FlagKept
<1>1. frame[c].at \in {"start", "select_password", "update_cookie"}
        => S!Asks(c, "connect")
  BY <1>0, OpenPlaces, AsksAt
<1>2. ASSUME frame'[c].at \in {"answered", "select_password", "update_cookie",
                               "select_cookie"},
             frame'[c].at \in {"select_password", "update_cookie"}
               => n \in Registered /\ UNCHANGED user,
             frame'[c].at = "update_cookie" => req[c].password \in Passwords(n)
      PROVE  ReadyOf(c)'
  BY <1>0, <1>2 DEF ReadyOf, Registered, Passwords, UsersNamed
<1>3. CASE Select(c, "start", UsersNamed(n) # {}, 1, "select_password")
  <2>1. UsersNamed(n) = {} => TrueCode(c, 1)
    BY <1>1, <1>3, ServiceTerms
    DEF Select, TrueCode, S!Misnamed, UsersNamed, Registered
  <2>2. /\ S!Next \/ UNCHANGED S!vars
        /\ \/ frame'[c].at = "answered"
           \/ UsersNamed(n) # {} /\ frame'[c].at = "select_password"
    BY <1>0, <1>3, <2>1, SelectServes, OpenPlaces
  <2>3. UNCHANGED user
    BY <1>3 DEF Select, tables
  <2>4. UsersNamed(n) # {} => n \in Registered
    BY DEF UsersNamed, Registered
  <2>5. QED
    BY <1>2, <2>2, <2>3, <2>4 DEF Serves
<1>4. ASSUME NEW ok, Select(c, "select_password", ok, 2, "update_cookie"),
             ok = \E u \in UsersNamed(n) : u.password = req[c].password
      PROVE  Serves(c)
  <2>1. UNCHANGED user /\ n \in Registered /\ frame[c].at = "select_password"
    BY <1>0, <1>4 DEF Select, tables, ReadyOf
  <2>2. ~ok => TrueCode(c, 2)
    BY <1>1, <1>4, <2>1, ServiceTerms DEF TrueCode, S!Inapplicable, S!Knows
  <2>3. /\ S!Next \/ UNCHANGED S!vars
        /\ frame'[c].at = "answered" \/ (ok /\ frame'[c].at = "update_cookie")
    BY <1>0, <1>4, <2>2, SelectServes, OpenPlaces
  <2>4. ok => req[c].password \in Passwords(n)
    BY <1>4 DEF Passwords
  <2>5. QED
    BY <1>2, <2>1, <2>3, <2>4 DEF Serves
<1>5. ASSUME frame[c].at = "update_cookie", NEW k \in Random,
             UserUnique(WithCookie(n, k)), user' = WithCookie(n, k),
             drawn' = drawn \cup {k},
             UNCHANGED <<gazou, tag, gazou_tag, user_subscription,
                         tag_subscription, relay>>,
             Step(c, Wrote(Goto(c, "select_cookie"), TRUE))
      PROVE  Serves(c)
  <2> DEFINE g == Goto(c, "select_cookie")
  <2>1. /\ g \in Frame /\ g.at = "select_cookie" /\ g.user = frame[c].user
        /\ g.gid = frame[c].gid /\ g.code = frame[c].code
        /\ g.cookie = frame[c].cookie /\ g.list = frame[c].list
        /\ g.page = frame[c].page
    BY <1>0 DEF Goto, Frame, Place, ReadAt
  <2> HIDE DEF g
  <2>2. Wrote(g, TRUE).at = "select_cookie" /\ SessionAt(Wrote(g, TRUE)) = SessionAt(g)
    BY <2>1, WroteKeeps, WroteSession
  <2>3. S!Become(c, SessionAt(Wrote(g, TRUE)))
        /\ frame'[c].at = "select_cookie"
    BY <1>0, <1>5, <2>2, StepBecomes, StepFrame DEF g
  <2>4. SessionAt(g) = [SessionAt(frame[c]) EXCEPT !.phase = "granted"]
    <3>1. SessionAt(g) = Fields("granted", frame[c].user, frame[c].gid, {},
                                frame[c].code, frame[c].cookie, frame[c].list,
                                frame[c].page)
      BY <2>1, PhaseOfPlace DEF SessionAt, Fields
    <3>2. frame[c].at # "link_tag"
      BY <1>5
    <3>3. [SessionAt(frame[c]) EXCEPT !.phase = "granted"]
            = Fields("granted", frame[c].user, frame[c].gid, {}, frame[c].code,
                     frame[c].cookie, frame[c].list, frame[c].page)
      BY <3>2, ChangedSession, Zenon
    <3>4. QED
      BY <3>1, <3>3, Zenon
  <2>5. PICK s : s = SessionAt(frame[c])
    OBVIOUS
  <2>6. [d \in Conn |-> SessionAt(frame[d])][c] = s
    BY <2>5
  <2>7. S!Become(c, [s EXCEPT !.phase = "granted"])
    BY <2>2, <2>3, <2>4, <2>5, Zenon
  <2>8. S!Knows(c) /\ S!Replace(req[c].username)
    BY <1>0, <1>5, ReplaceServes, ServiceTerms DEF S!Knows, ReadyOf, Passwords
  <2>9. S!Grant(c)
    BY <1>1, <1>5, <2>6, <2>7, <2>8, Zenon DEF S!Grant
  <2>10. QED
    BY <1>2, <2>3, <2>9 DEF S!Next, Serves
<1>6. CASE Aborts(c, "update_cookie",
                  \E k \in Random : ~UserUnique(WithCookie(n, k)))
  <2>1. (\E k \in Random : ~UserUnique(WithCookie(n, k))) => S!Clashes(c)
    BY <1>1, <1>6, CookieClashes DEF Aborts
  <2>2. S!Next /\ frame'[c].at = "answered"
    BY <1>0, <1>6, <2>1, AbortsServes DEF WriteAt
  <2>3. QED
    BY <1>2, <2>2 DEF Serves
<1>7. ASSUME frame[c].at = "select_cookie", UNCHANGED <<tables, drawn>>,
             NEW u \in UsersNamed(n),
             Step(c, Answered(c, [frame[c] EXCEPT !.cookie = u.cookie], 0))
      PROVE  Serves(c)
  <2> DEFINE f == [frame[c] EXCEPT !.cookie = u.cookie]
  <2>1. u.cookie \in Int
    BY <1>0, CookieIsInt DEF UsersNamed, TypeOK, StoreTypeOK, UserRow
  <2>2. /\ f \in Frame /\ f.at = "select_cookie" /\ f.cookie = u.cookie
        /\ f.user = frame[c].user /\ f.gid = frame[c].gid
        /\ f.code = frame[c].code /\ f.list = frame[c].list
        /\ f.page = frame[c].page
    BY <1>0, <1>7, <2>1 DEF Frame
  <2>3. Step(c, Answered(c, f, 0))
    BY <1>7
  <2> HIDE DEF f
  <2>4. S!Reply(c, SessionAt(f), 0)
    BY <1>0, <2>2, <2>3, AnsweredReplies
  <2>5. SessionAt(f) = [SessionAt(frame[c]) EXCEPT !.cookie = u.cookie]
    <3>1. SessionAt(f) = Fields(PhaseAt(frame[c].at), frame[c].user,
                                frame[c].gid, {}, frame[c].code, u.cookie,
                                frame[c].list, frame[c].page)
      BY <1>7, <2>2 DEF SessionAt, Fields
    <3>2. frame[c].at # "link_tag"
      BY <1>7
    <3>3. [SessionAt(frame[c]) EXCEPT !.cookie = u.cookie]
            = Fields(PhaseAt(frame[c].at), frame[c].user, frame[c].gid, {},
                     frame[c].code, u.cookie, frame[c].list, frame[c].page)
      BY <3>2, ChangedSession, Zenon
    <3>4. QED
      BY <3>1, <3>3, Zenon
  <2>6. PICK s : s = SessionAt(frame[c])
    OBVIOUS
  <2>7. [d \in Conn |-> SessionAt(frame[d])][c] = s /\ s.phase = "granted"
    BY <1>7, <2>6, SessionFields, PhaseOfPlace
  <2>8. S!Reply(c, [s EXCEPT !.cookie = u.cookie], 0)
    BY <2>4, <2>5, <2>6, Zenon
  <2>9. u \in S!UsersNamed(n) /\ UNCHANGED <<S!tables, drawn>>
    BY <1>7, ServiceTerms DEF S!tables, tables
  <2>10. S!GiveCookie(c)
    BY <2>7, <2>8, <2>9, Zenon DEF S!GiveCookie
  <2>11. frame'[c].at = "answered"
    BY <1>0, <2>2, <2>3, AnsweredFields, StepFrame
  <2>12. QED
    BY <1>2, <2>10, <2>11 DEF S!Next, Serves
<1>8. CASE /\ frame[c].at = "select_cookie" /\ UNCHANGED <<tables, drawn>>
           /\ ReadBusy(c) /\ Answer(c, SPEC_ERR_INTERNAL_SRV)
  BY <1>0, <1>2, <1>8, BusyServes DEF Serves
<1>9. QED
  BY <1>3, <1>4, <1>5, <1>6, <1>7, <1>8 DEF Connect, NewRandomCookie

----------------------------------------------------------------------------
(* Gazouillis. *)

\* The session of any frame: with other tags to be linked, and with its page
\* to be delivered.
LEMMA LabellingSession ==
  ASSUME NEW f, NEW x
  PROVE  /\ [SessionAt(f) EXCEPT !.owed = x]
               = Fields(PhaseAt(f.at), f.user, f.gid, x, f.code, f.cookie,
                        f.list, f.page)
         /\ [SessionAt(f) EXCEPT !.phase = "labelling", !.owed = x]
               = Fields("labelling", f.user, f.gid, x, f.code, f.cookie,
                        f.list, f.page)
<1>1. PICK p, w, g, o, e, k, l, q :
        /\ p = PhaseAt(f.at) /\ w = f.user /\ g = f.gid
        /\ o = (IF f.at = "link_tag" THEN f.todo ELSE {})
        /\ e = f.code /\ k = f.cookie /\ l = f.list /\ q = f.page
  OBVIOUS
<1>2. SessionAt(f) = Fields(p, w, g, o, e, k, l, q)
  BY <1>1 DEF SessionAt, Fields
<1> DEFINE r == Fields(p, w, g, o, e, k, l, q)
<1>3. [r EXCEPT !.owed = x] = Fields(p, w, g, x, e, k, l, q)
  BY DEF Fields
<1>4. [Fields(p, w, g, x, e, k, l, q) EXCEPT !.phase = "labelling"]
        = Fields("labelling", w, g, x, e, k, l, q)
  BY DEF Fields
<1>5. [r EXCEPT !.phase = "labelling", !.owed = x]
        = [[r EXCEPT !.owed = x] EXCEPT !.phase = "labelling"]
  <2> HIDE DEF r
  <2>1. QED
    OBVIOUS
<1>6. [r EXCEPT !.phase = "labelling", !.owed = x]
        = Fields("labelling", w, g, x, e, k, l, q)
  BY <1>3, <1>4, <1>5, Zenon
<1>7. QED
  BY <1>1, <1>2, <1>3, <1>6, Zenon

\* INSERT INTO gazou is the posting of the service.
LEMMA InsertGazouServes ==
  ASSUME TypeOK, NEW c \in Conn, frame[c].at = "insert_gazou",
         S!AsksAsUser(c, "send_gazou"), req[c].content \notin TooLong,
         GazouUnique(PostRow(c)), gazou' = Append(gazou, PostRow(c)),
         UNCHANGED <<user, tag, gazou_tag, user_subscription,
                     tag_subscription, relay, drawn>>,
         Step(c, LET f == Wrote([frame[c] EXCEPT !.gid = Len(gazou) + 1], TRUE)
                 IN  IF req[c].list_of_tags = {} THEN Answered(c, f, 0)
                       ELSE [f EXCEPT !.at = "link_tag",
                                      !.todo = req[c].list_of_tags])
  PROVE  S!Next
<1> DEFINE h == [frame[c] EXCEPT !.gid = Len(gazou) + 1]
           f == Wrote(h, TRUE)
           g == [f EXCEPT !.at = "link_tag", !.todo = req[c].list_of_tags]
<1>1. frame[c] \in Frame /\ Len(gazou) + 1 \in Nat
  BY RequestType DEF TypeOK, StoreTypeOK
<1>2. /\ h \in Frame /\ h.at = "insert_gazou" /\ h.gid = Len(gazou) + 1
      /\ h.user = frame[c].user /\ h.code = frame[c].code
      /\ h.cookie = frame[c].cookie /\ h.list = frame[c].list
      /\ h.page = frame[c].page
  BY <1>1 DEF Frame
<1> HIDE DEF h
<1>3. /\ f \in Frame /\ f.at = "insert_gazou" /\ f.gid = h.gid
      /\ f.user = h.user /\ f.code = h.code
      /\ f.cookie = h.cookie /\ f.list = h.list /\ f.page = h.page
  BY <1>2, WroteType DEF Wrote, Frame
<1>4. Step(c, IF req[c].list_of_tags = {} THEN Answered(c, f, 0) ELSE g)
  BY DEF h
<1>5. SessionAt(f) = SessionAt(h)
  BY <1>2, WroteSession
<1> HIDE DEF f
<1>6. /\ g.at = "link_tag" /\ g.todo = req[c].list_of_tags /\ g.gid = f.gid
      /\ g.user = f.user /\ g.code = f.code
      /\ g.cookie = f.cookie /\ g.list = f.list /\ g.page = f.page
  BY <1>3 DEF Frame
<1> HIDE DEF g
<1>7. PICK s : s = [SessionAt(frame[c]) EXCEPT !.gid = Len(gazou) + 1]
  OBVIOUS
<1>8. s = SessionAt(f) /\ s = Fields("open", frame[c].user, Len(gazou) + 1, {},
              frame[c].code, frame[c].cookie, frame[c].list, frame[c].page)
  <2>1. PhaseAt("insert_gazou") = "open" /\ frame[c].at # "link_tag"
    BY PhaseOfPlace, OpenPlaces
  <2>2. [SessionAt(frame[c]) EXCEPT !.gid = Len(gazou) + 1]
          = Fields(PhaseAt(frame[c].at), frame[c].user, Len(gazou) + 1, {},
                   frame[c].code, frame[c].cookie, frame[c].list, frame[c].page)
    BY <2>1, ChangedSession, Zenon
  <2>3. SessionAt(f) = Fields("open", frame[c].user, Len(gazou) + 1, {},
              frame[c].code, frame[c].cookie, frame[c].list, frame[c].page)
    BY <1>2, <1>3, <2>1 DEF SessionAt, Fields
  <2>4. PhaseAt(frame[c].at) = "open"
    BY <2>1
  <2>5. QED
    BY <1>7, <2>2, <2>3, <2>4, Zenon
<1>9. IF req[c].list_of_tags = {}
        THEN S!Reply(c, s, 0)
        ELSE S!Become(c, [s EXCEPT !.phase = "labelling",
                                   !.owed = req[c].list_of_tags])
  <2>1. CASE req[c].list_of_tags = {}
    <3>1. S!Reply(c, SessionAt(f), 0)
      BY <1>3, <1>4, <2>1, AnsweredReplies
    <3>2. QED
      BY <1>8, <2>1, <3>1, Zenon
  <2>2. CASE req[c].list_of_tags # {}
    <3>1. S!Become(c, SessionAt(g))
      BY <1>4, <2>2, StepBecomes
    <3>2. SessionAt(g) = Fields("labelling", frame[c].user, Len(gazou) + 1,
              req[c].list_of_tags, frame[c].code, frame[c].cookie,
              frame[c].list, frame[c].page)
      BY <1>2, <1>3, <1>6, PhaseOfPlace DEF SessionAt, Fields
    <3>3. [SessionAt(f) EXCEPT !.phase = "labelling",
                               !.owed = req[c].list_of_tags]
            = Fields("labelling", f.user, f.gid, req[c].list_of_tags, f.code,
                     f.cookie, f.list, f.page)
      BY LabellingSession
    <3>4. [SessionAt(f) EXCEPT !.phase = "labelling",
                               !.owed = req[c].list_of_tags] = SessionAt(g)
      BY <1>2, <1>3, <3>2, <3>3
    <3>5. QED
      BY <1>8, <2>2, <3>1, <3>4, Zenon
  <2>3. QED
    BY <2>1, <2>2
<1>10. /\ [d \in Conn |-> SessionAt(frame[d])][c] = SessionAt(frame[c])
       /\ S!GazouUnique(S!Gazouilli(c)) /\ S!Gazouilli(c) = PostRow(c)
  BY ServiceTerms DEF S!GazouUnique, GazouUnique
<1>11. S!Post(c)
  BY <1>7, <1>9, <1>10, Zenon DEF S!Post
<1>12. QED
  BY <1>11 DEF S!Next

\* After it, the worker has answered or links the tags.
LEMMA InsertGazouPlace ==
  ASSUME TypeOK, NEW c \in Conn,
         Step(c, LET f == Wrote([frame[c] EXCEPT !.gid = Len(gazou) + 1], TRUE)
                 IN  IF req[c].list_of_tags = {} THEN Answered(c, f, 0)
                       ELSE [f EXCEPT !.at = "link_tag",
                                      !.todo = req[c].list_of_tags])
  PROVE  frame'[c].at \in {"answered", "link_tag"}
<1> DEFINE f == Wrote([frame[c] EXCEPT !.gid = Len(gazou) + 1], TRUE)
<1>1. f \in Frame
  <2>1. frame[c] \in Frame /\ Len(gazou) + 1 \in Nat
    BY RequestType DEF TypeOK, StoreTypeOK
  <2>2. [frame[c] EXCEPT !.gid = Len(gazou) + 1] \in Frame
    BY <2>1 DEF Frame
  <2>3. QED
    BY <2>2, WroteType
<1>2. Step(c, IF req[c].list_of_tags = {} THEN Answered(c, f, 0)
                ELSE [f EXCEPT !.at = "link_tag", !.todo = req[c].list_of_tags])
  OBVIOUS
<1> HIDE DEF f
<1>3. [f EXCEPT !.at = "link_tag", !.todo = req[c].list_of_tags].at = "link_tag"
  BY <1>1 DEF Frame
<1>4. Answered(c, f, 0).at = "answered"
  BY <1>1, AnsweredFields
<1>5. QED
  BY <1>2, <1>3, <1>4, StepFrame

\* INSERT INTO gazou_tag is the labelling of the service.
LEMMA LinkTagServes ==
  ASSUME TypeOK, NEW c \in Conn, frame[c].at = "link_tag", NEW t \in frame[c].todo,
         gazou_tag' = gazou_tag \cup {<<frame[c].gid, t>>},
         UNCHANGED <<user, gazou, tag, user_subscription, tag_subscription,
                     relay, drawn>>,
         Step(c, LET f == [frame[c] EXCEPT !.todo = @ \ {t}]
                 IN  IF f.todo = {} THEN Answered(c, f, 0) ELSE f)
  PROVE  S!Next
<1> DEFINE f == [frame[c] EXCEPT !.todo = @ \ {t}]
<1>1. frame[c] \in Frame
  BY RequestType
<1>2. /\ f \in Frame /\ f.at = "link_tag" /\ f.todo = frame[c].todo \ {t}
      /\ f.user = frame[c].user /\ f.gid = frame[c].gid
      /\ f.code = frame[c].code /\ f.cookie = frame[c].cookie
      /\ f.list = frame[c].list /\ f.page = frame[c].page
  BY <1>1 DEF Frame
<1>3. Step(c, IF f.todo = {} THEN Answered(c, f, 0) ELSE f)
  OBVIOUS
<1> HIDE DEF f
<1>4. PICK s : s = SessionAt(frame[c])
  OBVIOUS
<1>5. /\ s.phase = "labelling" /\ s.owed = frame[c].todo /\ s.gid = frame[c].gid
      /\ [d \in Conn |-> SessionAt(frame[d])][c] = s
  BY <1>4, SessionFields, PhaseOfPlace
<1>6. SessionAt(f) = [s EXCEPT !.owed = @ \ {t}]
  <2>1. [SessionAt(frame[c]) EXCEPT !.owed = frame[c].todo \ {t}]
          = Fields(PhaseAt(frame[c].at), frame[c].user, frame[c].gid,
                   frame[c].todo \ {t}, frame[c].code, frame[c].cookie,
                   frame[c].list, frame[c].page)
    BY LabellingSession
  <2>2. SessionAt(f) = Fields(PhaseAt(frame[c].at), frame[c].user, frame[c].gid,
                   frame[c].todo \ {t}, frame[c].code, frame[c].cookie,
                   frame[c].list, frame[c].page)
    BY <1>2 DEF SessionAt, Fields
  <2>3. [SessionAt(frame[c]) EXCEPT !.owed = frame[c].todo \ {t}] = SessionAt(f)
    BY <2>1, <2>2, Zenon
  <2>4. [s EXCEPT !.owed = s.owed \ {t}] = SessionAt(f)
    BY <1>4, <1>5, <2>3, Zenon
  <2>5. QED
    BY <2>4
<1>7. SessionAt(f).owed = f.todo
  BY <1>2, SessionFields
<1>8. IF SessionAt(f).owed = {} THEN S!Reply(c, SessionAt(f), 0)
                                ELSE S!Become(c, SessionAt(f))
  BY <1>2, <1>3, <1>7, AnsweredReplies, StepBecomes
<1>9. S!Label(c)
  <2>1. PICK ss : ss = [d \in Conn |-> SessionAt(frame[d])] /\ ss[c] = s
    BY <1>5
  <2>2. ss[c].phase = "labelling" /\ t \in ss[c].owed
    BY <1>5, <2>1
  <2>3. gazou_tag' = gazou_tag \cup {<<ss[c].gid, t>>}
    BY <1>5, <2>1
  <2>4. LET r == [ss[c] EXCEPT !.owed = @ \ {t}]
        IN  IF r.owed = {} THEN S!Reply(c, r, 0) ELSE S!Become(c, r)
    BY <1>6, <1>8, <2>1, Zenon
  <2>5. QED
    BY <2>1, <2>2, <2>3, <2>4, Zenon DEF S!Label
<1>10. QED
  BY <1>9 DEF S!Next

\* INSERT OR IGNORE INTO tag, a table the service does not see.
LEMMA InsertTagServes ==
  ASSUME TypeOK, NEW c \in Conn, InsertTag(c)
  PROVE  /\ S!Next \/ UNCHANGED S!vars
         /\ frame'[c].at \in {"answered", "insert_tag", "insert_gazou"}
<1>1. frame[c] \in Frame
  BY RequestType
<1>2. CASE Aborts(c, "insert_tag", FALSE)
  BY <1>2, AbortsServes DEF WriteAt
<1>3. ASSUME frame[c].at = "insert_tag", NEW t \in frame[c].todo,
             NEW change \in BOOLEAN,
             Step(c, Wrote([frame[c] EXCEPT !.todo = @ \ {t},
                              !.at = IF frame[c].todo = {t}
                                       THEN "insert_gazou" ELSE "insert_tag"],
                           change)),
             UNCHANGED <<user, gazou, gazou_tag, user_subscription,
                         tag_subscription, relay, drawn>>
      PROVE  /\ UNCHANGED S!vars
             /\ frame'[c].at \in {"insert_tag", "insert_gazou"}
  <2> DEFINE f == [frame[c] EXCEPT !.todo = @ \ {t},
                     !.at = IF frame[c].todo = {t}
                              THEN "insert_gazou" ELSE "insert_tag"]
  <2>1. /\ f \in Frame /\ f.at \in {"insert_gazou", "insert_tag"}
        /\ f.user = frame[c].user /\ f.gid = frame[c].gid
        /\ f.code = frame[c].code /\ f.cookie = frame[c].cookie
        /\ f.list = frame[c].list /\ f.page = frame[c].page
    BY <1>1 DEF Frame, Place, WriteAt
  <2>2. Step(c, Wrote(f, change))
    BY <1>3
  <2> HIDE DEF f
  <2>3. PhaseAt(f.at) = PhaseAt(frame[c].at) /\ f.at # "link_tag"
    BY <1>3, <2>1, PhaseOfPlace, OpenPlaces
  <2>4. SessionAt(f) = SessionAt(frame[c])
    BY <1>3, <2>1, <2>3 DEF SessionAt
  <2>5. SessionAt(Wrote(f, change)) = SessionAt(frame[c])
    BY <2>1, <2>4, WroteSession, Zenon
  <2>6. frame'[c].at = f.at
    BY <2>1, <2>2, WroteKeeps, StepFrame
  <2>7. QED
    BY <1>3, <2>1, <2>2, <2>5, <2>6, HiddenStep
<1>4. CASE ~Aborts(c, "insert_tag", FALSE)
  <2>1. PICK t \in frame[c].todo : \E change \in BOOLEAN :
          Step(c, Wrote([frame[c] EXCEPT !.todo = @ \ {t},
                           !.at = IF frame[c].todo = {t}
                                    THEN "insert_gazou" ELSE "insert_tag"],
                        change))
    BY <1>4 DEF InsertTag
  <2>2. QED
    BY <1>3, <1>4, <2>1 DEF InsertTag
<1>5. QED
  BY <1>2, <1>4

\* The length is looked at between two statements; only its refusal shows.
LEMMA CheckLengthServes ==
  ASSUME TypeOK, NEW c \in Conn, CheckLength(c),
         S!AsksAsUser(c, "send_gazou")
  PROVE  /\ S!Next \/ UNCHANGED S!vars
         /\ \/ frame'[c].at = "answered"
            \/ /\ frame'[c].at \in {"insert_tag", "insert_gazou"}
               /\ req[c].content \notin TooLong
<1>1. frame[c] \in Frame /\ frame[c].at = "check_length"
      /\ req[c].list_of_tags \in SUBSET Tag
  BY RequestType DEF CheckLength, Request
<1>2. CASE req[c].content \in TooLong /\ Answer(c, 2)
  <2>1. TrueCode(c, 2)
    BY <1>2 DEF TrueCode, S!Inapplicable
  <2>2. QED
    BY <1>1, <1>2, <2>1, AnswerRefuses DEF CheckLength
<1>3. ASSUME req[c].content \notin TooLong,
             Step(c, [frame[c] EXCEPT !.todo = req[c].list_of_tags,
                        !.at = IF req[c].list_of_tags = {}
                                 THEN "insert_gazou" ELSE "insert_tag"])
      PROVE  /\ UNCHANGED S!vars
             /\ frame'[c].at \in {"insert_tag", "insert_gazou"}
  <2> DEFINE f == [frame[c] EXCEPT !.todo = req[c].list_of_tags,
                     !.at = IF req[c].list_of_tags = {}
                              THEN "insert_gazou" ELSE "insert_tag"]
  <2>1. /\ f.at \in {"insert_gazou", "insert_tag"}
        /\ f.user = frame[c].user /\ f.gid = frame[c].gid
        /\ f.code = frame[c].code /\ f.cookie = frame[c].cookie
        /\ f.list = frame[c].list /\ f.page = frame[c].page
    BY <1>1 DEF Frame
  <2>2. Step(c, f)
    BY <1>3
  <2> HIDE DEF f
  <2>3. PhaseAt(f.at) = PhaseAt(frame[c].at) /\ f.at # "link_tag"
    BY <1>1, <2>1, PhaseOfPlace, OpenPlaces
  <2>4. SessionAt(f) = SessionAt(frame[c])
    BY <1>1, <2>1, <2>3 DEF SessionAt
  <2>5. frame'[c].at = f.at
    BY <2>2, StepFrame
  <2>6. QED
    BY <2>1, <2>2, <2>4, <2>5, HiddenStep DEF CheckLength, tables
<1>4. QED
  BY <1>2, <1>3 DEF CheckLength

\* send_gazou relies, when it stores the text, on the length it has looked at.
LEMMA SendGazouServes ==
  ASSUME ReferencesInv, ReferencesInv', NEW c \in Conn, ReadyOf(c),
         SendGazou(c)
  PROVE  Serves(c)
<1>0. /\ TypeOK /\ req'[c] = req[c] /\ req[c].method = "send_gazou"
      /\ frame[c] \in Frame
  BY HandleKeepsFlag, RequestType DEF ReferencesInv, SendGazou, Handle, FlagKept
<1>1. ASSUME frame[c].at \in {"check_length", "insert_tag", "insert_gazou"}
      PROVE  S!AsksAsUser(c, "send_gazou")
  <2>1. frame[c].at \in OpenAt /\ frame[c].user # ""
    BY <1>0, <1>1, OpenPlaces, SomeUser DEF AuthenticatedMethods, method_names
  <2>2. QED
    BY <1>0, <2>1, AsksAt
<1>2. ASSUME frame'[c].at # "start",
             frame'[c].at \in {"insert_tag", "insert_gazou"}
               => req[c].content \notin TooLong
      PROVE  ReadyOf(c)'
  BY <1>0, <1>2 DEF ReadyOf
<1>3. CASE Authenticate(c, "check_length")
  <2>1. frame[c].user = ""
    BY <1>3 DEF ReadyOf, Authenticate
  <2>2. /\ S!Next \/ UNCHANGED S!vars
        /\ frame'[c].at \in {"answered", "check_length"}
    BY <1>0, <1>3, <2>1, AuthenticateServes, OpenPlaces
  <2>3. QED
    BY <1>2, <2>2 DEF Serves
<1>4. CASE CheckLength(c)
  <2>1. S!AsksAsUser(c, "send_gazou")
    BY <1>1, <1>4 DEF CheckLength
  <2>2. QED
    BY <1>0, <1>2, <1>4, <2>1, CheckLengthServes DEF Serves
<1>5. CASE InsertTag(c)
  <2>1. req[c].content \notin TooLong
    BY <1>5 DEF InsertTag, Aborts, ReadyOf
  <2>2. QED
    BY <1>0, <1>2, <1>5, <2>1, InsertTagServes DEF Serves
<1>6. CASE InsertGazou(c)
  <2>1. frame[c].at = "insert_gazou"
    BY <1>6 DEF InsertGazou, Aborts
  <2>2. req[c].content \notin TooLong /\ S!AsksAsUser(c, "send_gazou")
    BY <1>1, <2>1 DEF ReadyOf
  <2>3. CASE Aborts(c, "insert_gazou", ~GazouUnique(PostRow(c)))
    <3>1. ~GazouUnique(PostRow(c)) => S!Clashes(c)
      BY <2>2, ServiceTerms DEF S!Clashes, S!GazouUnique, GazouUnique
    <3>2. S!Next /\ frame'[c].at = "answered"
      BY <1>0, <2>3, <3>1, AbortsServes DEF WriteAt
    <3>3. QED
      BY <1>2, <3>2 DEF Serves
  <2>4. CASE ~Aborts(c, "insert_gazou", ~GazouUnique(PostRow(c)))
    <3>1. /\ GazouUnique(PostRow(c)) /\ gazou' = Append(gazou, PostRow(c))
          /\ UNCHANGED <<user, tag, gazou_tag, user_subscription,
                         tag_subscription, relay, drawn>>
          /\ Step(c, LET f == Wrote([frame[c] EXCEPT !.gid = Len(gazou) + 1],
                                    TRUE)
                     IN  IF req[c].list_of_tags = {} THEN Answered(c, f, 0)
                           ELSE [f EXCEPT !.at = "link_tag",
                                          !.todo = req[c].list_of_tags])
      BY <1>6, <2>4, Zenon DEF InsertGazou, PostRow
    <3>2. S!Next
      BY <1>0, <2>1, <2>2, <3>1, InsertGazouServes
    <3>3. frame'[c].at \in {"answered", "link_tag"}
      BY <1>0, <3>1, InsertGazouPlace
    <3>4. QED
      BY <1>2, <3>2, <3>3 DEF Serves
  <2>5. QED
    BY <2>3, <2>4
<1>7. CASE LinkTag(c)
  <2>1. CASE Aborts(c, "link_tag", FALSE)
    <3>1. S!Next /\ frame'[c].at = "answered"
      BY <1>0, <2>1, AbortsServes DEF WriteAt
    <3>2. QED
      BY <1>2, <3>1 DEF Serves
  <2>2. ASSUME NEW t \in frame[c].todo, frame[c].at = "link_tag",
               gazou_tag' = gazou_tag \cup {<<frame[c].gid, t>>},
               UNCHANGED <<user, gazou, tag, user_subscription,
                           tag_subscription, relay, drawn>>,
               Step(c, LET f == [frame[c] EXCEPT !.todo = @ \ {t}]
                       IN  IF f.todo = {} THEN Answered(c, f, 0) ELSE f)
        PROVE  Serves(c)
    <3>1. S!Next
      BY <1>0, <2>2, LinkTagServes
    <3>2. frame'[c].at \in {"answered", "link_tag"}
      <4> DEFINE f == [frame[c] EXCEPT !.todo = @ \ {t}]
      <4>1. f \in Frame /\ f.at = "link_tag"
        BY <1>0, <2>2 DEF Frame
      <4>2. Step(c, IF f.todo = {} THEN Answered(c, f, 0) ELSE f)
        BY <2>2
      <4> HIDE DEF f
      <4>3. Answered(c, f, 0).at = "answered"
        BY <4>1, AnsweredFields
      <4>4. QED
        BY <1>0, <4>1, <4>2, <4>3, StepFrame
    <3>3. QED
      BY <1>2, <3>1, <3>2 DEF Serves
  <2>3. QED
    BY <1>7, <2>1, <2>2 DEF LinkTag
<1>8. QED
  BY <1>3, <1>4, <1>5, <1>6, <1>7 DEF SendGazou

----------------------------------------------------------------------------
(* Pages. *)

\* The service chooses from the same rows.
LEMMA SamePages ==
  ASSUME NEW n, NEW m
  PROVE  S!Pages(S!RelayedFor(n) \cup S!WrittenFor(n), m)
           = Pages(RelayedFor(n) \cup WrittenFor(n), m)
<1>1. \A i : S!Interesting(i, n) <=> Interesting(i, n)
  BY DEF S!Interesting, Interesting, S!Followed, Followed, S!FollowedTags,
         FollowedTags, S!TagsOf, TagsOf
<1>2. S!RelayedFor(n) = RelayedFor(n)
  BY <1>1 DEF S!RelayedFor, RelayedFor, S!Followed, Followed
<1>3. S!WrittenFor(n) = WrittenFor(n)
  BY <1>1 DEF S!WrittenFor, WrittenFor
<1>4. PICK rows : rows = RelayedFor(n) \cup WrittenFor(n)
  OBVIOUS
<1>5. \A P : S!Cardinality(P) = Cardinality(P)
  BY Zenon DEF S!Cardinality, Cardinality, S!IsFiniteSet, IsFiniteSet
<1>6. S!Pages(rows, m) = Pages(rows, m)
  BY <1>5 DEF S!Pages, Pages
<1>7. QED
  BY <1>2, <1>3, <1>4, <1>6

\* The session whose page has been chosen.
LEMMA DeliveringSession ==
  ASSUME NEW f, f.at # "link_tag", NEW x, NEW s,
         s = [SessionAt(f) EXCEPT !.page = x]
  PROVE  [s EXCEPT !.phase = "delivering"]
           = Fields("delivering", f.user, f.gid, {}, f.code, f.cookie, f.list, x)
<1>1. PICK p, w, g, e, k, l :
        /\ p = PhaseAt(f.at) /\ w = f.user /\ g = f.gid
        /\ e = f.code /\ k = f.cookie /\ l = f.list
  OBVIOUS
<1>2. [SessionAt(f) EXCEPT !.page = x]
        = Fields(PhaseAt(f.at), f.user, f.gid, {}, f.code, f.cookie, f.list, x)
  BY ChangedSession, Zenon
<1>3. s = Fields(p, w, g, {}, e, k, l, x)
  BY <1>1, <1>2, Zenon
<1>4. [Fields(p, w, g, {}, e, k, l, x) EXCEPT !.phase = "delivering"]
        = Fields("delivering", w, g, {}, e, k, l, x)
  BY DEF Fields
<1>5. QED
  BY <1>1, <1>3, <1>4, Zenon

\* The UNION query is the choice of the page.
LEMMA SelectPageServes ==
  ASSUME TypeOK, NEW c \in Conn, frame[c].at = "select_page",
         S!AsksAsUser(c, "get_gazou"), UNCHANGED <<tables, drawn>>,
         NEW P \in Pages(RelayedFor(frame[c].user) \cup WrittenFor(frame[c].user),
                         req[c].nb_gazou),
         NEW w \in SUBSET Nat,
         Step(c, LET f == [frame[c] EXCEPT !.page = P, !.left = P, !.pending = w]
                 IN  IF P = {} THEN Answered(c, f, 0)
                               ELSE [f EXCEPT !.at = "select_tags"])
  PROVE  S!Next /\ frame'[c].at \in {"answered", "select_tags"}
<1> DEFINE f == [frame[c] EXCEPT !.page = P, !.left = P, !.pending = w]
           g == [f EXCEPT !.at = "select_tags"]
<1>1. frame[c] \in Frame /\ P \in SUBSET Entry
  <2>1. frame[c] \in Frame /\ StoreTypeOK
    BY RequestType DEF TypeOK
  <2>2. RelayedFor(frame[c].user) \cup WrittenFor(frame[c].user) \subseteq Entry
    BY <2>1, TimelineType
  <2>3. QED
    BY <2>1, <2>2 DEF Pages
<1>2. /\ f \in Frame /\ f.at = "select_page" /\ f.page = P
      /\ f.user = frame[c].user /\ f.gid = frame[c].gid
      /\ f.code = frame[c].code /\ f.cookie = frame[c].cookie
      /\ f.list = frame[c].list
  BY <1>1 DEF Frame
<1>3. Step(c, IF P = {} THEN Answered(c, f, 0) ELSE g)
  OBVIOUS
<1> HIDE DEF f
<1>4. /\ g.at = "select_tags" /\ g.page = P
      /\ g.user = frame[c].user /\ g.gid = frame[c].gid
      /\ g.code = frame[c].code /\ g.cookie = frame[c].cookie
      /\ g.list = frame[c].list
  BY <1>2 DEF Frame
<1> HIDE DEF g
<1>5. PICK s : s = [SessionAt(frame[c]) EXCEPT !.page = P]
  OBVIOUS
<1>6. s = SessionAt(f)
  <2>1. frame[c].at # "link_tag"
    OBVIOUS
  <2>2. s = Fields(PhaseAt(frame[c].at), frame[c].user, frame[c].gid, {},
                   frame[c].code, frame[c].cookie, frame[c].list, P)
    BY <1>5, <2>1, ChangedSession, Zenon
  <2>3. SessionAt(f) = Fields(PhaseAt(frame[c].at), frame[c].user, frame[c].gid,
                   {}, frame[c].code, frame[c].cookie, frame[c].list, P)
    BY <1>2 DEF SessionAt, Fields
  <2>4. QED
    BY <2>2, <2>3, Zenon
<1>7. IF P = {} THEN S!Reply(c, s, 0)
                ELSE S!Become(c, [s EXCEPT !.phase = "delivering"])
  <2>1. CASE P = {}
    <3>1. S!Reply(c, SessionAt(f), 0)
      BY <1>2, <1>3, <2>1, AnsweredReplies
    <3>2. QED
      BY <1>6, <2>1, <3>1, Zenon
  <2>2. CASE P # {}
    <3>1. S!Become(c, SessionAt(g))
      BY <1>3, <2>2, StepBecomes
    <3>2. SessionAt(g) = Fields("delivering", frame[c].user, frame[c].gid, {},
                          frame[c].code, frame[c].cookie, frame[c].list, P)
      BY <1>4, PhaseOfPlace DEF SessionAt, Fields
    <3>3. frame[c].at # "link_tag"
      OBVIOUS
    <3>4. [s EXCEPT !.phase = "delivering"]
            = Fields("delivering", frame[c].user, frame[c].gid, {},
                     frame[c].code, frame[c].cookie, frame[c].list, P)
      BY <1>5, <3>3, DeliveringSession, Zenon
    <3>5. QED
      BY <2>2, <3>1, <3>2, <3>4, Zenon
  <2>3. QED
    BY <2>1, <2>2
<1>8. PICK ss : /\ ss = [d \in Conn |-> SessionAt(frame[d])]
                /\ ss[c] = SessionAt(frame[c])
  <2>1. [d \in Conn |-> SessionAt(frame[d])][c] = SessionAt(frame[c])
    OBVIOUS
  <2>2. QED
    BY <2>1, Zenon
<1>9. P \in S!Pages(S!RelayedFor(ss[c].who) \cup S!WrittenFor(ss[c].who),
                    req[c].nb_gazou)
  <2>1. ss[c].who = frame[c].user
    BY <1>8, SessionFields
  <2>2. P \in S!Pages(S!RelayedFor(frame[c].user) \cup S!WrittenFor(frame[c].user),
                      req[c].nb_gazou)
    BY SamePages
  <2>3. QED
    BY <2>1, <2>2, Zenon
<1>10. UNCHANGED <<S!tables, drawn>>
  BY DEF S!tables, tables
<1>11. S!TakePage(c)
  <2>1. s = [ss[c] EXCEPT !.page = P]
    BY <1>5, <1>8, Zenon
  <2>2. LET r == [ss[c] EXCEPT !.page = P]
        IN  IF P = {} THEN S!Reply(c, r, 0)
                      ELSE S!Become(c, [r EXCEPT !.phase = "delivering"])
    BY <1>7, <2>1, Zenon
  <2>3. QED
    BY <1>8, <1>9, <1>10, <2>2, Zenon DEF S!TakePage
<1>12. frame'[c].at \in {"answered", "select_tags"}
  <2>1. Answered(c, f, 0).at = "answered"
    BY <1>2, AnsweredFields
  <2>2. QED
    BY <1>3, <1>4, <2>1, StepFrame
<1>13. QED
  BY <1>11, <1>12 DEF S!Next

\* The tags of one row; after the last one the page is delivered.
LEMMA SelectTagsServes ==
  ASSUME TypeOK, NEW c \in Conn, frame[c].at = "select_tags",
         UNCHANGED <<tables, drawn>>, NEW e \in frame[c].left,
         Step(c, LET f == [frame[c] EXCEPT !.left = @ \ {e},
                             !.shown = @ \cup ({e} \X TagsOf(e.id))]
                 IN  IF f.left = {} THEN Answered(c, f, 0) ELSE f)
  PROVE  /\ S!Next \/ UNCHANGED S!vars
         /\ frame'[c].at \in {"answered", "select_tags"}
<1> DEFINE f == [frame[c] EXCEPT !.left = @ \ {e},
                   !.shown = @ \cup ({e} \X TagsOf(e.id))]
<1>1. frame[c] \in Frame
  BY RequestType
<1>2. /\ f \in Frame /\ f.at = "select_tags" /\ f.page = frame[c].page
      /\ f.user = frame[c].user /\ f.gid = frame[c].gid
      /\ f.code = frame[c].code /\ f.cookie = frame[c].cookie
      /\ f.list = frame[c].list
  <2>1. e \in Entry /\ {e} \X TagsOf(e.id) \subseteq Entry \X Tag
    BY <1>1 DEF Frame, TagsOf
  <2>2. QED
    BY <1>1, <2>1 DEF Frame
<1>3. Step(c, IF f.left = {} THEN Answered(c, f, 0) ELSE f)
  OBVIOUS
<1> HIDE DEF f
<1>4. SessionAt(f) = SessionAt(frame[c])
  BY <1>2 DEF SessionAt
<1>5. CASE f.left # {}
  <2>1. UNCHANGED S!vars
    BY <1>3, <1>4, <1>5, HiddenStep DEF tables
  <2>2. QED
    BY <1>2, <1>3, <1>5, <2>1, StepFrame
<1>6. CASE f.left = {}
  <2>1. S!Reply(c, SessionAt(f), 0) /\ frame'[c].at = "answered"
    <3>1. Step(c, Answered(c, f, 0)) /\ f.at # "link_tag"
      BY <1>2, <1>3, <1>6
    <3>2. S!Reply(c, SessionAt(f), 0)
      BY <1>2, <3>1, AnsweredReplies
    <3>3. QED
      BY <1>2, <3>1, <3>2, AnsweredFields, StepFrame
  <2>2. S!Reply(c, SessionAt(frame[c]), 0)
    BY <1>4, <2>1, Zenon
  <2>3. S!Succeed(c)
    BY <2>2 DEF S!Succeed
  <2>4. SessionAt(frame[c]).phase = "delivering"
    BY SessionFields, PhaseOfPlace
  <2>5. S!GivePage(c)
    BY <2>3, <2>4 DEF S!GivePage, S!tables, tables
  <2>6. QED
    BY <2>1, <2>5 DEF S!Next
<1>7. QED
  BY <1>5, <1>6

LEMMA GetGazouServes ==
  ASSUME NEW c \in Conn, Plain(c), GetGazou(c)
  PROVE  Serves(c)
<1>0. /\ TypeOK /\ ReferencesInv /\ frame[c] \in Frame
      /\ req[c].method = "get_gazou"
  BY RequestType DEF Plain, ReferencesInv, GetGazou
<1>1. CASE Authenticate(c, "select_page")
  BY <1>0, <1>1, PlainAuthenticate, OpenPlaces
<1>2. CASE /\ frame[c].at \in {"select_page", "select_tags"}
           /\ UNCHANGED <<tables, drawn>>
           /\ ReadBusy(c) /\ Answer(c, SPEC_ERR_INTERNAL_SRV)
  BY <1>0, <1>2, BusyServes, PlainReady DEF Serves
<1>3. ASSUME frame[c].at = "select_page", UNCHANGED <<tables, drawn>>,
             NEW P \in Pages(RelayedFor(frame[c].user)
                               \cup WrittenFor(frame[c].user), req[c].nb_gazou),
             Step(c, LET f == [frame[c] EXCEPT !.page = P, !.left = P,
                       !.pending = {frame[d].gid : d \in
                                      {x \in Conn : frame[x].at = "link_tag"}}]
                     IN  IF P = {} THEN Answered(c, f, 0)
                                   ELSE [f EXCEPT !.at = "select_tags"])
      PROVE  Serves(c)
  <2>1. PICK w : w = {frame[d].gid : d \in {x \in Conn : frame[x].at = "link_tag"}}
    OBVIOUS
  <2>2. w \in SUBSET Nat
    <3>1. \A d \in Conn : frame[d].gid \in Nat
      BY <1>0 DEF TypeOK, Frame
    <3>2. QED
      BY <2>1, <3>1
  <2>3. frame[c].at \in OpenAt /\ frame[c].user # ""
    BY <1>0, <1>3, OpenPlaces, SomeUser DEF AuthenticatedMethods, method_names
  <2>4. S!AsksAsUser(c, "get_gazou")
    BY <1>0, <2>3, AsksAt
  <2>5. Step(c, LET f == [frame[c] EXCEPT !.page = P, !.left = P, !.pending = w]
                IN  IF P = {} THEN Answered(c, f, 0)
                              ELSE [f EXCEPT !.at = "select_tags"])
    BY <1>3, <2>1, Zenon
  <2>6. S!Next /\ frame'[c].at \in {"answered", "select_tags"}
    BY <1>0, <1>3, <2>2, <2>4, <2>5, SelectPageServes
  <2>7. QED
    BY <2>6, PlainReady DEF Serves
<1>4. ASSUME frame[c].at = "select_tags", UNCHANGED <<tables, drawn>>,
             NEW e \in frame[c].left,
             Step(c, LET f == [frame[c] EXCEPT !.left = @ \ {e},
                                 !.shown = @ \cup ({e} \X TagsOf(e.id))]
                     IN  IF f.left = {} THEN Answered(c, f, 0) ELSE f)
      PROVE  Serves(c)
  BY <1>0, <1>4, SelectTagsServes, PlainReady DEF Serves
<1>5. CASE SelectPage(c)
  BY <1>2, <1>3, <1>5, Zenon DEF SelectPage
<1>6. CASE SelectTags(c)
  BY <1>2, <1>4, <1>6, Zenon DEF SelectTags
<1>7. QED
  BY <1>0, <1>1, <1>5, <1>6 DEF GetGazou

----------------------------------------------------------------------------
(* Every step of Methods is a step of the service, or one it does not see. *)

LEMMA HandleServes ==
  ASSUME ReferencesInv, ReferencesInv', NEW c \in Conn, ReadyOf(c), Handle(c)
  PROVE  Serves(c)
<1>1. CASE Connect(c)
  BY <1>1, ConnectServes
<1>2. CASE UnfollowUser(c)
  BY <1>2, UnfollowUserServes
<1>3. CASE SendGazou(c)
  BY <1>3, SendGazouServes
<1>4. CASE CreateAccount(c)
  <2>1. Plain(c)
    BY <1>4 DEF Plain, CreateAccount
  <2>2. QED
    BY <1>4, <2>1, CreateAccountServes
<1>5. CASE Disconnect(c)
  <2>1. Plain(c)
    BY <1>5 DEF Plain, Disconnect
  <2>2. QED
    BY <1>5, <2>1, DisconnectServes
<1>6. CASE RelayGazou(c)
  <2>1. Plain(c)
    BY <1>6 DEF Plain, RelayGazou
  <2>2. QED
    BY <1>6, <2>1, RelayGazouServes
<1>7. CASE GetGazou(c)
  <2>1. Plain(c)
    BY <1>7 DEF Plain, GetGazou
  <2>2. QED
    BY <1>7, <2>1, GetGazouServes
<1>8. CASE FollowUser(c)
  <2>1. Plain(c)
    BY <1>8 DEF Plain, FollowUser
  <2>2. QED
    BY <1>8, <2>1, FollowUserServes
<1>9. CASE FollowTag(c) \/ UnfollowTag(c)
  <2>1. Plain(c)
    BY <1>9 DEF Plain, FollowTag, UnfollowTag
  <2>2. QED
    BY <1>9, <2>1, FollowTagServes
<1>10. CASE ListFollowedUsers(c) \/ ListFollowedTags(c) \/ ListMyFollowers(c)
  <2>1. Plain(c)
    BY <1>10
    DEF Plain, ListFollowedUsers, ListFollowedTags, ListMyFollowers, List
  <2>2. QED
    BY <1>10, <2>1, ListsServe
<1>11. CASE RefuseMessage(c)
  <2>1. Plain(c)
    BY <1>11 DEF Plain, RefuseMessage, method_names
  <2>2. QED
    BY <1>11, <2>1, RefuseMessageServes
<1>12. QED
  BY <1>1, <1>2, <1>3, <1>4, <1>5, <1>6, <1>7, <1>8, <1>9, <1>10, <1>11
  DEF Handle

\* An idle worker is a session that has not begun.
LEMMA IdleSession ==
  /\ SessionAt(Idle) = S!Fresh
  /\ Idle.at = "idle" /\ Idle.user = ""
BY PhaseOfPlace DEF SessionAt, Idle, S!Fresh

LEMMA DispatchServes ==
  ASSUME TypeOK, NEW c \in Conn, NEW r \in Requests, DispatchRequest(c, r)
  PROVE  S!Next /\ ReadyOf(c)'
<1> DEFINE stale == r.cookie \in drawn /\ Owners(r.cookie) = {}
           f == [Idle EXCEPT !.at = "start", !.stale = stale]
<1>1. /\ f.at = "start" /\ f.user = "" /\ f.gid = 0 /\ f.code = 0
      /\ f.cookie = -1 /\ f.list = {} /\ f.page = {}
  BY DEF Idle
<1>2. frame' = [frame EXCEPT ![c] = f] /\ req' = [req EXCEPT ![c] = r]
  BY DEF DispatchRequest
<1> HIDE DEF f
<1>3. SessionAt(f) = Fields("open", "", 0, {}, 0, -1, {}, {})
  BY <1>1, PhaseOfPlace, OpenPlaces DEF SessionAt, Fields
<1>4. [S!Fresh EXCEPT !.phase = "open"] = Fields("open", "", 0, {}, 0, -1, {}, {})
  <2>1. PICK p, w, g, o, e, k, l, q :
          /\ p = "idle" /\ w = "" /\ g = 0 /\ o = {} /\ e = 0 /\ k = -1
          /\ l = {} /\ q = {}
    OBVIOUS
  <2>2. S!Fresh = Fields(p, w, g, o, e, k, l, q)
    BY <2>1 DEF S!Fresh, Fields
  <2>3. [Fields(p, w, g, o, e, k, l, q) EXCEPT !.phase = "open"]
          = Fields("open", w, g, o, e, k, l, q)
    BY DEF Fields
  <2>4. QED
    BY <2>1, <2>2, <2>3, Zenon
<1>5. PICK s : s = SessionAt(f) /\ s = [S!Fresh EXCEPT !.phase = "open"]
  BY <1>3, <1>4
<1>6. \A d \in Conn : SessionAt(frame[d])' = IF d = c THEN s ELSE SessionAt(frame[d])
  BY <1>2, <1>5 DEF TypeOK, SessionAt
<1>7. [d \in Conn |-> SessionAt(frame[d])]'
        = [[d \in Conn |-> SessionAt(frame[d])] EXCEPT ![c] = s]
  BY <1>6
<1>8. ~S!Served(c)
  <2>1. frame[c].at \in {"idle", "answered"}
    BY DEF DispatchRequest
  <2>2. frame[c].at \in Place
    BY <2>1 DEF Place
  <2>3. QED
    BY <2>1, <2>2, ServedAt
<1>9. /\ r.method = "send_gazou" => Len(gazou) < MaxGazou
      /\ UNCHANGED <<S!tables, drawn>>
  BY DEF DispatchRequest, S!tables, tables
<1>10. S!Begin(c, r)
  BY <1>2, <1>5, <1>7, <1>8, <1>9, Zenon DEF S!Begin
<1>11. ReadyOf(c)'
  <2>1. frame'[c].at = "start" /\ frame'[c].user = ""
    BY <1>1, <1>2 DEF TypeOK
  <2>2. QED
    BY <2>1 DEF ReadyOf
<1>12. QED
  BY <1>10, <1>11 DEF S!Next

LEMMA EndedServes ==
  ASSUME TypeOK, NEW c \in Conn, Ended(c)
  PROVE  S!Next /\ ReadyOf(c)'
<1>1. PICK s : s = SessionAt(Idle) /\ s = S!Fresh
  BY IdleSession
<1>2. \A d \in Conn : SessionAt(frame[d])' = IF d = c THEN s ELSE SessionAt(frame[d])
  BY <1>1 DEF TypeOK, SessionAt, Ended
<1>3. [d \in Conn |-> SessionAt(frame[d])]'
        = [[d \in Conn |-> SessionAt(frame[d])] EXCEPT ![c] = s]
  BY <1>2
<1>4. SessionAt(frame[c]).phase # "idle"
  <2>1. frame[c].at \in Place /\ frame[c].at # "idle"
    BY RequestType DEF Frame, Ended
  <2>2. QED
    BY <2>1, PhaseOfPlace, SessionFields
<1>5. UNCHANGED <<S!tables, drawn>>
  BY DEF Ended, S!tables, tables
<1>6. NoRequest \in Requests /\ req' = [req EXCEPT ![c] = NoRequest]
  BY NoRequestType DEF Ended
<1>7. PICK ss : /\ ss = [d \in Conn |-> SessionAt(frame[d])]
                /\ ss[c] = SessionAt(frame[c])
  <2>1. [d \in Conn |-> SessionAt(frame[d])][c] = SessionAt(frame[c])
    OBVIOUS
  <2>2. QED
    BY <2>1, Zenon
<1>8. ss[c].phase # "idle"
  BY <1>4, <1>7, Zenon
<1>9. S!Over(c)
  BY <1>1, <1>3, <1>5, <1>6, <1>7, <1>8, Zenon DEF S!Over
<1>10. ReadyOf(c)'
  <2>1. frame'[c].at = "idle"
    BY IdleSession DEF TypeOK, Ended
  <2>2. QED
    BY <2>1 DEF ReadyOf
<1>11. QED
  BY <1>9, <1>10 DEF S!Next

\* What the refinement needs of every state.
ReadyInv == \A c \in Conn : ReadyOf(c)

LEMMA NextServes ==
  ASSUME ReferencesInv, ReferencesInv', ReadyInv, [Next]_vars
  PROVE  ReadyInv' /\ (S!Next \/ UNCHANGED S!vars)
<1>0. TypeOK
  BY DEF ReferencesInv
<1>1. CASE UNCHANGED vars
  <2>1. UNCHANGED S!vars
    BY <1>1 DEF vars, tables, S!vars, S!tables
  <2>2. \A c \in Conn : ReadyOf(c)'
    BY <1>1 DEF vars, tables, ReadyInv, ReadyOf, Registered, Passwords, UsersNamed
  <2>3. QED
    BY <2>1, <2>2 DEF ReadyInv
<1>2. ASSUME NEW c \in Conn,
             Handle(c) \/ (\E r \in Requests : DispatchRequest(c, r)) \/ Ended(c)
      PROVE  ReadyInv' /\ (S!Next \/ UNCHANGED S!vars)
  <2>1. Serves(c)
    BY <1>0, <1>2, HandleServes, DispatchServes, EndedServes
    DEF Serves, ReadyInv
  <2>2. AccountsKept /\ \A d \in Conn \ {c} : frame'[d] = frame[d] /\ req'[d] = req[d]
    <3>1. CASE Handle(c)
      BY <1>0, <3>1, HandleAccounts, HandleKeepsFlag DEF FlagKept
    <3>2. CASE (\E r \in Requests : DispatchRequest(c, r)) \/ Ended(c)
      BY <1>0, <3>2, EnvironmentFrame
      DEF AccountsKept, Passwords, UsersNamed, tables
    <3>3. QED
      BY <1>2, <3>1, <3>2
  <2>3. ASSUME NEW d \in Conn PROVE ReadyOf(d)'
    BY <2>1, <2>2, ReadyOfOther DEF Serves, ReadyInv
  <2>4. QED
    BY <2>1, <2>3 DEF Serves, ReadyInv
<1>3. QED
  BY <1>1, <1>2 DEF Next

LEMMA InitServes ==
  ASSUME Init
  PROVE  S!Init /\ ReadyInv
<1>1. \A c \in Conn : frame[c] = Idle /\ req[c] = NoRequest
  BY DEF Init
<1>2. [c \in Conn |-> SessionAt(frame[c])] = [c \in Conn |-> S!Fresh]
  <2>1. PICK s : s = SessionAt(Idle) /\ s = S!Fresh
    BY IdleSession
  <2>2. \A c \in Conn : SessionAt(frame[c]) = s
    BY <1>1, <2>1, Zenon
  <2>3. QED
    BY <2>1, <2>2
<1>3. S!StoreInit
  BY DEF Init, StoreInit, S!StoreInit
<1>4. req \in [Conn -> Requests]
  BY NoRequestType DEF Init
<1>5. S!Init
  BY <1>2, <1>3, <1>4, Zenon DEF S!Init, Init
<1>6. ReadyInv
  BY <1>1, IdleSession DEF ReadyInv, ReadyOf
<1>7. QED
  BY <1>5, <1>6

\* What a handler found by its earlier statements is true at every later one
\* that relies on it: no lock is held between them (methods.c:251-317,
\* 451-514), but accounts are never deleted, and names and passwords never
\* change.
THEOREM ReadyAlways == Spec => []ReadyInv
<1>1. Init => ReadyInv
  BY InitServes
<1>2. ReferencesInv /\ ReferencesInv' /\ ReadyInv /\ [Next]_vars => ReadyInv'
  BY NextServes
<1>3. QED
  BY <1>1, <1>2, ReferencesAlways, PTL DEF Spec

\* The server keeps the promises of Service, whatever the workers interleave
\* and whenever they die: every statement of a handler (methods.c:211-863) is
\* one action of the service, with its precondition true at that instant, or
\* is not seen.
THEOREM ServiceImplemented == Spec => ImplementsService
<1>1. Init => S!Init
  BY InitServes
<1>2. ReferencesInv /\ ReferencesInv' /\ ReadyInv /\ [Next]_vars
        => [S!Next]_S!vars
  BY NextServes
<1>3. QED
  BY <1>1, <1>2, ReferencesAlways, ReadyAlways, PTL
  DEF Spec, ImplementsService, S!Spec
=============================================================================
