--------------------------- MODULE AnswersProofs ---------------------------
(***************************************************************************)
(* Proofs about the answers of Methods, for every value of its constants:  *)
(* what a client has been told is true of the tables, whatever statements  *)
(* of other workers ran between those of its own handler.                  *)
(*                                                                         *)
(* An answer is written by the last statement of its handler and speaks of *)
(* what earlier statements found, so the invariant follows a request       *)
(* through its handler: whether it may have written, which gazouilli is    *)
(* its own, which rows of the page it has read the tags of.                *)
(***************************************************************************)
EXTENDS SessionsProofs

----------------------------------------------------------------------------
(* The invariant, worker by worker. *)

\* The places that a request may reach after it has written.
MayHaveWritten(c) ==
  \/ /\ req[c].method = "send_gazou"
     /\ frame[c].at \in {"insert_tag", "insert_gazou", "link_tag"}
  \/ req[c].method = "connect" /\ frame[c].at = "select_cookie"

\* The code is set by the answer, and a refusal has written in no other places.
CleanOf(c) ==
  /\ frame[c].at # "answered" => frame[c].code = 0
  /\ frame[c].wrote => frame[c].at = "answered" \/ MayHaveWritten(c)
  /\ frame[c].at = "answered" /\ frame[c].code # 0 /\ frame[c].wrote =>
       \/ ~req[c].id
       \/ /\ frame[c].code = SPEC_ERR_INTERNAL_SRV
          /\ req[c].method \in {"send_gazou", "connect"}

\* The account that create_account has acknowledged.
AccountOf(c) ==
  Got(c, "create_account", 0) =>
    {u.password : u \in UsersNamed(req[c].username)} = {req[c].password}

\* c has inserted a gazouilli, and is linking its tags or has answered.
Owns(c) ==
  /\ req[c].method = "send_gazou"
  /\ frame[c].at = "link_tag" \/ Got(c, "send_gazou", 0)

\* The tags that c has linked.
Linked(c) ==
  IF frame[c].at = "link_tag" THEN req[c].list_of_tags \ frame[c].todo
                              ELSE req[c].list_of_tags

\* The gazouilli of c is its request, with the tags linked so far.
PostOf(c) ==
  /\ Owns(c) =>
       /\ frame[c].gid \in DOMAIN gazou
       /\ gazou[frame[c].gid] = [date |-> req[c].date,
                                 author |-> frame[c].user,
                                 content |-> req[c].content]
       /\ TagsOf(frame[c].gid) = Linked(c)
  /\ Got(c, "relay_gazou", 0) =>
       [gazou_id |-> req[c].id_gazouilli, retweeter |-> frame[c].user,
        retweet_date |-> req[c].date] \in relay

\* A gazouilli has one owner: nobody else adds to its tags.
OneOwner ==
  \A c, d \in Conn :
    Owns(c) /\ Owns(d) /\ frame[c].gid = frame[d].gid => c = d

\* c has read a page, and is reading its tags or has answered.
Paging(c) ==
  /\ req[c].method = "get_gazou"
  /\ frame[c].at = "select_tags" \/ Got(c, "get_gazou", 0)

\* The rows of the page whose tags are still to be read.
Rest(c) == IF frame[c].at = "select_tags" THEN frame[c].left ELSE {}

\* The tags that the answer of c shows for a row.
TagsShown(c, e) == {t \in Tag : <<e, t>> \in frame[c].shown}

\* The gazouillis of the page exist; those that somebody still adds tags to
\* were half-posted when the page was read; of the others the rows that have
\* been visited show all tags, the rest none yet.
ShownOf(c) ==
  /\ req[c].method = "get_gazou" /\ frame[c].at \in {"start", "select_page"} =>
       frame[c].shown = {}
  /\ Paging(c) => \A e \in frame[c].page :
       /\ e.id \in DOMAIN gazou
       /\ \A d \in Conn : frame[d].at = "link_tag" /\ frame[d].gid = e.id =>
                            e.id \in frame[c].pending
       /\ e \in Rest(c) => TagsShown(c, e) = {}
       /\ e \notin Rest(c) /\ e.id \notin frame[c].pending =>
            TagsShown(c, e) = TagsOf(e.id)

AnswersInv ==
  /\ \A c \in Conn : CleanOf(c) /\ AccountOf(c) /\ PostOf(c) /\ ShownOf(c)
  /\ OneOwner

----------------------------------------------------------------------------
(* Frames. *)

\* The fields of an answer with a result, or with an error.
LEMMA AnsweredFields ==
  ASSUME NEW c \in Conn, NEW f \in Frame, NEW code
  PROVE  LET g == Answered(c, f, code)
             e == IF req[c].id THEN code ELSE SPEC_ERR_FORMAT
         IN  /\ g.at = "answered"
             /\ g.user = f.user /\ g.gid = f.gid /\ g.wrote = f.wrote
             /\ g.pending = f.pending
             /\ code = 0 /\ req[c].id => /\ g.code = f.code /\ g.page = f.page
                                         /\ g.shown = f.shown
             /\ ~(code = 0 /\ req[c].id) => g.code = e
BY DEF Answered, Frame

\* A new place changes nothing else.
LEMMA GotoKeeps ==
  ASSUME TypeOK, NEW c \in Conn, NEW place, NEW n
  PROVE  LET f == Goto(c, place)
             g == [Goto(c, place) EXCEPT !.user = n]
         IN  /\ f.at = place /\ g.at = place /\ g.user = n
             /\ f.user = frame[c].user
             /\ \A h \in {f, g} : /\ h.code = frame[c].code
                                  /\ h.wrote = frame[c].wrote
                                  /\ h.shown = frame[c].shown
                                  /\ h.page = frame[c].page
                                  /\ h.gid = frame[c].gid
BY RequestType DEF Goto, Frame

\* The history flag changes nothing else.
LEMMA WroteKeeps ==
  ASSUME NEW f \in Frame, NEW change \in BOOLEAN
  PROVE  LET g == Wrote(f, change)
         IN  /\ g.at = f.at /\ g.code = f.code /\ g.user = f.user
             /\ g.gid = f.gid /\ g.todo = f.todo /\ g.shown = f.shown
             /\ g.wrote = (f.wrote \/ change)
BY DEF Wrote, Frame

----------------------------------------------------------------------------
(* Refusals. *)

\* An error answer is clean if its request has not written, or is one that may.
LEMMA AnswerClean ==
  ASSUME TypeOK, NEW c \in Conn, NEW code \in Nat \ {0}, Answer(c, code),
         frame[c].wrote => /\ code = SPEC_ERR_INTERNAL_SRV
                           /\ req[c].method \in {"send_gazou", "connect"}
  PROVE  CleanOf(c)'
<1>1. frame'[c] = Answered(c, frame[c], code) /\ req'[c] = req[c]
  BY StepFrame DEF Answer
<1>2. /\ frame'[c].at = "answered" /\ frame'[c].wrote = frame[c].wrote
      /\ frame'[c].code = IF req[c].id THEN code ELSE SPEC_ERR_FORMAT
  BY <1>1, RequestType, AnsweredFields
<1>3. QED
  BY <1>1, <1>2 DEF CleanOf, MayHaveWritten

\* A result is clean: its code is that of a request without error.
LEMMA ResultClean ==
  ASSUME TypeOK, NEW c \in Conn, NEW f, Step(c, f), f.at = "answered",
         f.code = 0 \/ ~req[c].id
  PROVE  CleanOf(c)'
<1>1. frame'[c] = f /\ req'[c] = req[c]
  BY StepFrame
<1>2. QED
  BY <1>1 DEF CleanOf

\* So is a handler that goes on without having written.
LEMMA OnClean ==
  ASSUME TypeOK, NEW c \in Conn, NEW f, Step(c, f), f.at # "answered",
         f.code = 0, ~f.wrote
  PROVE  CleanOf(c)'
<1>1. frame'[c] = f
  BY StepFrame
<1>2. QED
  BY <1>1 DEF CleanOf

\* A SELECT before the first write of a handler.
LEMMA SelectClean ==
  ASSUME TypeOK, NEW c \in Conn, CleanOf(c), NEW place, NEW ok,
         NEW code \in Nat \ {0}, NEW next, next # "answered",
         place \in ReadAt \ {"select_cookie"},
         Select(c, place, ok, code, next)
  PROVE  CleanOf(c)'
<1>1. frame[c].code = 0 /\ ~frame[c].wrote
  BY DEF CleanOf, MayHaveWritten, Select, ReadAt
<1>2. CASE Step(c, Goto(c, next))
  BY <1>1, <1>2, GotoKeeps, OnClean
<1>3. CASE Answer(c, code) \/ Answer(c, SPEC_ERR_INTERNAL_SRV)
  BY <1>1, <1>3, AnswerClean DEF SPEC_ERR_INTERNAL_SRV
<1>4. QED
  BY <1>2, <1>3 DEF Select

\* The authentication comes before any write.
LEMMA AuthenticateClean ==
  ASSUME TypeOK, NEW c \in Conn, CleanOf(c), NEW next, next # "answered",
         Authenticate(c, next)
  PROVE  CleanOf(c)'
<1>1. frame[c].code = 0 /\ ~frame[c].wrote
  BY DEF CleanOf, MayHaveWritten, Authenticate
<1>2. ASSUME NEW n, Step(c, [Goto(c, next) EXCEPT !.user = n])
      PROVE  CleanOf(c)'
  <2> DEFINE g == [Goto(c, next) EXCEPT !.user = n]
  <2>1. g.at = next /\ g.code = 0 /\ ~g.wrote
    BY <1>1, GotoKeeps
  <2> HIDE DEF g
  <2>2. QED
    BY <1>2, <2>1, OnClean DEF g
<1>3. CASE Answer(c, SPEC_ERR_INCORRECT_COOKIE)
  BY <1>1, <1>3, AnswerClean DEF SPEC_ERR_INCORRECT_COOKIE
<1>4. QED
  BY <1>2, <1>3 DEF Authenticate

\* A writing statement that fails is the first of its handler, or belongs to
\* send_gazou.
LEMMA AbortsClean ==
  ASSUME TypeOK, NEW c \in Conn, CleanOf(c), NEW place, NEW clash,
         Aborts(c, place, clash), place \in WriteAt
  PROVE  CleanOf(c)'
<1>1. frame[c].wrote => req[c].method = "send_gazou"
  BY DEF CleanOf, MayHaveWritten, Aborts, WriteAt
<1>2. QED
  BY <1>1, AnswerClean DEF Aborts, SPEC_ERR_INTERNAL_SRV

\* A statement that is the last of its handler, and writes.
LEMMA LastWriteClean ==
  ASSUME TypeOK, NEW c \in Conn, CleanOf(c), NEW change \in BOOLEAN,
         frame[c].at # "answered",
         Step(c, Wrote(Answered(c, frame[c], 0), change))
  PROVE  CleanOf(c)'
<1> DEFINE g == Answered(c, frame[c], 0)
<1>1. g \in Frame /\ frame[c] \in Frame
  BY RequestType, AnsweredType
<1>2. g.at = "answered" /\ (req[c].id => g.code = 0)
  BY <1>1, AnsweredFields DEF CleanOf
<1> HIDE DEF g
<1>3. Wrote(g, change).at = "answered" /\ (req[c].id => Wrote(g, change).code = 0)
  BY <1>1, <1>2, WroteKeeps
<1>4. QED
  BY <1>3, ResultClean DEF g

\* A result that follows from f, a frame without error.
LEMMA AnsweredClean ==
  ASSUME TypeOK, NEW c \in Conn, NEW f \in Frame, f.code = 0,
         Step(c, Answered(c, f, 0))
  PROVE  CleanOf(c)'
<1>1. Answered(c, f, 0).at = "answered" /\ (req[c].id => Answered(c, f, 0).code = 0)
  BY AnsweredFields
<1>2. QED
  BY <1>1, ResultClean

\* new_random_cookie, whose caller answers, or reads the cookie back.
LEMMA NewRandomCookieClean ==
  ASSUME TypeOK, NEW c \in Conn, CleanOf(c), NEW n, NEW f \in Frame,
         NewRandomCookie(c, n, f),
         f.code = 0 \/ ~req[c].id,
         \/ f.at = "answered"
         \/ /\ f.at = "select_cookie" /\ f.code = 0
            /\ req[c].method = "connect"
  PROVE  CleanOf(c)'
<1>1. CASE Aborts(c, "update_cookie",
                  \E k \in Random : ~UserUnique(WithCookie(n, k)))
  BY <1>1, AbortsClean DEF WriteAt
<1>2. CASE Step(c, Wrote(f, TRUE))
  <2> DEFINE g == Wrote(f, TRUE)
  <2>1. g.at = f.at /\ g.code = f.code
    BY WroteKeeps
  <2> HIDE DEF g
  <2>2. frame'[c] = g /\ req'[c] = req[c]
    BY <1>2, StepFrame DEF g
  <2>3. QED
    BY <2>1, <2>2 DEF CleanOf, MayHaveWritten
<1>3. QED
  BY <1>1, <1>2 DEF NewRandomCookie

\* create_account writes once, at its end.
LEMMA CreateAccountClean ==
  ASSUME TypeOK, NEW c \in Conn, CleanOf(c), CreateAccount(c)
  PROVE  CleanOf(c)'
<1>1. ASSUME NEW ok, Select(c, "start", ok, 1, "insert_user") PROVE CleanOf(c)'
  BY <1>1, SelectClean DEF ReadAt
<1>2. ASSUME NEW clash, Aborts(c, "insert_user", clash) PROVE CleanOf(c)'
  BY <1>2, AbortsClean DEF WriteAt
<1>3. ASSUME frame[c].at = "insert_user",
             Step(c, Wrote(Answered(c, frame[c], 0), TRUE))
      PROVE  CleanOf(c)'
  BY <1>3, LastWriteClean
<1>4. QED
  BY <1>1, <1>2, <1>3 DEF CreateAccount

\* connect stores the cookie, then reads it back.
LEMMA ConnectClean ==
  ASSUME TypeOK, NEW c \in Conn, CleanOf(c), Connect(c)
  PROVE  CleanOf(c)'
<1>1. ASSUME NEW place, NEW ok, NEW code \in {1, 2}, NEW next,
             next # "answered", place \in {"start", "select_password"},
             Select(c, place, ok, code, next)
      PROVE  CleanOf(c)'
  BY <1>1, SelectClean DEF ReadAt
<1>2. CASE NewRandomCookie(c, req[c].username, Goto(c, "select_cookie"))
  <2>1. frame[c].code = 0
    BY <1>2 DEF CleanOf, NewRandomCookie, Aborts
  <2>2. /\ Goto(c, "select_cookie") \in Frame
        /\ Goto(c, "select_cookie").at = "select_cookie"
        /\ Goto(c, "select_cookie").code = 0
    BY <2>1, GotoType, GotoKeeps DEF Place, ReadAt
  <2>3. QED
    BY <1>2, <2>2, NewRandomCookieClean DEF Connect
<1>3. ASSUME NEW u \in UsersNamed(req[c].username),
             frame[c].at = "select_cookie",
             Step(c, Answered(c, [frame[c] EXCEPT !.cookie = u.cookie], 0))
      PROVE  CleanOf(c)'
  <2> DEFINE f == [frame[c] EXCEPT !.cookie = u.cookie]
  <2>1. u \in UserRow
    BY DEF UsersNamed, TypeOK, StoreTypeOK
  <2>2. u.cookie \in Int
    BY <2>1, CookieIsInt DEF UserRow
  <2>3. f \in Frame /\ f.code = 0
    BY <1>3, <2>2, RequestType DEF CleanOf, Frame
  <2> HIDE DEF f
  <2>4. QED
    BY <1>3, <2>3, AnsweredClean DEF f
<1>4. CASE frame[c].at = "select_cookie" /\ Answer(c, SPEC_ERR_INTERNAL_SRV)
  BY <1>4, AnswerClean DEF Connect, SPEC_ERR_INTERNAL_SRV
<1>5. QED
  BY <1>1, <1>2, <1>3, <1>4 DEF Connect

\* disconnect writes once, at its end.
LEMMA DisconnectClean ==
  ASSUME TypeOK, NEW c \in Conn, CleanOf(c), Disconnect(c)
  PROVE  CleanOf(c)'
<1>1. CASE Authenticate(c, "update_cookie")
  BY <1>1, AuthenticateClean
<1>2. CASE NewRandomCookie(c, frame[c].user, Answered(c, frame[c], 0))
  <2>1. frame[c].code = 0
    BY <1>2 DEF CleanOf, NewRandomCookie, Aborts
  <2>2. /\ Answered(c, frame[c], 0) \in Frame
        /\ Answered(c, frame[c], 0).at = "answered"
        /\ req[c].id => Answered(c, frame[c], 0).code = 0
    BY <2>1, RequestType, AnsweredType, AnsweredFields
  <2>3. QED
    BY <1>2, <2>2, NewRandomCookieClean
<1>3. QED
  BY <1>1, <1>2 DEF Disconnect

\* send_gazou: the insertions of tags leave the request in a place that may
\* have written.
LEMMA SendGazouClean ==
  ASSUME TypeOK, NEW c \in Conn, CleanOf(c), SendGazou(c)
  PROVE  CleanOf(c)'
<1>0. frame[c] \in Frame /\ req[c].method = "send_gazou"
  BY RequestType DEF SendGazou
<1>1. CASE Authenticate(c, "check_length")
  BY <1>1, AuthenticateClean
<1>2. CASE CheckLength(c)
  <2>1. frame[c].code = 0 /\ ~frame[c].wrote
    BY <1>2 DEF CleanOf, MayHaveWritten, CheckLength
  <2>2. CASE Answer(c, 2)
    BY <2>1, <2>2, AnswerClean
  <2>3. ASSUME NEW t, NEW p, p # "answered",
               Step(c, [frame[c] EXCEPT !.todo = t, !.at = p])
        PROVE  CleanOf(c)'
    <3> DEFINE g == [frame[c] EXCEPT !.todo = t, !.at = p]
    <3>1. g.at = p /\ g.code = 0 /\ ~g.wrote
      BY <1>0, <2>1 DEF Frame
    <3> HIDE DEF g
    <3>2. QED
      BY <2>3, <3>1, OnClean DEF g
  <2>4. QED
    BY <1>2, <2>2, <2>3 DEF CheckLength
<1>3. CASE InsertTag(c)
  <2>1. CASE Aborts(c, "insert_tag", FALSE)
    BY <2>1, AbortsClean DEF WriteAt
  <2>2. ASSUME NEW t, NEW p \in {"insert_gazou", "insert_tag"},
               frame[c].at = "insert_tag", NEW w \in BOOLEAN,
               Step(c, Wrote([frame[c] EXCEPT !.todo = @ \ t, !.at = p], w))
        PROVE  CleanOf(c)'
    <3> DEFINE g == Wrote([frame[c] EXCEPT !.todo = @ \ t, !.at = p], w)
    <3>1. g.at = p /\ g.code = 0
      BY <1>0, <2>2 DEF Wrote, Frame, CleanOf
    <3> HIDE DEF g
    <3>2. frame'[c] = g /\ req'[c] = req[c]
      BY <2>2, StepFrame DEF g
    <3>3. QED
      BY <1>0, <3>1, <3>2 DEF CleanOf, MayHaveWritten
  <2>3. QED
    BY <1>3, <2>1, <2>2 DEF InsertTag
<1>4. CASE InsertGazou(c)
  <2>1. ASSUME NEW clash, Aborts(c, "insert_gazou", clash) PROVE CleanOf(c)'
    BY <2>1, AbortsClean DEF WriteAt
  <2>2. ASSUME frame[c].at = "insert_gazou",
               Step(c, LET f == Wrote([frame[c] EXCEPT !.gid = Len(gazou) + 1], TRUE)
                       IN  IF req[c].list_of_tags = {} THEN Answered(c, f, 0)
                             ELSE [f EXCEPT !.at = "link_tag",
                                            !.todo = req[c].list_of_tags])
        PROVE  CleanOf(c)'
    <3> DEFINE e == [frame[c] EXCEPT !.gid = Len(gazou) + 1]
               f == Wrote(e, TRUE)
               g == [f EXCEPT !.at = "link_tag", !.todo = req[c].list_of_tags]
    <3>1. Len(gazou) + 1 \in Nat
      BY DEF TypeOK, StoreTypeOK
    <3>2. e \in Frame /\ e.code = 0
      BY <1>0, <2>2, <3>1 DEF Frame, CleanOf
    <3> HIDE DEF e
    <3>3. f \in Frame /\ f.code = 0
      BY <3>2, WroteType, WroteKeeps
    <3>4. Step(c, IF req[c].list_of_tags = {} THEN Answered(c, f, 0) ELSE g)
      BY <2>2 DEF e
    <3> HIDE DEF f
    <3>5. g.at = "link_tag" /\ g.code = 0
      BY <3>3 DEF Frame
    <3> HIDE DEF g
    <3>6. CASE Step(c, Answered(c, f, 0))
      BY <3>3, <3>6, AnsweredClean
    <3>7. CASE Step(c, g)
      <4>1. frame'[c] = g /\ req'[c] = req[c]
        BY <3>7, StepFrame
      <4>2. QED
        BY <1>0, <3>5, <4>1 DEF CleanOf, MayHaveWritten
    <3>8. QED
      BY <3>4, <3>6, <3>7
  <2>3. QED
    BY <1>4, <2>1, <2>2 DEF InsertGazou
<1>5. CASE LinkTag(c)
  <2>1. CASE Aborts(c, "link_tag", FALSE)
    BY <2>1, AbortsClean DEF WriteAt
  <2>2. ASSUME NEW t, frame[c].at = "link_tag",
               Step(c, LET f == [frame[c] EXCEPT !.todo = @ \ {t}]
                       IN  IF f.todo = {} THEN Answered(c, f, 0) ELSE f)
        PROVE  CleanOf(c)'
    <3> DEFINE f == [frame[c] EXCEPT !.todo = @ \ {t}]
    <3>1. f \in Frame /\ f.at = "link_tag" /\ f.code = 0
      BY <1>0, <2>2 DEF Frame, CleanOf
    <3>2. Step(c, IF f.todo = {} THEN Answered(c, f, 0) ELSE f)
      BY <2>2
    <3> HIDE DEF f
    <3>3. CASE Step(c, Answered(c, f, 0))
      BY <3>1, <3>3, AnsweredClean
    <3>4. CASE Step(c, f)
      <4>1. frame'[c] = f /\ req'[c] = req[c]
        BY <3>4, StepFrame
      <4>2. QED
        BY <1>0, <3>1, <4>1 DEF CleanOf, MayHaveWritten
    <3>5. QED
      BY <3>2, <3>3, <3>4
  <2>3. QED
    BY <1>5, <2>1, <2>2 DEF LinkTag
<1>6. QED
  BY <1>1, <1>2, <1>3, <1>4, <1>5 DEF SendGazou

\* relay_gazou writes once, at its end.
LEMMA RelayGazouClean ==
  ASSUME TypeOK, NEW c \in Conn, CleanOf(c), RelayGazou(c)
  PROVE  CleanOf(c)'
<1>1. CASE Authenticate(c, "select_gazou")
  BY <1>1, AuthenticateClean
<1>2. ASSUME NEW place \in {"select_gazou", "select_relay"}, NEW ok,
             NEW code \in {1, 2}, NEW next, next # "answered",
             Select(c, place, ok, code, next)
      PROVE  CleanOf(c)'
  BY <1>2, SelectClean DEF ReadAt
<1>3. ASSUME NEW clash, Aborts(c, "insert_relay", clash) PROVE CleanOf(c)'
  BY <1>3, AbortsClean DEF WriteAt
<1>4. ASSUME frame[c].at = "insert_relay",
             Step(c, Wrote(Answered(c, frame[c], 0), TRUE))
      PROVE  CleanOf(c)'
  BY <1>4, LastWriteClean
<1>5. QED
  BY <1>1, <1>2, <1>3, <1>4 DEF RelayGazou

\* get_gazou does not write.
LEMMA GetGazouClean ==
  ASSUME TypeOK, NEW c \in Conn, CleanOf(c), GetGazou(c)
  PROVE  CleanOf(c)'
<1>0. frame[c] \in Frame
  BY RequestType
<1>1. CASE Authenticate(c, "select_page")
  BY <1>1, AuthenticateClean
<1>2. CASE Answer(c, SPEC_ERR_INTERNAL_SRV) /\ frame[c].at \in {"select_page", "select_tags"}
  <2>1. ~frame[c].wrote
    BY <1>2 DEF CleanOf, MayHaveWritten
  <2>2. QED
    BY <1>2, <2>1, AnswerClean DEF SPEC_ERR_INTERNAL_SRV
<1>3. ASSUME NEW f, frame[c].at \in {"select_page", "select_tags"},
             f.code = frame[c].code, f.wrote = frame[c].wrote,
             f.at # "answered", Step(c, f)
      PROVE  CleanOf(c)'
  BY <1>3, OnClean DEF CleanOf, MayHaveWritten
<1>4. ASSUME NEW P \in SUBSET Entry, NEW G \in SUBSET Nat,
             frame[c].at = "select_page",
             Step(c, LET f == [frame[c] EXCEPT !.page = P, !.left = P,
                                               !.pending = G]
                     IN  IF P = {} THEN Answered(c, f, 0)
                                   ELSE [f EXCEPT !.at = "select_tags"])
      PROVE  CleanOf(c)'
  <2> DEFINE f == [frame[c] EXCEPT !.page = P, !.left = P, !.pending = G]
             g == [f EXCEPT !.at = "select_tags"]
  <2>1. f \in Frame /\ f.code = frame[c].code /\ f.wrote = frame[c].wrote
    BY <1>0 DEF Frame
  <2>2. frame[c].code = 0
    BY <1>4 DEF CleanOf
  <2>3. Step(c, IF P = {} THEN Answered(c, f, 0) ELSE g)
    BY <1>4
  <2> HIDE DEF f
  <2>4. g.at = "select_tags" /\ g.code = f.code /\ g.wrote = f.wrote
    BY <2>1 DEF Frame
  <2> HIDE DEF g
  <2>5. QED
    BY <1>3, <1>4, <2>1, <2>2, <2>3, <2>4, AnsweredClean
<1>5. CASE SelectPage(c)
  <2>1. ASSUME NEW P \in Pages(RelayedFor(frame[c].user) \cup WrittenFor(frame[c].user),
                               req[c].nb_gazou)
        PROVE  P \in SUBSET Entry
    BY TimelineType DEF Pages
  <2>2. {frame[d].gid : d \in {e \in Conn : frame[e].at = "link_tag"}} \in SUBSET Nat
    BY RequestType DEF Frame
  <2>3. QED
    BY <1>2, <1>4, <1>5, <2>1, <2>2 DEF SelectPage
<1>6. CASE SelectTags(c)
  <2>1. ASSUME NEW e \in frame[c].left, frame[c].at = "select_tags",
               Step(c, LET f == [frame[c] EXCEPT !.left = @ \ {e},
                                   !.shown = @ \cup ({e} \X TagsOf(e.id))]
                       IN  IF f.left = {} THEN Answered(c, f, 0) ELSE f)
        PROVE  CleanOf(c)'
    <3> DEFINE f == [frame[c] EXCEPT !.left = @ \ {e},
                       !.shown = @ \cup ({e} \X TagsOf(e.id))]
    <3>1. {e} \X TagsOf(e.id) \subseteq Entry \X Tag
      BY <1>0 DEF Frame, TagsOf
    <3>2. /\ f \in Frame /\ f.code = frame[c].code /\ f.wrote = frame[c].wrote
          /\ f.at = "select_tags"
      BY <1>0, <2>1, <3>1 DEF Frame
    <3>3. frame[c].code = 0
      BY <2>1 DEF CleanOf
    <3>4. Step(c, IF f.left = {} THEN Answered(c, f, 0) ELSE f)
      BY <2>1
    <3> HIDE DEF f
    <3>5. QED
      BY <1>3, <2>1, <3>2, <3>3, <3>4, AnsweredClean
  <2>2. QED
    BY <1>2, <1>6, <2>1 DEF SelectTags
<1>7. QED
  BY <1>1, <1>5, <1>6 DEF GetGazou

\* The four subscription methods write once, at their end.
LEMMA FollowClean ==
  ASSUME TypeOK, NEW c \in Conn, CleanOf(c),
         FollowUser(c) \/ UnfollowUser(c) \/ FollowTag(c) \/ UnfollowTag(c)
  PROVE  CleanOf(c)'
<1>1. ASSUME NEW next, next # "answered", Authenticate(c, next)
      PROVE  CleanOf(c)'
  BY <1>1, AuthenticateClean
<1>2. ASSUME NEW place \in {"select_user", "select_subscription"}, NEW ok,
             NEW code \in {1, 2}, NEW next, next # "answered",
             Select(c, place, ok, code, next)
      PROVE  CleanOf(c)'
  BY <1>2, SelectClean DEF ReadAt
<1>3. ASSUME NEW place \in {"insert_subscription", "delete_subscription"},
             NEW clash, Aborts(c, place, clash)
      PROVE  CleanOf(c)'
  BY <1>3, AbortsClean DEF WriteAt
<1>4. ASSUME NEW place \in {"insert_subscription", "delete_subscription"}, NEW T,
             \/ WriteUserSubscription(c, place, T)
             \/ WriteTagSubscription(c, place, T)
      PROVE  CleanOf(c)'
  <2>1. ASSUME NEW change \in BOOLEAN,
               Step(c, Wrote(Answered(c, frame[c], 0), change)),
               frame[c].at = place
        PROVE  CleanOf(c)'
    BY <2>1, LastWriteClean
  <2>2. QED
    BY <1>4, <2>1 DEF WriteUserSubscription, WriteTagSubscription
<1>5. CASE FollowUser(c)
  BY <1>1, <1>2, <1>3, <1>4, <1>5 DEF FollowUser
<1>6. CASE UnfollowUser(c)
  BY <1>1, <1>2, <1>3, <1>4, <1>6 DEF UnfollowUser
<1>7. CASE FollowTag(c)
  BY <1>1, <1>2, <1>3, <1>4, <1>7 DEF FollowTag
<1>8. CASE UnfollowTag(c)
  BY <1>1, <1>2, <1>3, <1>4, <1>8 DEF UnfollowTag
<1>9. QED
  BY <1>5, <1>6, <1>7, <1>8

\* The list methods do not write.
LEMMA ListClean ==
  ASSUME TypeOK, NEW c \in Conn, CleanOf(c), NEW method,
         NEW rows \in SUBSET (Name \cup Tag), List(c, method, rows)
  PROVE  CleanOf(c)'
<1>1. CASE Authenticate(c, "select_list")
  BY <1>1, AuthenticateClean
<1>2. CASE frame[c].at = "select_list" /\ Answer(c, SPEC_ERR_INTERNAL_SRV)
  BY <1>2, AnswerClean DEF CleanOf, MayHaveWritten, SPEC_ERR_INTERNAL_SRV
<1>3. CASE /\ frame[c].at = "select_list"
           /\ Step(c, Answered(c, [frame[c] EXCEPT !.list = rows], 0))
  <2> DEFINE f == [frame[c] EXCEPT !.list = rows]
  <2>1. f \in Frame /\ f.code = 0
    BY <1>3, RequestType DEF Frame, CleanOf
  <2> HIDE DEF f
  <2>2. QED
    BY <1>3, <2>1, AnsweredClean DEF f
<1>4. QED
  BY <1>1, <1>2, <1>3 DEF List

\* What Handle does is clean.
LEMMA HandleClean ==
  ASSUME TypeOK, NEW c \in Conn, CleanOf(c), Handle(c)
  PROVE  CleanOf(c)'
<1>1. CASE ListFollowedUsers(c) \/ ListFollowedTags(c) \/ ListMyFollowers(c)
  <2>1. /\ Followed(frame[c].user) \in SUBSET (Name \cup Tag)
        /\ FollowedTags(frame[c].user) \in SUBSET (Name \cup Tag)
        /\ Followers(frame[c].user) \in SUBSET (Name \cup Tag)
    BY DEF Followed, FollowedTags, Followers
  <2>2. QED
    BY <1>1, <2>1, ListClean
    DEF ListFollowedUsers, ListFollowedTags, ListMyFollowers
<1>2. CASE RefuseMessage(c)
  <2>1. ~frame[c].wrote
    BY <1>2 DEF RefuseMessage, CleanOf, MayHaveWritten
  <2>2. QED
    BY <1>2, <2>1, AnswerClean
    DEF RefuseMessage, SPEC_ERR_FORMAT, SPEC_ERR_NOT_IMPLEMENTED
<1>3. QED
  BY <1>1, <1>2, CreateAccountClean, ConnectClean, DisconnectClean,
     SendGazouClean, RelayGazouClean, GetGazouClean, FollowClean DEF Handle

\* A worker that rests, or has just read a request, has nothing to answer for.
LEMMA EnvironmentFrame ==
  ASSUME TypeOK, NEW c \in Conn,
         (\E r \in Requests : DispatchRequest(c, r)) \/ Ended(c)
  PROVE  /\ frame'[c].at \in {"idle", "start"}
         /\ frame'[c].code = 0 /\ ~frame'[c].wrote /\ frame'[c].shown = {}
         /\ frame'[c].gid = 0
         /\ \A d \in Conn \ {c} : frame'[d] = frame[d] /\ req'[d] = req[d]
         /\ UNCHANGED <<tables, drawn>>
<1>1. ASSUME NEW r \in Requests, DispatchRequest(c, r)
      PROVE  /\ frame'[c].at = "start" /\ frame'[c].code = 0
             /\ ~frame'[c].wrote /\ frame'[c].shown = {} /\ frame'[c].gid = 0
  <2> DEFINE h == r.cookie \in drawn /\ Owners(r.cookie) = {}
  <2>1. frame'[c] = [Idle EXCEPT !.at = "start", !.stale = h]
    BY <1>1 DEF DispatchRequest, TypeOK
  <2> HIDE DEF h
  <2>2. QED
    BY <2>1 DEF Idle
<1>2. ASSUME Ended(c)
      PROVE  /\ frame'[c].at = "idle" /\ frame'[c].code = 0
             /\ ~frame'[c].wrote /\ frame'[c].shown = {} /\ frame'[c].gid = 0
  BY <1>2 DEF Ended, TypeOK, Idle
<1>3. \A d \in Conn \ {c} : frame'[d] = frame[d] /\ req'[d] = req[d]
  BY DEF DispatchRequest, Ended, TypeOK
<1>4. UNCHANGED <<tables, drawn>>
  BY DEF DispatchRequest, Ended
<1>5. QED
  BY <1>1, <1>2, <1>3, <1>4

\* Each of the five methods whose answers are looked at has one handler.
LEMMA HandlerOf ==
  ASSUME NEW c \in Conn, Handle(c)
  PROVE  /\ req[c].method = "create_account" => CreateAccount(c)
         /\ req[c].method = "connect" => Connect(c)
         /\ req[c].method = "send_gazou" => SendGazou(c)
         /\ req[c].method = "relay_gazou" => RelayGazou(c)
         /\ req[c].method = "get_gazou" => GetGazou(c)
BY DEF Handle, CreateAccount, Connect, Disconnect, SendGazou, RelayGazou,
   GetGazou, FollowUser, UnfollowUser, FollowTag, UnfollowTag,
   ListFollowedUsers, ListFollowedTags, ListMyFollowers, List, RefuseMessage,
   method_names

----------------------------------------------------------------------------
(* Accounts. *)

\* The passwords of the accounts named n: one, or none.
Passwords(n) == {u.password : u \in UsersNamed(n)}

\* An account keeps its password.
AccountsKept == \A n \in Registered : Passwords(n)' = Passwords(n)

\* A cookie that changes leaves the passwords alone.
LEMMA WithCookiePasswords ==
  ASSUME TypeOK, NEW m, NEW k, user' = WithCookie(m, k)
  PROVE  AccountsKept
<1> DEFINE F(u) == IF u.name = m THEN [u EXCEPT !.cookie = k] ELSE u
<1>1. ASSUME NEW u \in user PROVE F(u).name = u.name /\ F(u).password = u.password
  <2>1. u \in UserRow
    BY DEF TypeOK, StoreTypeOK
  <2>2. QED
    BY <2>1 DEF UserRow
<1>2. user' = {F(u) : u \in user}
  BY DEF WithCookie
<1> HIDE DEF F
<1>3. ASSUME NEW n PROVE Passwords(n)' = Passwords(n)
  <2>1. Passwords(n)' = {w.password : w \in {v \in user' : v.name = n}}
    BY DEF Passwords, UsersNamed
  <2>2. Passwords(n) = {w.password : w \in {v \in user : v.name = n}}
    BY DEF Passwords, UsersNamed
  <2>3. QED
    BY <1>1, <1>2, <2>1, <2>2
<1>4. QED
  BY <1>3 DEF AccountsKept

\* A new account has a name of its own.
LEMMA InsertUserPasswords ==
  ASSUME NEW row, InsertableUser(row), user' = user \cup {row}
  PROVE  /\ AccountsKept
         /\ Passwords(row.name)' = {row.password}
BY DEF AccountsKept, Passwords, UsersNamed, Registered, InsertableUser

\* No handler changes the password of an account.
LEMMA HandleAccounts ==
  ASSUME TypeOK, NEW c \in Conn, Handle(c)
  PROVE  AccountsKept
<1>0. ASSUME UNCHANGED user PROVE AccountsKept
  BY <1>0 DEF AccountsKept, Passwords, UsersNamed
<1>1. CASE CreateAccount(c)
  <2>1. \/ UNCHANGED user
        \/ \E k \in Random :
             LET row == [name |-> req[c].username, password |-> req[c].password,
                         cookie |-> k]
             IN  InsertableUser(row) /\ user' = user \cup {row}
    BY <1>1 DEF CreateAccount, Select, Aborts, tables
  <2>2. QED
    BY <1>0, <2>1, InsertUserPasswords
<1>2. CASE Connect(c) \/ Disconnect(c)
  <2>1. UNCHANGED user \/ \E n, k : user' = WithCookie(n, k)
    BY <1>2 DEF Connect, Disconnect, NewRandomCookie, Select, Authenticate,
                Aborts, tables
  <2>2. QED
    BY <1>0, <2>1, WithCookiePasswords
<1>3. CASE SendGazou(c) \/ RelayGazou(c) \/ GetGazou(c)
  BY <1>0, <1>3 DEF SendGazou, CheckLength, InsertTag, InsertGazou, LinkTag,
     RelayGazou, GetGazou, Authenticate, Select, SelectPage, SelectTags,
     Aborts, tables
<1>4. CASE FollowUser(c) \/ UnfollowUser(c) \/ FollowTag(c) \/ UnfollowTag(c)
  BY <1>0, <1>4 DEF FollowUser, UnfollowUser, FollowTag, UnfollowTag,
     Authenticate, Select, WriteUserSubscription, WriteTagSubscription, Aborts,
     tables
<1>5. CASE \/ ListFollowedUsers(c) \/ ListFollowedTags(c)
           \/ ListMyFollowers(c) \/ RefuseMessage(c)
  BY <1>0, <1>5 DEF ListFollowedUsers, ListFollowedTags, ListMyFollowers, List,
     RefuseMessage, Authenticate, tables
<1>6. QED
  BY <1>1, <1>2, <1>3, <1>4, <1>5 DEF Handle

\* The account acknowledged to d is still the one it asked for.
LEMMA AccountOfOther ==
  ASSUME NEW d \in Conn, AccountOf(d), AccountsKept,
         frame'[d] = frame[d], req'[d] = req[d]
  PROVE  AccountOf(d)'
<1> SUFFICES ASSUME Got(d, "create_account", 0)
             PROVE  Passwords(req[d].username)' = {req[d].password}
  BY DEF AccountOf, Got, Passwords
<1>1. Passwords(req[d].username) = {req[d].password}
  BY DEF AccountOf, Passwords
<1>2. req[d].username \in Registered
  BY <1>1 DEF Passwords, UsersNamed, Registered
<1>3. PICK n \in Registered : n = req[d].username
  BY <1>2
<1>4. Passwords(n)' = {req[d].password}
  BY <1>1, <1>3 DEF AccountsKept
<1>5. Passwords(req[d].username)' = Passwords(n)'
  BY <1>3 DEF Passwords, UsersNamed
<1>6. QED
  BY <1>4, <1>5

\* create_account acknowledges the row that it has inserted.
LEMMA HandleAccount ==
  ASSUME TypeOK, NEW c \in Conn, Handle(c)
  PROVE  AccountOf(c)'
<1>1. req'[c] = req[c]
  BY HandleKeepsFlag DEF FlagKept
<1>2. CASE req[c].method # "create_account"
  BY <1>1, <1>2 DEF AccountOf, Got
<1>3. CASE CreateAccount(c)
  <2>1. ASSUME NEW code \in Nat \ {0}, Answer(c, code) PROVE AccountOf(c)'
    BY <2>1, RefusalFields DEF AccountOf, Got, SPEC_ERR_FORMAT
  <2>2. ASSUME Step(c, Goto(c, "insert_user")) PROVE AccountOf(c)'
    BY <2>2, StepFrame, GotoFields DEF AccountOf, Got
  <2>3. ASSUME NEW k,
               LET row == [name |-> req[c].username, password |-> req[c].password,
                           cookie |-> k]
               IN  InsertableUser(row) /\ user' = user \cup {row}
        PROVE  AccountOf(c)'
    <3>1. PICK row : row = [name |-> req[c].username, password |-> req[c].password,
                            cookie |-> k]
      OBVIOUS
    <3>2. InsertableUser(row) /\ user' = user \cup {row}
      BY <2>3, <3>1
    <3>3. Passwords(row.name)' = {row.password}
      BY <3>2, InsertUserPasswords
    <3>4. row.name = req'[c].username /\ row.password = req'[c].password
      BY <1>1, <3>1
    <3>5. Passwords(req[c].username)' = {req'[c].password}
      BY <3>3, <3>4 DEF Passwords, UsersNamed
    <3>6. QED
      BY <3>5 DEF AccountOf, Passwords
  <2>4. ASSUME NEW ok, Select(c, "start", ok, 1, "insert_user")
        PROVE  AccountOf(c)'
    BY <2>1, <2>2, <2>4 DEF Select, SPEC_ERR_INTERNAL_SRV
  <2>5. ASSUME NEW clash, Aborts(c, "insert_user", clash) PROVE AccountOf(c)'
    BY <2>1, <2>5 DEF Aborts, SPEC_ERR_INTERNAL_SRV
  <2>6. QED
    BY <1>3, <2>3, <2>4, <2>5 DEF CreateAccount
<1>4. QED
  BY <1>2, <1>3, HandlerOf

----------------------------------------------------------------------------
(* Posts. *)

\* The row that send_gazou inserts, and the one relay_gazou inserts.
PostRow(c) == [date |-> req[c].date, author |-> frame[c].user,
               content |-> req[c].content]
RelayRowOf(c) == [gazou_id |-> req[c].id_gazouilli, retweeter |-> frame[c].user,
                  retweet_date |-> req[c].date]

\* The three kinds of steps of send_gazou: c inserts its gazouilli, links one
\* of its tags, or touches no gazouilli and is not about to.
InsertsOwn(c) ==
  /\ frame[c].at = "insert_gazou"
  /\ gazou' = Append(gazou, PostRow(c)) /\ UNCHANGED gazou_tag
  /\ frame'[c].gid = Len(gazou) + 1 /\ frame'[c].user = frame[c].user
  /\ \/ /\ frame'[c].at = "link_tag"
        /\ frame'[c].todo = req[c].list_of_tags /\ req[c].list_of_tags # {}
     \/ /\ frame'[c].at = "answered" /\ req[c].list_of_tags = {}
        /\ req[c].id => frame'[c].code = frame[c].code

LinksOwn(c) ==
  /\ frame[c].at = "link_tag"
  /\ UNCHANGED gazou
  /\ \E t \in frame[c].todo :
       /\ gazou_tag' = gazou_tag \cup {<<frame[c].gid, t>>}
       /\ \/ /\ frame'[c].at = "link_tag"
             /\ frame'[c].todo = frame[c].todo \ {t} /\ frame'[c].todo # {}
          \/ /\ frame'[c].at = "answered" /\ frame[c].todo \ {t} = {}
             /\ req[c].id => frame'[c].code = frame[c].code
  /\ frame'[c].gid = frame[c].gid /\ frame'[c].user = frame[c].user

LeavesPosts(c) ==
  /\ UNCHANGED <<gazou, gazou_tag>>
  /\ frame'[c].gid = frame[c].gid
  /\ frame[c].at = "link_tag" => /\ frame'[c].at = "answered"
                                 /\ frame'[c].user = frame[c].user
  /\ frame'[c].at # "link_tag"
  /\ ~Got(c, "send_gazou", 0)'

\* Reaching another place, or an error, is such a step.
LEMMA ElsewhereLeaves ==
  ASSUME TypeOK, NEW c \in Conn, UNCHANGED <<gazou, gazou_tag>>,
         \/ \E f : /\ Step(c, f) /\ f.at \notin {"link_tag", "answered"}
                   /\ f.gid = frame[c].gid /\ frame[c].at # "link_tag"
         \/ \E code \in Nat \ {0} : Answer(c, code)
  PROVE  LeavesPosts(c)
<1>1. ASSUME NEW f, Step(c, f), f.at \notin {"link_tag", "answered"},
             f.gid = frame[c].gid, frame[c].at # "link_tag"
      PROVE  LeavesPosts(c)
  BY <1>1, StepFrame DEF LeavesPosts, Got
<1>2. ASSUME NEW code \in Nat \ {0}, Answer(c, code) PROVE LeavesPosts(c)
  BY <1>2, RefusalFields DEF LeavesPosts, Got, SPEC_ERR_FORMAT
<1>3. QED
  BY <1>1, <1>2

\* Every step of send_gazou is of one of the three kinds.
LEMMA SendGazouKinds ==
  ASSUME TypeOK, NEW c \in Conn, SendGazou(c)
  PROVE  InsertsOwn(c) \/ LinksOwn(c) \/ LeavesPosts(c)
<1>0. frame[c] \in Frame
  BY RequestType
<1>1. ASSUME NEW place, NEW clash, Aborts(c, place, clash) PROVE LeavesPosts(c)
  BY <1>1, ElsewhereLeaves DEF Aborts, SPEC_ERR_INTERNAL_SRV, tables
<1>2. CASE Authenticate(c, "check_length")
  <2>1. ASSUME NEW n, Step(c, [Goto(c, "check_length") EXCEPT !.user = n])
        PROVE  \E f : /\ Step(c, f) /\ f.at \notin {"link_tag", "answered"}
                      /\ f.gid = frame[c].gid
    <3>1. /\ [Goto(c, "check_length") EXCEPT !.user = n].at = "check_length"
          /\ [Goto(c, "check_length") EXCEPT !.user = n].gid = frame[c].gid
      BY GotoKeeps
    <3>2. QED
      BY <2>1, <3>1
  <2>2. CASE Answer(c, SPEC_ERR_INCORRECT_COOKIE)
    BY <1>2, <2>2, ElsewhereLeaves
    DEF Authenticate, SPEC_ERR_INCORRECT_COOKIE, tables
  <2>3. QED
    BY <1>2, <2>1, <2>2, ElsewhereLeaves DEF Authenticate, tables
<1>3. CASE CheckLength(c)
  <2>1. ASSUME NEW t, NEW p \in {"insert_gazou", "insert_tag"},
               Step(c, [frame[c] EXCEPT !.todo = t, !.at = p])
        PROVE  \E f : /\ Step(c, f) /\ f.at \notin {"link_tag", "answered"}
                      /\ f.gid = frame[c].gid
    <3>1. /\ [frame[c] EXCEPT !.todo = t, !.at = p].at = p
          /\ [frame[c] EXCEPT !.todo = t, !.at = p].gid = frame[c].gid
      BY <1>0 DEF Frame
    <3>2. QED
      BY <2>1, <3>1
  <2>2. CASE Answer(c, 2)
    BY <1>3, <2>2, ElsewhereLeaves DEF CheckLength, tables
  <2>3. QED
    BY <1>3, <2>1, <2>2, ElsewhereLeaves DEF CheckLength, tables
<1>4. CASE InsertTag(c)
  <2>1. ASSUME NEW t, NEW p \in {"insert_gazou", "insert_tag"}, NEW w \in BOOLEAN,
               Step(c, Wrote([frame[c] EXCEPT !.todo = @ \ {t}, !.at = p], w))
        PROVE  \E f : /\ Step(c, f) /\ f.at \notin {"link_tag", "answered"}
                      /\ f.gid = frame[c].gid
    <3> DEFINE f == Wrote([frame[c] EXCEPT !.todo = @ \ {t}, !.at = p], w)
    <3>1. f.at = p /\ f.gid = frame[c].gid
      BY <1>0 DEF Wrote, Frame
    <3>2. QED
      BY <2>1, <3>1
  <2>2. QED
    BY <1>1, <1>4, <2>1, ElsewhereLeaves DEF InsertTag
<1>5. CASE InsertGazou(c)
  <2>1. ASSUME frame[c].at = "insert_gazou",
               gazou' = Append(gazou, PostRow(c)), UNCHANGED gazou_tag,
               Step(c, LET f == Wrote([frame[c] EXCEPT !.gid = Len(gazou) + 1], TRUE)
                       IN  IF req[c].list_of_tags = {} THEN Answered(c, f, 0)
                             ELSE [f EXCEPT !.at = "link_tag",
                                            !.todo = req[c].list_of_tags])
        PROVE  InsertsOwn(c)
    <3> DEFINE e == [frame[c] EXCEPT !.gid = Len(gazou) + 1]
               f == Wrote(e, TRUE)
               g == [f EXCEPT !.at = "link_tag", !.todo = req[c].list_of_tags]
    <3>1. Len(gazou) + 1 \in Nat
      BY DEF TypeOK, StoreTypeOK
    <3>2. /\ e \in Frame /\ e.gid = Len(gazou) + 1 /\ e.user = frame[c].user
          /\ e.code = frame[c].code
      BY <1>0, <3>1 DEF Frame
    <3> HIDE DEF e
    <3>3. f \in Frame /\ f.gid = e.gid /\ f.user = e.user /\ f.code = e.code
      BY <3>2, WroteType, WroteKeeps
    <3>4. Step(c, IF req[c].list_of_tags = {} THEN Answered(c, f, 0) ELSE g)
      BY <2>1 DEF e
    <3> HIDE DEF f
    <3>5. /\ g.at = "link_tag" /\ g.todo = req[c].list_of_tags
          /\ g.gid = f.gid /\ g.user = f.user
      BY <3>3 DEF Frame
    <3> HIDE DEF g
    <3>6. /\ Answered(c, f, 0).at = "answered"
          /\ Answered(c, f, 0).gid = f.gid /\ Answered(c, f, 0).user = f.user
          /\ req[c].id => Answered(c, f, 0).code = f.code
      BY <3>3, AnsweredFields
    <3>7. frame'[c] = IF req[c].list_of_tags = {} THEN Answered(c, f, 0) ELSE g
      BY <3>4, StepFrame
    <3>8. QED
      BY <2>1, <3>2, <3>3, <3>5, <3>6, <3>7 DEF InsertsOwn
  <2>2. QED
    BY <1>1, <1>5, <2>1 DEF InsertGazou, PostRow
<1>6. CASE LinkTag(c)
  <2>1. ASSUME NEW t \in frame[c].todo, frame[c].at = "link_tag",
               UNCHANGED gazou,
               gazou_tag' = gazou_tag \cup {<<frame[c].gid, t>>},
               Step(c, LET f == [frame[c] EXCEPT !.todo = @ \ {t}]
                       IN  IF f.todo = {} THEN Answered(c, f, 0) ELSE f)
        PROVE  LinksOwn(c)
    <3> DEFINE f == [frame[c] EXCEPT !.todo = @ \ {t}]
    <3>1. /\ f \in Frame /\ f.at = "link_tag" /\ f.todo = frame[c].todo \ {t}
          /\ f.gid = frame[c].gid /\ f.user = frame[c].user
          /\ f.code = frame[c].code
      BY <1>0, <2>1 DEF Frame
    <3>2. Step(c, IF f.todo = {} THEN Answered(c, f, 0) ELSE f)
      BY <2>1
    <3> HIDE DEF f
    <3>3. /\ Answered(c, f, 0).at = "answered"
          /\ Answered(c, f, 0).gid = f.gid /\ Answered(c, f, 0).user = f.user
          /\ req[c].id => Answered(c, f, 0).code = f.code
      BY <3>1, AnsweredFields
    <3>4. frame'[c] = IF f.todo = {} THEN Answered(c, f, 0) ELSE f
      BY <3>2, StepFrame
    <3>5. QED
      BY <2>1, <3>1, <3>3, <3>4 DEF LinksOwn
  <2>2. QED
    BY <1>1, <1>6, <2>1 DEF LinkTag
<1>7. QED
  BY <1>2, <1>3, <1>4, <1>5, <1>6 DEF SendGazou

\* What the other workers may rely on: gazouillis and relays stay, and only
\* the worker that links a gazouilli adds to its tags.
PostsKept(c) ==
  /\ relay \subseteq relay'
  /\ \A i \in DOMAIN gazou :
       /\ i \in DOMAIN gazou' /\ gazou'[i] = gazou[i]
       /\ frame'[c].at = "link_tag" /\ frame'[c].gid = i =>
            frame[c].at = "link_tag" /\ frame[c].gid = i
       /\ TagsOf(i)' = TagsOf(i) \/ (frame[c].at = "link_tag" /\ frame[c].gid = i)

\* A handler other than send_gazou touches no gazouilli and links no tag.
LEMMA OthersLeavePosts ==
  ASSUME ReferencesInv, ReferencesInv', NEW c \in Conn, Handle(c), ~SendGazou(c)
  PROVE  /\ UNCHANGED <<gazou, gazou_tag>> /\ relay \subseteq relay'
         /\ frame'[c].at # "link_tag"
<1>1. UNCHANGED <<gazou, gazou_tag>> /\ relay \subseteq relay'
  <2>1. CASE CreateAccount(c) \/ Connect(c) \/ Disconnect(c)
    BY <2>1 DEF CreateAccount, Connect, Disconnect, NewRandomCookie, Select,
                Authenticate, Aborts, tables
  <2>2. CASE RelayGazou(c) \/ GetGazou(c)
    BY <2>2 DEF RelayGazou, GetGazou, Authenticate, Select, SelectPage,
                SelectTags, Aborts, tables
  <2>3. CASE FollowUser(c) \/ UnfollowUser(c) \/ FollowTag(c) \/ UnfollowTag(c)
    BY <2>3 DEF FollowUser, UnfollowUser, FollowTag, UnfollowTag, Authenticate,
                Select, WriteUserSubscription, WriteTagSubscription, Aborts,
                tables
  <2>4. CASE \/ ListFollowedUsers(c) \/ ListFollowedTags(c)
             \/ ListMyFollowers(c) \/ RefuseMessage(c)
    BY <2>4 DEF ListFollowedUsers, ListFollowedTags, ListMyFollowers, List,
                RefuseMessage, Authenticate, tables
  <2>5. QED
    BY <2>1, <2>2, <2>3, <2>4 DEF Handle
<1>2. req'[c] = req[c]
  BY HandleKeepsFlag DEF FlagKept, ReferencesInv
<1>3. frame'[c].at = "link_tag" => req'[c].method = "send_gazou"
  BY DEF ReferencesInv, CheckedBy
<1>4. QED
  BY <1>1, <1>2, <1>3, HandlerOf

\* A gazouilli that is appended comes after the others.
LEMMA AppendedPosts ==
  ASSUME TypeOK, NEW row, gazou' = Append(gazou, row)
  PROVE  /\ DOMAIN gazou' = DOMAIN gazou \cup {Len(gazou) + 1}
         /\ Len(gazou) + 1 \notin DOMAIN gazou
         /\ \A i \in DOMAIN gazou : gazou'[i] = gazou[i]
         /\ gazou'[Len(gazou) + 1] = row
<1>1. gazou \in Seq(GazouRow)
  BY DEF TypeOK, StoreTypeOK
<1>2. Len(gazou) \in Nat /\ DOMAIN gazou = 1..Len(gazou)
  BY <1>1
<1>3. DOMAIN Append(gazou, row) = 1..(Len(gazou) + 1)
  BY <1>1
<1>4. QED
  BY <1>1, <1>2, <1>3

\* Every step of c leaves the posts of the others alone.
LEMMA StepKeepsPosts ==
  ASSUME ReferencesInv, ReferencesInv', NEW c \in Conn,
         \/ Handle(c)
         \/ \E r \in Requests : DispatchRequest(c, r)
         \/ Ended(c)
  PROVE  PostsKept(c)
<1>0. TypeOK
  BY DEF ReferencesInv
<1>1. ASSUME UNCHANGED <<gazou, gazou_tag>>, relay \subseteq relay',
             frame'[c].at # "link_tag"
      PROVE  PostsKept(c)
  BY <1>1 DEF PostsKept, TagsOf
<1>2. CASE (\E r \in Requests : DispatchRequest(c, r)) \/ Ended(c)
  BY <1>0, <1>1, <1>2, EnvironmentFrame DEF tables
<1>3. CASE Handle(c) /\ ~SendGazou(c)
  BY <1>1, <1>3, OthersLeavePosts
<1>4. CASE SendGazou(c)
  <2>1. UNCHANGED relay
    BY <1>4 DEF SendGazou, CheckLength, InsertTag, InsertGazou, LinkTag,
                Authenticate, Aborts, tables
  <2>2. CASE LeavesPosts(c)
    BY <1>1, <2>1, <2>2 DEF LeavesPosts
  <2>3. CASE InsertsOwn(c)
    <3>1. PICK row : row = PostRow(c)
      OBVIOUS
    <3>2. QED
      BY <1>0, <2>1, <2>3, <3>1, AppendedPosts DEF InsertsOwn, PostsKept, TagsOf
  <2>4. CASE LinksOwn(c)
    BY <2>1, <2>4 DEF LinksOwn, PostsKept, TagsOf
  <2>5. QED
    BY <1>0, <1>4, <2>2, <2>3, <2>4, SendGazouKinds
<1>5. QED
  BY <1>2, <1>3, <1>4

\* What has been acknowledged to d survives the steps of the others.
LEMMA PostOfOther ==
  ASSUME ReferencesInv, OneOwner, NEW c \in Conn, NEW d \in Conn, c # d,
         PostOf(d), PostsKept(c), frame'[d] = frame[d], req'[d] = req[d]
  PROVE  PostOf(d)'
<1>1. ASSUME Got(d, "relay_gazou", 0) PROVE RelayRowOf(d)' \in relay'
  BY <1>1 DEF PostOf, PostsKept, RelayRowOf
<1>2. ASSUME Owns(d)
      PROVE  /\ frame'[d].gid \in DOMAIN gazou'
             /\ gazou'[frame'[d].gid] = PostRow(d)'
             /\ TagsOf(frame[d].gid)' = Linked(d)'
  <2>1. PICK i \in DOMAIN gazou : i = frame[d].gid
    BY <1>2 DEF PostOf
  <2>2. gazou[i] = PostRow(d) /\ TagsOf(i) = Linked(d)
    BY <1>2, <2>1 DEF PostOf, PostRow
  <2>3. ~(frame[c].at = "link_tag" /\ frame[c].gid = i)
    <3>1. frame[c].at = "link_tag" => Owns(c)
      BY DEF ReferencesInv, CheckedBy, Owns
    <3>2. QED
      BY <1>2, <2>1, <3>1 DEF OneOwner
  <2>4. i \in DOMAIN gazou' /\ gazou'[i] = gazou[i] /\ TagsOf(i)' = TagsOf(i)
    BY <2>1, <2>3 DEF PostsKept
  <2>5. frame'[d].gid = i /\ PostRow(d)' = PostRow(d) /\ Linked(d)' = Linked(d)
    BY <2>1 DEF PostRow, Linked
  <2>6. TagsOf(frame[d].gid)' = TagsOf(i)'
    BY <2>5 DEF TagsOf
  <2>7. QED
    BY <2>2, <2>4, <2>5, <2>6
<1>3. Owns(d)' = Owns(d) /\ Got(d, "relay_gazou", 0)' = Got(d, "relay_gazou", 0)
  BY DEF Owns, Got
<1>4. QED
  BY <1>1, <1>2, <1>3 DEF PostOf, PostRow, RelayRowOf

\* A worker comes to own a gazouilli by inserting it, with a new id.
LEMMA NewOwner ==
  ASSUME ReferencesInv, ReferencesInv', NEW c \in Conn,
         \/ Handle(c)
         \/ \E r \in Requests : DispatchRequest(c, r)
         \/ Ended(c),
         Owns(c)'
  PROVE  \/ Owns(c) /\ frame'[c].gid = frame[c].gid
         \/ frame'[c].gid \notin DOMAIN gazou
<1>0. TypeOK
  BY DEF ReferencesInv
<1>1. CASE (\E r \in Requests : DispatchRequest(c, r)) \/ Ended(c)
  BY <1>0, <1>1, EnvironmentFrame DEF Owns, Got
<1>2. CASE Handle(c)
  <2>1. req'[c] = req[c]
    BY <1>0, <1>2, HandleKeepsFlag DEF FlagKept
  <2>2. SendGazou(c)
    BY <1>2, <2>1, HandlerOf DEF Owns
  <2>3. CASE InsertsOwn(c)
    <3>1. PICK row : row = PostRow(c)
      OBVIOUS
    <3>2. QED
      BY <1>0, <2>3, <3>1, AppendedPosts DEF InsertsOwn
  <2>4. CASE LinksOwn(c)
    BY <2>2, <2>4 DEF LinksOwn, Owns, SendGazou
  <2>5. CASE LeavesPosts(c)
    BY <2>5 DEF LeavesPosts, Owns
  <2>6. QED
    BY <1>0, <2>2, <2>3, <2>4, <2>5, SendGazouKinds
<1>3. QED
  BY <1>1, <1>2

\* So no gazouilli gets a second owner.
LEMMA StepOneOwner ==
  ASSUME ReferencesInv, ReferencesInv', NEW c \in Conn,
         \/ Handle(c)
         \/ \E r \in Requests : DispatchRequest(c, r)
         \/ Ended(c),
         OneOwner, \A d \in Conn : PostOf(d),
         \A d \in Conn \ {c} : frame'[d] = frame[d] /\ req'[d] = req[d]
  PROVE  OneOwner'
<1>1. \A d \in Conn \ {c} : Owns(d)' => Owns(d) /\ frame'[d].gid = frame[d].gid
  BY DEF Owns, Got
<1>2. \A d \in Conn : Owns(d) => frame[d].gid \in DOMAIN gazou
  BY DEF PostOf
<1>3. ASSUME NEW d \in Conn \ {c}, Owns(c)', Owns(d)',
             frame'[c].gid = frame'[d].gid
      PROVE  FALSE
  BY <1>1, <1>2, <1>3, NewOwner DEF OneOwner
<1>4. ASSUME NEW a \in Conn \ {c}, NEW b \in Conn \ {c}, Owns(a)', Owns(b)',
             frame'[a].gid = frame'[b].gid
      PROVE  a = b
  BY <1>1, <1>4 DEF OneOwner
<1>5. QED
  BY <1>3, <1>4 DEF OneOwner

\* The gazouilli of c is its request, with the tags linked so far.
Posted(c) ==
  /\ frame[c].gid \in DOMAIN gazou
  /\ gazou[frame[c].gid] = PostRow(c)
  /\ TagsOf(frame[c].gid) = Linked(c)

\* That is so after the INSERT, and after each tag.
LEMMA OwnPosted ==
  ASSUME ReferencesInv, NEW c \in Conn, SendGazou(c), PostOf(c),
         InsertsOwn(c) \/ LinksOwn(c)
  PROVE  Posted(c)'
<1>0. TypeOK /\ frame[c] \in Frame /\ req[c] \in Request
  BY RequestType DEF ReferencesInv
<1>1. req'[c] = req[c] /\ req[c].method = "send_gazou"
  BY <1>0, HandleKeepsFlag DEF FlagKept, Handle, SendGazou
<1>2. CASE InsertsOwn(c)
  <2>1. PICK row : row = PostRow(c)
    OBVIOUS
  <2>2. PICK i : i = Len(gazou) + 1
    OBVIOUS
  <2>3. i \in DOMAIN gazou' /\ gazou'[i] = row /\ i \notin DOMAIN gazou
    BY <1>0, <1>2, <2>1, <2>2, AppendedPosts DEF InsertsOwn
  <2>4. frame'[c].gid = i /\ PostRow(c)' = row
    BY <1>1, <1>2, <2>1, <2>2 DEF InsertsOwn, PostRow
  <2>5. TagsOf(i)' = {}
    BY <1>2, <2>3 DEF InsertsOwn, TagsOf, ReferencesInv, ReferencesHold
  <2>6. Linked(c)' = {}
    BY <1>1, <1>2 DEF InsertsOwn, Linked
  <2>7. TagsOf(frame[c].gid)' = TagsOf(i)'
    BY <2>4 DEF TagsOf
  <2>8. QED
    BY <2>3, <2>4, <2>5, <2>6, <2>7 DEF Posted
<1>3. CASE LinksOwn(c)
  <2>1. PICK i \in DOMAIN gazou : i = frame[c].gid
    BY <1>3 DEF LinksOwn, ReferencesInv, CheckedBy
  <2>2. Owns(c)
    BY <1>1, <1>3 DEF LinksOwn, Owns
  <2>3. gazou[i] = PostRow(c) /\ TagsOf(i) = req[c].list_of_tags \ frame[c].todo
    BY <1>3, <2>1, <2>2 DEF LinksOwn, PostOf, PostRow, Linked
  <2>4. PICK t \in frame[c].todo :
          /\ gazou_tag' = gazou_tag \cup {<<i, t>>}
          /\ \/ frame'[c].at = "link_tag" /\ frame'[c].todo = frame[c].todo \ {t}
             \/ frame'[c].at = "answered" /\ frame[c].todo \ {t} = {}
    BY <1>3, <2>1 DEF LinksOwn
  <2>5. frame[c].todo \subseteq req[c].list_of_tags /\ req[c].list_of_tags \subseteq Tag
    BY <1>0, <1>3 DEF LinksOwn, ReferencesInv, CheckedBy, Request
  <2>6. TagsOf(i)' = TagsOf(i) \cup {t}
    BY <2>4, <2>5 DEF TagsOf
  <2>7. Linked(c)' = req[c].list_of_tags \ (frame[c].todo \ {t})
    BY <1>1, <2>4 DEF Linked
  <2>8. TagsOf(i)' = Linked(c)'
    BY <2>3, <2>4, <2>5, <2>6, <2>7
  <2>9. frame'[c].gid = i /\ PostRow(c)' = PostRow(c) /\ UNCHANGED gazou
    BY <1>1, <1>3, <2>1 DEF LinksOwn, PostRow
  <2>10. TagsOf(frame[c].gid)' = TagsOf(i)'
    BY <2>9 DEF TagsOf
  <2>11. QED
    BY <2>1, <2>3, <2>8, <2>9, <2>10 DEF Posted
<1>4. QED
  BY <1>2, <1>3

\* send_gazou: the row is the request, and the tags are linked one by one.
LEMMA SendGazouPost ==
  ASSUME ReferencesInv, NEW c \in Conn, SendGazou(c), PostOf(c)
  PROVE  PostOf(c)'
<1>0. TypeOK
  BY DEF ReferencesInv
<1>1. req'[c] = req[c] /\ req[c].method = "send_gazou"
  BY <1>0, HandleKeepsFlag DEF FlagKept, Handle, SendGazou
<1>2. ~Got(c, "relay_gazou", 0)'
  BY <1>1 DEF Got
<1>3. CASE LeavesPosts(c)
  BY <1>2, <1>3 DEF LeavesPosts, PostOf, Owns
<1>4. CASE InsertsOwn(c) \/ LinksOwn(c)
  BY <1>2, <1>4, OwnPosted DEF PostOf, Posted, PostRow
<1>5. QED
  BY <1>0, <1>3, <1>4, SendGazouKinds

\* relay_gazou acknowledges the row that it has inserted.
LEMMA RelayGazouPost ==
  ASSUME ReferencesInv, NEW c \in Conn, RelayGazou(c)
  PROVE  PostOf(c)'
<1>0. TypeOK /\ frame[c] \in Frame
  BY RequestType DEF ReferencesInv
<1>1. req'[c] = req[c] /\ req[c].method = "relay_gazou"
  BY <1>0, HandleKeepsFlag DEF FlagKept, Handle, RelayGazou
<1>2. ~Owns(c)'
  BY <1>1 DEF Owns, Got
<1>3. ASSUME NEW code \in Nat \ {0}, Answer(c, code) PROVE PostOf(c)'
  BY <1>0, <1>2, <1>3, RefusalFields DEF PostOf, Got, SPEC_ERR_FORMAT
<1>4. ASSUME NEW f, Step(c, f), f.at # "answered" PROVE PostOf(c)'
  BY <1>0, <1>2, <1>4, StepFrame DEF PostOf, Got
<1>5. CASE Authenticate(c, "select_gazou")
  <2>1. ASSUME NEW n, Step(c, [Goto(c, "select_gazou") EXCEPT !.user = n])
        PROVE  PostOf(c)'
    <3>1. [Goto(c, "select_gazou") EXCEPT !.user = n].at = "select_gazou"
      BY <1>0, GotoKeeps
    <3>2. QED
      BY <1>4, <2>1, <3>1
  <2>2. CASE Answer(c, SPEC_ERR_INCORRECT_COOKIE)
    BY <1>3, <2>2 DEF SPEC_ERR_INCORRECT_COOKIE
  <2>3. QED
    BY <1>5, <2>1, <2>2 DEF Authenticate
<1>6. ASSUME NEW place, NEW ok, NEW code \in {1, 2},
             NEW next \in {"select_relay", "insert_relay"},
             Select(c, place, ok, code, next)
      PROVE  PostOf(c)'
  <2>1. Goto(c, next).at = next
    BY <1>0, GotoFields
  <2>2. QED
    BY <1>3, <1>4, <1>6, <2>1 DEF Select, SPEC_ERR_INTERNAL_SRV
<1>7. ASSUME NEW clash, Aborts(c, "insert_relay", clash) PROVE PostOf(c)'
  BY <1>3, <1>7 DEF Aborts, SPEC_ERR_INTERNAL_SRV
<1>8. ASSUME relay' = relay \cup {RelayRowOf(c)},
             Step(c, Wrote(Answered(c, frame[c], 0), TRUE))
      PROVE  PostOf(c)'
  <2> DEFINE g == Answered(c, frame[c], 0)
  <2>1. g \in Frame /\ g.user = frame[c].user
    BY <1>0, AnsweredType, AnsweredFields
  <2> HIDE DEF g
  <2>2. Wrote(g, TRUE).user = frame[c].user
    BY <2>1, WroteKeeps
  <2>3. frame'[c].user = frame[c].user
    BY <1>0, <1>8, <2>2, StepFrame DEF g
  <2>4. RelayRowOf(c)' = RelayRowOf(c)
    BY <1>1, <2>3 DEF RelayRowOf
  <2>5. QED
    BY <1>2, <1>8, <2>4 DEF PostOf, RelayRowOf
<1>9. QED
  BY <1>5, <1>6, <1>7, <1>8 DEF RelayGazou, RelayRowOf

\* What a handler answers of posts is so.
LEMMA HandlePost ==
  ASSUME ReferencesInv, NEW c \in Conn, Handle(c), PostOf(c)
  PROVE  PostOf(c)'
<1>1. req'[c] = req[c]
  BY HandleKeepsFlag DEF FlagKept, ReferencesInv
<1>2. CASE req[c].method \notin {"send_gazou", "relay_gazou"}
  BY <1>1, <1>2 DEF PostOf, Owns, Got
<1>3. QED
  BY <1>2, SendGazouPost, RelayGazouPost, HandlerOf

----------------------------------------------------------------------------
(* Pages. *)

\* The page of a reader survives the steps of the others: only one that was
\* half-posted when the page was read gets further tags.
LEMMA ShownOfOther ==
  ASSUME NEW c \in Conn, NEW d \in Conn, c # d, ShownOf(d), PostsKept(c),
         \A x \in Conn \ {c} : frame'[x] = frame[x] /\ req'[x] = req[x]
  PROVE  ShownOf(d)'
<1>1. frame'[d] = frame[d] /\ req'[d] = req[d]
  OBVIOUS
<1>2. ASSUME Paging(d), NEW e \in frame[d].page
      PROVE  /\ e.id \in DOMAIN gazou'
             /\ \A x \in Conn : frame'[x].at = "link_tag" /\ frame'[x].gid = e.id
                                 => e.id \in frame'[d].pending
             /\ e \in Rest(d)' => TagsShown(d, e)' = {}
             /\ e \notin Rest(d)' /\ e.id \notin frame'[d].pending =>
                  TagsShown(d, e)' = TagsOf(e.id)'
  <2>1. PICK i : i = e.id
    OBVIOUS
  <2>2. /\ i \in DOMAIN gazou
        /\ \A x \in Conn : frame[x].at = "link_tag" /\ frame[x].gid = i
                            => i \in frame[d].pending
        /\ e \in Rest(d) => TagsShown(d, e) = {}
        /\ e \notin Rest(d) /\ i \notin frame[d].pending =>
             TagsShown(d, e) = TagsOf(i)
    BY <1>2, <2>1 DEF ShownOf
  <2>3. Rest(d)' = Rest(d) /\ TagsShown(d, e)' = TagsShown(d, e)
    BY <1>1 DEF Rest, TagsShown
  <2>4. /\ i \in DOMAIN gazou'
        /\ frame'[c].at = "link_tag" /\ frame'[c].gid = i =>
             frame[c].at = "link_tag" /\ frame[c].gid = i
        /\ TagsOf(i)' = TagsOf(i) \/ (frame[c].at = "link_tag" /\ frame[c].gid = i)
    BY <2>2 DEF PostsKept
  <2>5. \A x \in Conn : frame'[x].at = "link_tag" /\ frame'[x].gid = i
                         => i \in frame'[d].pending
    BY <1>1, <2>2, <2>4
  <2>6. i \notin frame[d].pending => TagsOf(i)' = TagsOf(i)
    BY <2>2, <2>4
  <2>7. QED
    BY <1>1, <2>1, <2>2, <2>3, <2>4, <2>5, <2>6
<1>3. Paging(d)' = Paging(d)
  BY <1>1 DEF Paging, Got
<1>4. QED
  BY <1>1, <1>2, <1>3 DEF ShownOf

\* The rows of the UNION are of gazouillis that exist.
LEMMA TimelineExists ==
  ASSUME NEW n, NEW e \in RelayedFor(n) \cup WrittenFor(n)
  PROVE  e.id \in DOMAIN gazou
<1>1. CASE e \in RelayedFor(n)
  <2>1. PICK r \in relay : /\ r.gazou_id \in DOMAIN gazou
                           /\ e = [id |-> r.gazou_id, date |-> r.retweet_date,
                                   retweeter |-> r.retweeter]
    BY <1>1, Zenon DEF RelayedFor
  <2>2. QED
    BY <2>1
<1>2. CASE e \in WrittenFor(n)
  <2>1. PICK i \in DOMAIN gazou :
          e = [id |-> i, date |-> gazou[i].date, retweeter |-> ""]
    BY <1>2, Zenon DEF WrittenFor
  <2>2. QED
    BY <2>1
<1>3. QED
  BY <1>1, <1>2

\* A refusal, or a place before the page is read, shows nothing.
LEMMA NothingShown ==
  ASSUME TypeOK, NEW c \in Conn,
         \/ \E code \in Nat \ {0} : Answer(c, code)
         \/ \E f : /\ Step(c, f) /\ f.shown = {}
                  /\ f.at \notin {"select_tags", "answered"}
  PROVE  ShownOf(c)'
<1>1. ASSUME NEW code \in Nat \ {0}, Answer(c, code) PROVE ShownOf(c)'
  BY <1>1, RefusalFields DEF ShownOf, Paging, Got, SPEC_ERR_FORMAT
<1>2. ASSUME NEW f, Step(c, f), f.shown = {},
             f.at \notin {"select_tags", "answered"}
      PROVE  ShownOf(c)'
  BY <1>2, StepFrame DEF ShownOf, Paging, Got
<1>3. QED
  BY <1>1, <1>2

\* The page is read together with who is posting.
LEMMA SelectPageShown ==
  ASSUME TypeOK, NEW c \in Conn, ShownOf(c), req[c].method = "get_gazou",
         SelectPage(c)
  PROVE  ShownOf(c)'
<1>0. frame[c] \in Frame /\ frame[c].shown = {}
  BY RequestType DEF ShownOf, SelectPage
<1>1. CASE Answer(c, SPEC_ERR_INTERNAL_SRV)
  BY <1>1, NothingShown DEF SPEC_ERR_INTERNAL_SRV
<1>2. ASSUME NEW P \in Pages(RelayedFor(frame[c].user) \cup WrittenFor(frame[c].user),
                             req[c].nb_gazou),
             Step(c, LET f == [frame[c] EXCEPT !.page = P, !.left = P,
                                 !.pending = {frame[d].gid : d \in
                                   {e \in Conn : frame[e].at = "link_tag"}}]
                     IN  IF P = {} THEN Answered(c, f, 0)
                                   ELSE [f EXCEPT !.at = "select_tags"])
      PROVE  ShownOf(c)'
  <2>1. PICK G : G = {frame[d].gid : d \in {e \in Conn : frame[e].at = "link_tag"}}
    OBVIOUS
  <2>2. G \in SUBSET Nat
    <3>1. \A d \in Conn : frame[d].gid \in Nat
      BY RequestType DEF Frame
    <3>2. QED
      BY <2>1, <3>1
  <2>3. P \in SUBSET Entry
    BY TimelineType DEF Pages
  <2> DEFINE f == [frame[c] EXCEPT !.page = P, !.left = P, !.pending = G]
             g == [f EXCEPT !.at = "select_tags"]
  <2>4. /\ f \in Frame /\ f.page = P /\ f.left = P /\ f.pending = G
        /\ f.shown = {}
    BY <1>0, <2>2, <2>3 DEF Frame
  <2>5. Step(c, IF P = {} THEN Answered(c, f, 0) ELSE g)
    BY <1>2, <2>1
  <2> HIDE DEF f
  <2>6. /\ g.at = "select_tags" /\ g.page = P /\ g.left = P /\ g.pending = G
        /\ g.shown = {}
    BY <2>4 DEF Frame
  <2> HIDE DEF g
  <2>7. CASE P = {}
    <3>1. frame'[c] = Answered(c, f, 0) /\ req'[c] = req[c]
      BY <2>5, <2>7, StepFrame
    <3>2. /\ frame'[c].at = "answered"
          /\ frame'[c].code = 0 => frame'[c].page = {}
      BY <2>4, <2>7, <3>1, AnsweredFields DEF SPEC_ERR_FORMAT
    <3>3. QED
      BY <3>2 DEF ShownOf, Paging, Got
  <2>8. CASE P # {}
    <3>1. frame'[c] = g
      BY <2>5, <2>8, StepFrame
    <3>2. \A d \in Conn : frame'[d].at = "link_tag" => frame'[d].gid \in G
      BY <1>2, <2>1, <2>6, <3>1, StepFrame
    <3>3. \A e \in P : e.id \in DOMAIN gazou'
      BY TimelineExists DEF Pages, SelectPage, tables
    <3>4. \A e \in P : e \in Rest(c)' /\ TagsShown(c, e)' = {}
      BY <2>6, <3>1 DEF Rest, TagsShown
    <3>5. QED
      BY <2>6, <3>1, <3>2, <3>3, <3>4 DEF ShownOf
  <2>9. QED
    BY <2>7, <2>8
<1>3. QED
  BY <1>1, <1>2 DEF SelectPage

\* Each row gets the tags that the gazouilli has at that moment.
LEMMA SelectTagsShown ==
  ASSUME TypeOK, NEW c \in Conn, ShownOf(c), req[c].method = "get_gazou",
         SelectTags(c)
  PROVE  ShownOf(c)'
<1>0. frame[c] \in Frame /\ Paging(c)
  BY RequestType DEF SelectTags, Paging
<1>1. CASE Answer(c, SPEC_ERR_INTERNAL_SRV)
  BY <1>1, NothingShown DEF SPEC_ERR_INTERNAL_SRV
<1>2. ASSUME NEW r \in frame[c].left,
             Step(c, LET f == [frame[c] EXCEPT !.left = @ \ {r},
                                 !.shown = @ \cup ({r} \X TagsOf(r.id))]
                     IN  IF f.left = {} THEN Answered(c, f, 0) ELSE f)
      PROVE  ShownOf(c)'
  <2>1. PICK T : T = TagsOf(r.id)
    OBVIOUS
  <2>2. T \subseteq Tag /\ {r} \X T \subseteq Entry \X Tag
    BY <1>0, <2>1 DEF Frame, TagsOf
  <2> DEFINE f == [frame[c] EXCEPT !.left = @ \ {r}, !.shown = @ \cup ({r} \X T)]
  <2>3. /\ f \in Frame /\ f.page = frame[c].page /\ f.left = frame[c].left \ {r}
        /\ f.pending = frame[c].pending /\ f.at = "select_tags"
        /\ f.shown = frame[c].shown \cup ({r} \X T)
    BY <1>0, <2>2 DEF Frame, SelectTags
  <2>4. Step(c, IF f.left = {} THEN Answered(c, f, 0) ELSE f)
    BY <1>2, <2>1
  <2> HIDE DEF f
  <2>5. frame'[c] = (IF f.left = {} THEN Answered(c, f, 0) ELSE f) /\ req'[c] = req[c]
    BY <2>4, StepFrame
  <2>6. /\ Answered(c, f, 0).at = "answered" /\ Answered(c, f, 0).pending = f.pending
        /\ Answered(c, f, 0).code = 0 => /\ Answered(c, f, 0).page = f.page
                                         /\ Answered(c, f, 0).shown = f.shown
    BY <2>3, AnsweredFields DEF SPEC_ERR_FORMAT
  <2>7. ASSUME NEW e \in frame'[c].page, Paging(c)'
        PROVE  /\ e.id \in DOMAIN gazou'
               /\ \A d \in Conn : frame'[d].at = "link_tag" /\ frame'[d].gid = e.id
                                   => e.id \in frame'[c].pending
               /\ e \in Rest(c)' => TagsShown(c, e)' = {}
               /\ e \notin Rest(c)' /\ e.id \notin frame'[c].pending =>
                    TagsShown(c, e)' = TagsOf(e.id)'
    <3>1. /\ frame'[c].page = frame[c].page /\ frame'[c].pending = frame[c].pending
          /\ frame'[c].shown = frame[c].shown \cup ({r} \X T)
          /\ Rest(c)' = frame[c].left \ {r}
          /\ frame'[c].at # "link_tag"
      BY <2>3, <2>5, <2>6, <2>7 DEF Paging, Got, Rest
    <3>2. /\ e.id \in DOMAIN gazou
          /\ \A d \in Conn : frame[d].at = "link_tag" /\ frame[d].gid = e.id
                              => e.id \in frame[c].pending
          /\ e \in Rest(c) => TagsShown(c, e) = {}
          /\ e \notin Rest(c) /\ e.id \notin frame[c].pending =>
               TagsShown(c, e) = TagsOf(e.id)
      BY <1>0, <3>1 DEF ShownOf
    <3>3. Rest(c) = frame[c].left
      BY DEF Rest, SelectTags
    <3>4. TagsShown(c, e)' = TagsShown(c, e) \cup (IF e = r THEN T ELSE {})
      BY <2>2, <3>1 DEF TagsShown
    <3>5. UNCHANGED gazou /\ TagsOf(e.id)' = TagsOf(e.id)
      BY DEF SelectTags, tables, TagsOf
    <3>6. \A d \in Conn \ {c} : frame'[d] = frame[d]
      BY <2>4, StepFrame
    <3>7. QED
      BY <1>2, <2>1, <3>1, <3>2, <3>3, <3>4, <3>5, <3>6
  <2>8. frame'[c].at \notin {"start", "select_page"}
    BY <2>3, <2>5, <2>6
  <2>9. QED
    BY <2>7, <2>8 DEF ShownOf
<1>3. QED
  BY <1>1, <1>2 DEF SelectTags

\* What a handler answers of a page is so.
LEMMA HandleShown ==
  ASSUME TypeOK, NEW c \in Conn, Handle(c), ShownOf(c)
  PROVE  ShownOf(c)'
<1>1. req'[c] = req[c]
  BY HandleKeepsFlag DEF FlagKept
<1>2. CASE req[c].method # "get_gazou"
  BY <1>1, <1>2 DEF ShownOf, Paging
<1>3. CASE req[c].method = "get_gazou"
  <2>1. CASE Authenticate(c, "select_page")
    <3>1. frame[c].shown = {}
      BY <1>3, <2>1 DEF Authenticate, ShownOf
    <3>2. ASSUME NEW n, Step(c, [Goto(c, "select_page") EXCEPT !.user = n])
          PROVE  ShownOf(c)'
      <4>1. /\ [Goto(c, "select_page") EXCEPT !.user = n].shown = {}
            /\ [Goto(c, "select_page") EXCEPT !.user = n].at = "select_page"
        BY <3>1, GotoKeeps
      <4>2. QED
        BY <3>2, <4>1, NothingShown
    <3>3. CASE Answer(c, SPEC_ERR_INCORRECT_COOKIE)
      BY <3>3, NothingShown DEF SPEC_ERR_INCORRECT_COOKIE
    <3>4. QED
      BY <2>1, <3>2, <3>3 DEF Authenticate
  <2>2. QED
    BY <1>3, <2>1, HandlerOf, SelectPageShown, SelectTagsShown DEF GetGazou
<1>4. QED
  BY <1>2, <1>3

----------------------------------------------------------------------------
(* The inductive step, and the theorems. *)

LEMMA InitAnswers == Init => AnswersInv
<1> SUFFICES ASSUME Init PROVE AnswersInv
  OBVIOUS
<1>1. \A c \in Conn : /\ frame[c].at = "idle" /\ frame[c].code = 0
                      /\ ~frame[c].wrote /\ frame[c].shown = {}
  BY DEF Init, Idle
<1>2. \A c \in Conn : CleanOf(c) /\ AccountOf(c) /\ PostOf(c) /\ ShownOf(c)
  BY <1>1 DEF CleanOf, AccountOf, PostOf, ShownOf, Owns, Paging, Got
<1>3. OneOwner
  BY <1>1 DEF OneOwner, Owns, Got
<1>4. QED
  BY <1>2, <1>3 DEF AnswersInv

\* A worker that rests or has just read a request has answered nothing.
LEMMA EnvironmentAnswers ==
  ASSUME TypeOK, NEW c \in Conn,
         (\E r \in Requests : DispatchRequest(c, r)) \/ Ended(c)
  PROVE  CleanOf(c)' /\ AccountOf(c)' /\ PostOf(c)' /\ ShownOf(c)'
<1>1. /\ frame'[c].at \in {"idle", "start"} /\ frame'[c].code = 0
      /\ ~frame'[c].wrote /\ frame'[c].shown = {}
  BY EnvironmentFrame
<1>2. QED
  BY <1>1 DEF CleanOf, AccountOf, PostOf, ShownOf, Owns, Paging, Got

\* One step of one worker.
LEMMA StepAnswers ==
  ASSUME ReferencesInv, ReferencesInv', AnswersInv, NEW c \in Conn,
         \/ Handle(c)
         \/ \E r \in Requests : DispatchRequest(c, r)
         \/ Ended(c)
  PROVE  AnswersInv'
<1>0. TypeOK
  BY DEF ReferencesInv
<1>1. \A d \in Conn \ {c} : frame'[d] = frame[d] /\ req'[d] = req[d]
  BY <1>0, HandleKeepsFlag, EnvironmentFrame DEF FlagKept
<1>2. CleanOf(c)' /\ AccountOf(c)' /\ PostOf(c)' /\ ShownOf(c)'
  BY <1>0, EnvironmentAnswers, HandleClean, HandleAccount, HandlePost,
     HandleShown DEF AnswersInv
<1>3. AccountsKept
  <2>1. UNCHANGED user => AccountsKept
    BY DEF AccountsKept, Passwords, UsersNamed
  <2>2. QED
    BY <1>0, <2>1, HandleAccounts, EnvironmentFrame DEF tables
<1>4. PostsKept(c)
  BY StepKeepsPosts
<1>5. ASSUME NEW d \in Conn, c # d
      PROVE  CleanOf(d)' /\ AccountOf(d)' /\ PostOf(d)' /\ ShownOf(d)'
  <2>1. frame'[d] = frame[d] /\ req'[d] = req[d]
    BY <1>1, <1>5
  <2>2. CleanOf(d)'
    BY <2>1 DEF AnswersInv, CleanOf, MayHaveWritten
  <2>3. AccountOf(d)'
    BY <1>3, <2>1, AccountOfOther DEF AnswersInv
  <2>4. PostOf(d)'
    BY <1>4, <1>5, <2>1, PostOfOther DEF AnswersInv
  <2>5. ShownOf(d)'
    BY <1>1, <1>4, <1>5, ShownOfOther DEF AnswersInv
  <2>6. QED
    BY <2>2, <2>3, <2>4, <2>5
<1>6. OneOwner'
  BY <1>1, StepOneOwner DEF AnswersInv
<1>7. QED
  BY <1>2, <1>5, <1>6 DEF AnswersInv

LEMMA NextAnswers ==
  AnswersInv /\ ReferencesInv /\ ReferencesInv' /\ [Next]_vars => AnswersInv'
<1>1. ASSUME AnswersInv, UNCHANGED vars PROVE AnswersInv'
  BY <1>1 DEF AnswersInv, CleanOf, MayHaveWritten, AccountOf, PostOf, ShownOf,
     OneOwner, Owns, Linked, Paging, Rest, TagsShown, Got, UsersNamed, TagsOf,
     vars, tables
<1>2. QED
  BY <1>1, StepAnswers DEF Next

\* What the answers say is true in every reachable state.
THEOREM AnswersAlways == Spec => []AnswersInv
<1>1. QED
  BY InitAnswers, NextAnswers, ReferencesAlways, PTL DEF Spec

\* When create_account has answered without error, the name belongs to one
\* account, with the password of this request: of two workers that have both
\* seen the name free, the one that inserts second is refused, and no later
\* connect or disconnect touches the password.
THEOREM AckedAccountCorrect == Spec => []AckedAccountIsMine
<1>1. AnswersInv => AckedAccountIsMine
  BY DEF AnswersInv, AccountOf, AckedAccountIsMine
<1>2. QED
  BY <1>1, AnswersAlways, PTL

\* When send_gazou or relay_gazou has answered without error, what was sent is
\* stored as it was sent, with every tag and no other, and stays so (new_gazou
\* and relay_gazou of methods.c): every statement of new_gazou has taken effect
\* on the id of its own INSERT, and nobody else links tags to that id.
THEOREM AckedPostCorrect == Spec => []AckedPostIsComplete
<1>1. AnswersInv => AckedPostIsComplete
  BY DEF AnswersInv, PostOf, Owns, Linked, Got, AckedPostIsComplete
<1>2. QED
  BY <1>1, AnswersAlways, PTL

\* A request that is refused has changed nothing, except for send_gazou and
\* connect when a later statement of theirs fails, and for requests without id.
THEOREM RefusalsCorrect == Spec => []RefusalsAreClean
<1>1. AnswersInv => RefusalsAreClean
  BY DEF AnswersInv, CleanOf, RefusalsAreClean
<1>2. QED
  BY <1>1, AnswersAlways, PTL

\* get_gazou delivers with all its tags every gazouilli that nobody was posting
\* when the page was read, although fill_tags_in_gazou_array reads the tags one
\* gazouilli after the other while other workers post.
THEOREM SettledCorrect == Spec => []SettledGazouShownWhole
<1>1. AnswersInv => SettledGazouShownWhole
  BY DEF AnswersInv, ShownOf, Paging, Rest, TagsShown, Got,
         SettledGazouShownWhole
<1>2. QED
  BY <1>1, AnswersAlways, PTL

----------------------------------------------------------------------------
(* Half-posted gazouillis. *)

\* c was refused after it had inserted its gazouilli.
Half(c) ==
  /\ frame[c].at = "answered" /\ frame[c].code # 0
  /\ req[c].method = "send_gazou" /\ frame[c].gid # 0

\* There is an id once the gazouilli is inserted, and a tag left to link as long
\* as the worker is linking; what the refusal leaves is the request, with some
\* of its tags.
HalfOf(c) ==
  /\ req[c].method = "send_gazou" /\ frame[c].at \notin {"link_tag", "answered"}
       => frame[c].gid = 0
  /\ frame[c].at = "link_tag" => frame[c].todo # {}
  /\ Half(c) => /\ frame[c].gid \in DOMAIN gazou
                /\ gazou[frame[c].gid] = PostRow(c)
                /\ TagsOf(frame[c].gid) \subseteq req[c].list_of_tags
                /\ req[c].id => TagsOf(frame[c].gid) # req[c].list_of_tags

\* Nobody links tags to a gazouilli that somebody else left half-posted.
HalfApart ==
  \A c, d \in Conn : frame[c].at = "link_tag" /\ Half(d) =>
                       frame[c].gid # frame[d].gid

HalfInv == HalfApart /\ \A c \in Conn : HalfOf(c)

\* What d has left survives the steps of the others.
LEMMA HalfOfOther ==
  ASSUME HalfApart, NEW c \in Conn, NEW d \in Conn, HalfOf(d), PostsKept(c),
         frame'[d] = frame[d], req'[d] = req[d]
  PROVE  HalfOf(d)'
<1>1. Half(d)' = Half(d)
  BY DEF Half
<1>2. ASSUME Half(d)
      PROVE  /\ frame'[d].gid \in DOMAIN gazou'
             /\ gazou'[frame'[d].gid] = PostRow(d)'
             /\ TagsOf(frame[d].gid)' = TagsOf(frame[d].gid)
  <2>1. PICK i \in DOMAIN gazou : i = frame[d].gid
    BY <1>2 DEF HalfOf
  <2>2. gazou[i] = PostRow(d)
    BY <1>2, <2>1 DEF HalfOf
  <2>3. ~(frame[c].at = "link_tag" /\ frame[c].gid = i)
    BY <1>2, <2>1 DEF HalfApart
  <2>4. i \in DOMAIN gazou' /\ gazou'[i] = gazou[i] /\ TagsOf(i)' = TagsOf(i)
    BY <2>1, <2>3 DEF PostsKept
  <2>5. frame'[d].gid = i /\ PostRow(d)' = PostRow(d)
    BY <2>1 DEF PostRow
  <2>6. TagsOf(frame[d].gid)' = TagsOf(i)'
    BY <2>5 DEF TagsOf
  <2>7. QED
    BY <2>1, <2>2, <2>4, <2>5, <2>6
<1>3. QED
  BY <1>1, <1>2 DEF HalfOf

\* What a refusal of send_gazou leaves, and that a result leaves nothing half.
LEMMA SendGazouHalf ==
  ASSUME ReferencesInv, NEW c \in Conn, SendGazou(c), CleanOf(c), PostOf(c),
         HalfOf(c)
  PROVE  HalfOf(c)'
<1>0. TypeOK
  BY DEF ReferencesInv
<1>1. req'[c] = req[c] /\ req[c].method = "send_gazou"
  BY <1>0, HandleKeepsFlag DEF FlagKept, Handle, SendGazou
<1>2. frame[c].at # "answered" /\ frame[c].code = 0
  BY DEF SendGazou, Authenticate, CheckLength, InsertTag, InsertGazou, LinkTag,
         Aborts, CleanOf
<1>3. CASE LeavesPosts(c) /\ frame[c].at = "link_tag"
  <2>1. PICK i : i = frame[c].gid
    OBVIOUS
  <2>2. /\ i \in DOMAIN gazou /\ gazou[i] = PostRow(c)
        /\ TagsOf(i) = req[c].list_of_tags \ frame[c].todo
    BY <1>1, <1>3, <2>1 DEF PostOf, Owns, Linked, PostRow
  <2>3. frame[c].todo \subseteq req[c].list_of_tags /\ frame[c].todo # {}
    BY <1>3 DEF ReferencesInv, CheckedBy, HalfOf
  <2>4. /\ frame'[c].gid = i /\ PostRow(c)' = PostRow(c)
        /\ gazou' = gazou /\ TagsOf(i)' = TagsOf(i)
        /\ frame'[c].at = "answered"
    BY <1>1, <1>3, <2>1 DEF LeavesPosts, PostRow, TagsOf
  <2>5. TagsOf(frame[c].gid)' = TagsOf(i)'
    BY <2>4 DEF TagsOf
  <2>6. QED
    BY <1>1, <2>2, <2>3, <2>4, <2>5 DEF HalfOf
<1>4. CASE LeavesPosts(c) /\ frame[c].at # "link_tag"
  <2>1. frame'[c].gid = 0 /\ frame'[c].at # "link_tag"
    BY <1>1, <1>2, <1>4 DEF LeavesPosts, HalfOf
  <2>2. QED
    BY <2>1 DEF HalfOf, Half
<1>5. CASE InsertsOwn(c) \/ LinksOwn(c)
  <2>1. Posted(c)'
    BY <1>5, OwnPosted
  <2>2. /\ frame'[c].at \in {"link_tag", "answered"}
        /\ frame'[c].at = "link_tag" => frame'[c].todo # {}
        /\ frame'[c].at = "answered" /\ req[c].id => frame'[c].code = 0
    BY <1>2, <1>5 DEF InsertsOwn, LinksOwn
  <2>3. ASSUME Half(c)' PROVE ~req'[c].id /\ Linked(c)' = req'[c].list_of_tags
    BY <1>1, <2>2, <2>3 DEF Half, Linked
  <2>4. QED
    BY <2>1, <2>2, <2>3 DEF HalfOf, Posted
<1>6. QED
  BY <1>0, <1>3, <1>4, <1>5, SendGazouKinds

\* One step of one worker, for itself.
LEMMA StepHalf ==
  ASSUME ReferencesInv, ReferencesInv', AnswersInv, NEW c \in Conn, HalfOf(c),
         \/ Handle(c)
         \/ \E r \in Requests : DispatchRequest(c, r)
         \/ Ended(c)
  PROVE  HalfOf(c)'
<1>0. TypeOK
  BY DEF ReferencesInv
<1>1. CASE (\E r \in Requests : DispatchRequest(c, r)) \/ Ended(c)
  BY <1>0, <1>1, EnvironmentFrame DEF HalfOf, Half
<1>2. CASE SendGazou(c)
  BY <1>2, SendGazouHalf DEF AnswersInv
<1>3. CASE Handle(c) /\ ~SendGazou(c)
  <2>1. req'[c].method # "send_gazou"
    BY <1>0, <1>3, HandleKeepsFlag, HandlerOf DEF FlagKept
  <2>2. frame'[c].at # "link_tag"
    BY <1>3, OthersLeavePosts
  <2>3. QED
    BY <2>1, <2>2 DEF HalfOf, Half
<1>4. QED
  BY <1>1, <1>2, <1>3

\* A worker that starts to link has a new id, and one that is refused keeps an
\* id that it alone was linking to.
LEMMA StepHalfApart ==
  ASSUME ReferencesInv, ReferencesInv', AnswersInv, HalfInv, NEW c \in Conn,
         \/ Handle(c)
         \/ \E r \in Requests : DispatchRequest(c, r)
         \/ Ended(c),
         \A d \in Conn \ {c} : frame'[d] = frame[d] /\ req'[d] = req[d]
  PROVE  HalfApart'
<1>0. TypeOK
  BY DEF ReferencesInv
<1>1. ASSUME NEW d \in Conn, d # c, frame'[c].at = "link_tag", Half(d)'
      PROVE  frame'[c].gid # frame'[d].gid
  <2>1. Half(d) /\ frame'[d].gid = frame[d].gid
    BY <1>1 DEF Half
  <2>2. PICK i \in DOMAIN gazou : i = frame[d].gid
    BY <2>1 DEF HalfInv, HalfOf
  <2>3. PostsKept(c)
    BY StepKeepsPosts
  <2>4. frame'[c].gid = i => frame[c].at = "link_tag" /\ frame[c].gid = i
    BY <1>1, <2>2, <2>3 DEF PostsKept
  <2>5. QED
    BY <2>1, <2>2, <2>4 DEF HalfInv, HalfApart
<1>2. ASSUME NEW d \in Conn, d # c, frame'[d].at = "link_tag", Half(c)'
      PROVE  frame'[d].gid # frame'[c].gid
  <2>1. /\ frame[d].at = "link_tag" /\ frame'[d].gid = frame[d].gid
        /\ Owns(d) /\ frame[d].gid \in DOMAIN gazou
    BY <1>2 DEF Owns, ReferencesInv, CheckedBy
  <2>2. ~((\E r \in Requests : DispatchRequest(c, r)) \/ Ended(c))
    BY <1>0, <1>2, EnvironmentFrame DEF Half
  <2>3. SendGazou(c) /\ req[c].method = "send_gazou"
    BY <1>0, <1>2, <2>2, HandleKeepsFlag, HandlerOf DEF FlagKept, Half
  <2>4. CASE InsertsOwn(c)
    <3>1. frame'[c].gid = Len(gazou) + 1
      BY <2>4 DEF InsertsOwn
    <3>2. PICK row : gazou' = Append(gazou, row)
      BY <2>4 DEF InsertsOwn
    <3>3. QED
      BY <1>0, <2>1, <3>1, <3>2, AppendedPosts
  <2>5. CASE LinksOwn(c) \/ (LeavesPosts(c) /\ frame[c].at = "link_tag")
    BY <1>2, <2>1, <2>3, <2>5 DEF LinksOwn, LeavesPosts, Owns, AnswersInv, OneOwner
  <2>6. CASE LeavesPosts(c) /\ frame[c].at # "link_tag"
    <3>1. frame[c].at # "answered"
      BY <2>3 DEF SendGazou, Authenticate, CheckLength, InsertTag, InsertGazou,
                  LinkTag, Aborts
    <3>2. frame'[c].gid = 0
      BY <2>3, <2>6, <3>1 DEF LeavesPosts, HalfInv, HalfOf
    <3>3. QED
      BY <1>2, <3>2 DEF Half
  <2>7. QED
    BY <1>0, <2>3, <2>4, <2>5, <2>6, SendGazouKinds
<1>3. ASSUME NEW a \in Conn \ {c}, NEW b \in Conn \ {c},
             frame'[a].at = "link_tag", Half(b)'
      PROVE  frame'[a].gid # frame'[b].gid
  BY <1>3 DEF HalfInv, HalfApart, Half
<1>4. frame'[c].at = "link_tag" => ~Half(c)'
  BY DEF Half
<1>5. QED
  BY <1>1, <1>2, <1>3, <1>4 DEF HalfApart

LEMMA NextHalf ==
  /\ HalfInv /\ AnswersInv /\ ReferencesInv /\ ReferencesInv' /\ [Next]_vars
  => HalfInv'
<1>1. ASSUME HalfInv, UNCHANGED vars PROVE HalfInv'
  BY <1>1 DEF HalfInv, HalfApart, HalfOf, Half, PostRow, TagsOf, vars, tables
<1>2. ASSUME HalfInv, AnswersInv, ReferencesInv, ReferencesInv', NEW c \in Conn,
             \/ Handle(c)
             \/ \E r \in Requests : DispatchRequest(c, r)
             \/ Ended(c)
      PROVE  HalfInv'
  <2>1. \A d \in Conn \ {c} : frame'[d] = frame[d] /\ req'[d] = req[d]
    BY <1>2, HandleKeepsFlag, EnvironmentFrame DEF FlagKept, ReferencesInv
  <2>2. HalfApart'
    BY <1>2, <2>1, StepHalfApart
  <2>3. HalfOf(c)'
    BY <1>2, StepHalf DEF HalfInv
  <2>4. \A d \in Conn \ {c} : HalfOf(d)'
    BY <1>2, <2>1, StepKeepsPosts, HalfOfOther DEF HalfInv
  <2>5. QED
    BY <2>2, <2>3, <2>4 DEF HalfInv
<1>3. QED
  BY <1>1, <1>2 DEF Next

\* What a refused send_gazou has left of its gazouilli is the text of its
\* request, under the name of its sender, with no tags but its own, and not all
\* of them unless the refusal is for a missing id; and so it stays, because
\* nobody else links tags to its id (new_gazou of methods.c).
THEOREM HalfPostsCorrect == Spec => []HalfPostsAreOwn
<1>1. Init => HalfInv
  <2> SUFFICES ASSUME Init PROVE HalfInv
    OBVIOUS
  <2>1. \A c \in Conn : frame[c].at = "idle" /\ frame[c].gid = 0
    BY DEF Init, Idle
  <2>2. QED
    BY <2>1 DEF HalfInv, HalfApart, HalfOf, Half
<1>2. HalfInv => HalfPostsAreOwn
  BY DEF HalfInv, HalfOf, Half, PostRow, HalfPostsAreOwn
<1>3. QED
  BY <1>1, <1>2, NextHalf, AnswersAlways, ReferencesAlways, PTL DEF Spec

----------------------------------------------------------------------------
(* The cookie of a connect. *)

\* The row that connect reads back is the only one with its cookie.
LEMMA HandedCookie ==
  ASSUME SessionsInv, NEW c \in Conn, Connect(c), Got(c, "connect", 0)'
  PROVE  Owners(frame[c].cookie)' = {req[c].username}
<1>0. TypeOK /\ frame[c] \in Frame /\ UserUnique(user)
  BY RequestType DEF SessionsInv, CookiesDrawn
<1>1. frame'[c].at = "answered" /\ frame'[c].code = 0
  BY DEF Got
<1>2. ASSUME NEW code \in Nat \ {0}, Answer(c, code) PROVE FALSE
  BY <1>0, <1>1, <1>2, RefusalFields DEF SPEC_ERR_FORMAT
<1>3. ASSUME NEW f, Step(c, f), f.at # "answered" PROVE FALSE
  BY <1>0, <1>1, <1>3, StepFrame
<1>4. ASSUME NEW place, NEW ok, NEW code \in {1, 2},
             NEW next \in {"select_password", "update_cookie"},
             Select(c, place, ok, code, next)
      PROVE  FALSE
  <2>1. Goto(c, next).at = next
    BY <1>0, GotoKeeps
  <2>2. QED
    BY <1>2, <1>3, <1>4, <2>1 DEF Select, SPEC_ERR_INTERNAL_SRV
<1>5. ASSUME Step(c, Wrote(Goto(c, "select_cookie"), TRUE)) PROVE FALSE
  <2> DEFINE g == Goto(c, "select_cookie")
  <2>1. g \in Frame /\ g.at = "select_cookie"
    BY <1>0, GotoType, GotoKeeps DEF Place, ReadAt
  <2> HIDE DEF g
  <2>2. Wrote(g, TRUE).at = "select_cookie"
    BY <2>1, WroteKeeps
  <2>3. QED
    BY <1>3, <1>5, <2>2 DEF g
<1>6. ASSUME NEW u \in UsersNamed(req[c].username), UNCHANGED tables,
             Step(c, Answered(c, [frame[c] EXCEPT !.cookie = u.cookie], 0))
      PROVE  Owners(frame[c].cookie)' = {req[c].username}
  <2> DEFINE f == [frame[c] EXCEPT !.cookie = u.cookie]
             g == Answered(c, f, 0)
  <2>1. u \in user /\ u.name = req[c].username /\ u.cookie \in Int
    BY <1>0, CookieIsInt DEF UsersNamed, TypeOK, StoreTypeOK, UserRow
  <2>2. f \in Frame /\ f.cookie = u.cookie
    BY <1>0, <2>1 DEF Frame
  <2> HIDE DEF f
  <2>3. frame'[c] = g
    BY <1>0, <1>6, StepFrame DEF f
  <2>4. req[c].id
    BY <1>1, <2>2, <2>3, AnsweredFields DEF SPEC_ERR_FORMAT
  <2>5. frame'[c].cookie = u.cookie
    BY <2>2, <2>3, <2>4 DEF Answered, Frame
  <2>6. PICK k : k = u.cookie
    OBVIOUS
  <2>7. Owners(k) = {req[c].username}
    BY <1>0, <2>1, <2>6 DEF Owners, UserUnique
  <2>8. Owners(frame[c].cookie)' = Owners(k)
    BY <1>6, <2>5, <2>6 DEF Owners, tables
  <2>9. QED
    BY <2>7, <2>8
<1>7. ASSUME Answer(c, SPEC_ERR_INTERNAL_SRV) PROVE FALSE
  BY <1>2, <1>7 DEF SPEC_ERR_INTERNAL_SRV
<1>8. ASSUME NEW clash, Aborts(c, "update_cookie", clash) PROVE FALSE
  BY <1>7, <1>8 DEF Aborts
<1>9. QED
  BY <1>4, <1>5, <1>6, <1>7, <1>8 DEF Connect, NewRandomCookie

\* The cookie that connect hands out opens the account that was asked for, and
\* no other one, even when RANDOM() collides: a statement that would give two
\* accounts one cookie is refused (UNIQUE in init_db.sql), so the row that the
\* last statement of connect reads is the only one with its cookie.
THEOREM HandedCookieCorrect == Spec => HandedCookieIsMine
<1> DEFINE Opens ==
      \A c \in Conn : Got(c, "connect", 0)' /\ ~Got(c, "connect", 0) =>
        Owners(frame[c].cookie)' = {req[c].username}
<1>1. ASSUME SessionsInv, Next PROVE Opens
  <2>0. TypeOK
    BY <1>1 DEF SessionsInv
  <2> SUFFICES ASSUME NEW c \in Conn, Got(c, "connect", 0)', ~Got(c, "connect", 0)
               PROVE  Owners(frame[c].cookie)' = {req[c].username}
    OBVIOUS
  <2>1. ASSUME NEW d \in Conn, (\E r \in Requests : DispatchRequest(d, r)) \/ Ended(d)
        PROVE  FALSE
    <3>1. d = c => frame'[c].at # "answered"
      BY <2>0, <2>1, EnvironmentFrame
    <3>2. d # c => frame'[c] = frame[c] /\ req'[c] = req[c]
      BY <2>0, <2>1, EnvironmentFrame
    <3>3. QED
      BY <3>1, <3>2 DEF Got
  <2>2. ASSUME NEW d \in Conn, Handle(d) PROVE d = c /\ Connect(c)
    <3>1. d = c
      BY <2>0, <2>2, HandleKeepsFlag DEF FlagKept, Got
    <3>2. req'[c] = req[c]
      BY <2>0, <2>2, <3>1, HandleKeepsFlag DEF FlagKept
    <3>3. QED
      BY <2>2, <3>1, <3>2, HandlerOf DEF Got
  <2>3. Connect(c)
    BY <1>1, <2>1, <2>2 DEF Next
  <2>4. QED
    BY <1>1, <2>3, HandedCookie
<1>2. SessionsInv /\ [Next]_vars => [Opens]_vars
  BY <1>1
<1>3. QED
  BY <1>2, SessionsAlways, PTL DEF Spec, HandedCookieIsMine
=============================================================================
