--------------------------- MODULE MethodsProofs ---------------------------
(* Proofs about Methods, for every value of its constants. *)
EXTENDS Methods, TLAPS

----------------------------------------------------------------------------
(* Typing of the frames. *)

\* An answer is a frame.
LEMMA AnsweredType ==
  ASSUME NEW c \in Conn, NEW f \in Frame, NEW code \in Nat
  PROVE  Answered(c, f, code) \in Frame
<1> DEFINE e == IF req[c].id THEN code ELSE SPEC_ERR_FORMAT
           g == [f EXCEPT !.at = "answered", !.todo = {}, !.left = {},
                          !.code = e, !.cookie = -1, !.list = {},
                          !.page = {}, !.shown = {}]
<1>1. "answered" \in Place
  BY DEF Place
<1>2. [f EXCEPT !.at = "answered"] \in Frame
  BY <1>1 DEF Frame
<1>3. e \in Nat
  BY DEF SPEC_ERR_FORMAT
<1>4. /\ {} \in SUBSET Tag
      /\ {} \in SUBSET Entry
      /\ -1 \in Int
      /\ {} \in SUBSET (Name \cup Tag)
      /\ {} \in SUBSET (Entry \X Tag)
  OBVIOUS
<1> HIDE DEF e
<1>5. g \in Frame
  BY <1>1, <1>3, <1>4 DEF Frame
<1> QED
  BY <1>2, <1>5 DEF Answered, e

\* Changing the place or the history flag of a frame leaves a frame.
LEMMA GotoType ==
  ASSUME TypeOK, NEW c \in Conn, NEW place \in Place
  PROVE  Goto(c, place) \in Frame
<1>1. frame[c] \in Frame
  BY DEF TypeOK
<1>2. [frame[c] EXCEPT !.at = place] \in Frame
  BY <1>1 DEF Frame
<1> QED
  BY <1>2 DEF Goto

LEMMA UserType ==
  ASSUME NEW f \in Frame, NEW n \in Name
  PROVE  [f EXCEPT !.user = n] \in Frame
BY DEF Frame

LEMMA WroteType ==
  ASSUME NEW f \in Frame, NEW change \in BOOLEAN
  PROVE  Wrote(f, change) \in Frame
BY DEF Wrote, Frame

\* A step of one worker to a frame keeps the workers typed.
LEMMA StepType ==
  ASSUME TypeOK, NEW c \in Conn, NEW f \in Frame, Step(c, f)
  PROVE  /\ req' \in [Conn -> Requests]
         /\ frame' \in [Conn -> Frame]
BY DEF TypeOK, Step

LEMMA AnswerType ==
  ASSUME TypeOK, NEW c \in Conn, NEW code \in Nat, Answer(c, code)
  PROVE  /\ req' \in [Conn -> Requests]
         /\ frame' \in [Conn -> Frame]
<1>1. frame[c] \in Frame
  BY DEF TypeOK
<1> QED
  BY <1>1, AnsweredType, StepType DEF Answer

\* A step that leaves the tables alone.
LEMMA TablesUnchangedType ==
  ASSUME TypeOK, UNCHANGED <<tables, drawn>>,
         req' \in [Conn -> Requests], frame' \in [Conn -> Frame]
  PROVE  TypeOK'
BY DEF TypeOK, StoreTypeOK, tables

LEMMA SelectType ==
  ASSUME TypeOK, NEW c \in Conn, NEW place, NEW ok, NEW code \in Nat,
         NEW next \in Place, Select(c, place, ok, code, next)
  PROVE  TypeOK'
<1>1. CASE ok /\ Step(c, Goto(c, next))
  BY <1>1, GotoType, StepType, TablesUnchangedType DEF Select
<1>2. CASE ~ok /\ Answer(c, code)
  BY <1>2, AnswerType, TablesUnchangedType DEF Select
<1>3. CASE ReadBusy(c) /\ Answer(c, SPEC_ERR_INTERNAL_SRV)
  BY <1>3, AnswerType, TablesUnchangedType DEF Select, SPEC_ERR_INTERNAL_SRV
<1> QED
  BY <1>1, <1>2, <1>3 DEF Select

LEMMA AuthenticateType ==
  ASSUME TypeOK, NEW c \in Conn, NEW next \in Place, Authenticate(c, next)
  PROVE  TypeOK'
<1>1. ASSUME NEW n \in Owners(req[c].cookie),
             Step(c, [Goto(c, next) EXCEPT !.user = n])
      PROVE  TypeOK'
  <2>1. n \in Name
    BY DEF TypeOK, StoreTypeOK, UserRow, Owners
  <2>2. [Goto(c, next) EXCEPT !.user = n] \in Frame
    BY <2>1, GotoType, UserType
  <2> QED
    BY <1>1, <2>2, StepType, TablesUnchangedType DEF Authenticate
<1>2. CASE Answer(c, SPEC_ERR_INCORRECT_COOKIE)
  BY <1>2, AnswerType, TablesUnchangedType
  DEF Authenticate, SPEC_ERR_INCORRECT_COOKIE
<1> QED
  BY <1>1, <1>2 DEF Authenticate

LEMMA AbortsType ==
  ASSUME TypeOK, NEW c \in Conn, NEW place, NEW clash, Aborts(c, place, clash)
  PROVE  TypeOK'
BY AnswerType, TablesUnchangedType DEF Aborts, SPEC_ERR_INTERNAL_SRV

\* A writing statement that takes effect, then the frame it leaves.
LEMMA WriteType ==
  ASSUME TypeOK, NEW c \in Conn, NEW f \in Frame, NEW change \in BOOLEAN,
         StoreTypeOK', drawn' \subseteq Cookie, Step(c, Wrote(f, change))
  PROVE  TypeOK'
BY WroteType, StepType DEF TypeOK

LEMMA RequestType ==
  ASSUME TypeOK, NEW c \in Conn
  PROVE  /\ req[c] \in Request
         /\ frame[c] \in Frame
BY RequestAssumption DEF TypeOK

LEMMA WithCookieType ==
  ASSUME TypeOK, NEW n, NEW k \in Cookie
  PROVE  WithCookie(n, k) \subseteq UserRow
BY DEF TypeOK, StoreTypeOK, WithCookie, UserRow

LEMMA RandomType == Random \subseteq Cookie
BY DEF Random

LEMMA NewRandomCookieType ==
  ASSUME TypeOK, NEW c \in Conn, NEW n, NEW f \in Frame,
         NewRandomCookie(c, n, f)
  PROVE  TypeOK'
<1>1. CASE Aborts(c, "update_cookie",
                  \E k \in Random : ~UserUnique(WithCookie(n, k)))
  BY <1>1, AbortsType
<1>2. ASSUME NEW k \in Random, user' = WithCookie(n, k),
             drawn' = drawn \cup {k},
             UNCHANGED <<gazou, tag, gazou_tag, user_subscription,
                         tag_subscription, relay>>,
             Step(c, Wrote(f, TRUE))
      PROVE  TypeOK'
  <2>1. k \in Cookie
    BY RandomType
  <2>2. StoreTypeOK' /\ drawn' \subseteq Cookie
    BY <1>2, <2>1, WithCookieType DEF TypeOK, StoreTypeOK
  <2> QED
    BY <1>2, <2>2, WriteType
<1> QED
  BY <1>1, <1>2 DEF NewRandomCookie

----------------------------------------------------------------------------
(* Each handler preserves the types. *)

LEMMA CreateAccountType ==
  ASSUME TypeOK, NEW c \in Conn, CreateAccount(c)
  PROVE  TypeOK'
<1> DEFINE r == req[c]
           Row(k) == [name |-> r.username, password |-> r.password, cookie |-> k]
<1>1. CASE Select(c, "start", UsersNamed(r.username) = {}, 1, "insert_user")
  BY <1>1, SelectType DEF Place, WriteAt
<1>2. CASE Aborts(c, "insert_user", \E k \in Random : ~InsertableUser(Row(k)))
  BY <1>2, AbortsType
<1>3. ASSUME NEW k \in Random, user' = user \cup {Row(k)},
             drawn' = drawn \cup {k},
             UNCHANGED <<gazou, tag, gazou_tag, user_subscription,
                         tag_subscription, relay>>,
             Step(c, Wrote(Answered(c, frame[c], 0), TRUE))
      PROVE  TypeOK'
  <2>1. Row(k) \in UserRow
    BY RandomType, RequestType DEF Request, UserRow
  <2>2. StoreTypeOK' /\ drawn' \subseteq Cookie
    BY <1>3, <2>1, RandomType DEF TypeOK, StoreTypeOK
  <2> QED
    BY <1>3, <2>2, WriteType, AnsweredType, RequestType
<1> QED
  BY <1>1, <1>2, <1>3 DEF CreateAccount

LEMMA CookieIsInt == ASSUME NEW k \in Cookie PROVE k \in Int
<1>1. k \in Nat
  BY CookieAssumption
<1> QED
  BY <1>1

LEMMA ConnectType ==
  ASSUME TypeOK, NEW c \in Conn, Connect(c)
  PROVE  TypeOK'
<1> DEFINE r == req[c]
<1>1. CASE Select(c, "start", UsersNamed(r.username) # {}, 1, "select_password")
  BY <1>1, SelectType DEF Place, ReadAt
<1>2. CASE Select(c, "select_password",
                  \E u \in UsersNamed(r.username) : u.password = r.password,
                  2, "update_cookie")
  BY <1>2, SelectType DEF Place, WriteAt
<1>3. CASE NewRandomCookie(c, r.username, Goto(c, "select_cookie"))
  <2>1. Goto(c, "select_cookie") \in Frame
    BY GotoType DEF Place, ReadAt
  <2> QED
    BY <1>3, <2>1, NewRandomCookieType
<1>4. ASSUME NEW u \in UsersNamed(r.username), UNCHANGED <<tables, drawn>>,
             Step(c, Answered(c, [frame[c] EXCEPT !.cookie = u.cookie], 0))
      PROVE  TypeOK'
  <2>1. u \in UserRow
    BY DEF UsersNamed, TypeOK, StoreTypeOK
  <2>2. u.cookie \in Cookie
    BY <2>1 DEF UserRow
  <2>3. u.cookie \in Int
    BY <2>2, CookieIsInt
  <2>4. [frame[c] EXCEPT !.cookie = u.cookie] \in Frame
    BY <2>3, RequestType DEF Frame
  <2> QED
    BY <1>4, <2>4, AnsweredType, StepType, TablesUnchangedType
<1>5. CASE UNCHANGED <<tables, drawn>> /\ Answer(c, SPEC_ERR_INTERNAL_SRV)
  BY <1>5, AnswerType, TablesUnchangedType DEF SPEC_ERR_INTERNAL_SRV
<1> QED
  BY <1>1, <1>2, <1>3, <1>4, <1>5 DEF Connect

LEMMA DisconnectType ==
  ASSUME TypeOK, NEW c \in Conn, Disconnect(c)
  PROVE  TypeOK'
<1>1. CASE Authenticate(c, "update_cookie")
  BY <1>1, AuthenticateType DEF Place, WriteAt
<1>2. CASE NewRandomCookie(c, frame[c].user, Answered(c, frame[c], 0))
  BY <1>2, NewRandomCookieType, AnsweredType, RequestType
<1> QED
  BY <1>1, <1>2 DEF Disconnect

LEMMA InsertTagType ==
  ASSUME TypeOK, NEW c \in Conn, InsertTag(c)
  PROVE  TypeOK'
<1>1. CASE Aborts(c, "insert_tag", FALSE)
  BY <1>1, AbortsType
<1>2. ASSUME NEW t \in frame[c].todo, tag' = tag \cup {t},
             UNCHANGED <<user, gazou, gazou_tag, user_subscription,
                         tag_subscription, relay, drawn>>,
             Step(c, Wrote([frame[c] EXCEPT !.todo = @ \ {t},
                              !.at = IF frame[c].todo = {t}
                                       THEN "insert_gazou" ELSE "insert_tag"],
                           t \notin tag))
      PROVE  TypeOK'
  <2>1. t \in Tag
    BY RequestType DEF Frame
  <2>2. StoreTypeOK' /\ drawn' \subseteq Cookie
    BY <1>2, <2>1 DEF TypeOK, StoreTypeOK
  <2>3. {"insert_gazou", "insert_tag"} \subseteq Place
    BY DEF Place, WriteAt
  <2>4. [frame[c] EXCEPT !.todo = @ \ {t},
           !.at = IF frame[c].todo = {t} THEN "insert_gazou" ELSE "insert_tag"]
          \in Frame
    BY <2>3, RequestType DEF Frame
  <2> QED
    BY <1>2, <2>2, <2>4, WriteType
<1> QED
  BY <1>1, <1>2 DEF InsertTag

LEMMA InsertGazouType ==
  ASSUME TypeOK, NEW c \in Conn, frame[c].user \in Name, InsertGazou(c)
  PROVE  TypeOK'
<1> DEFINE row == [date |-> req[c].date, author |-> frame[c].user,
                   content |-> req[c].content]
           f   == Wrote([frame[c] EXCEPT !.gid = Len(gazou) + 1], TRUE)
           g   == [f EXCEPT !.at = "link_tag", !.todo = req[c].list_of_tags]
<1>1. CASE Aborts(c, "insert_gazou", ~GazouUnique(row))
  BY <1>1, AbortsType
<1>2. CASE /\ gazou' = Append(gazou, row)
           /\ UNCHANGED <<user, tag, gazou_tag, user_subscription,
                          tag_subscription, relay, drawn>>
           /\ Step(c, IF req[c].list_of_tags = {}
                        THEN Answered(c, f, 0) ELSE g)
  <2>1. row \in GazouRow
    BY RequestType DEF GazouRow, Request
  <2>2. StoreTypeOK' /\ drawn' \subseteq Cookie
    BY <1>2, <2>1 DEF TypeOK, StoreTypeOK
  <2>3. Len(gazou) + 1 \in Nat
    BY DEF TypeOK, StoreTypeOK
  <2>4. [frame[c] EXCEPT !.gid = Len(gazou) + 1] \in Frame
    BY <2>3, RequestType DEF Frame
  <2>5. f \in Frame
    BY <2>4, WroteType
  <2>6. "link_tag" \in Place
    BY DEF Place, WriteAt
  <2>7. req[c].list_of_tags \in SUBSET Tag
    BY RequestType DEF Request
  <2> HIDE DEF f
  <2>8. g \in Frame
    BY <2>5, <2>6, <2>7 DEF Frame
  <2>9. Answered(c, f, 0) \in Frame
    BY <2>5, AnsweredType
  <2> QED
    BY <1>2, <2>2, <2>8, <2>9, StepType DEF TypeOK
<1> QED
  BY <1>1, <1>2 DEF InsertGazou

LEMMA LinkTagType ==
  ASSUME TypeOK, NEW c \in Conn, LinkTag(c)
  PROVE  TypeOK'
<1>1. CASE Aborts(c, "link_tag", FALSE)
  BY <1>1, AbortsType
<1>2. ASSUME NEW t \in frame[c].todo
      PROVE  LET f == [frame[c] EXCEPT !.todo = @ \ {t}] IN
             /\ gazou_tag' = gazou_tag \cup {<<frame[c].gid, t>>}
             /\ Step(c, IF f.todo = {} THEN Answered(c, f, 0) ELSE f)
             /\ UNCHANGED <<user, gazou, tag, user_subscription,
                            tag_subscription, relay, drawn>>
             => TypeOK'
  <2> DEFINE f == [frame[c] EXCEPT !.todo = @ \ {t}]
  <2> SUFFICES ASSUME gazou_tag' = gazou_tag \cup {<<frame[c].gid, t>>},
                      Step(c, IF f.todo = {} THEN Answered(c, f, 0) ELSE f),
                      UNCHANGED <<user, gazou, tag, user_subscription,
                                  tag_subscription, relay, drawn>>
               PROVE  TypeOK'
    OBVIOUS
  <2>1. t \in Tag /\ frame[c].gid \in Nat
    BY <1>2, RequestType DEF Frame
  <2>2. StoreTypeOK' /\ drawn' \subseteq Cookie
    BY <2>1 DEF TypeOK, StoreTypeOK
  <2>3. f \in Frame
    BY RequestType DEF Frame
  <2>4. Answered(c, f, 0) \in Frame
    BY <2>3, AnsweredType
  <2> QED
    BY <2>2, <2>3, <2>4, StepType DEF TypeOK
<1> QED
  BY <1>1, <1>2 DEF LinkTag

LEMMA CheckLengthType ==
  ASSUME TypeOK, NEW c \in Conn, CheckLength(c)
  PROVE  TypeOK'
<1> DEFINE f == [frame[c] EXCEPT !.todo = req[c].list_of_tags,
                   !.at = IF req[c].list_of_tags = {}
                            THEN "insert_gazou" ELSE "insert_tag"]
<1>1. {"insert_gazou", "insert_tag"} \subseteq Place
  BY DEF Place, WriteAt
<1>2. req[c].list_of_tags \in SUBSET Tag
  BY RequestType DEF Request
<1>3. f \in Frame
  BY <1>1, <1>2, RequestType DEF Frame
<1>4. CASE Answer(c, 2)
  BY <1>4, AnswerType, TablesUnchangedType DEF CheckLength
<1>5. CASE Step(c, f)
  BY <1>3, <1>5, StepType, TablesUnchangedType DEF CheckLength
<1> QED
  BY <1>4, <1>5 DEF CheckLength

LEMMA SendGazouType ==
  ASSUME TypeOK, NEW c \in Conn, SendGazou(c),
         frame[c].at = "insert_gazou" => frame[c].user \in Name
  PROVE  TypeOK'
<1>1. CASE Authenticate(c, "check_length")
  BY <1>1, AuthenticateType DEF Place
<1>2. CASE InsertGazou(c)
  BY <1>2, InsertGazouType DEF InsertGazou, Aborts
<1> QED
  BY <1>1, <1>2, CheckLengthType, InsertTagType, LinkTagType DEF SendGazou

LEMMA RelayGazouType ==
  ASSUME TypeOK, NEW c \in Conn, RelayGazou(c),
         frame[c].at = "insert_relay" => frame[c].user \in Name
  PROVE  TypeOK'
<1> DEFINE r   == req[c]
           row == [gazou_id |-> r.id_gazouilli, retweeter |-> frame[c].user,
                   retweet_date |-> r.date]
<1>1. CASE Authenticate(c, "select_gazou")
  BY <1>1, AuthenticateType DEF Place, ReadAt
<1>2. CASE Select(c, "select_gazou", r.id_gazouilli \in DOMAIN gazou, 1,
                  "select_relay")
  BY <1>2, SelectType DEF Place, ReadAt
<1>3. CASE Select(c, "select_relay",
                  \A q \in relay : \/ q.gazou_id # r.id_gazouilli
                                   \/ q.retweeter # frame[c].user,
                  2, "insert_relay")
  BY <1>3, SelectType DEF Place, WriteAt
<1>4. CASE /\ frame[c].at = "insert_relay"
           /\ relay' = relay \cup {row}
           /\ UNCHANGED <<user, gazou, tag, gazou_tag, user_subscription,
                          tag_subscription, drawn>>
           /\ Step(c, Wrote(Answered(c, frame[c], 0), TRUE))
  <2>1. row \in RelayRow
    BY <1>4, RequestType DEF RelayRow, Request
  <2>2. StoreTypeOK' /\ drawn' \subseteq Cookie
    BY <1>4, <2>1 DEF TypeOK, StoreTypeOK
  <2> QED
    BY <1>4, <2>2, WriteType, AnsweredType, RequestType
<1>5. CASE Aborts(c, "insert_relay", row \in relay)
  BY <1>5, AbortsType
<1> QED
  BY <1>1, <1>2, <1>3, <1>4, <1>5 DEF RelayGazou

\* The rows that get_gazou may show are entries.
LEMMA TimelineType ==
  ASSUME TypeOK, NEW n
  PROVE  RelayedFor(n) \cup WrittenFor(n) \subseteq Entry
<1>1. ASSUME NEW r \in relay
      PROVE  [id |-> r.gazou_id, date |-> r.retweet_date,
              retweeter |-> r.retweeter] \in Entry
  <2>1. r \in RelayRow
    BY DEF TypeOK, StoreTypeOK
  <2>2. /\ r.gazou_id \in Nat
        /\ r.retweeter \in Name
        /\ r.retweet_date \in Date
    BY <2>1 DEF RelayRow
  <2> QED
    BY <2>2 DEF Entry
<1>2. RelayedFor(n) \subseteq Entry
  BY <1>1 DEF RelayedFor
<1>3. ASSUME NEW i \in DOMAIN gazou
      PROVE  [id |-> i, date |-> gazou[i].date, retweeter |-> ""] \in Entry
  <2>1. i \in Nat /\ gazou[i] \in GazouRow
    BY DEF TypeOK, StoreTypeOK
  <2>2. gazou[i].date \in Date
    BY <2>1 DEF GazouRow
  <2> QED
    BY <2>1, <2>2 DEF Entry
<1>4. WrittenFor(n) \subseteq Entry
  BY <1>3 DEF WrittenFor
<1> QED
  BY <1>2, <1>4

LEMMA SelectPageType ==
  ASSUME TypeOK, NEW c \in Conn, SelectPage(c)
  PROVE  TypeOK'
<1> DEFINE rows == RelayedFor(frame[c].user) \cup WrittenFor(frame[c].user)
           gids == {frame[d].gid : d \in {e \in Conn : frame[e].at = "link_tag"}}
           f(P) == [frame[c] EXCEPT !.page = P, !.left = P, !.pending = gids]
           g(P) == [f(P) EXCEPT !.at = "select_tags"]
<1>1. CASE Answer(c, SPEC_ERR_INTERNAL_SRV)
  BY <1>1, AnswerType, TablesUnchangedType
  DEF SelectPage, SPEC_ERR_INTERNAL_SRV
<1>2. ASSUME NEW P \in Pages(rows, req[c].nb_gazou),
             Step(c, IF P = {} THEN Answered(c, f(P), 0) ELSE g(P))
      PROVE  TypeOK'
  <2>1. P \in SUBSET Entry
    BY <1>2, TimelineType DEF Pages
  <2>2. gids \in SUBSET Nat
    BY DEF TypeOK, Frame
  <2>3. "select_tags" \in Place
    BY DEF Place, ReadAt
  <2> HIDE DEF gids
  <2>4. f(P) \in Frame
    BY <2>1, <2>2, RequestType DEF Frame
  <2> HIDE DEF f
  <2>5. g(P) \in Frame
    BY <2>3, <2>4 DEF Frame
  <2> QED
    BY <1>2, <2>4, <2>5, AnsweredType, StepType, TablesUnchangedType
    DEF SelectPage
<1> QED
  BY <1>1, <1>2 DEF SelectPage

LEMMA SelectTagsType ==
  ASSUME TypeOK, NEW c \in Conn, SelectTags(c)
  PROVE  TypeOK'
<1> DEFINE f(e) == [frame[c] EXCEPT !.left = @ \ {e},
                      !.shown = @ \cup ({e} \X TagsOf(e.id))]
<1>1. CASE Answer(c, SPEC_ERR_INTERNAL_SRV)
  BY <1>1, AnswerType, TablesUnchangedType
  DEF SelectTags, SPEC_ERR_INTERNAL_SRV
<1>2. ASSUME NEW e \in frame[c].left,
             Step(c, IF f(e).left = {} THEN Answered(c, f(e), 0) ELSE f(e))
      PROVE  TypeOK'
  <2>1. e \in Entry
    BY RequestType DEF Frame
  <2>2. TagsOf(e.id) \subseteq Tag
    BY DEF TagsOf
  <2>3. {e} \X TagsOf(e.id) \subseteq Entry \X Tag
    BY <2>1, <2>2
  <2>4. f(e) \in Frame
    BY <2>3, RequestType DEF Frame
  <2> HIDE DEF f
  <2> QED
    BY <1>2, <2>4, AnsweredType, StepType, TablesUnchangedType DEF SelectTags
<1> QED
  BY <1>1, <1>2 DEF SelectTags

LEMMA GetGazouType ==
  ASSUME TypeOK, NEW c \in Conn, GetGazou(c)
  PROVE  TypeOK'
<1>1. CASE Authenticate(c, "select_page")
  BY <1>1, AuthenticateType DEF Place, ReadAt
<1> QED
  BY <1>1, SelectPageType, SelectTagsType DEF GetGazou

LEMMA UserSubscriptionType ==
  ASSUME TypeOK, NEW c \in Conn, NEW place, NEW T \in SUBSET (Name \X Name),
         WriteUserSubscription(c, place, T)
  PROVE  TypeOK'
<1>1. StoreTypeOK' /\ drawn' \subseteq Cookie
  BY DEF WriteUserSubscription, TypeOK, StoreTypeOK
<1> QED
  BY <1>1, WriteType, AnsweredType, RequestType DEF WriteUserSubscription

LEMMA TagSubscriptionType ==
  ASSUME TypeOK, NEW c \in Conn, NEW place, NEW T \in SUBSET (Tag \X Name),
         WriteTagSubscription(c, place, T)
  PROVE  TypeOK'
<1>1. StoreTypeOK' /\ drawn' \subseteq Cookie
  BY DEF WriteTagSubscription, TypeOK, StoreTypeOK
<1> QED
  BY <1>1, WriteType, AnsweredType, RequestType DEF WriteTagSubscription

LEMMA FollowUserType ==
  ASSUME TypeOK, NEW c \in Conn, FollowUser(c),
         frame[c].at = "insert_subscription" => frame[c].user \in Name
  PROVE  TypeOK'
<1> DEFINE r   == req[c]
           row == <<r.username, frame[c].user>>
<1>1. CASE Authenticate(c, "select_user")
  BY <1>1, AuthenticateType DEF Place, ReadAt
<1>2. CASE Select(c, "select_user", UsersNamed(r.username) # {}, 1,
                  "select_subscription")
  BY <1>2, SelectType DEF Place, ReadAt
<1>3. CASE Select(c, "select_subscription", row \notin user_subscription, 2,
                  "insert_subscription")
  BY <1>3, SelectType DEF Place, WriteAt
<1>4. CASE WriteUserSubscription(c, "insert_subscription",
                                 user_subscription \cup {row})
  <2>1. row \in Name \X Name
    BY <1>4, RequestType DEF Request, WriteUserSubscription
  <2>2. user_subscription \cup {row} \in SUBSET (Name \X Name)
    BY <2>1 DEF TypeOK, StoreTypeOK
  <2> QED
    BY <1>4, <2>2, UserSubscriptionType
<1>5. CASE Aborts(c, "insert_subscription", row \in user_subscription)
  BY <1>5, AbortsType
<1> QED
  BY <1>1, <1>2, <1>3, <1>4, <1>5 DEF FollowUser

LEMMA UnfollowUserType ==
  ASSUME TypeOK, NEW c \in Conn, UnfollowUser(c)
  PROVE  TypeOK'
<1> DEFINE r   == req[c]
           row == <<r.username, frame[c].user>>
<1>1. CASE Authenticate(c, "select_user")
  BY <1>1, AuthenticateType DEF Place, ReadAt
<1>2. CASE Select(c, "select_user", UsersNamed(r.username) # {}, 1,
                  "select_subscription")
  BY <1>2, SelectType DEF Place, ReadAt
<1>3. CASE Select(c, "select_subscription", row \in user_subscription, 2,
                  "delete_subscription")
  BY <1>3, SelectType DEF Place, WriteAt
<1>4. CASE WriteUserSubscription(c, "delete_subscription",
                                 user_subscription \ {row})
  <2>1. user_subscription \ {row} \in SUBSET (Name \X Name)
    BY DEF TypeOK, StoreTypeOK
  <2> QED
    BY <1>4, <2>1, UserSubscriptionType
<1>5. CASE Aborts(c, "delete_subscription", FALSE)
  BY <1>5, AbortsType
<1> QED
  BY <1>1, <1>2, <1>3, <1>4, <1>5 DEF UnfollowUser

LEMMA FollowTagType ==
  ASSUME TypeOK, NEW c \in Conn, FollowTag(c),
         frame[c].at = "insert_subscription" => frame[c].user \in Name
  PROVE  TypeOK'
<1> DEFINE row == <<req[c].tag, frame[c].user>>
<1>1. CASE Authenticate(c, "select_subscription")
  BY <1>1, AuthenticateType DEF Place, ReadAt
<1>2. CASE Select(c, "select_subscription", row \notin tag_subscription, 1,
                  "insert_subscription")
  BY <1>2, SelectType DEF Place, WriteAt
<1>3. CASE WriteTagSubscription(c, "insert_subscription",
                                tag_subscription \cup {row})
  <2>1. row \in Tag \X Name
    BY <1>3, RequestType DEF Request, WriteTagSubscription
  <2>2. tag_subscription \cup {row} \in SUBSET (Tag \X Name)
    BY <2>1 DEF TypeOK, StoreTypeOK
  <2> QED
    BY <1>3, <2>2, TagSubscriptionType
<1>4. CASE Aborts(c, "insert_subscription", row \in tag_subscription)
  BY <1>4, AbortsType
<1> QED
  BY <1>1, <1>2, <1>3, <1>4 DEF FollowTag

LEMMA UnfollowTagType ==
  ASSUME TypeOK, NEW c \in Conn, UnfollowTag(c)
  PROVE  TypeOK'
<1> DEFINE row == <<req[c].tag, frame[c].user>>
<1>1. CASE Authenticate(c, "select_subscription")
  BY <1>1, AuthenticateType DEF Place, ReadAt
<1>2. CASE Select(c, "select_subscription", row \in tag_subscription, 1,
                  "delete_subscription")
  BY <1>2, SelectType DEF Place, WriteAt
<1>3. CASE WriteTagSubscription(c, "delete_subscription",
                                tag_subscription \ {row})
  <2>1. tag_subscription \ {row} \in SUBSET (Tag \X Name)
    BY DEF TypeOK, StoreTypeOK
  <2> QED
    BY <1>3, <2>1, TagSubscriptionType
<1>4. CASE Aborts(c, "delete_subscription", FALSE)
  BY <1>4, AbortsType
<1> QED
  BY <1>1, <1>2, <1>3, <1>4 DEF UnfollowTag

LEMMA ListType ==
  ASSUME TypeOK, NEW c \in Conn, NEW method,
         NEW rows \in SUBSET (Name \cup Tag), List(c, method, rows)
  PROVE  TypeOK'
<1>1. CASE Authenticate(c, "select_list")
  BY <1>1, AuthenticateType DEF Place, ReadAt
<1>2. CASE /\ UNCHANGED <<tables, drawn>>
           /\ Step(c, Answered(c, [frame[c] EXCEPT !.list = rows], 0))
  <2>1. [frame[c] EXCEPT !.list = rows] \in Frame
    BY RequestType DEF Frame
  <2> QED
    BY <1>2, <2>1, AnsweredType, StepType, TablesUnchangedType
<1>3. CASE UNCHANGED <<tables, drawn>> /\ Answer(c, SPEC_ERR_INTERNAL_SRV)
  BY <1>3, AnswerType, TablesUnchangedType DEF SPEC_ERR_INTERNAL_SRV
<1> QED
  BY <1>1, <1>2, <1>3 DEF List

LEMMA ListsType ==
  ASSUME TypeOK, NEW c \in Conn,
         ListFollowedUsers(c) \/ ListFollowedTags(c) \/ ListMyFollowers(c)
  PROVE  TypeOK'
<1>1. /\ Followed(frame[c].user) \in SUBSET (Name \cup Tag)
      /\ FollowedTags(frame[c].user) \in SUBSET (Name \cup Tag)
      /\ Followers(frame[c].user) \in SUBSET (Name \cup Tag)
  BY DEF Followed, FollowedTags, Followers
<1> QED
  BY <1>1, ListType DEF ListFollowedUsers, ListFollowedTags, ListMyFollowers

LEMMA RefuseMessageType ==
  ASSUME TypeOK, NEW c \in Conn, RefuseMessage(c)
  PROVE  TypeOK'
BY AnswerType, TablesUnchangedType
DEF RefuseMessage, SPEC_ERR_FORMAT, SPEC_ERR_NOT_IMPLEMENTED

LEMMA IdleType == Idle \in Frame
BY DEF Idle, Frame, Place

LEMMA DispatchRequestType ==
  ASSUME TypeOK, NEW c \in Conn, NEW r \in Requests, DispatchRequest(c, r)
  PROVE  TypeOK'
<1> DEFINE s == r.cookie \in drawn /\ Owners(r.cookie) = {}
           f == [Idle EXCEPT !.at = "start", !.stale = s]
<1>1. s \in BOOLEAN /\ "start" \in Place
  BY DEF Place, ReadAt
<1> HIDE DEF s
<1>2. f \in Frame
  BY <1>1, IdleType DEF Frame
<1>3. frame' = [frame EXCEPT ![c] = f] /\ req' = [req EXCEPT ![c] = r]
  BY DEF DispatchRequest, s
<1>4. frame' \in [Conn -> Frame] /\ req' \in [Conn -> Requests]
  BY <1>2, <1>3 DEF TypeOK
<1> QED
  BY <1>4, TablesUnchangedType DEF DispatchRequest

LEMMA NoRequestType == NoRequest \in Requests
BY RequestAssumption DEF NoRequest

LEMMA EndedType ==
  ASSUME TypeOK, NEW c \in Conn, Ended(c)
  PROVE  TypeOK'
<1>1. frame' \in [Conn -> Frame] /\ req' \in [Conn -> Requests]
  BY IdleType, NoRequestType DEF Ended, TypeOK
<1> QED
  BY <1>1, TablesUnchangedType DEF Ended

LEMMA InitType == Init => TypeOK
<1> SUFFICES ASSUME Init PROVE TypeOK
  OBVIOUS
<1>1. StoreTypeOK
  BY SeedAssumption DEF Init, StoreInit, StoreTypeOK
<1>2. req \in [Conn -> Requests] /\ frame \in [Conn -> Frame]
  BY IdleType, NoRequestType DEF Init
<1>3. drawn \subseteq Cookie
  BY SeedAssumption DEF Init, UserRow
<1> QED
  BY <1>1, <1>2, <1>3 DEF TypeOK

----------------------------------------------------------------------------
(* References.  A step changes the frame of one worker; what the others    *)
(* have checked survives because the tables they looked at only grow.      *)

TablesGrow == /\ Registered \subseteq Registered'
              /\ DOMAIN gazou \subseteq DOMAIN gazou'
              /\ tag \subseteq tag'

RefersNext == ReferencesHold' /\ \A d \in Conn : CheckedBy(d)'

LEMMA OthersKeep ==
  ASSUME ReferencesInv, NEW c \in Conn, TablesGrow, CheckedBy(c)',
         \A d \in Conn \ {c} : frame'[d] = frame[d] /\ req'[d] = req[d]
  PROVE  \A d \in Conn : CheckedBy(d)'
<1> SUFFICES ASSUME NEW d \in Conn, d # c PROVE CheckedBy(d)'
  OBVIOUS
<1>1. CheckedBy(d)
  BY DEF ReferencesInv
<1>2. frame'[d] = frame[d] /\ req'[d] = req[d]
  OBVIOUS
<1> QED
  BY <1>1, <1>2 DEF CheckedBy, TablesGrow, Authenticated

\* The frame and the request of the worker that steps, and of the others.
LEMMA StepFrame ==
  ASSUME TypeOK, NEW c \in Conn, NEW f, Step(c, f)
  PROVE  /\ frame'[c] = f
         /\ req'[c] = req[c]
         /\ \A d \in Conn \ {c} : frame'[d] = frame[d] /\ req'[d] = req[d]
BY DEF TypeOK, Step

LEMMA UnchangedRefers ==
  ASSUME ReferencesInv, UNCHANGED tables
  PROVE  ReferencesHold' /\ TablesGrow
BY DEF ReferencesInv, ReferencesHold, Registered, TablesGrow, tables

\* A worker without a statement to execute has nothing to have checked.
LEMMA RestIsChecked ==
  ASSUME NEW c \in Conn, frame'[c].at \in {"idle", "start", "answered"}
  PROVE  CheckedBy(c)'
BY DEF CheckedBy, Authenticated

LEMMA AnsweredAt ==
  ASSUME NEW c \in Conn, NEW f \in Frame, NEW code
  PROVE  Answered(c, f, code).at = "answered"
BY DEF Answered, Frame

LEMMA WroteAt ==
  ASSUME NEW f \in Frame, NEW change
  PROVE  Wrote(f, change).at = f.at
BY DEF Wrote, Frame

LEMMA AnswerRefers ==
  ASSUME ReferencesInv, NEW c \in Conn, NEW code, Answer(c, code),
         UNCHANGED tables
  PROVE  RefersNext
<1>1. frame'[c].at = "answered"
  BY AnsweredAt, StepFrame, RequestType DEF Answer, ReferencesInv
<1>2. CheckedBy(c)'
  BY <1>1, RestIsChecked
<1>3. \A d \in Conn \ {c} : frame'[d] = frame[d] /\ req'[d] = req[d]
  BY StepFrame DEF Answer, ReferencesInv
<1> QED
  BY <1>2, <1>3, OthersKeep, UnchangedRefers DEF RefersNext

\* A reading step that goes on needs the facts of its next place.
LEMMA ReadRefers ==
  ASSUME ReferencesInv, NEW c \in Conn, NEW f, Step(c, f), UNCHANGED tables,
         frame'[c] = f /\ req'[c] = req[c] => CheckedBy(c)'
  PROVE  RefersNext
<1>1. \A d \in Conn \ {c} : frame'[d] = frame[d] /\ req'[d] = req[d]
  BY StepFrame DEF ReferencesInv
<1>2. CheckedBy(c)'
  BY StepFrame DEF ReferencesInv
<1> QED
  BY <1>1, <1>2, OthersKeep, UnchangedRefers DEF RefersNext

\* A writing step that answers: only the tables are left to look at.
LEMMA WriteRefers ==
  ASSUME ReferencesInv, NEW c \in Conn, NEW f, Step(c, f),
         f.at \in {"answered", "idle", "start"}, TablesGrow, ReferencesHold'
  PROVE  RefersNext
<1>1. /\ frame'[c] = f
      /\ \A d \in Conn \ {c} : frame'[d] = frame[d] /\ req'[d] = req[d]
  BY StepFrame DEF ReferencesInv
<1>2. CheckedBy(c)'
  BY <1>1, RestIsChecked
<1> QED
  BY <1>1, <1>2, OthersKeep DEF RefersNext

LEMMA AbortsRefers ==
  ASSUME ReferencesInv, NEW c \in Conn, NEW place, NEW clash,
         Aborts(c, place, clash)
  PROVE  RefersNext
BY AnswerRefers DEF Aborts

LEMMA SelectRefers ==
  ASSUME ReferencesInv, NEW c \in Conn, NEW place, NEW ok, NEW code, NEW next,
         Select(c, place, ok, code, next),
         ok /\ frame'[c] = Goto(c, next) /\ req'[c] = req[c]
            /\ UNCHANGED tables => CheckedBy(c)'
  PROVE  RefersNext
<1>1. CASE ok /\ Step(c, Goto(c, next))
  BY <1>1, ReadRefers DEF Select
<1>2. CASE ~ok /\ Answer(c, code)
  BY <1>2, AnswerRefers DEF Select
<1>3. CASE Answer(c, SPEC_ERR_INTERNAL_SRV)
  BY <1>3, AnswerRefers DEF Select
<1> QED
  BY <1>1, <1>2, <1>3 DEF Select

\* Places that demand nothing but an authenticated user.
FreePlaces == {"update_cookie", "select_gazou", "select_page", "select_user",
               "select_list"}

LEMMA AuthenticateRefers ==
  ASSUME ReferencesInv, NEW c \in Conn, NEW next, Authenticate(c, next),
         \/ next \in FreePlaces
         \/ next = "check_length" /\ req[c].method = "send_gazou"
         \/ next = "select_subscription" /\ req[c].method # "follow_user"
  PROVE  RefersNext
<1>1. CASE Answer(c, SPEC_ERR_INCORRECT_COOKIE)
  BY <1>1, AnswerRefers DEF Authenticate
<1>2. ASSUME NEW n \in Owners(req[c].cookie),
             Step(c, [Goto(c, next) EXCEPT !.user = n])
      PROVE  RefersNext
  <2>1. n \in Registered
    BY DEF Owners, Registered
  <2>2. frame[c] \in Frame
    BY RequestType DEF ReferencesInv
  <2>3. /\ [Goto(c, next) EXCEPT !.user = n].user = n
        /\ [Goto(c, next) EXCEPT !.user = n].at = next
    BY <2>2 DEF Goto, Frame
  <2>4. Registered' = Registered
    BY DEF Authenticate, tables, Registered
  <2> SUFFICES ASSUME frame'[c].at = next, frame'[c].user = n,
                      req'[c] = req[c]
               PROVE  CheckedBy(c)'
    BY <1>2, <2>3, ReadRefers DEF Authenticate
  <2> QED
    BY <2>1, <2>4 DEF CheckedBy, FreePlaces
<1> QED
  BY <1>1, <1>2 DEF Authenticate

\* UPDATE of a cookie: the accounts keep their names.
LEMMA WithCookieNames ==
  ASSUME NEW n, NEW k, user \subseteq UserRow, user' = WithCookie(n, k)
  PROVE  Registered' = Registered
<1> DEFINE F(u) == IF u.name = n THEN [u EXCEPT !.cookie = k] ELSE u
<1>1. ASSUME NEW u \in user PROVE F(u).name = u.name
  <2>1. u \in UserRow
    OBVIOUS
  <2> QED
    BY <2>1 DEF UserRow
<1>2. user' = {F(u) : u \in user}
  BY DEF WithCookie
<1> HIDE DEF F
<1>3. Registered' = {w.name : w \in user'}
  BY DEF Registered
<1>4. Registered' = {F(u).name : u \in user}
  BY <1>2, <1>3
<1> QED
  BY <1>1, <1>4 DEF Registered

LEMMA NewRandomCookieRefers ==
  ASSUME ReferencesInv, NEW c \in Conn, NEW n, NEW f,
         NewRandomCookie(c, n, f),
         Wrote(f, TRUE).at \in {"answered", "select_cookie"},
         Wrote(f, TRUE).at = "select_cookie" => req[c].method = "connect"
  PROVE  RefersNext
<1>1. CASE Aborts(c, "update_cookie",
                  \E k \in Random : ~UserUnique(WithCookie(n, k)))
  BY <1>1, AbortsRefers
<1>2. ASSUME NEW k, user' = WithCookie(n, k),
             UNCHANGED <<gazou, tag, gazou_tag, user_subscription,
                         tag_subscription, relay>>,
             Step(c, Wrote(f, TRUE))
      PROVE  RefersNext
  <2>1. Registered' = Registered
    BY <1>2, WithCookieNames DEF ReferencesInv, TypeOK, StoreTypeOK
  <2>2. TablesGrow /\ ReferencesHold'
    BY <1>2, <2>1 DEF TablesGrow, ReferencesInv, ReferencesHold
  <2>3. /\ frame'[c] = Wrote(f, TRUE)
        /\ req'[c] = req[c]
        /\ \A d \in Conn \ {c} : frame'[d] = frame[d] /\ req'[d] = req[d]
    BY <1>2, StepFrame DEF ReferencesInv
  <2>4. CheckedBy(c)'
    BY <2>3 DEF CheckedBy, Authenticated, AuthenticatedMethods
  <2> QED
    BY <2>2, <2>3, <2>4, OthersKeep DEF RefersNext
<1> QED
  BY <1>1, <1>2 DEF NewRandomCookie

LEMMA CreateAccountRefers ==
  ASSUME ReferencesInv, NEW c \in Conn, CreateAccount(c)
  PROVE  RefersNext
<1> DEFINE r == req[c]
           Row(k) == [name |-> r.username, password |-> r.password, cookie |-> k]
           f == Wrote(Answered(c, frame[c], 0), TRUE)
<1>1. CASE Select(c, "start", UsersNamed(r.username) = {}, 1, "insert_user")
  <2>1. Goto(c, "insert_user").at = "insert_user"
    BY RequestType DEF ReferencesInv, Goto, Frame
  <2>2. r.method = "create_account"
    BY DEF CreateAccount
  <2>3. frame'[c] = Goto(c, "insert_user") /\ req'[c] = r => CheckedBy(c)'
    BY <2>1, <2>2 DEF CheckedBy, Authenticated, AuthenticatedMethods
  <2> QED
    BY <1>1, <2>3, SelectRefers
<1>2. CASE Aborts(c, "insert_user", \E k \in Random : ~InsertableUser(Row(k)))
  BY <1>2, AbortsRefers
<1>3. ASSUME NEW k, user' = user \cup {Row(k)},
             UNCHANGED <<gazou, tag, gazou_tag, user_subscription,
                         tag_subscription, relay>>,
             Step(c, f)
      PROVE  RefersNext
  <2>1. Registered \subseteq Registered'
    BY <1>3 DEF Registered
  <2>2. TablesGrow /\ ReferencesHold'
    BY <1>3, <2>1 DEF TablesGrow, ReferencesInv, ReferencesHold
  <2>3. f.at = "answered"
    BY RequestType, AnsweredType, AnsweredAt, WroteAt DEF ReferencesInv
  <2> HIDE DEF f
  <2> QED
    BY <1>3, <2>2, <2>3, WriteRefers
<1> QED
  BY <1>1, <1>2, <1>3 DEF CreateAccount

LEMMA ConnectRefers ==
  ASSUME ReferencesInv, NEW c \in Conn, Connect(c)
  PROVE  RefersNext
<1> DEFINE r == req[c]
<1>1. r.method = "connect"
  BY DEF Connect
<1>2. \A p : Goto(c, p).at = p
  BY RequestType DEF ReferencesInv, Goto, Frame
<1>3. \A p \in {"select_password", "update_cookie"} :
        frame'[c] = Goto(c, p) /\ req'[c] = r => CheckedBy(c)'
  BY <1>1, <1>2 DEF CheckedBy, Authenticated, AuthenticatedMethods
<1>4. CASE Select(c, "start", UsersNamed(r.username) # {}, 1, "select_password")
  BY <1>3, <1>4, SelectRefers
<1>5. CASE Select(c, "select_password",
                  \E u \in UsersNamed(r.username) : u.password = r.password,
                  2, "update_cookie")
  <2> DEFINE ok == \E u \in UsersNamed(r.username) : u.password = r.password
  <2> HIDE DEF ok
  <2>1. Select(c, "select_password", ok, 2, "update_cookie")
    BY <1>5 DEF ok
  <2> QED
    BY <1>3, <2>1, SelectRefers
<1>6. CASE NewRandomCookie(c, r.username, Goto(c, "select_cookie"))
  <2>1. Goto(c, "select_cookie") \in Frame
    BY GotoType DEF ReferencesInv, Place, ReadAt
  <2>2. Wrote(Goto(c, "select_cookie"), TRUE).at = "select_cookie"
    BY <1>2, <2>1, WroteAt
  <2> QED
    BY <1>1, <1>6, <2>2, NewRandomCookieRefers
<1>7. ASSUME NEW u \in UsersNamed(r.username), UNCHANGED tables,
             Step(c, Answered(c, [frame[c] EXCEPT !.cookie = u.cookie], 0))
      PROVE  RefersNext
  <2> DEFINE g == [frame[c] EXCEPT !.cookie = u.cookie]
  <2>1. u \in UserRow
    BY DEF UsersNamed, ReferencesInv, TypeOK, StoreTypeOK
  <2>2. u.cookie \in Cookie
    BY <2>1 DEF UserRow
  <2>3. u.cookie \in Int
    BY <2>2, CookieIsInt
  <2>4. g \in Frame
    BY <2>3, RequestType DEF ReferencesInv, Frame
  <2> HIDE DEF g
  <2>5. Answered(c, g, 0).at = "answered"
    BY <2>4, AnsweredAt
  <2>6. Step(c, Answered(c, g, 0))
    BY <1>7 DEF g
  <2> QED
    BY <1>7, <2>5, <2>6, WriteRefers, UnchangedRefers
<1>8. CASE UNCHANGED tables /\ Answer(c, SPEC_ERR_INTERNAL_SRV)
  BY <1>8, AnswerRefers
<1> QED
  BY <1>4, <1>5, <1>6, <1>7, <1>8 DEF Connect

LEMMA DisconnectRefers ==
  ASSUME ReferencesInv, NEW c \in Conn, Disconnect(c)
  PROVE  RefersNext
<1>1. CASE Authenticate(c, "update_cookie")
  BY <1>1, AuthenticateRefers DEF FreePlaces
<1>2. CASE NewRandomCookie(c, frame[c].user, Answered(c, frame[c], 0))
  <2>1. Wrote(Answered(c, frame[c], 0), TRUE).at = "answered"
    BY RequestType, AnsweredType, AnsweredAt, WroteAt DEF ReferencesInv
  <2> QED
    BY <1>2, <2>1, NewRandomCookieRefers
<1> QED
  BY <1>1, <1>2 DEF Disconnect

LEMMA InsertTagRefers ==
  ASSUME ReferencesInv, NEW c \in Conn, InsertTag(c)
  PROVE  RefersNext
<1>1. CASE Aborts(c, "insert_tag", FALSE)
  BY <1>1, AbortsRefers
<1>2. ASSUME NEW t \in frame[c].todo, tag' = tag \cup {t},
             frame[c].at = "insert_tag",
             UNCHANGED <<user, gazou, gazou_tag, user_subscription,
                         tag_subscription, relay, drawn>>,
             Step(c, Wrote([frame[c] EXCEPT !.todo = @ \ {t},
                              !.at = IF frame[c].todo = {t}
                                       THEN "insert_gazou" ELSE "insert_tag"],
                           t \notin tag))
      PROVE  RefersNext
  <2> DEFINE next == IF frame[c].todo = {t} THEN "insert_gazou" ELSE "insert_tag"
             g == [frame[c] EXCEPT !.todo = @ \ {t}, !.at = next]
             f == Wrote(g, t \notin tag)
  <2>1. TablesGrow /\ ReferencesHold'
    BY <1>2 DEF TablesGrow, ReferencesInv, ReferencesHold, Registered
  <2>2. /\ f.at = next
        /\ f.todo = frame[c].todo \ {t}
        /\ f.user = frame[c].user
    BY RequestType DEF ReferencesInv, Wrote, Frame
  <2>3. /\ frame'[c] = f
        /\ req'[c] = req[c]
        /\ \A d \in Conn \ {c} : frame'[d] = frame[d] /\ req'[d] = req[d]
    BY <1>2, StepFrame DEF ReferencesInv
  <2>4. /\ req[c].method = "send_gazou"
        /\ frame[c].user \in Registered
        /\ req[c].list_of_tags \ frame[c].todo \subseteq tag
    BY <1>2 DEF ReferencesInv, CheckedBy, Authenticated, AuthenticatedMethods,
               method_names
  <2>5. Registered' = Registered
    BY <1>2 DEF Registered
  <2> HIDE DEF f
  <2>6. CheckedBy(c)'
    BY <1>2, <2>2, <2>3, <2>4, <2>5 DEF CheckedBy, Authenticated
  <2> QED
    BY <2>1, <2>3, <2>6, OthersKeep DEF RefersNext
<1> QED
  BY <1>1, <1>2 DEF InsertTag

LEMMA InsertGazouRefers ==
  ASSUME ReferencesInv, NEW c \in Conn, InsertGazou(c)
  PROVE  RefersNext
<1> DEFINE row == [date |-> req[c].date, author |-> frame[c].user,
                   content |-> req[c].content]
           f   == Wrote([frame[c] EXCEPT !.gid = Len(gazou) + 1], TRUE)
           g   == [f EXCEPT !.at = "link_tag", !.todo = req[c].list_of_tags]
           h   == IF req[c].list_of_tags = {} THEN Answered(c, f, 0) ELSE g
<1>1. CASE Aborts(c, "insert_gazou", ~GazouUnique(row))
  BY <1>1, AbortsRefers
<1>2. CASE /\ frame[c].at = "insert_gazou"
           /\ gazou' = Append(gazou, row)
           /\ UNCHANGED <<user, tag, gazou_tag, user_subscription,
                          tag_subscription, relay, drawn>>
           /\ Step(c, h)
  <2>1. /\ req[c].method = "send_gazou"
        /\ frame[c].user \in Registered
        /\ req[c].list_of_tags \subseteq tag
    BY <1>2 DEF ReferencesInv, CheckedBy, Authenticated, AuthenticatedMethods,
               method_names
  <2>2. frame[c].user \in Name /\ row \in GazouRow
    BY <2>1, RequestType
    DEF ReferencesInv, TypeOK, StoreTypeOK, UserRow, Registered, GazouRow, Request
  <2>3. gazou \in Seq(GazouRow)
    BY DEF ReferencesInv, TypeOK, StoreTypeOK
  <2>4. /\ DOMAIN gazou' = DOMAIN gazou \cup {Len(gazou) + 1}
        /\ \A i \in DOMAIN gazou : gazou'[i] = gazou[i]
        /\ gazou'[Len(gazou) + 1] = row
    BY <1>2, <2>2, <2>3
  <2>5. Registered' = Registered
    BY <1>2 DEF Registered
  <2>6. ReferencesHold' /\ TablesGrow
    BY <1>2, <2>1, <2>4, <2>5 DEF ReferencesInv, ReferencesHold, TablesGrow
  <2>7. /\ frame'[c] = h
        /\ req'[c] = req[c]
        /\ \A d \in Conn \ {c} : frame'[d] = frame[d] /\ req'[d] = req[d]
    BY <1>2, StepFrame DEF ReferencesInv
  <2>8. [frame[c] EXCEPT !.gid = Len(gazou) + 1] \in Frame
    <3>1. Len(gazou) + 1 \in Nat
      BY <2>3
    <3> QED
      BY <3>1, RequestType DEF ReferencesInv, Frame
  <2>9. f \in Frame
    BY <2>8, WroteType
  <2>10. f.user = frame[c].user /\ f.gid = Len(gazou) + 1
    BY RequestType DEF ReferencesInv, Wrote, Frame
  <2> HIDE DEF f
  <2>11. CASE req[c].list_of_tags = {}
    <3>1. frame'[c].at = "answered"
      BY <2>7, <2>9, <2>11, AnsweredAt
    <3>2. CheckedBy(c)'
      BY <3>1, RestIsChecked
    <3> QED
      BY <2>6, <2>7, <3>2, OthersKeep DEF RefersNext
  <2>12. CASE req[c].list_of_tags # {}
    <3>1. /\ frame'[c].at = "link_tag"
          /\ frame'[c].todo = req[c].list_of_tags
          /\ frame'[c].user = frame[c].user
          /\ frame'[c].gid = Len(gazou) + 1
      BY <2>7, <2>9, <2>10, <2>12 DEF Frame
    <3>2. CheckedBy(c)'
      BY <1>2, <2>1, <2>4, <2>5, <2>7, <3>1 DEF CheckedBy, Authenticated
    <3> QED
      BY <2>6, <2>7, <3>2, OthersKeep DEF RefersNext
  <2> QED
    BY <2>11, <2>12
<1> QED
  BY <1>1, <1>2 DEF InsertGazou

LEMMA LinkTagRefers ==
  ASSUME ReferencesInv, NEW c \in Conn, LinkTag(c)
  PROVE  RefersNext
<1> DEFINE f(t) == [frame[c] EXCEPT !.todo = @ \ {t}]
           h(t) == IF f(t).todo = {} THEN Answered(c, f(t), 0) ELSE f(t)
<1>1. CASE Aborts(c, "link_tag", FALSE)
  BY <1>1, AbortsRefers
<1>2. ASSUME NEW t \in frame[c].todo, frame[c].at = "link_tag",
             gazou_tag' = gazou_tag \cup {<<frame[c].gid, t>>},
             Step(c, h(t)),
             UNCHANGED <<user, gazou, tag, user_subscription,
                         tag_subscription, relay, drawn>>
      PROVE  RefersNext
  <2>1. CheckedBy(c)
    BY DEF ReferencesInv
  <2>2. /\ frame[c].gid \in DOMAIN gazou
        /\ t \in tag
        /\ req[c].list_of_tags \subseteq tag
    BY <1>2, <2>1 DEF CheckedBy
  <2>3. Registered' = Registered
    BY <1>2 DEF Registered
  <2>4. ReferencesHold' /\ TablesGrow
    BY <1>2, <2>2, <2>3 DEF ReferencesInv, ReferencesHold, TablesGrow
  <2>5. /\ frame'[c] = h(t)
        /\ req'[c] = req[c]
        /\ \A d \in Conn \ {c} : frame'[d] = frame[d] /\ req'[d] = req[d]
    BY <1>2, StepFrame DEF ReferencesInv
  <2>6. f(t) \in Frame
    BY RequestType DEF ReferencesInv, Frame
  <2>7. /\ f(t).at = "link_tag"
        /\ f(t).user = frame[c].user
        /\ f(t).gid = frame[c].gid
        /\ f(t).todo = frame[c].todo \ {t}
    BY <1>2, RequestType DEF ReferencesInv, Frame
  <2> HIDE DEF f
  <2>8. CASE f(t).todo = {}
    <3>1. frame'[c].at = "answered"
      BY <2>5, <2>6, <2>8, AnsweredAt
    <3>2. CheckedBy(c)'
      BY <3>1, RestIsChecked
    <3> QED
      BY <2>4, <2>5, <3>2, OthersKeep DEF RefersNext
  <2>9. CASE f(t).todo # {}
    <3>1. frame'[c] = f(t)
      BY <2>5, <2>9
    <3>2. CheckedBy(c)'
      BY <1>2, <2>1, <2>3, <2>5, <2>7, <3>1 DEF CheckedBy, Authenticated
    <3> QED
      BY <2>4, <2>5, <3>2, OthersKeep DEF RefersNext
  <2> QED
    BY <2>8, <2>9
<1> QED
  BY <1>1, <1>2 DEF LinkTag

LEMMA CheckLengthRefers ==
  ASSUME ReferencesInv, NEW c \in Conn, CheckLength(c)
  PROVE  RefersNext
<1> DEFINE next == IF req[c].list_of_tags = {} THEN "insert_gazou"
                                               ELSE "insert_tag"
           f == [frame[c] EXCEPT !.todo = req[c].list_of_tags, !.at = next]
<1>1. CASE Answer(c, 2)
  BY <1>1, AnswerRefers DEF CheckLength
<1>2. CASE Step(c, f)
  <2>1. /\ f.at = next
        /\ f.todo = req[c].list_of_tags
        /\ f.user = frame[c].user
    BY RequestType DEF ReferencesInv, Frame
  <2>2. frame[c].user \in Registered /\ req[c].method = "send_gazou"
    BY DEF CheckLength, ReferencesInv, CheckedBy, Authenticated,
           AuthenticatedMethods, method_names
  <2>3. UNCHANGED tables /\ Registered' = Registered
    BY DEF CheckLength, tables, Registered
  <2> HIDE DEF f
  <2>4. frame'[c] = f /\ req'[c] = req[c] => CheckedBy(c)'
    BY <2>1, <2>2, <2>3 DEF CheckedBy, Authenticated
  <2> QED
    BY <1>2, <2>3, <2>4, ReadRefers
<1> QED
  BY <1>1, <1>2 DEF CheckLength

LEMMA SendGazouRefers ==
  ASSUME ReferencesInv, NEW c \in Conn, SendGazou(c)
  PROVE  RefersNext
<1>1. CASE Authenticate(c, "check_length")
  BY <1>1, AuthenticateRefers DEF SendGazou
<1> QED
  BY <1>1, CheckLengthRefers, InsertTagRefers, InsertGazouRefers,
     LinkTagRefers DEF SendGazou

\* After a check, the worker moves to the next place with the same user.
LEMMA GotoFields ==
  ASSUME TypeOK, NEW c \in Conn, NEW place
  PROVE  /\ Goto(c, place).at = place
         /\ Goto(c, place).user = frame[c].user
BY RequestType DEF Goto, Frame

LEMMA RelayGazouRefers ==
  ASSUME ReferencesInv, NEW c \in Conn, RelayGazou(c)
  PROVE  RefersNext
<1> DEFINE r   == req[c]
           row == [gazou_id |-> r.id_gazouilli, retweeter |-> frame[c].user,
                   retweet_date |-> r.date]
           free == \A q \in relay : \/ q.gazou_id # r.id_gazouilli
                                    \/ q.retweeter # frame[c].user
           f == Wrote(Answered(c, frame[c], 0), TRUE)
<1>1. r.method = "relay_gazou" /\ r.method \in AuthenticatedMethods
  BY DEF RelayGazou, AuthenticatedMethods, method_names
<1>2. CheckedBy(c) /\ TypeOK
  BY DEF ReferencesInv
<1>3. frame[c].at \in {"select_gazou", "select_relay", "insert_relay"}
        => frame[c].user \in Registered
  BY <1>1, <1>2 DEF CheckedBy, Authenticated
<1>4. CASE Authenticate(c, "select_gazou")
  BY <1>4, AuthenticateRefers DEF FreePlaces
<1>5. CASE Select(c, "select_gazou", r.id_gazouilli \in DOMAIN gazou, 1,
                  "select_relay")
  <2>1. r.id_gazouilli \in DOMAIN gazou /\ UNCHANGED tables
          /\ frame'[c] = Goto(c, "select_relay") /\ req'[c] = r => CheckedBy(c)'
    BY <1>1, <1>2, <1>3, <1>5, GotoFields
    DEF CheckedBy, Authenticated, Select, tables, Registered
  <2> QED
    BY <1>5, <2>1, SelectRefers
<1>6. CASE Select(c, "select_relay", free, 2, "insert_relay")
  <2>1. r.id_gazouilli \in DOMAIN gazou
    BY <1>2, <1>6 DEF CheckedBy, Select
  <2>2. UNCHANGED tables /\ frame'[c] = Goto(c, "insert_relay") /\ req'[c] = r
          => CheckedBy(c)'
    BY <1>1, <1>2, <1>3, <1>6, <2>1, GotoFields
    DEF CheckedBy, Authenticated, Select, tables, Registered
  <2> HIDE DEF free
  <2> QED
    BY <1>6, <2>2, SelectRefers
<1>7. CASE /\ frame[c].at = "insert_relay"
           /\ relay' = relay \cup {row}
           /\ UNCHANGED <<user, gazou, tag, gazou_tag, user_subscription,
                          tag_subscription, drawn>>
           /\ Step(c, f)
  <2>1. r.id_gazouilli \in DOMAIN gazou /\ frame[c].user \in Registered
    BY <1>2, <1>3, <1>7 DEF CheckedBy
  <2>2. ReferencesHold' /\ TablesGrow
    BY <1>7, <2>1 DEF ReferencesInv, ReferencesHold, TablesGrow, Registered
  <2>3. f.at = "answered"
    BY <1>2, RequestType, AnsweredType, AnsweredAt, WroteAt
  <2> HIDE DEF f
  <2> QED
    BY <1>7, <2>2, <2>3, WriteRefers
<1>8. CASE Aborts(c, "insert_relay", row \in relay)
  BY <1>8, AbortsRefers
<1> QED
  BY <1>4, <1>5, <1>6, <1>7, <1>8 DEF RelayGazou

LEMMA GetGazouRefers ==
  ASSUME ReferencesInv, NEW c \in Conn, GetGazou(c)
  PROVE  RefersNext
<1> DEFINE rows == RelayedFor(frame[c].user) \cup WrittenFor(frame[c].user)
           gids == {frame[d].gid : d \in {e \in Conn : frame[e].at = "link_tag"}}
           f(P) == [frame[c] EXCEPT !.page = P, !.left = P, !.pending = gids]
           g(P) == [f(P) EXCEPT !.at = "select_tags"]
           h(e) == [frame[c] EXCEPT !.left = @ \ {e},
                      !.shown = @ \cup ({e} \X TagsOf(e.id))]
<1>1. frame[c].at \in {"select_page", "select_tags"} =>
        frame[c].user \in Registered
  BY DEF ReferencesInv, CheckedBy, Authenticated, GetGazou,
         AuthenticatedMethods, method_names
<1>2. ASSUME NEW k, Step(c, k), UNCHANGED tables, k.user = frame[c].user,
             k.at \in {"answered", "select_tags"},
             frame[c].at \in {"select_page", "select_tags"}
      PROVE  RefersNext
  <2>1. UNCHANGED Registered
    BY <1>2 DEF tables, Registered
  <2>2. frame'[c] = k /\ req'[c] = req[c] => CheckedBy(c)'
    BY <1>1, <1>2, <2>1 DEF CheckedBy, Authenticated
  <2> QED
    BY <1>2, <2>2, ReadRefers
<1>3. ASSUME NEW k \in Frame PROVE Answered(c, k, 0).user = k.user
  BY DEF Answered, Frame
<1>4. CASE Authenticate(c, "select_page")
  BY <1>4, AuthenticateRefers DEF FreePlaces
<1>5. ASSUME NEW P \in Pages(rows, req[c].nb_gazou),
             frame[c].at = "select_page", UNCHANGED tables,
             Step(c, IF P = {} THEN Answered(c, f(P), 0) ELSE g(P))
      PROVE  RefersNext
  <2>1. P \in SUBSET Entry
    BY <1>5, TimelineType DEF Pages, ReferencesInv
  <2>2. gids \in SUBSET Nat
    BY DEF ReferencesInv, TypeOK, Frame
  <2> HIDE DEF gids
  <2>3. f(P) \in Frame
    BY <2>1, <2>2, RequestType DEF ReferencesInv, Frame
  <2>4. f(P).user = frame[c].user
    BY RequestType DEF ReferencesInv, Frame
  <2> HIDE DEF f
  <2>5. g(P).user = frame[c].user /\ g(P).at = "select_tags"
    BY <2>3, <2>4 DEF Frame
  <2> HIDE DEF g
  <2> QED
    BY <1>2, <1>3, <1>5, <2>3, <2>4, <2>5, AnsweredAt
<1>6. ASSUME NEW e \in frame[c].left,
             frame[c].at = "select_tags", UNCHANGED tables,
             Step(c, IF h(e).left = {} THEN Answered(c, h(e), 0) ELSE h(e))
      PROVE  RefersNext
  <2>1. TagsOf(e.id) \subseteq Tag /\ e \in Entry
    BY RequestType DEF ReferencesInv, Frame, TagsOf
  <2>2. {e} \X TagsOf(e.id) \subseteq Entry \X Tag
    BY <2>1
  <2>3. h(e) \in Frame
    BY <2>2, RequestType DEF ReferencesInv, Frame
  <2>4. h(e).user = frame[c].user /\ h(e).at = "select_tags"
    BY <1>6, RequestType DEF ReferencesInv, Frame
  <2> HIDE DEF h
  <2> QED
    BY <1>2, <1>3, <1>6, <2>3, <2>4, AnsweredAt
<1>7. CASE UNCHANGED tables /\ Answer(c, SPEC_ERR_INTERNAL_SRV)
  BY <1>7, AnswerRefers
<1> QED
  BY <1>4, <1>5, <1>6, <1>7 DEF GetGazou, SelectPage, SelectTags

LEMMA WriteUserSubscriptionRefers ==
  ASSUME ReferencesInv, NEW c \in Conn, NEW place, NEW T,
         T \subseteq Registered \X Registered,
         WriteUserSubscription(c, place, T)
  PROVE  RefersNext
<1> DEFINE f == Wrote(Answered(c, frame[c], 0), T # user_subscription)
<1>1. ReferencesHold' /\ TablesGrow
  BY DEF WriteUserSubscription, ReferencesInv, ReferencesHold, TablesGrow,
         Registered
<1>2. f.at = "answered"
  BY RequestType, AnsweredType, AnsweredAt, WroteAt DEF ReferencesInv
<1> HIDE DEF f
<1>3. Step(c, f)
  BY DEF WriteUserSubscription, f
<1> QED
  BY <1>1, <1>2, <1>3, WriteRefers

LEMMA WriteTagSubscriptionRefers ==
  ASSUME ReferencesInv, NEW c \in Conn, NEW place, NEW T,
         T \subseteq Tag \X Registered,
         WriteTagSubscription(c, place, T)
  PROVE  RefersNext
<1> DEFINE f == Wrote(Answered(c, frame[c], 0), T # tag_subscription)
<1>1. ReferencesHold' /\ TablesGrow
  BY DEF WriteTagSubscription, ReferencesInv, ReferencesHold, TablesGrow,
         Registered
<1>2. f.at = "answered"
  BY RequestType, AnsweredType, AnsweredAt, WroteAt DEF ReferencesInv
<1> HIDE DEF f
<1>3. Step(c, f)
  BY DEF WriteTagSubscription, f
<1> QED
  BY <1>1, <1>2, <1>3, WriteRefers

LEMMA FollowUserRefers ==
  ASSUME ReferencesInv, NEW c \in Conn, FollowUser(c)
  PROVE  RefersNext
<1> DEFINE r   == req[c]
           row == <<r.username, frame[c].user>>
<1>1. r.method = "follow_user" /\ r.method \in AuthenticatedMethods
  BY DEF FollowUser, AuthenticatedMethods, method_names
<1>2. CheckedBy(c) /\ TypeOK
  BY DEF ReferencesInv
<1>3. frame[c].at \in {"select_user", "select_subscription",
                       "insert_subscription"} => frame[c].user \in Registered
  BY <1>1, <1>2 DEF CheckedBy, Authenticated
<1>4. CASE Authenticate(c, "select_user")
  BY <1>4, AuthenticateRefers DEF FreePlaces
<1>5. CASE Select(c, "select_user", UsersNamed(r.username) # {}, 1,
                  "select_subscription")
  <2>1. UsersNamed(r.username) # {} => r.username \in Registered
    BY DEF UsersNamed, Registered
  <2>2. UsersNamed(r.username) # {} /\ UNCHANGED tables
          /\ frame'[c] = Goto(c, "select_subscription") /\ req'[c] = r
          => CheckedBy(c)'
    BY <1>1, <1>2, <1>3, <1>5, <2>1, GotoFields
    DEF CheckedBy, Authenticated, Select, tables, Registered
  <2> QED
    BY <1>5, <2>2, SelectRefers
<1>6. CASE Select(c, "select_subscription", row \notin user_subscription, 2,
                  "insert_subscription")
  <2>1. r.username \in Registered
    BY <1>1, <1>2, <1>6 DEF CheckedBy, Select
  <2>2. UNCHANGED tables /\ frame'[c] = Goto(c, "insert_subscription")
          /\ req'[c] = r => CheckedBy(c)'
    BY <1>1, <1>2, <1>3, <1>6, <2>1, GotoFields
    DEF CheckedBy, Authenticated, Select, tables, Registered
  <2> QED
    BY <1>6, <2>2, SelectRefers
<1>7. CASE WriteUserSubscription(c, "insert_subscription",
                                 user_subscription \cup {row})
  <2>1. row \in Registered \X Registered
    BY <1>1, <1>2, <1>3, <1>7 DEF CheckedBy, WriteUserSubscription
  <2>2. user_subscription \cup {row} \subseteq Registered \X Registered
    BY <2>1 DEF ReferencesInv, ReferencesHold
  <2> QED
    BY <1>7, <2>2, WriteUserSubscriptionRefers
<1>8. CASE Aborts(c, "insert_subscription", row \in user_subscription)
  BY <1>8, AbortsRefers
<1> QED
  BY <1>4, <1>5, <1>6, <1>7, <1>8 DEF FollowUser

LEMMA UnfollowUserRefers ==
  ASSUME ReferencesInv, NEW c \in Conn, UnfollowUser(c)
  PROVE  RefersNext
<1> DEFINE r   == req[c]
           row == <<r.username, frame[c].user>>
<1>1. r.method = "unfollow_user" /\ r.method \in AuthenticatedMethods
  BY DEF UnfollowUser, AuthenticatedMethods, method_names
<1>2. CheckedBy(c) /\ TypeOK
  BY DEF ReferencesInv
<1>3. frame[c].at \in {"select_user", "select_subscription"}
        => frame[c].user \in Registered
  BY <1>1, <1>2 DEF CheckedBy, Authenticated
<1>4. ASSUME frame[c].at \in {"select_user", "select_subscription"},
             UNCHANGED tables,
             NEW p \in {"select_subscription", "delete_subscription"},
             frame'[c] = Goto(c, p), req'[c] = r
      PROVE  CheckedBy(c)'
  BY <1>1, <1>2, <1>3, <1>4, GotoFields
  DEF CheckedBy, Authenticated, tables, Registered
<1>5. CASE Authenticate(c, "select_user")
  BY <1>5, AuthenticateRefers DEF FreePlaces
<1>6. CASE Select(c, "select_user", UsersNamed(r.username) # {}, 1,
                  "select_subscription")
  <2>1. frame[c].at = "select_user"
    BY <1>6 DEF Select
  <2> QED
    BY <1>4, <1>6, <2>1, SelectRefers
<1>7. CASE Select(c, "select_subscription", row \in user_subscription, 2,
                  "delete_subscription")
  <2>1. frame[c].at = "select_subscription"
    BY <1>7 DEF Select
  <2> QED
    BY <1>4, <1>7, <2>1, SelectRefers
<1>8. CASE WriteUserSubscription(c, "delete_subscription",
                                 user_subscription \ {row})
  <2>1. user_subscription \ {row} \subseteq Registered \X Registered
    BY DEF ReferencesInv, ReferencesHold
  <2> QED
    BY <1>8, <2>1, WriteUserSubscriptionRefers
<1>9. CASE Aborts(c, "delete_subscription", FALSE)
  BY <1>9, AbortsRefers
<1> QED
  BY <1>5, <1>6, <1>7, <1>8, <1>9 DEF UnfollowUser

LEMMA FollowTagRefers ==
  ASSUME ReferencesInv, NEW c \in Conn, FollowTag(c) \/ UnfollowTag(c)
  PROVE  RefersNext
<1> DEFINE row == <<req[c].tag, frame[c].user>>
<1>1. /\ req[c].method \in {"follow_tag", "unfollow_tag"}
      /\ req[c].method \in AuthenticatedMethods
      /\ req[c].method # "follow_user"
  BY DEF FollowTag, UnfollowTag, AuthenticatedMethods, method_names
<1>2. CheckedBy(c) /\ TypeOK
  BY DEF ReferencesInv
<1>3. frame[c].at \in {"select_subscription", "insert_subscription"}
        => frame[c].user \in Registered
  BY <1>1, <1>2 DEF CheckedBy, Authenticated
<1>4. ASSUME frame[c].at = "select_subscription", UNCHANGED tables,
             NEW p \in {"insert_subscription", "delete_subscription"},
             frame'[c] = Goto(c, p), req'[c] = req[c]
      PROVE  CheckedBy(c)'
  BY <1>1, <1>2, <1>3, <1>4, GotoFields
  DEF CheckedBy, Authenticated, tables, Registered
<1>5. CASE Authenticate(c, "select_subscription")
  BY <1>1, <1>5, AuthenticateRefers
<1>6. ASSUME NEW ok, NEW p \in {"insert_subscription", "delete_subscription"},
             Select(c, "select_subscription", ok, 1, p)
      PROVE  RefersNext
  <2>1. frame[c].at = "select_subscription"
    BY <1>6 DEF Select
  <2> QED
    BY <1>4, <1>6, <2>1, SelectRefers
<1>7. CASE WriteTagSubscription(c, "insert_subscription",
                                tag_subscription \cup {row})
  <2>1. row \in Tag \X Registered
    BY <1>2, <1>3, <1>7, RequestType DEF WriteTagSubscription, Request
  <2>2. tag_subscription \cup {row} \subseteq Tag \X Registered
    BY <2>1 DEF ReferencesInv, ReferencesHold
  <2> QED
    BY <1>7, <2>2, WriteTagSubscriptionRefers
<1>8. CASE WriteTagSubscription(c, "delete_subscription",
                                tag_subscription \ {row})
  <2>1. tag_subscription \ {row} \subseteq Tag \X Registered
    BY DEF ReferencesInv, ReferencesHold
  <2> QED
    BY <1>8, <2>1, WriteTagSubscriptionRefers
<1>9. ASSUME NEW place, NEW clash, Aborts(c, place, clash) PROVE RefersNext
  BY <1>9, AbortsRefers
<1> QED
  BY <1>5, <1>6, <1>7, <1>8, <1>9 DEF FollowTag, UnfollowTag

LEMMA ListRefers ==
  ASSUME ReferencesInv, NEW c \in Conn, NEW method,
         NEW rows \in SUBSET (Name \cup Tag), List(c, method, rows)
  PROVE  RefersNext
<1> DEFINE g == [frame[c] EXCEPT !.list = rows]
<1>1. CASE Authenticate(c, "select_list")
  BY <1>1, AuthenticateRefers DEF FreePlaces
<1>2. CASE UNCHANGED tables /\ Step(c, Answered(c, g, 0))
  <2>1. g \in Frame
    BY RequestType DEF ReferencesInv, Frame
  <2> HIDE DEF g
  <2> QED
    BY <1>2, <2>1, AnsweredAt, WriteRefers, UnchangedRefers
<1>3. CASE UNCHANGED tables /\ Answer(c, SPEC_ERR_INTERNAL_SRV)
  BY <1>3, AnswerRefers
<1> QED
  BY <1>1, <1>2, <1>3 DEF List

LEMMA ListsRefers ==
  ASSUME ReferencesInv, NEW c \in Conn,
         ListFollowedUsers(c) \/ ListFollowedTags(c) \/ ListMyFollowers(c)
  PROVE  RefersNext
<1>1. /\ Followed(frame[c].user) \in SUBSET (Name \cup Tag)
      /\ FollowedTags(frame[c].user) \in SUBSET (Name \cup Tag)
      /\ Followers(frame[c].user) \in SUBSET (Name \cup Tag)
  BY DEF Followed, FollowedTags, Followers
<1> QED
  BY <1>1, ListRefers DEF ListFollowedUsers, ListFollowedTags, ListMyFollowers

LEMMA EnvironmentRefers ==
  ASSUME ReferencesInv, NEW c \in Conn,
         (\E r \in Requests : DispatchRequest(c, r)) \/ Ended(c)
  PROVE  RefersNext
<1>1. frame'[c].at \in {"start", "idle"}
  <2>1. CASE Ended(c)
    BY <2>1 DEF ReferencesInv, TypeOK, Ended, Idle
  <2>2. ASSUME NEW r \in Requests, DispatchRequest(c, r)
        PROVE  frame'[c].at \in {"start", "idle"}
    <3> DEFINE s == r.cookie \in drawn /\ Owners(r.cookie) = {}
    <3>1. frame'[c] = [Idle EXCEPT !.at = "start", !.stale = s]
      BY <2>2 DEF ReferencesInv, TypeOK, DispatchRequest
    <3> HIDE DEF s
    <3> QED
      BY <3>1 DEF Idle
  <2> QED
    BY <2>1, <2>2
<1>2. CheckedBy(c)'
  BY <1>1, RestIsChecked
<1>3. \A d \in Conn \ {c} : frame'[d] = frame[d] /\ req'[d] = req[d]
  BY DEF ReferencesInv, TypeOK, DispatchRequest, Ended
<1>4. UNCHANGED tables
  BY DEF DispatchRequest, Ended
<1> QED
  BY <1>2, <1>3, <1>4, OthersKeep, UnchangedRefers DEF RefersNext

----------------------------------------------------------------------------
(* The inductive step, and the theorems. *)

LEMMA InitReferences == Init => ReferencesInv
<1> SUFFICES ASSUME Init PROVE ReferencesInv
  OBVIOUS
<1>1. TypeOK
  BY InitType
<1>2. ReferencesHold
  BY SeedAssumption DEF Init, StoreInit, ReferencesHold, Registered
<1>3. \A c \in Conn : CheckedBy(c)
  BY DEF Init, Idle, CheckedBy, Authenticated
<1> QED
  BY <1>1, <1>2, <1>3 DEF ReferencesInv

LEMMA NextReferences == ReferencesInv /\ [Next]_vars => ReferencesInv'
<1>1. ASSUME ReferencesInv, UNCHANGED vars PROVE ReferencesInv'
  BY <1>1 DEF ReferencesInv, TypeOK, StoreTypeOK, ReferencesHold, CheckedBy,
              Authenticated, Registered, vars, tables
<1>2. ASSUME ReferencesInv, NEW c \in Conn, Handle(c) PROVE ReferencesInv'
  <2>1. TypeOK
    BY <1>2 DEF ReferencesInv
  <2>2. req[c].method \in {"send_gazou", "relay_gazou", "follow_user",
                           "follow_tag"}
          /\ frame[c].at \in {"insert_gazou", "insert_relay",
                               "insert_subscription"}
          => frame[c].user \in Name
    BY <1>2, <2>1 DEF ReferencesInv, CheckedBy, Authenticated,
                     AuthenticatedMethods, method_names, Registered, TypeOK,
                     StoreTypeOK, UserRow
  <2>3. TypeOK'
    <3>1. CASE SendGazou(c)
      BY <2>1, <2>2, <3>1, SendGazouType DEF SendGazou
    <3>2. CASE RelayGazou(c)
      BY <2>1, <2>2, <3>2, RelayGazouType DEF RelayGazou
    <3>3. CASE FollowUser(c)
      BY <2>1, <2>2, <3>3, FollowUserType DEF FollowUser
    <3>4. CASE FollowTag(c)
      BY <2>1, <2>2, <3>4, FollowTagType DEF FollowTag
    <3> QED
      BY <1>2, <2>1, <3>1, <3>2, <3>3, <3>4, CreateAccountType, ConnectType,
         DisconnectType, GetGazouType, UnfollowUserType, UnfollowTagType,
         ListsType, RefuseMessageType DEF Handle
  <2>4. RefersNext
    <3>1. CASE RefuseMessage(c)
      BY <1>2, <3>1, AnswerRefers DEF RefuseMessage
    <3> QED
      BY <1>2, <3>1, CreateAccountRefers, ConnectRefers, DisconnectRefers,
         SendGazouRefers, RelayGazouRefers, GetGazouRefers, FollowUserRefers,
         UnfollowUserRefers, FollowTagRefers, ListsRefers DEF Handle
  <2> QED
    BY <2>3, <2>4 DEF ReferencesInv, RefersNext
<1>3. ASSUME ReferencesInv, NEW c \in Conn,
             (\E r \in Requests : DispatchRequest(c, r)) \/ Ended(c)
      PROVE  ReferencesInv'
  <2>1. TypeOK
    BY <1>3 DEF ReferencesInv
  <2>2. TypeOK'
    BY <1>3, <2>1, DispatchRequestType, EndedType
  <2> QED
    BY <1>3, <2>2, EnvironmentRefers DEF ReferencesInv, RefersNext
<1> QED
  BY <1>1, <1>2, <1>3 DEF Next

\* The strengthened invariant holds in every reachable state.
THEOREM ReferencesAlways == Spec => []ReferencesInv
<1> QED
  BY InitReferences, NextReferences, PTL DEF Spec

\* The tables, the frames of the workers and their answers stay in their types,
\* whatever requests arrive and however the statements interleave.
THEOREM TypeCorrect == Spec => []TypeOK
<1>1. ReferencesInv => TypeOK
  BY DEF ReferencesInv
<1> QED
  BY <1>1, ReferencesAlways, PTL

\* The foreign keys that init_db.sql declares and SQLite does not enforce hold
\* at all times, even after a worker died between two statements.
THEOREM ReferencesCorrect == Spec => []ReferencesHold
<1>1. ReferencesInv => ReferencesHold
  BY DEF ReferencesInv
<1> QED
  BY <1>1, ReferencesAlways, PTL
============================================================================
