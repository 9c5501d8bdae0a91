------------------------------- MODULE Store -------------------------------
(***************************************************************************)
(* The SQLite database of the server (src/init_db.sql): one variable per   *)
(* table.  The file outlives every process, so a behaviour starts from a   *)
(* database that may already hold accounts and gazouillis.                 *)
(*                                                                         *)
(* Each operator below is what one SQL statement selects.  A statement is  *)
(* atomic (SQLite runs each of them in a transaction of its own), and      *)
(* FOREIGN KEY clauses are not enforced: the code never issues             *)
(* PRAGMA foreign_keys.                                                    *)
(***************************************************************************)
EXTENDS Integers, Sequences, FiniteSets

CONSTANTS
  Name,       \* user names; the empty string is what C uses for "none found"
  Password,
  Cookie,     \* what ABS(RANDOM() % (INT_MAX-1)) can return
  Tag,
  Content,    \* texts of gazouillis
  Date,       \* ISO dates, ordered as their strings are: naturals
  SeedUser,   \* rows of "user" when the behaviour starts
  SeedGazou   \* rows of "gazou" when the behaviour starts

UserRow  == [name : Name, password : Password, cookie : Cookie]
GazouRow == [date : Date, author : Name, content : Content]

ASSUME NameAssumption   == "" \notin Name
ASSUME CookieAssumption == Cookie \subseteq Nat
ASSUME DateAssumption   == Date \subseteq Nat
ASSUME SeedAssumption   ==
  /\ SeedUser \subseteq UserRow
  /\ \A u, v \in SeedUser : u.name = v.name \/ u.cookie = v.cookie => u = v
  /\ SeedGazou \in Seq(GazouRow)
  /\ \A i \in DOMAIN SeedGazou :
       SeedGazou[i].author \in {u.name : u \in SeedUser}

VARIABLES
  user,               \* set of UserRow
  gazou,              \* sequence of GazouRow: the AUTOINCREMENT id is the index
  tag,                \* set of Tag
  gazou_tag,          \* set of <<gazou id, tag>>
  user_subscription,  \* set of <<followed, follower>>
  tag_subscription,   \* set of <<tag, follower>>
  relay               \* set of [gazou_id, retweeter, retweet_date]

tables == <<user, gazou, tag, gazou_tag, user_subscription, tag_subscription,
            relay>>

RelayRow == [gazou_id : Nat, retweeter : Name, retweet_date : Date]

StoreInit ==
  /\ user = SeedUser
  /\ gazou = SeedGazou
  /\ tag = {}
  /\ gazou_tag = {}
  /\ user_subscription = {}
  /\ tag_subscription = {}
  /\ relay = {}

StoreTypeOK ==
  /\ user \subseteq UserRow
  /\ gazou \in Seq(GazouRow)
  /\ tag \subseteq Tag
  /\ gazou_tag \subseteq Nat \X Tag
  /\ user_subscription \subseteq Name \X Name
  /\ tag_subscription \subseteq Tag \X Name
  /\ relay \subseteq RelayRow

----------------------------------------------------------------------------
(* What the SELECT statements return. *)

Registered == {u.name : u \in user}

UsersNamed(n) == {u \in user : u.name = n}

\* SELECT name FROM user WHERE cookie=k
Owners(k) == {u.name : u \in {v \in user : v.cookie = k}}

Followed(n)     == {f \in Name : <<f, n>> \in user_subscription}
Followers(n)    == {f \in Name : <<n, f>> \in user_subscription}
FollowedTags(n) == {t \in Tag : <<t, n>> \in tag_subscription}
TagsOf(id)      == {t \in Tag : <<id, t>> \in gazou_tag}

Entry == [id : Nat, date : Date, retweeter : Name \cup {""}]

\* A gazouilli of interest to n by its author or by one of its tags: the two
\* conditions that the halves of the UNION of get_gazou share.
Interesting(id, n) ==
  \/ gazou[id].author \in Followed(n)
  \/ TagsOf(id) \cap FollowedTags(n) # {}

\* First half of the UNION: one row per relay of an existing gazouilli.
RelayedFor(n) ==
  {[id |-> r.gazou_id, date |-> r.retweet_date, retweeter |-> r.retweeter] :
     r \in {q \in relay : /\ q.gazou_id \in DOMAIN gazou
                          /\ \/ Interesting(q.gazou_id, n)
                             \/ q.retweeter \in Followed(n)}}

\* Second half of the UNION: the gazouillis themselves, retweeter NULL.
WrittenFor(n) ==
  {[id |-> i, date |-> gazou[i].date, retweeter |-> ""] :
     i \in {j \in DOMAIN gazou : Interesting(j, n)}}

\* ORDER BY date DESC LIMIT n over the rows S: ties may be cut anywhere, and a
\* negative n is no limit.
Pages(S, n) ==
  {P \in SUBSET S :
     /\ Cardinality(P) = IF n < 0 \/ Cardinality(S) < n THEN Cardinality(S) ELSE n
     /\ \A e \in P, f \in S \ P : e.date >= f.date}

----------------------------------------------------------------------------
(* Constraints that SQLite does enforce: a statement that would break one  *)
(* of them fails and changes nothing.                                      *)

\* Mutant: the column cookie is not UNIQUE.
UserUnique_AnyCookie(rows) == \A u, v \in rows : u.name = v.name => u = v

\* user.name is the primary key and user.cookie is UNIQUE.
UserUnique(rows) ==
  \A u, v \in rows : u.name = v.name \/ u.cookie = v.cookie => u = v

\* Mutant: the name is no key.
InsertableUser_AnyName(row) == \A u \in user : u.cookie # row.cookie

\* INSERT INTO user
InsertableUser(row) ==
  \A u \in user : u.name # row.name /\ u.cookie # row.cookie

\* UNIQUE(date, author, content) ON CONFLICT ABORT
GazouUnique(row) == \A i \in DOMAIN gazou : gazou[i] # row

\* UPDATE user SET cookie=k WHERE name=n
WithCookie(n, k) ==
  {IF u.name = n THEN [u EXCEPT !.cookie = k] ELSE u : u \in user}

----------------------------------------------------------------------------
(* Every name and every id that a table mentions exists: what the FOREIGN  *)
(* KEY clauses of init_db.sql declare, and only the handlers uphold.       *)
ReferencesHold ==
  /\ \A i \in DOMAIN gazou : gazou[i].author \in Registered
  /\ gazou_tag \subseteq (DOMAIN gazou) \X tag
  /\ user_subscription \subseteq Registered \X Registered
  /\ tag_subscription \subseteq Tag \X Registered
  /\ \A r \in relay : r.gazou_id \in DOMAIN gazou /\ r.retweeter \in Registered
============================================================================
