----------------------------- MODULE MCSystem -----------------------------
(* Small instances of System for TLC. *)
EXTENDS System

CONSTANTS c1, c2

\* A request whose fields are all arbitrary.
Blank == [method |-> "connect", id |-> TRUE, cookie |-> 1, username |-> "ana",
          password |-> "p", tag |-> "t", list_of_tags |-> {}, content |-> "hi",
          date |-> 1, id_gazouilli |-> 1, nb_gazou |-> 1]

TwoUsers == {[name |-> n, password |-> "p", cookie |-> IF n = "ana" THEN 1 ELSE 2] :
               n \in {"ana", "bob"}}
OneGazou == <<[date |-> 1, author |-> "bob", content |-> "hi"]>>
NoGazou  == <<>>

WithAnyCookie(R) == {[r EXCEPT !.cookie = k] : r \in R, k \in Cookie}

----------------------------------------------------------------------------
(* Two programs log in to one account or to two, follow bob, relay what they *)
(* are shown, and log out, while they lock each other's statements.         *)
SessionRequests ==
  {[Blank EXCEPT !.username = "ana"], [Blank EXCEPT !.username = "bob"]}
  \cup WithAnyCookie(
         {[Blank EXCEPT !.method = m] : m \in {"get_gazou", "relay_gazou"}}
         \cup {[Blank EXCEPT !.method = "follow_user", !.username = "bob"],
               [Blank EXCEPT !.method = "disconnect"]})

----------------------------------------------------------------------------
(* One program that unfollows a user it does not follow. *)
UnfollowRequests ==
  {Blank} \cup WithAnyCookie({[Blank EXCEPT !.method = "unfollow_user",
                                            !.username = "bob"]})
=============================================================================
