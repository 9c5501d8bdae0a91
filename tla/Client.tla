------------------------------- MODULE Client -------------------------------
(***************************************************************************)
(* The client program (src/client): one per connection.  It keeps a cookie *)
(* and a user name, offers the commands of a menu, sends one request per   *)
(* command, two for relay_gazou, and waits for the answer, whose code it   *)
(* handles in the command or hands to handle_generic_error_code.           *)
(*                                                                         *)
(* A line that is empty or no valid command, and a text that is refused    *)
(* before it is sent, only lead back to a prompt: they are no step here.   *)
(***************************************************************************)
EXTENDS Integers

CONSTANTS
  Conn,
  Name,      \* user names that no JSON escape changes
  Cookie

VARIABLES
  cli,       \* cli[c]: globals and locals of the client of c
  link       \* link[c]: "up", or "lost" when nothing answers at the other end

NotConnected == -1

\* The menu of prompt_user for a client without a cookie, and with one.
LoggedOutMenu == {"quit", "create_account", "connect"}
LoggedInMenu  == {"send_gazou", "get_gazou", "relay_gazou", "follow_user",
  "unfollow_user", "list_followed_users", "list_my_followers", "follow_tag",
  "unfollow_tag", "list_followed_tags", "disconnect"}

Start == [at |-> "prompt",             \* prompt_user, in main
          cookie |-> NotConnected,
          username |-> "",             \* NULL
          command |-> "quit",          \* the command being executed
          named |-> "",                \* the user name typed for it
          choices |-> {},              \* ids that relay_gazou has listed
          code |-> 0,                  \* the answer that ended the program
          why |-> ""]                  \* what ended the program

\* "choosing": the prompt inside relay_gazou, "relaying": its second wait.
ClientRecord ==
  [at : {"prompt", "waiting", "choosing", "relaying", "gone"},
   cookie : Cookie \cup {NotConnected}, username : Name \cup {""},
   command : LoggedOutMenu \cup LoggedInMenu, named : Name \cup {""},
   choices : SUBSET Nat, code : Nat, why : {"", "quit", "lost", "code"}]

TypeOK ==
  /\ cli \in [Conn -> ClientRecord]
  /\ link \in [Conn -> {"up", "lost"}]

Init ==
  /\ cli = [c \in Conn |-> Start]
  /\ link = [c \in Conn |-> "up"]

Become(c, f) == cli' = [cli EXCEPT ![c] = f]

\* A command returns to main, its locals are gone; or the program ends.
Prompt(f)    == [Start EXCEPT !.cookie = f.cookie, !.username = f.username]
Exit(reason) == [Start EXCEPT !.at = "gone", !.why = reason]

Waiting(c) == cli[c].at \in {"waiting", "relaying"}

Menu(c) == IF cli[c].cookie = NotConnected THEN LoggedOutMenu ELSE LoggedInMenu

\* The method of the request that c has sent: relay_gazou first asks for a page.
Asked(c) == IF cli[c].command = "relay_gazou" /\ cli[c].at = "waiting"
              THEN "get_gazou" ELSE cli[c].command

----------------------------------------------------------------------------
(* Sending. *)

\* The user gives a command; its request goes to the server.
Send(c, command, name) ==
  /\ cli[c].at = "prompt"
  /\ command \in Menu(c) \ {"quit"}
  /\ Become(c, [cli[c] EXCEPT !.at = "waiting", !.command = command,
                  !.named = name])
  /\ UNCHANGED link

\* relay_gazou, second half: the id must be one of those listed.
Choose(c, id) ==
  /\ cli[c].at = "choosing"
  /\ id \in cli[c].choices
  /\ Become(c, [cli[c] EXCEPT !.at = "relaying", !.choices = {}])
  /\ UNCHANGED link

\* No id, or another one: the command ends.
GiveUp(c) ==
  /\ cli[c].at = "choosing"
  /\ Become(c, Prompt(cli[c]))
  /\ UNCHANGED link

\* send on a lost connection is refused, or ends the program by a signal.
SendFails(c) ==
  /\ link[c] = "lost"
  /\ cli[c].at \in {"prompt", "choosing"}
  /\ Become(c, Prompt(cli[c])) \/ Become(c, Exit("lost"))
  /\ UNCHANGED link

----------------------------------------------------------------------------
(* Receiving. *)

LoggedOut == Start

\* handle_generic_error_code ends the program.
Abort(f, code) == [Exit("code") EXCEPT !.command = f.command, !.code = code]

\* Mutant: error 14 leaves the name on the screen.
Generic_KeepsName(f, code) ==
  CASE code \in {10, 11, 13} -> Prompt(f)
    [] code = 14 -> [LoggedOut EXCEPT !.username = f.username]
    [] OTHER -> Abort(f, code)

\* Mutant: after error 11 the program waits for a better answer.
Generic_WaitsAgain(f, code) ==
  CASE code = 11 -> f
    [] code \in {10, 13} -> Prompt(f)
    [] code = 14 -> LoggedOut
    [] OTHER -> Abort(f, code)

\* handle_generic_error_code: what the program does about a code that the
\* command f does not name.
Generic(f, code) ==
  CASE code \in {10, 11, 13} -> Prompt(f)
    [] code = 14 -> LoggedOut
    [] OTHER -> Abort(f, code)

\* One operator per command: what it does with the code of its answer, and
\* with what the answer carries (the cookie k, the ids of a page).  Own are the
\* codes that the switch of the command names.
Shown(f, code, Own) == IF code \in Own \cup {0} THEN Prompt(f) ELSE Generic(f, code)

CreateAccount(f, code) == Shown(f, code, {1})

ConnectServer(f, code, k) ==
  IF code = 0 THEN [Prompt(f) EXCEPT !.cookie = k, !.username = f.named]
              ELSE Shown(f, code, {1, 2})

SendGazou(f, code) == Shown(f, code, {1, 2})

\* Mutant: the switch misses its last case.
FollowUser_Misses2(f, code) == Shown(f, code, {1})

FollowUser(f, code)   == Shown(f, code, {1, 2})
UnfollowUser(f, code) == Shown(f, code, {1})
FollowTag(f, code)    == Shown(f, code, {1})
UnfollowTag(f, code)  == Shown(f, code, {1})
Lists(f, code)        == Shown(f, code, {})
GetGazou(f, code)     == Shown(f, code, {})

\* The page that may be relayed from; nothing to relay ends the command.
RelayGazou(f, code, ids) ==
  IF code = 0 /\ ids # {} THEN [f EXCEPT !.at = "choosing", !.choices = ids]
                          ELSE Shown(f, code, {})

\* After a failed relay the generic handler is given the code of the page,
\* which was 0, and ends the program.
Relayed(f, code) == IF code \in {0, 1, 2} THEN Prompt(f) ELSE Generic(f, 0)

Disconnect(f, code) == IF code = 0 THEN LoggedOut ELSE Generic(f, code)

\* What the program does with an answer.
Use(f, code, k, ids) ==
  IF f.at = "relaying" THEN Relayed(f, code) ELSE
  CASE f.command = "create_account" -> CreateAccount(f, code)
    [] f.command = "connect"        -> ConnectServer(f, code, k)
    [] f.command = "send_gazou"     -> SendGazou(f, code)
    [] f.command = "follow_user"    -> FollowUser(f, code)
    [] f.command = "unfollow_user"  -> UnfollowUser(f, code)
    [] f.command = "follow_tag"     -> FollowTag(f, code)
    [] f.command = "unfollow_tag"   -> UnfollowTag(f, code)
    [] f.command = "get_gazou"      -> GetGazou(f, code)
    [] f.command = "relay_gazou"    -> RelayGazou(f, code, ids)
    [] f.command = "disconnect"     -> Disconnect(f, code)
    [] OTHER                        -> Lists(f, code)

Receive(c, code, k, ids) ==
  /\ link[c] = "up"
  /\ Waiting(c)
  /\ Become(c, Use(cli[c], code, k, ids))
  /\ UNCHANGED link

\* recv fails: the code is UINT_MAX-1, which no switch knows.  When the other
\* end is merely gone recv returns 0 instead, and the loop goes on for ever.
ReceiveFails(c) ==
  /\ link[c] = "lost"
  /\ Waiting(c)
  /\ Become(c, Exit("lost"))
  /\ UNCHANGED link

----------------------------------------------------------------------------
\* Mutant: SIGINT only cancels the wait.
Quit_Cancels(c) ==
  /\ cli[c].at # "gone"
  /\ Become(c, IF Waiting(c) THEN Prompt(cli[c]) ELSE Exit("quit"))
  /\ UNCHANGED link

\* The command quit of the menu, SIGINT, or the end of the input.
Quit(c) ==
  /\ cli[c].at # "gone"
  /\ Become(c, Exit("quit"))
  /\ UNCHANGED link

\* The program is run again and connects.
Restart(c) ==
  /\ cli[c].at = "gone"
  /\ Become(c, Start)
  /\ link' = [link EXCEPT ![c] = "up"]

\* The worker at the other end has died.
Lose(c) ==
  /\ cli[c].at # "gone"
  /\ link' = [link EXCEPT ![c] = "lost"]
  /\ UNCHANGED cli
=============================================================================
