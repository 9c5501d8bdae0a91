-------------------------- MODULE MethodsService --------------------------
(***************************************************************************)
(* Methods implements Service: the statements of a handler that only check *)
(* something, and those that fill the table "tag", are steps that the      *)
(* service does not see.                                                   *)
(***************************************************************************)
EXTENDS Methods

\* How far the service is with a request whose worker is at this place.
PhaseAt(place) ==
  CASE place \in {"idle", "answered"} -> place
    [] place = "select_cookie" -> "granted"
    [] place = "link_tag"      -> "labelling"
    [] place = "select_tags"   -> "delivering"
    [] OTHER                   -> "open"

SessionAt(f) ==
  [phase |-> PhaseAt(f.at), who |-> f.user, gid |-> f.gid,
   owed |-> IF f.at = "link_tag" THEN f.todo ELSE {},
   code |-> f.code, cookie |-> f.cookie, list |-> f.list, page |-> f.page]

S == INSTANCE Service WITH
       request <- req,
       session <- [c \in Conn |-> SessionAt(frame[c])],
       issued  <- drawn,
       tag     <- {}

\* Whatever the workers interleave, each request takes effect at one instant
\* at which all that its handler checked by earlier statements is still true
\* (methods.c:391-447 and the other handlers), and every refusal is true when
\* it is given and leaves the tables alone, but for the three methods of which
\* Service promises less.
ImplementsService == S!Spec
=============================================================================
