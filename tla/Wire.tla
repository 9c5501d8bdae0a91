-------------------------------- MODULE Wire --------------------------------
(***************************************************************************)
(* The byte stream between one client and its worker.  TCP keeps the bytes *)
(* in order and loses none while both live, but a read may return any part *)
(* of what is there.  The worker takes one read for one request            *)
(* (handle_request.c); the client feeds what it reads to a JSON tokener    *)
(* until that has a whole document (client.c).                             *)
(*                                                                         *)
(* A byte of a message is the id of the message, its place in it and the   *)
(* message's length; the newline after an answer is a byte of its own.     *)
(***************************************************************************)
EXTENDS Integers, Sequences, FiniteSetsExt

CONSTANTS
  BUFSIZE,         \* the worker's buffer
  MAXDATASIZE,     \* the client's
  RequestLengths,
  AnswerLengths,   \* of the answers to requests that were read
  ErrorLength,     \* of the answer to one that was not: {"error":"","id":-1,...}
  MaxRequests      \* bound: requests the client sends

ASSUME WireAssumption ==
  /\ BUFSIZE \in Nat \ {0, 1} /\ MAXDATASIZE \in Nat \ {0}
  /\ RequestLengths \subseteq Nat \ {0} /\ AnswerLengths \subseteq Nat \ {0}
  /\ ErrorLength \in 1..BUFSIZE /\ MaxRequests \in Nat

Unread  == -1     \* the id of an error answer to a request without one
Newline == [of |-> 0, pos |-> 0, len |-> 0]     \* told apart by its place

Byte == [of : Int, pos : Nat \ {0}, len : Nat \ {0}] \cup {Newline}

\* Mutant: places counted from 0.
Message_FromZero(of, n) ==
  [i \in 1..n |-> [of |-> of, pos |-> i - 1, len |-> n]]

Message(of, n) == [i \in 1..n |-> [of |-> of, pos |-> i, len |-> n]]

VARIABLES
  client,     \* "prompt", "waiting", or "gone" on an answer it cannot read
  id,         \* the counter of create_request: the next request's id
  document,   \* what the tokener has been given of an unfinished answer
  to_server,  \* bytes on their way to the worker
  to_client,  \* bytes on their way to the client
  worker,     \* "read", "write", or "newline"
  answer,     \* the answer the worker is writing
  used,       \* history: <<id of a request, id of the answer taken for it>>
  torn        \* history: a read did not return one request, whole

vars == <<client, id, document, to_server, to_client, worker, answer, used,
          torn>>
clientVars == <<client, id, document, used>>

TypeOK ==
  /\ client \in {"prompt", "waiting", "gone"}
  /\ id \in 0..MaxRequests
  /\ document \in Seq(Byte)
  /\ to_server \in Seq(Byte)
  /\ to_client \in Seq(Byte)
  /\ worker \in {"read", "write", "newline"}
  /\ answer \in Seq(Byte)
  /\ used \in (Nat \X Int) \cup {<<>>}
  /\ torn \in BOOLEAN

Init ==
  /\ client = "prompt" /\ id = 0 /\ document = <<>>
  /\ to_server = <<>> /\ to_client = <<>>
  /\ worker = "read" /\ answer = <<>>
  /\ used = <<>> /\ torn = FALSE

----------------------------------------------------------------------------
(* The client. *)

\* create_request, send_message, and a new tokener for the answer.
Send ==
  /\ client = "prompt"
  /\ id < MaxRequests
  /\ \E n \in RequestLengths : to_server' = to_server \o Message(id, n)
  /\ id' = id + 1
  /\ document' = <<>>
  /\ client' = "waiting"
  /\ UNCHANGED <<to_client, worker, answer, used, torn>>

\* Mutant: the newline before a document is not skipped.
Skipped_Nothing(s) == s

\* The tokener skips white space before a document.
Skipped(s) == IF s[1] = Newline THEN Tail(s) ELSE s

\* s is an answer up to its byte i, from the first one on and without a gap.
Unbroken(s, i) ==
  /\ i \in 1..Len(s)
  /\ \A j \in 1..i : s[j] = [of |-> s[1].of, pos |-> j, len |-> s[1].len]

Whole(s) == \E i \in 1..Len(s) : Unbroken(s, i) /\ s[i].pos = s[i].len

\* One recv.  A whole document is the answer, and the rest of the buffer is
\* thrown away with the tokener.  A newline inside an answer that was cut
\* falls in a string, where it does no harm, or elsewhere, where it may end
\* the parsing: then there is no answer, and the program ends.
Receive ==
  /\ client = "waiting"
  /\ \E n \in 1..Len(to_client) :
       LET s == document \o SubSeq(to_client, 1, n)
           d == IF document = <<>> THEN Skipped(s) ELSE s
       IN  /\ n <= MAXDATASIZE
           /\ to_client' = SubSeq(to_client, n + 1, Len(to_client))
           /\ \/ /\ Whole(d)
                 /\ used' = <<id - 1, d[1].of>>
                 /\ client' = "prompt"
                 /\ document' = <<>>
              \/ /\ ~Whole(d)
                 /\ document' = d
                 /\ UNCHANGED <<client, used>>
              \/ /\ ~Whole(d) /\ d # <<>> /\ ~Unbroken(d, Len(d))
                 /\ client' = "gone"
                 /\ document' = <<>>
                 /\ UNCHANGED used
  /\ UNCHANGED <<id, to_server, worker, answer, torn>>

----------------------------------------------------------------------------
(* The worker. *)

\* Mutant: one byte less.
Capacity_OffByOne == BUFSIZE - 2

\* What read is asked for: the last byte of msg stays '\0'.
Capacity == BUFSIZE - 1

\* One read, parsed as JSON: what follows a whole request is ignored.
Read ==
  /\ worker = "read"
  /\ \E n \in 1..Len(to_server) :
       LET msg == SubSeq(to_server, 1, n) IN
       /\ n <= Capacity
       /\ to_server' = SubSeq(to_server, n + 1, Len(to_server))
       /\ torn' = (torn \/ ~(Unbroken(msg, n) /\ msg[n].pos = msg[n].len))
       /\ \/ /\ Whole(msg)
             /\ \E m \in AnswerLengths : answer' = Message(msg[1].of, m)
          \/ /\ ~Whole(msg)
             /\ answer' = Message(Unread, ErrorLength)
  /\ worker' = "write"
  /\ UNCHANGED <<clientVars, to_client>>

\* Mutant: a place is kept for a '\0'.
Written_OffByOne == SubSeq(answer, 1, Min({Len(answer), BUFSIZE - 1}))

\* answer_string_len = strnlen(answer_string, BUFSIZE)
Written == SubSeq(answer, 1, Min({Len(answer), BUFSIZE}))

\* The answer, and its newline by a second write.
Write ==
  /\ \/ /\ worker = "write"
        /\ to_client' = to_client \o Written
        /\ worker' = "newline"
     \/ /\ worker = "newline"
        /\ to_client' = Append(to_client, Newline)
        /\ worker' = "read"
  /\ UNCHANGED <<clientVars, to_server, answer, torn>>

----------------------------------------------------------------------------
Next == Send \/ Receive \/ Read \/ Write

Spec == Init /\ [][Next]_vars

\* Bytes that were sent are read, by either side; the worker writes its answer.
LiveSpec == Spec /\ WF_vars(Receive) /\ WF_vars(Read) /\ WF_vars(Write)

----------------------------------------------------------------------------
(* Properties. *)

\* The answer under way, or the last one, is longer than what is written.
Cut == Len(answer) > BUFSIZE

\* The answer that the client takes for a request is the answer to it, and it
\* can read it, as long as every read of the worker returns one request and
\* the answer is not cut.  The code relies on that: an id that does not match
\* is reported and the answer used (client.c:148), a newline left over from the
\* answer before precedes the next one, and answers come in pieces of any size.
AnswersPair ==
  ~torn => /\ used # <<>> => used[1] = used[2]
           /\ client = "gone" => Cut

\* A client that waits gets its answer, however it is cut into pieces, unless
\* the worker has cut it short or has misread the request.
AnswerArrives == client = "waiting" ~> client # "waiting" \/ Cut \/ torn

\* An answer of at most 6000 bytes, the largest of the protocol, reaches the
\* client ("La taille maximum d'une APDU est de 6000 octets",
\* spec_protocole.md:61); the worker writes 1500 bytes of it
\* (handle_request.c:73), and the client goes on waiting for the rest.
LongAnswersArrive == client = "waiting" ~> client # "waiting" \/ torn
=============================================================================
