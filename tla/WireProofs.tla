----------------------------- MODULE WireProofs -----------------------------
(***************************************************************************)
(* Proofs about Wire, for every size of the buffers and every length of    *)
(* the messages.                                                           *)
(*                                                                         *)
(* As long as no read of the worker has torn a request, one exchange is    *)
(* under way at a time, and it goes through the phases below.  What links  *)
(* one exchange to the next is the newline after an answer, which may be   *)
(* written, sent and read as late as in the middle of the next exchange.   *)
(***************************************************************************)
EXTENDS Wire, TLAPS

----------------------------------------------------------------------------
(* The inductive invariants. *)

\* A client that waits has sent a request, so that the id before id exists.
TypeInv == TypeOK /\ (client = "waiting" => id > 0)

\* s is a message: its bytes say whose, where, and of how many.
IsMessage(s, of) ==
  /\ s # <<>>
  /\ \A j \in 1..Len(s) : s[j] = [of |-> of, pos |-> j, len |-> Len(s)]

\* At most the newline of the answer before is on its way, or still to be
\* written.
NewlineAtMost ==
  /\ worker \in {"read", "newline"}
  /\ Len(to_client) <= IF worker = "newline" THEN 0 ELSE 1
  /\ \A i \in 1..Len(to_client) : to_client[i] = Newline

\* The bytes that the worker writes of its answer, and the newline after them.
Shortest == IF Len(answer) <= BUFSIZE THEN Len(answer) ELSE BUFSIZE
Stream(j) ==
  IF j \in 1..Shortest THEN [of |-> id - 1, pos |-> j, len |-> Len(answer)]
                       ELSE Newline

\* The stream is in part in the tokener and for the rest on its way, behind
\* the newline of the answer before if lead is 1.
Streamed(lead) ==
  /\ lead = 1 => document = <<>>
  /\ Len(document) + Len(to_client)
       = lead + Shortest + (IF worker = "read" THEN 1 ELSE 0)
  /\ \A i \in 1..Len(document) : document[i] = Stream(i)
  /\ \A i \in 1..Len(to_client) :
       to_client[i] = Stream(Len(document) + i - lead)

AtRest ==
  client = "prompt" /\ to_server = <<>> /\ document = <<>> /\ NewlineAtMost

Asked ==
  /\ client = "waiting" /\ document = <<>> /\ NewlineAtMost
  /\ IsMessage(to_server, id - 1)

Answering ==
  /\ client = "waiting" /\ to_server = <<>> /\ document = <<>>
  /\ worker = "write" /\ IsMessage(answer, id - 1)
  /\ Len(to_client) <= 1
  /\ \A i \in 1..Len(to_client) : to_client[i] = Newline

Answered ==
  /\ client = "waiting" /\ to_server = <<>>
  /\ worker \in {"read", "newline"} /\ IsMessage(answer, id - 1)
  /\ \E lead \in {0, 1} : Streamed(lead)

Gone ==
  client = "gone" /\ to_server = <<>> /\ worker \in {"read", "newline"} /\ Cut

PairInv ==
  ~torn => /\ used # <<>> => used[1] = used[2]
           /\ AtRest \/ Asked \/ Answering \/ Answered \/ Gone

----------------------------------------------------------------------------
(* Types. *)

LEMMA MessageFields ==
  ASSUME NEW of \in Int, NEW n \in Nat \ {0}
  PROVE  /\ Message(of, n) \in Seq(Byte) /\ Len(Message(of, n)) = n
         /\ IsMessage(Message(of, n), of)
<1>1. \A i \in 1..n : [of |-> of, pos |-> i, len |-> n] \in Byte
  BY DEF Byte
<1>2. Message(of, n) \in Seq(Byte) /\ Len(Message(of, n)) = n
  BY <1>1 DEF Message
<1>3. \A i \in 1..n : Message(of, n)[i] = [of |-> of, pos |-> i, len |-> n]
  BY DEF Message
<1>4. QED
  BY <1>2, <1>3 DEF IsMessage

LEMMA NothingType == <<>> \in Seq(Byte)
OBVIOUS

LEMMA Joined ==
  ASSUME NEW s \in Seq(Byte), NEW t \in Seq(Byte)
  PROVE  /\ s \o t \in Seq(Byte) /\ Len(s \o t) = Len(s) + Len(t)
         /\ \A i \in 1..Len(s) + Len(t) :
              (s \o t)[i] = IF i <= Len(s) THEN s[i] ELSE t[i - Len(s)]
OBVIOUS

LEMMA NewlineType == Newline \in Byte
BY DEF Byte

LEMMA ByteOf == ASSUME NEW b \in Byte PROVE b.of \in Int
BY DEF Byte, Newline

\* strnlen: no more than the buffer holds is written.
LEMMA WrittenFields ==
  ASSUME answer \in Seq(Byte)
  PROVE  /\ Written \in Seq(Byte) /\ Len(Written) = Shortest
         /\ \A j \in 1..Shortest : Written[j] = answer[j]
<1>1. Len(answer) \in Nat /\ BUFSIZE \in Nat
  BY WireAssumption
<1>2. PICK m : m = Min({Len(answer), BUFSIZE})
  OBVIOUS
<1>3. m = Shortest
  <2>1. Shortest \in {Len(answer), BUFSIZE}
        /\ \A y \in {Len(answer), BUFSIZE} : Shortest <= y
    BY <1>1 DEF Shortest
  <2>2. m \in {Len(answer), BUFSIZE} /\ \A y \in {Len(answer), BUFSIZE} : m <= y
    BY <1>2, <2>1 DEF Min
  <2>3. QED
    BY <1>1, <2>1, <2>2
<1>4. Shortest \in 0..Len(answer)
  BY <1>1 DEF Shortest
<1>5. Written = SubSeq(answer, 1, Shortest)
  BY <1>2, <1>3 DEF Written
<1>6. QED
  BY <1>4, <1>5

LEMMA SkippedFields ==
  ASSUME NEW s \in Seq(Byte), s # <<>>
  PROVE  /\ Skipped(s) \in Seq(Byte)
         /\ s[1] # Newline => Skipped(s) = s
         /\ s[1] = Newline =>
              /\ Len(Skipped(s)) = Len(s) - 1
              /\ \A j \in 1..Len(s) - 1 : Skipped(s)[j] = s[j + 1]
BY DEF Skipped

\* A message that is whole, in part of a sequence, starts with its first byte.
LEMMA WholeHasFirst ==
  ASSUME NEW s \in Seq(Byte), Whole(s)
  PROVE  Len(s) >= 1 /\ s[1].of \in Int
<1>1. Len(s) >= 1
  BY DEF Whole
<1>2. s[1] \in Byte
  BY <1>1
<1>3. QED
  BY <1>1, <1>2, ByteOf

LEMMA SendType == TypeInv /\ Send => TypeInv'
<1> SUFFICES ASSUME TypeInv, Send PROVE TypeInv'
  OBVIOUS
<1>1. PICK n \in RequestLengths : to_server' = to_server \o Message(id, n)
  BY DEF Send
<1>2. n \in Nat \ {0} /\ MaxRequests \in Nat
  BY <1>1, WireAssumption
<1>3. id \in Nat /\ id' \in 0..MaxRequests /\ id' > 0
  BY <1>2 DEF TypeInv, TypeOK, Send
<1>4. Message(id, n) \in Seq(Byte)
  BY <1>2, <1>3, MessageFields
<1>5. to_server' \in Seq(Byte)
  BY <1>1, <1>4 DEF TypeInv, TypeOK
<1>6. QED
  BY <1>3, <1>5 DEF TypeInv, TypeOK, Send

\* One recv: n bytes are taken, and d is what the tokener then has.
Took(n, d) ==
  LET s == document \o SubSeq(to_client, 1, n)
  IN  /\ n \in 1..Len(to_client)
      /\ d = IF document = <<>> THEN Skipped(s) ELSE s
      /\ to_client' = SubSeq(to_client, n + 1, Len(to_client))
      /\ \/ /\ Whole(d)
            /\ used' = <<id - 1, d[1].of>>
            /\ client' = "prompt"
            /\ document' = <<>>
         \/ /\ ~Whole(d)
            /\ document' = d
            /\ UNCHANGED <<client, used>>
         \/ /\ ~Whole(d) /\ d # <<>> /\ ~Unbroken(d, Len(d))
            /\ client' = "gone"
            /\ document' = <<>>
            /\ UNCHANGED used

LEMMA ReceiveTakes == Receive => \E n, d : Took(n, d)
BY DEF Receive, Took

LEMMA TookTypes ==
  ASSUME TypeInv, NEW n, NEW d, Took(n, d)
  PROVE  d \in Seq(Byte) /\ to_client' \in Seq(Byte)
<1>1. document \in Seq(Byte) /\ to_client \in Seq(Byte) /\ n \in 1..Len(to_client)
  BY DEF TypeInv, TypeOK, Took
<1>2. PICK t : t = SubSeq(to_client, 1, n)
  OBVIOUS
<1>3. PICK s : s = document \o t
  OBVIOUS
<1>4. s \in Seq(Byte) /\ s # <<>>
  <2>1. t \in Seq(Byte) /\ Len(t) = n
    BY <1>1, <1>2
  <2>2. s \in Seq(Byte) /\ Len(s) = Len(document) + n
    BY <1>1, <1>3, <2>1, Joined
  <2>3. Len(s) > 0
    BY <1>1, <2>2
  <2>4. QED
    BY <2>2, <2>3
<1>5. d = IF document = <<>> THEN Skipped(s) ELSE s
  BY <1>2, <1>3 DEF Took
<1>6. d \in Seq(Byte)
  BY <1>4, <1>5, SkippedFields
<1>7. to_client' \in Seq(Byte)
  BY <1>1 DEF Took
<1>8. QED
  BY <1>6, <1>7

LEMMA ReceiveType == TypeInv /\ Receive => TypeInv'
<1> SUFFICES ASSUME TypeInv, Receive PROVE TypeInv'
  OBVIOUS
<1>1. PICK n, d : Took(n, d)
  BY ReceiveTakes
<1>2. d \in Seq(Byte) /\ to_client' \in Seq(Byte)
  BY <1>1, TookTypes
<1>3. /\ client = "waiting" /\ id \in Nat /\ id > 0
      /\ UNCHANGED <<id, to_server, worker, answer, torn>>
  BY WireAssumption DEF Receive, TypeInv, TypeOK
<1>4. document' \in Seq(Byte)
  BY <1>1, <1>2, NothingType DEF Took, TypeInv, TypeOK
<1>5. used' \in (Nat \X Int) \cup {<<>>} /\ client' \in {"prompt", "waiting", "gone"}
  <2>1. CASE Whole(d) /\ used' = <<id - 1, d[1].of>> /\ client' = "prompt"
    <3>1. id - 1 \in Nat /\ d[1].of \in Int
      BY <1>2, <1>3, <2>1, WholeHasFirst
    <3>2. QED
      BY <2>1, <3>1
  <2>2. CASE used' = used /\ client' \in {client, "gone"}
    BY <2>2 DEF TypeInv, TypeOK
  <2>3. QED
    BY <1>1, <2>1, <2>2 DEF Took
<1>6. QED
  BY <1>2, <1>3, <1>4, <1>5 DEF TypeInv, TypeOK

LEMMA ReadType == TypeInv /\ Read => TypeInv'
<1> SUFFICES ASSUME TypeInv, Read PROVE TypeInv'
  OBVIOUS
<1>1. PICK n \in 1..Len(to_server) :
        LET msg == SubSeq(to_server, 1, n)
        IN  /\ to_server' = SubSeq(to_server, n + 1, Len(to_server))
            /\ torn' = (torn \/ ~(Unbroken(msg, n) /\ msg[n].pos = msg[n].len))
            /\ \/ /\ Whole(msg)
                  /\ \E m \in AnswerLengths : answer' = Message(msg[1].of, m)
               \/ /\ ~Whole(msg)
                  /\ answer' = Message(Unread, ErrorLength)
  BY DEF Read
<1>2. PICK msg : msg = SubSeq(to_server, 1, n)
  OBVIOUS
<1>3. to_server \in Seq(Byte) /\ msg \in Seq(Byte) /\ to_server' \in Seq(Byte)
  BY <1>1, <1>2 DEF TypeInv, TypeOK
<1>4. answer' \in Seq(Byte)
  <2>1. ASSUME Whole(msg), NEW m \in AnswerLengths, answer' = Message(msg[1].of, m)
        PROVE  answer' \in Seq(Byte)
    <3>1. msg[1].of \in Int /\ m \in Nat \ {0}
      BY <1>3, <2>1, WholeHasFirst, WireAssumption
    <3>2. QED
      BY <2>1, <3>1, MessageFields
  <2>2. CASE answer' = Message(Unread, ErrorLength)
    <3>1. Unread \in Int /\ ErrorLength \in Nat \ {0}
      BY WireAssumption DEF Unread
    <3>2. QED
      BY <2>2, <3>1, MessageFields
  <2>3. QED
    BY <1>1, <1>2, <2>1, <2>2
<1>5. torn' \in BOOLEAN
  BY <1>1
<1>6. QED
  BY <1>3, <1>4, <1>5 DEF TypeInv, TypeOK, Read, clientVars

LEMMA WriteType == TypeInv /\ Write => TypeInv'
<1> SUFFICES ASSUME TypeInv, Write PROVE TypeInv'
  OBVIOUS
<1>1. answer \in Seq(Byte) /\ to_client \in Seq(Byte)
  BY DEF TypeInv, TypeOK
<1>2. Written \in Seq(Byte) /\ Newline \in Byte
  BY <1>1, WrittenFields, NewlineType
<1>3. to_client \o Written \in Seq(Byte) /\ Append(to_client, Newline) \in Seq(Byte)
  BY <1>1, <1>2
<1>4. to_client' \in Seq(Byte) /\ worker' \in {"read", "newline"}
  BY <1>3 DEF Write
<1>5. QED
  BY <1>4 DEF TypeInv, TypeOK, Write, clientVars

LEMMA InitType == Init => TypeInv
<1> SUFFICES ASSUME Init PROVE TypeInv
  OBVIOUS
<1>1. 0 \in 0..MaxRequests
  BY WireAssumption
<1>2. QED
  BY <1>1, NothingType DEF Init, TypeInv, TypeOK

LEMMA NextType == TypeInv /\ [Next]_vars => TypeInv'
<1>1. TypeInv /\ UNCHANGED vars => TypeInv'
  BY DEF TypeInv, TypeOK, vars
<1>2. QED
  BY <1>1, SendType, ReceiveType, ReadType, WriteType DEF Next

\* The types, and that a client that waits has counted its request.
THEOREM WireTypes == Spec => []TypeInv
<1>1. QED
  BY InitType, NextType, PTL DEF Spec

\* The variables keep their types: what is on its way and what the tokener
\* holds are sequences of bytes, of whatever messages and in whatever pieces.
THEOREM WireTypeCorrect == Spec => []TypeOK
<1>1. TypeInv => TypeOK
  BY DEF TypeInv
<1>2. QED
  BY <1>1, WireTypes, PTL

----------------------------------------------------------------------------
(* The phases of an exchange. *)

\* What the tokener has after a recv of n bytes, byte by byte.
LEMMA TookBytes ==
  ASSUME TypeInv, NEW n, NEW d, Took(n, d)
  PROVE  \E skip \in {0, 1} :
           /\ skip = 1 <=> document = <<>> /\ to_client[1] = Newline
           /\ Len(d) = Len(document) + n - skip
           /\ \A i \in 1..Len(d) :
                d[i] = IF i <= Len(document) THEN document[i]
                                             ELSE to_client[i - Len(document) + skip]
           /\ Len(to_client') = Len(to_client) - n
           /\ \A i \in 1..Len(to_client) - n : to_client'[i] = to_client[n + i]
<1>1. document \in Seq(Byte) /\ to_client \in Seq(Byte) /\ n \in 1..Len(to_client)
  BY DEF TypeInv, TypeOK, Took
<1>2. PICK t : t = SubSeq(to_client, 1, n)
  OBVIOUS
<1>3. PICK s : s = document \o t
  OBVIOUS
<1>4. /\ t \in Seq(Byte) /\ Len(t) = n
      /\ \A i \in 1..n : t[i] = to_client[i]
  BY <1>1, <1>2
<1>5. /\ s \in Seq(Byte) /\ Len(s) = Len(document) + n
      /\ \A i \in 1..Len(document) + n :
           s[i] = IF i <= Len(document) THEN document[i] ELSE t[i - Len(document)]
  BY <1>1, <1>3, <1>4, Joined
<1>6. d = IF document = <<>> THEN Skipped(s) ELSE s
  BY <1>2, <1>3 DEF Took
<1>7. /\ Len(to_client') = Len(to_client) - n
      /\ \A i \in 1..Len(to_client) - n : to_client'[i] = to_client[n + i]
  BY <1>1 DEF Took
<1>8. s # <<>> /\ (document = <<>> => s[1] = to_client[1])
  BY <1>1, <1>4, <1>5
<1>9. CASE document = <<>> /\ to_client[1] = Newline
  <2>1. /\ Len(d) = n - 1
        /\ \A i \in 1..n - 1 : d[i] = s[i + 1]
    <3>1. d = Skipped(s) /\ s[1] = Newline /\ Len(s) = n
      BY <1>1, <1>5, <1>6, <1>8, <1>9
    <3>2. QED
      BY <1>5, <1>8, <3>1, SkippedFields
  <2>2. \A i \in 1..n - 1 : d[i] = to_client[i + 1]
    BY <1>1, <1>4, <1>5, <1>9, <2>1
  <2>3. QED
    BY <1>1, <1>7, <1>9, <2>1, <2>2
<1>10. CASE ~(document = <<>> /\ to_client[1] = Newline)
  <2>1. d = s
    BY <1>5, <1>6, <1>8, <1>10, SkippedFields
  <2>2. QED
    BY <1>1, <1>4, <1>5, <1>7, <1>10, <2>1
<1>11. QED
  BY <1>9, <1>10

\* Only the newline of the answer before is there: the tokener skips it.
LEMMA TookNewline ==
  ASSUME TypeInv, NEW n, NEW d, Took(n, d), document = <<>>,
         Len(to_client) <= 1,
         \A i \in 1..Len(to_client) : to_client[i] = Newline
  PROVE  UNCHANGED <<client, document, used>> /\ Len(to_client') = 0
<1>1. n = 1 /\ to_client[1] = Newline /\ Len(to_client) = 1
  <2>1. n \in 1..Len(to_client)
    BY DEF Took
  <2>2. Len(to_client) \in Nat
    BY DEF TypeInv, TypeOK
  <2>3. PICK m : m = Len(to_client)
    OBVIOUS
  <2>4. n = 1 /\ m = 1 /\ 1 \in 1..m
    BY <2>1, <2>2, <2>3
  <2>5. QED
    BY <2>3, <2>4
<1>2. d \in Seq(Byte) /\ Len(d) = 0 /\ Len(to_client') = 0
  BY <1>1, TookTypes, TookBytes
<1>3. d = <<>> /\ ~Whole(d)
  BY <1>2 DEF Whole
<1>4. QED
  BY <1>2, <1>3 DEF Took

LEMMA UnbrokenFields ==
  ASSUME NEW s, NEW i, Unbroken(s, i)
  PROVE  /\ i \in 1..Len(s)
         /\ \A j \in 1..i : s[j].pos = j /\ s[j].of = s[1].of /\ s[j].len = s[1].len
<1>1. i \in 1..Len(s)
  BY DEF Unbroken
<1>2. PICK of, len : of = s[1].of /\ len = s[1].len
  OBVIOUS
<1>3. \A j \in 1..i : s[j] = [of |-> of, pos |-> j, len |-> len]
  BY <1>2 DEF Unbroken
<1>4. ASSUME NEW j \in 1..i
      PROVE  s[j].pos = j /\ s[j].of = of /\ s[j].len = len
  <2>1. PICK b : b = s[j]
    OBVIOUS
  <2>2. b = [of |-> of, pos |-> j, len |-> len]
    BY <1>3, <2>1
  <2>3. b.pos = j /\ b.of = of /\ b.len = len
    BY <2>2
  <2>4. QED
    BY <2>1, <2>3
<1>5. QED
  BY <1>1, <1>2, <1>4

\* A stream of an answer makes a whole document only if the answer is not cut,
\* with its last byte; and it has no gap unless the answer is cut.
LEMMA StreamWhole ==
  ASSUME TypeInv, NEW d \in Seq(Byte), Len(answer) > 0, id \in Int,
         \A i \in 1..Len(d) : d[i] = Stream(i)
  PROVE  /\ Whole(d) => /\ Shortest = Len(answer) /\ Len(d) >= Shortest
                        /\ d[1].of = id - 1
         /\ ~Whole(d) /\ d # <<>> /\ ~Unbroken(d, Len(d)) => Cut
<1>1. Len(answer) \in Nat /\ BUFSIZE \in Nat \ {0}
  BY WireAssumption DEF TypeInv, TypeOK
<1>2. Shortest \in 1..Len(answer)
  BY <1>1 DEF Shortest
<1>3. \A i \in 1..Len(d) : i <= Shortest =>
         /\ d[i] = [of |-> id - 1, pos |-> i, len |-> Len(answer)]
         /\ d[i].of = id - 1 /\ d[i].pos = i /\ d[i].len = Len(answer)
  BY <1>2 DEF Stream
<1>4. \A i \in 1..Len(d) : i > Shortest => d[i].pos = 0
  <2>1. Newline.pos = 0
    BY DEF Newline
  <2>2. ASSUME NEW i \in 1..Len(d), i > Shortest PROVE d[i] = Newline
    <3>1. i \notin 1..Shortest
      BY <1>2, <2>2
    <3>2. d[i] = Stream(i)
      OBVIOUS
    <3>3. QED
      BY <3>1, <3>2 DEF Stream
  <2>3. QED
    BY <2>1, <2>2
<1>5. ASSUME Whole(d)
      PROVE  /\ Shortest = Len(answer) /\ Len(d) >= Shortest
             /\ d[1].of = id - 1
  <2>1. PICK i \in 1..Len(d) : Unbroken(d, i) /\ d[i].pos = d[i].len
    BY <1>5 DEF Whole
  <2>2. d[i].pos = i /\ i >= 1
    BY <2>1, UnbrokenFields
  <2>3. i <= Shortest
    BY <1>2, <1>4, <2>1, <2>2
  <2>4. i = Len(answer)
    BY <1>3, <2>1, <2>2, <2>3
  <2>5. QED
    <3>1. Shortest = Len(answer) /\ Len(d) >= Shortest
      BY <1>1, <1>2, <2>1, <2>3, <2>4
    <3>2. 1 \in 1..Len(d) /\ 1 <= Shortest
      BY <1>2, <2>1
    <3>3. QED
      BY <1>3, <3>1, <3>2
<1>6. ASSUME ~Whole(d), d # <<>>, ~Cut
      PROVE  Unbroken(d, Len(d))
  <2>1. Shortest = Len(answer) /\ Len(d) >= 1
    BY <1>1, <1>6 DEF Cut, Shortest
  <2>2. \A m \in 1..Len(d) : m <= Shortest => Unbroken(d, m)
    <3>1. ASSUME NEW m \in 1..Len(d), m <= Shortest, NEW j \in 1..m
          PROVE  d[j] = [of |-> d[1].of, pos |-> j, len |-> d[1].len]
      <4>1. /\ j \in 1..Len(d) /\ j <= Shortest
            /\ 1 \in 1..Len(d) /\ 1 <= Shortest
        BY <1>2, <3>1
      <4>2. /\ d[j] = [of |-> id - 1, pos |-> j, len |-> Len(answer)]
            /\ d[1].of = id - 1 /\ d[1].len = Len(answer)
        BY <1>3, <4>1
      <4>3. QED
        BY <4>2
    <3>2. QED
      BY <3>1 DEF Unbroken
  <2>3. Len(d) < Shortest
    <3>1. SUFFICES ASSUME Len(d) >= Shortest PROVE FALSE
      BY <1>2
    <3>2. Shortest \in 1..Len(d) /\ Unbroken(d, Shortest)
          /\ d[Shortest].pos = d[Shortest].len
      <4>1. Shortest \in 1..Len(d) /\ Shortest <= Shortest
        BY <1>2, <2>1, <3>1
      <4>2. Unbroken(d, Shortest)
        BY <2>2, <4>1
      <4>3. d[Shortest].pos = Shortest /\ d[Shortest].len = Len(answer)
        BY <1>3, <4>1
      <4>4. QED
        BY <2>1, <4>1, <4>2, <4>3
    <3>3. QED
      BY <1>6, <3>2 DEF Whole
  <2>4. QED
    BY <2>1, <2>2, <2>3
<1>7. QED
  BY <1>5, <1>6

\* The phase of the exchange, and the answers taken so far.
Phase == AtRest \/ Asked \/ Answering \/ Answered \/ Gone
Paired == used # <<>> => used[1] = used[2]

LEMMA SendPair ==
  ASSUME TypeInv, Phase, Paired, Send
  PROVE  Phase' /\ Paired'
<1>1. AtRest
  BY DEF Phase, AtRest, Asked, Answering, Answered, Gone, Send
<1>2. PICK n \in RequestLengths : to_server' = to_server \o Message(id, n)
  BY DEF Send
<1>3. id \in Int /\ n \in Nat \ {0}
  BY <1>2, WireAssumption DEF TypeInv, TypeOK
<1>4. Message(id, n) \in Seq(Byte) /\ IsMessage(Message(id, n), id)
  BY <1>3, MessageFields
<1>5. to_server' = Message(id, n)
  BY <1>1, <1>2, <1>4 DEF AtRest
<1>6. IsMessage(to_server, id - 1)'
  BY <1>3, <1>4, <1>5 DEF IsMessage, Send
<1>7. NewlineAtMost'
  BY <1>1 DEF AtRest, NewlineAtMost, Send
<1>8. Asked'
  BY <1>6, <1>7 DEF Asked, Send
<1>9. QED
  BY <1>8 DEF Phase, Paired, Send

LEMMA ReceiveBefore ==
  ASSUME TypeInv, Asked \/ Answering, Paired, Receive
  PROVE  Phase' /\ Paired'
<1>1. PICK n, d : Took(n, d)
  BY ReceiveTakes
<1>2. /\ document = <<>> /\ Len(to_client) <= 1
      /\ \A i \in 1..Len(to_client) : to_client[i] = Newline
  <2>1. CASE Asked
    <3>1. Len(to_client) \in Nat
      BY DEF TypeInv, TypeOK
    <3>2. QED
      BY <2>1, <3>1 DEF Asked, NewlineAtMost
  <2>2. CASE Answering
    BY <2>2 DEF Answering
  <2>3. QED
    BY <2>1, <2>2
<1>3. UNCHANGED <<client, document, used>> /\ Len(to_client') = 0
  BY <1>1, <1>2, TookNewline
<1>4. UNCHANGED <<id, to_server, worker, answer, torn>>
  BY DEF Receive
<1>5. CASE Asked
  <2>1. NewlineAtMost'
    BY <1>3, <1>4, <1>5 DEF Asked, NewlineAtMost
  <2>2. Asked'
    BY <1>3, <1>4, <1>5, <2>1 DEF Asked, IsMessage
  <2>3. QED
    BY <1>3, <2>2 DEF Phase, Paired
<1>6. CASE Answering
  <2>1. Answering'
    BY <1>3, <1>4, <1>6 DEF Answering, IsMessage
  <2>2. QED
    BY <1>3, <2>1 DEF Phase, Paired
<1>7. QED
  BY <1>5, <1>6

\* What the tokener has, and what is still on its way, after a recv.
LEMMA TookStream ==
  ASSUME TypeInv, Answered, NEW n, NEW d, Took(n, d)
  PROVE  /\ Shortest >= 1
         /\ Len(d) + Len(to_client') = Shortest + IF worker = "read" THEN 1 ELSE 0
         /\ \A i \in 1..Len(d) : d[i] = Stream(i)
         /\ \A i \in 1..Len(to_client') : to_client'[i] = Stream(Len(d) + i)
<1>1. PICK lead \in {0, 1} : Streamed(lead)
  BY DEF Answered
<1>2. PICK skip \in {0, 1} :
        /\ skip = 1 <=> document = <<>> /\ to_client[1] = Newline
        /\ Len(d) = Len(document) + n - skip
        /\ \A i \in 1..Len(d) :
             d[i] = IF i <= Len(document) THEN document[i]
                                          ELSE to_client[i - Len(document) + skip]
        /\ Len(to_client') = Len(to_client) - n
        /\ \A i \in 1..Len(to_client) - n : to_client'[i] = to_client[n + i]
  BY TookBytes
<1>3. /\ Len(document) \in Nat /\ Len(to_client) \in Nat
      /\ document = <<>> <=> Len(document) = 0
  BY DEF TypeInv, TypeOK
<1>4. n \in 1..Len(to_client)
  BY DEF Took
<1>5. Len(answer) \in Nat \ {0} /\ BUFSIZE \in Nat \ {0}
  BY WireAssumption DEF TypeInv, TypeOK, Answered, IsMessage
<1>6. Shortest \in Nat /\ Shortest >= 1
  BY <1>5 DEF Shortest
<1>7. skip = lead
  <2>1. CASE document # <<>>
    BY <1>1, <1>2, <2>1 DEF Streamed
  <2>2. CASE document = <<>>
    <3>1. to_client[1] = Stream(1 - lead)
      <4>1. 1 \in 1..Len(to_client)
        BY <1>3, <1>4
      <4>2. to_client[1] = Stream(Len(document) + 1 - lead)
        BY <1>1, <4>1 DEF Streamed
      <4>3. Len(document) + 1 - lead = 1 - lead
        BY <1>3, <2>2
      <4>4. QED
        BY <4>2, <4>3
    <3>2. CASE lead = 1
      <4>1. Stream(0) = Newline
        BY <1>6 DEF Stream
      <4>2. QED
        BY <1>2, <2>2, <3>1, <3>2, <4>1
    <3>3. CASE lead = 0
      <4>1. Stream(1).pos = 1
        BY <1>6 DEF Stream
      <4>2. Stream(1) # Newline
        BY <4>1 DEF Newline
      <4>3. QED
        BY <1>2, <3>1, <3>3, <4>2
    <3>4. QED
      BY <3>2, <3>3
  <2>3. QED
    BY <2>1, <2>2
<1>8. Len(d) + Len(to_client') = Shortest + IF worker = "read" THEN 1 ELSE 0
  <2>1. PICK e \in {0, 1} : e = IF worker = "read" THEN 1 ELSE 0
    OBVIOUS
  <2>2. Len(document) + Len(to_client) = lead + Shortest + e
    BY <1>1, <2>1 DEF Streamed
  <2>3. /\ Len(d) = Len(document) + n - lead
        /\ Len(to_client') = Len(to_client) - n
    BY <1>2, <1>7
  <2>4. Len(d) + Len(to_client') = Shortest + e
    BY <1>3, <1>4, <1>6, <2>2, <2>3
  <2>5. QED
    BY <2>1, <2>4
<1>9. ASSUME NEW i \in 1..Len(d) PROVE d[i] = Stream(i)
  <2>1. CASE i <= Len(document)
    <3>1. i \in 1..Len(document) /\ d[i] = document[i]
      BY <1>2, <1>3, <2>1
    <3>2. QED
      BY <1>1, <3>1 DEF Streamed
  <2>2. CASE ~(i <= Len(document))
    <3>1. PICK j : j = i - Len(document) + skip
      OBVIOUS
    <3>2. j \in 1..Len(to_client) /\ d[i] = to_client[j]
          /\ Len(document) + j - lead = i
      BY <1>2, <1>3, <1>4, <1>7, <2>2, <3>1
    <3>3. QED
      BY <1>1, <3>2 DEF Streamed
  <2>3. QED
    BY <2>1, <2>2
<1>10. ASSUME NEW i \in 1..Len(to_client')
       PROVE  to_client'[i] = Stream(Len(d) + i)
  <2>1. PICK j : j = n + i
    OBVIOUS
  <2>2. /\ j \in 1..Len(to_client) /\ to_client'[i] = to_client[j]
        /\ Len(document) + j - lead = Len(d) + i
    BY <1>2, <1>3, <1>4, <1>7, <2>1
  <2>3. QED
    BY <1>1, <2>2 DEF Streamed
<1>11. QED
  BY <1>6, <1>8, <1>9, <1>10

LEMMA ReceiveAnswered ==
  ASSUME TypeInv, Answered, Paired, Receive
  PROVE  Phase' /\ Paired'
<1>1. PICK n, d : Took(n, d)
  BY ReceiveTakes
<1>2. d \in Seq(Byte) /\ to_client' \in Seq(Byte)
  BY <1>1, TookTypes
<1>3. /\ Shortest >= 1
      /\ Len(d) + Len(to_client') = Shortest + IF worker = "read" THEN 1 ELSE 0
      /\ \A i \in 1..Len(d) : d[i] = Stream(i)
      /\ \A i \in 1..Len(to_client') : to_client'[i] = Stream(Len(d) + i)
  BY <1>1, TookStream
<1>4. Len(answer) \in Nat \ {0} /\ BUFSIZE \in Nat \ {0} /\ id \in Int
  BY WireAssumption DEF TypeInv, TypeOK, Answered, IsMessage
<1>5. Shortest \in Nat /\ Len(d) \in Nat /\ Len(to_client') \in Nat
  BY <1>2, <1>4 DEF Shortest
<1>6. /\ Whole(d) => /\ Shortest = Len(answer) /\ Len(d) >= Shortest
                     /\ d[1].of = id - 1
      /\ ~Whole(d) /\ d # <<>> /\ ~Unbroken(d, Len(d)) => Cut
  BY <1>2, <1>3, <1>4, StreamWhole
<1>7. UNCHANGED <<id, to_server, worker, answer, torn>>
  BY DEF Receive
<1>8. CASE Whole(d) /\ used' = <<id - 1, d[1].of>> /\ client' = "prompt"
           /\ document' = <<>>
  <2>1. Paired'
    BY <1>6, <1>8 DEF Paired
  <2>2. PICK e \in {0, 1} : e = IF worker = "read" THEN 1 ELSE 0
    OBVIOUS
  <2>3. Len(to_client') <= e
    BY <1>3, <1>5, <1>6, <1>8, <2>2
  <2>4. \A i \in 1..Len(to_client') : to_client'[i] = Newline
    <3>1. ASSUME NEW i \in 1..Len(to_client') PROVE Len(d) + i \notin 1..Shortest
      BY <1>5, <1>6, <1>8
    <3>2. QED
      BY <1>3, <3>1 DEF Stream
  <2>5. NewlineAtMost'
    BY <1>7, <2>2, <2>3, <2>4 DEF NewlineAtMost, Answered
  <2>6. AtRest'
    BY <1>7, <1>8, <2>5 DEF AtRest, Answered
  <2>7. QED
    BY <2>1, <2>6 DEF Phase
<1>9. CASE document' = d /\ UNCHANGED <<client, used>>
  <2>1. \A j : Stream(j)' = Stream(j)
    BY <1>7 DEF Stream, Shortest
  <2>2. Shortest' = Shortest
    BY <1>7 DEF Shortest
  <2>3. PICK e \in {0, 1} : e = IF worker = "read" THEN 1 ELSE 0
    OBVIOUS
  <2>4. /\ Len(document') + Len(to_client') = 0 + Shortest' + e
        /\ Len(document') = Len(d)
        /\ \A i \in 1..Len(to_client') : Len(d) + i - 0 = Len(d) + i
    BY <1>3, <1>5, <1>9, <2>2, <2>3
  <2>5. Streamed(0)'
    BY <1>3, <1>7, <1>9, <2>1, <2>3, <2>4 DEF Streamed
  <2>6. Answered'
    BY <1>7, <1>9, <2>5 DEF Answered, IsMessage
  <2>7. QED
    BY <1>9, <2>6 DEF Phase, Paired
<1>10. CASE ~Whole(d) /\ d # <<>> /\ ~Unbroken(d, Len(d)) /\ client' = "gone"
            /\ UNCHANGED used
  <2>1. Gone'
    BY <1>6, <1>7, <1>10 DEF Gone, Cut, Answered
  <2>2. QED
    BY <1>10, <2>1 DEF Phase, Paired
<1>11. QED
  BY <1>1, <1>8, <1>9, <1>10 DEF Took

LEMMA ReceivePair ==
  ASSUME TypeInv, Phase, Paired, Receive
  PROVE  Phase' /\ Paired'
<1>1. Asked \/ Answering \/ Answered
  BY DEF Phase, AtRest, Gone, Receive
<1>2. QED
  BY <1>1, ReceiveBefore, ReceiveAnswered

\* A read that returns one request, whole.
LEMMA ReadPair ==
  ASSUME TypeInv, Phase, Paired, Read, ~torn'
  PROVE  Phase' /\ Paired'
<1>1. PICK n \in 1..Len(to_server) :
        LET msg == SubSeq(to_server, 1, n)
        IN  /\ to_server' = SubSeq(to_server, n + 1, Len(to_server))
            /\ torn' = (torn \/ ~(Unbroken(msg, n) /\ msg[n].pos = msg[n].len))
            /\ \/ /\ Whole(msg)
                  /\ \E m \in AnswerLengths : answer' = Message(msg[1].of, m)
               \/ /\ ~Whole(msg)
                  /\ answer' = Message(Unread, ErrorLength)
  BY DEF Read
<1>2. PICK msg : msg = SubSeq(to_server, 1, n)
  OBVIOUS
<1>3. to_server \in Seq(Byte) /\ id \in Int
  BY DEF TypeInv, TypeOK
<1>4. /\ msg \in Seq(Byte) /\ Len(msg) = n
      /\ \A i \in 1..n : msg[i] = to_server[i]
  BY <1>1, <1>2, <1>3
<1>5. to_server # <<>>
  BY <1>1, <1>3
<1>6. Asked
  BY <1>5 DEF Phase, AtRest, Answering, Answered, Gone
<1>7. Unbroken(msg, n) /\ msg[n].pos = msg[n].len
  BY <1>1, <1>2
<1>8. ASSUME NEW j \in 1..Len(to_server)
      PROVE  to_server[j].of = id - 1 /\ to_server[j].len = Len(to_server)
  <2>1. PICK b : b = to_server[j]
    OBVIOUS
  <2>2. b = [of |-> id - 1, pos |-> j, len |-> Len(to_server)]
    BY <1>6, <2>1 DEF Asked, IsMessage
  <2>3. b.of = id - 1 /\ b.len = Len(to_server)
    BY <2>2
  <2>4. QED
    BY <2>1, <2>3
<1>9. n = Len(to_server)
  <2>1. n \in 1..n
    BY <1>1
  <2>2. msg[n].pos = n
    BY <1>7, <2>1, UnbrokenFields
  <2>3. msg[n].len = Len(to_server)
    BY <1>1, <1>4, <1>8, <2>1
  <2>4. QED
    BY <1>7, <2>2, <2>3
<1>10. msg[1].of = id - 1 /\ Whole(msg)
  <2>1. 1 \in 1..n /\ 1 \in 1..Len(to_server) /\ n \in 1..Len(msg)
    BY <1>1, <1>3, <1>4
  <2>2. msg[1].of = id - 1
    BY <1>4, <1>8, <2>1
  <2>3. Whole(msg)
    BY <1>7, <2>1 DEF Whole
  <2>4. QED
    BY <2>2, <2>3
<1>11. PICK m \in AnswerLengths : answer' = Message(id - 1, m)
  BY <1>1, <1>2, <1>10
<1>12. m \in Nat \ {0} /\ id - 1 \in Int
  BY <1>3, <1>11, WireAssumption
<1>13. IsMessage(answer', id - 1)
  BY <1>11, <1>12, MessageFields
<1>14. to_server' = <<>>
  <2>1. to_server' \in Seq(Byte) /\ Len(to_server') = 0
    BY <1>1, <1>3, <1>9
  <2>2. QED
    BY <2>1
<1>15. /\ worker' = "write"
       /\ UNCHANGED <<client, id, document, used, to_client>>
  BY DEF Read, clientVars
<1>16. Len(to_client) <= 1
  <2>1. Len(to_client) \in Nat
    BY DEF TypeInv, TypeOK
  <2>2. QED
    BY <1>6, <2>1 DEF Asked, NewlineAtMost
<1>17. Answering'
  BY <1>6, <1>13, <1>14, <1>15, <1>16
  DEF Answering, Asked, NewlineAtMost, IsMessage
<1>18. QED
  BY <1>15, <1>17 DEF Phase, Paired

\* The worker writes its answer behind what is still on its way.
LEMMA WriteAnswerPair ==
  ASSUME TypeInv, Answering, Paired, Write
  PROVE  Phase' /\ Paired'
<1>1. /\ to_client' = to_client \o Written /\ worker' = "newline"
      /\ UNCHANGED <<client, id, document, used, to_server, answer>>
  BY DEF Answering, Write, clientVars
<1>2. answer \in Seq(Byte) /\ to_client \in Seq(Byte)
  BY DEF TypeInv, TypeOK
<1>3. /\ Written \in Seq(Byte) /\ Len(Written) = Shortest
      /\ \A j \in 1..Shortest : Written[j] = answer[j]
  BY <1>2, WrittenFields
<1>4. PICK lead : lead = Len(to_client)
  OBVIOUS
<1>5. lead \in {0, 1}
  BY <1>2, <1>4 DEF Answering
<1>6. Len(answer) \in Nat \ {0} /\ BUFSIZE \in Nat \ {0}
  BY <1>2, WireAssumption DEF Answering, IsMessage
<1>7. Shortest \in 1..Len(answer)
  BY <1>6 DEF Shortest
<1>8. /\ Len(to_client') = lead + Shortest
      /\ \A i \in 1..lead + Shortest :
           to_client'[i] = IF i <= lead THEN to_client[i] ELSE Written[i - lead]
  BY <1>1, <1>2, <1>3, <1>4, Joined
<1>9. ASSUME NEW i \in 1..lead + Shortest PROVE to_client'[i] = Stream(i - lead)
  <2>1. CASE i <= lead
    <3>1. i = 1 /\ lead = 1 /\ i - lead = 0
      BY <1>5, <1>9, <2>1
    <3>2. to_client[1] = Newline
      BY <1>4, <3>1 DEF Answering
    <3>3. Stream(0) = Newline
      BY <1>7 DEF Stream
    <3>4. QED
      BY <1>8, <2>1, <3>1, <3>2, <3>3
  <2>2. CASE ~(i <= lead)
    <3>1. PICK j : j = i - lead
      OBVIOUS
    <3>2. j \in 1..Shortest /\ j \in 1..Len(answer)
      BY <1>5, <1>6, <1>7, <2>2, <3>1
    <3>3. to_client'[i] = answer[j]
      BY <1>3, <1>8, <2>2, <3>1, <3>2
    <3>4. answer[j] = Stream(j)
      BY <3>2 DEF Stream, Answering, IsMessage
    <3>5. QED
      BY <3>1, <3>3, <3>4
  <2>3. QED
    BY <2>1, <2>2
<1>10. \A j : Stream(j)' = Stream(j)
  BY <1>1 DEF Stream, Shortest
<1>11. Shortest' = Shortest
  BY <1>1 DEF Shortest
<1>12. document' = <<>> /\ document = <<>> /\ Len(document') = 0
  BY <1>1 DEF Answering
<1>13. /\ Len(document') + Len(to_client') = lead + Shortest' + 0
       /\ \A i \in 1..lead + Shortest : Len(document') + i - lead = i - lead
  BY <1>5, <1>7, <1>8, <1>11, <1>12
<1>14. Streamed(lead)'
  <2>1. /\ lead = 1 => document' = <<>>
        /\ \A i \in 1..Len(document') : document'[i] = Stream(i)'
    BY <1>12
  <2>2. \A i \in 1..Len(to_client') :
          to_client'[i] = Stream(Len(document) + i - lead)'
    <3>1. \A i \in 1..lead + Shortest :
            to_client'[i] = Stream(Len(document') + i - lead)
      BY <1>9, <1>13
    <3>2. QED
      BY <1>1, <1>8, <3>1 DEF Stream, Shortest
  <2>3. QED
    BY <1>1, <1>13, <2>1, <2>2 DEF Streamed
<1>15. Answered'
  BY <1>1, <1>5, <1>14 DEF Answered, Answering, IsMessage
<1>16. QED
  BY <1>1, <1>15 DEF Phase, Paired

\* The newline is written, perhaps after the answer has been used, perhaps
\* after the next request has been sent.
LEMMA WriteNewlinePair ==
  ASSUME TypeInv, AtRest \/ Asked \/ Answered \/ Gone, Paired, Write
  PROVE  Phase' /\ Paired'
<1>1. /\ to_client' = Append(to_client, Newline)
      /\ worker = "newline" /\ worker' = "read"
      /\ UNCHANGED <<client, id, document, used, to_server, answer>>
  BY DEF AtRest, Asked, NewlineAtMost, Answered, Gone, Write, clientVars
<1>2. to_client \in Seq(Byte) /\ document \in Seq(Byte)
  BY DEF TypeInv, TypeOK
<1>3. PICK n : n = Len(to_client)
  OBVIOUS
<1>4. /\ n \in Nat /\ Len(to_client') = n + 1 /\ to_client'[n + 1] = Newline
      /\ \A i \in 1..n : to_client'[i] = to_client[i]
  BY <1>1, <1>2, <1>3
<1>5. CASE AtRest \/ Asked
  <2>1. n <= 0
    BY <1>1, <1>3, <1>5 DEF AtRest, Asked, NewlineAtMost
  <2>2. /\ Len(to_client') <= 1
        /\ \A i \in 1..Len(to_client') : to_client'[i] = Newline
    BY <1>4, <2>1
  <2>3. NewlineAtMost'
    BY <1>1, <2>2 DEF NewlineAtMost
  <2>4. AtRest' \/ Asked'
    BY <1>1, <1>5, <2>3 DEF AtRest, Asked, IsMessage
  <2>5. QED
    BY <1>1, <2>4 DEF Phase, Paired
<1>6. CASE Answered
  <2>1. PICK lead \in {0, 1} : Streamed(lead)
    BY <1>6 DEF Answered
  <2>2. Len(document) \in Nat /\ Len(answer) \in Nat /\ BUFSIZE \in Nat
    BY <1>2, WireAssumption DEF TypeInv, TypeOK
  <2>3. Shortest \in Nat
    BY <2>2 DEF Shortest
  <2>4. Len(document) + n = lead + Shortest
    BY <1>1, <1>3, <1>4, <2>1, <2>2, <2>3 DEF Streamed
  <2>5. Stream(Shortest + 1) = Newline
    <3>1. Shortest + 1 \notin 1..Shortest
      BY <2>3
    <3>2. QED
      BY <3>1 DEF Stream
  <2>6. ASSUME NEW i \in 1..Len(to_client')
        PROVE  to_client'[i] = Stream(Len(document) + i - lead)
    <3>1. CASE i \in 1..n
      BY <1>3, <1>4, <2>1, <3>1 DEF Streamed
    <3>2. CASE i = n + 1
      <4>1. Len(document) + i - lead = Shortest + 1
        BY <1>4, <2>2, <2>3, <2>4, <3>2
      <4>2. QED
        BY <1>4, <2>5, <3>2, <4>1
    <3>3. QED
      BY <1>4, <3>1, <3>2
  <2>7. Len(document') + Len(to_client') = lead + Shortest' + 1
    <3>1. Shortest' = Shortest /\ document' = document
      BY <1>1 DEF Shortest
    <3>2. QED
      BY <1>4, <2>2, <2>3, <2>4, <3>1
  <2>8. Streamed(lead)'
    <3>1. \A i \in 1..Len(to_client') :
            to_client'[i] = Stream(Len(document) + i - lead)'
      BY <1>1, <2>6 DEF Stream, Shortest
    <3>2. /\ lead = 1 => document' = <<>>
          /\ \A i \in 1..Len(document') : document'[i] = Stream(i)'
      BY <1>1, <2>1 DEF Streamed, Stream, Shortest
    <3>3. QED
      BY <1>1, <2>7, <3>1, <3>2 DEF Streamed
  <2>9. Answered'
    BY <1>1, <1>6, <2>8 DEF Answered, IsMessage
  <2>10. QED
    BY <1>1, <2>9 DEF Phase, Paired
<1>7. CASE Gone
  BY <1>1, <1>7 DEF Gone, Cut, Phase, Paired
<1>8. QED
  BY <1>5, <1>6, <1>7

LEMMA WritePair ==
  ASSUME TypeInv, Phase, Paired, Write
  PROVE  Phase' /\ Paired'
BY WriteAnswerPair, WriteNewlinePair DEF Phase

----------------------------------------------------------------------------
(* The inductive step, and the theorem. *)

LEMMA InitPair == Init => PairInv
<1> SUFFICES ASSUME Init PROVE PairInv
  OBVIOUS
<1>1. Len(to_client) = 0
  BY DEF Init
<1>2. AtRest
  BY <1>1 DEF Init, AtRest, NewlineAtMost
<1>3. QED
  BY <1>2 DEF PairInv, Init

LEMMA NextPair == TypeInv /\ PairInv /\ [Next]_vars => PairInv'
<1>1. ASSUME PairInv, UNCHANGED vars PROVE PairInv'
  <2>1. UNCHANGED <<client, id, document, to_server, to_client, worker, answer,
                    used, torn>>
    BY <1>1 DEF vars
  <2>2. \A lead : Streamed(lead) => Streamed(lead)'
    BY <2>1 DEF Streamed, Stream, Shortest
  <2>3. QED
    BY <1>1, <2>1, <2>2
    DEF PairInv, AtRest, Asked, Answering, Answered, Gone, NewlineAtMost,
        IsMessage, Cut
<1>2. ASSUME TypeInv, PairInv, Next, ~torn' PROVE Phase' /\ Paired'
  <2>1. ~torn
    BY <1>2 DEF Next, Send, Receive, Read, Write
  <2>2. Phase /\ Paired
    BY <1>2, <2>1 DEF PairInv, Phase, Paired
  <2>3. QED
    BY <1>2, <2>2, SendPair, ReceivePair, ReadPair, WritePair DEF Next
<1>3. QED
  BY <1>1, <1>2 DEF PairInv, Phase, Paired

\* The answer that the client takes is the answer to its request, and it can
\* read it, whatever the sizes of the buffers and the pieces of the stream,
\* as long as no read of the worker tears a request and the answer is not cut
\* (the loop of client.c that feeds the tokener, which looks at no id before
\* it uses the answer, and the two writes of handle_request.c).
THEOREM PairCorrect == Spec => []AnswersPair
<1>1. PairInv => AnswersPair
  BY DEF PairInv, AnswersPair, AtRest, Asked, Answering, Answered, Gone
<1>2. QED
  BY <1>1, WireTypes, InitPair, NextPair, PTL DEF Spec
=============================================================================
