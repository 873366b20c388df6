---------------------------- MODULE HttpConnection ----------------------------
(***************************************************************************)
(* One connection of SocketHttpServer, from the first read to close(): the *)
(* bytes of the client's stream are numbered from 1, the server has read   *)
(* the first `taken` of them.  The client may send in pieces of any size,  *)
(* stall, or end its stream, at any point; it reads the answer when it has *)
(* sent everything.  A socket that is closed with bytes unread, or that    *)
(* bytes reach after close(), is reset, and a reset may destroy an answer  *)
(* the client has not read yet (this much of TCP is external).             *)
(***************************************************************************)
EXTENDS Integers, Sequences

CONSTANTS
    Requests,      \* the requests a client may send
    MaxHead,       \* 1 << 16: limit on the request head
    MaxBody,       \* 1048576: limit on the request body
    Chunk,         \* 4096: size of a read
    Terminator,    \* length of the blank line that ends a head
    MaxDrain,      \* 8 * 1048576: limit on the drain after a 413
    MaxResponse    \* bound on the size of a response

\* A Content-Length header is a sequence of digits and of NonDigit, which
\* stands for any other character.
NonDigit == -1

RequestType ==
    [head: Nat,               \* bytes before the blank line
     total: Nat,              \* bytes the client means to send
     wellFormed: BOOLEAN,     \* ParseHttpRequest accepts the head
     chunked: BOOLEAN,        \* a Transfer-Encoding header
     hasLength: BOOLEAN,      \* a Content-Length header
     rawLength: Seq(NonDigit .. 9)]

ASSUME RequestsAssumption == Requests \subseteq RequestType
ASSUME LimitsAssumption ==
    /\ MaxHead \in Nat /\ MaxBody \in Nat /\ MaxDrain \in Nat
    /\ Terminator \in Nat \ {0} /\ Chunk \in Nat \ {0} /\ MaxResponse \in Nat \ {0}

VARIABLES
    request,          \* what the client sends
    sent, ended,      \* bytes sent so far; the client has ended its stream
    taken,            \* bytes the server has read
    pc, status,       \* step of HandleConnection; status of the response, 0 for none yet
    length,           \* the Content-Length in force
    calls,            \* history: ranges of the stream handed to the handler as bodies
    unsent,           \* bytes of the response not yet sent
    drained,          \* bytes discarded after a 413
    gaveUp,           \* history: a time or size limit cut the response or the drain short
    reset             \* the connection was reset

clientVars == <<request, sent, ended>>
answerVars == <<status, unsent>>
vars == <<clientVars, taken, pc, answerVars, length, calls, drained, gaveUp, reset>>

Steps == {"head", "body", "send", "drain", "close", "closed"}

TypeOK ==
    /\ request \in Requests
    /\ sent \in 0 .. request.total
    /\ ended \in BOOLEAN
    /\ taken \in 0 .. sent
    /\ pc \in Steps
    /\ status \in {0, 200, 400, 413, 500}
    /\ length \in Nat
    /\ calls \in Seq([from: Nat, to: Nat])
    /\ unsent \in 0 .. MaxResponse
    /\ drained \in Nat
    /\ gaveUp \in BOOLEAN
    /\ reset \in BOOLEAN

Init ==
    /\ request \in Requests
    /\ sent = 0 /\ ended = FALSE /\ taken = 0
    /\ pc = "head" /\ status = 0 /\ length = 0 /\ calls = <<>> /\ unsent = 0
    /\ drained = 0 /\ gaveUp = FALSE /\ reset = FALSE

-----------------------------------------------------------------------------
(* Framing.                                                                *)

\* Mutant of LengthStep: the limit is not tested in the loop, only after it,
\* on a result that has wrapped around.
LengthStepWraps(acc, c) ==
    IF acc.stop THEN acc
    ELSE IF c = NonDigit
         THEN [acc EXCEPT !.valid = FALSE, !.stop = TRUE]
         ELSE [acc EXCEPT !.length = (@ * 10 + c) % 128]

\* One character of the Content-Length loop.
LengthStep(acc, c) ==
    IF acc.stop THEN acc
    ELSE IF c = NonDigit \/ acc.length > MaxBody
         THEN [acc EXCEPT !.valid = FALSE, !.stop = TRUE]
         ELSE [acc EXCEPT !.length = @ * 10 + c]

\* The Content-Length loop: its state after each number of characters.
LengthLoop(start, raw) ==
    LET loop[i \in 0 .. Len(raw)] ==
            IF i = 0 THEN start ELSE LengthStep(loop[i - 1], raw[i])
    IN  loop

\* The length and validity of the framing that the headers announce.
Framing(r) ==
    LET raw == IF r.hasLength THEN r.rawLength ELSE <<>>
    IN  LengthLoop([length |-> 0, stop |-> FALSE,
                    valid |-> ~r.chunked /\ (r.hasLength => r.rawLength # <<>>)], raw)[Len(raw)]

BodyStart(r) == r.head + Terminator
BodySize == taken - BodyStart(request)

\* The step goes on to answer with status s, in a response of any size.
Answer(s) ==
    /\ status' = s
    /\ unsent' \in 1 .. MaxResponse
    /\ pc' = "send"

-----------------------------------------------------------------------------
(* The client.                                                             *)

ClientDone == ended \/ sent = request.total

\* Bytes that reach a closed socket are answered with a reset.
ClientSends(n) ==
    /\ ~ended /\ ~reset
    /\ sent + n <= request.total
    /\ sent' = sent + n
    /\ reset' = (pc = "closed")
    /\ UNCHANGED <<request, ended, taken, pc, answerVars, length, calls, drained, gaveUp>>

\* The client shuts its side down, perhaps in the middle of the request.
ClientEnds ==
    /\ ~ended
    /\ ended' = TRUE
    /\ UNCHANGED <<request, sent, taken, pc, answerVars, length, calls, drained, gaveUp, reset>>

-----------------------------------------------------------------------------
(* HandleConnection.                                                       *)

\* The head is complete: ParseHttpRequest and the framing decide.
ParseHead ==
    LET f == Framing(request) IN
    /\ length' = f.length
    /\ IF ~request.wellFormed THEN Answer(400)
       ELSE IF f.length > MaxBody THEN Answer(413)
       ELSE IF ~f.valid THEN Answer(400)
       ELSE pc' = "body" /\ UNCHANGED answerVars

\* One read of ReadRequestHead; the search for the blank line follows it.
ReadHead(n) ==
    /\ pc = "head"
    /\ taken + n <= sent
    /\ taken' = taken + n
    /\ IF taken' >= BodyStart(request)
       THEN IF request.head > MaxHead THEN Answer(400) /\ UNCHANGED length ELSE ParseHead
       ELSE /\ IF taken' > MaxHead THEN Answer(400) ELSE UNCHANGED <<pc, answerVars>>
            /\ UNCHANGED length
    /\ UNCHANGED <<clientVars, calls, drained, gaveUp, reset>>

\* Mutant of ReadBody: reads a whole chunk, past the end of the body.
ReadBodyPast(n) ==
    /\ pc = "body"
    /\ BodySize < length
    /\ taken + n <= sent
    /\ taken' = taken + n
    /\ UNCHANGED <<clientVars, pc, answerVars, length, calls, drained, gaveUp, reset>>

\* One read of the body, at most what is missing.
ReadBody(n) ==
    /\ pc = "body"
    /\ BodySize < length
    /\ n <= length - BodySize
    /\ taken + n <= sent
    /\ taken' = taken + n
    /\ UNCHANGED <<clientVars, pc, answerVars, length, calls, drained, gaveUp, reset>>

\* Mutant of ReadFails: no receive timeout.
ReadFailsAtEnd ==
    /\ pc = "head" \/ (pc = "body" /\ BodySize < length)
    /\ taken = sent /\ ended
    /\ Answer(400)
    /\ UNCHANGED <<clientVars, taken, length, calls, drained, gaveUp, reset>>

\* read() finds nothing: the stream has ended, or nothing came for 10 seconds.
ReadFails ==
    /\ pc = "head" \/ (pc = "body" /\ BodySize < length)
    /\ taken = sent
    /\ Answer(400)
    /\ UNCHANGED <<clientVars, taken, length, calls, drained, gaveUp, reset>>

\* Mutant of CallHandler: hands over everything that was read.
CallWithEverything ==
    /\ pc = "body" /\ BodySize >= length
    /\ calls' = Append(calls, [from |-> BodyStart(request), to |-> taken])
    /\ \E s \in {200, 400, 413, 500} : Answer(s)
    /\ UNCHANGED <<clientVars, taken, length, drained, gaveUp, reset>>

\* The handler gets the first `length` bytes after the head.  It returns a
\* response (413 if that would be too large) or throws, which is caught: 500.
CallHandler ==
    /\ pc = "body" /\ BodySize >= length
    /\ calls' = Append(calls, [from |-> BodyStart(request), to |-> BodyStart(request) + length])
    /\ \E s \in {200, 400, 413, 500} : Answer(s)
    /\ UNCHANGED <<clientVars, taken, length, drained, gaveUp, reset>>

\* Mutant of AfterSend: a rejected upload is not drained.
AfterSendClose == "close"

AfterSend == IF status = 413 THEN "drain" ELSE "close"

\* Mutant of SendSome: the rest is not compared with what was sent.
SendTooMuch(n) ==
    /\ pc = "send"
    /\ unsent' = unsent - n
    /\ pc' = IF unsent' = 0 THEN AfterSend ELSE "send"
    /\ UNCHANGED <<clientVars, taken, status, length, calls, drained, gaveUp, reset>>

\* send() takes some bytes of the response.
SendSome(n) ==
    /\ pc = "send"
    /\ n <= unsent
    /\ unsent' = unsent - n
    /\ pc' = IF unsent' = 0 THEN AfterSend ELSE "send"
    /\ UNCHANGED <<clientVars, taken, status, length, calls, drained, gaveUp, reset>>

\* send() fails, or the client took nothing for 10 seconds: the rest is dropped.
SendFails ==
    /\ pc = "send"
    /\ gaveUp' = TRUE
    /\ pc' = AfterSend
    /\ UNCHANGED <<clientVars, taken, answerVars, length, calls, drained, reset>>

\* One recv() of the drain.
Drain(n) ==
    /\ pc = "drain"
    /\ drained < MaxDrain
    /\ taken + n <= sent
    /\ taken' = taken + n
    /\ drained' = drained + n
    /\ UNCHANGED <<clientVars, pc, answerVars, length, calls, gaveUp, reset>>

\* The drain stops: all the client means to send has been read, or it paused
\* for 100 ms, or the size limit is reached, or one second is over.
DrainEnds ==
    /\ pc = "drain"
    /\ pc' = "close"
    /\ \/ taken = sent /\ ClientDone /\ UNCHANGED gaveUp
       \/ gaveUp' = TRUE
    /\ UNCHANGED <<clientVars, taken, answerVars, length, calls, drained, reset>>

Close ==
    /\ pc = "close"
    /\ pc' = "closed"
    /\ reset' = (taken < sent)
    /\ UNCHANGED <<clientVars, taken, answerVars, length, calls, drained, gaveUp>>

-----------------------------------------------------------------------------

ServerStep ==
    \/ \E n \in 1 .. Chunk : ReadHead(n) \/ ReadBody(n)
    \/ \E n \in 1 .. 2 * Chunk : Drain(n)
    \/ ReadFails
    \/ CallHandler
    \/ \E n \in 1 .. MaxResponse : SendSome(n)
    \/ SendFails
    \/ DrainEnds
    \/ Close

Next ==
    \/ \E n \in 1 .. request.total : ClientSends(n)
    \/ ClientEnds
    \/ ServerStep

Spec == Init /\ [][Next]_vars

\* The thread of the connection goes on: every read, send and poll has a time
\* limit.  Nothing is assumed of the client.
FairSpec == Spec /\ WF_vars(ServerStep)

-----------------------------------------------------------------------------
(* Properties.                                                             *)

\* The decimal value of each prefix of a sequence of digits.
Decimal(digits) ==
    LET value[i \in 0 .. Len(digits)] == IF i = 0 THEN 0 ELSE value[i - 1] * 10 + digits[i]
    IN  value

\* What the digits of a Content-Length header mean; no header means no body.
DeclaredLength(r) == IF r.hasLength THEN Decimal(r.rawLength)[Len(r.rawLength)] ELSE 0

IsNumber(r) ==
    r.hasLength => r.rawLength # <<>> /\ \A i \in DOMAIN r.rawLength : r.rawLength[i] # NonDigit

(***************************************************************************)
(* HandleConnection calls the handler at most once, for a well-formed      *)
(* request whose Content-Length is a number within the limit, and with     *)
(* exactly the announced bytes after the head, all of which the client has *)
(* sent: however the stream is cut into reads, never a prefix of the body, *)
(* never bytes beyond it.                                                  *)
(***************************************************************************)
FramedBody ==
    /\ Len(calls) <= 1
    /\ \A i \in DOMAIN calls :
        /\ request.wellFormed /\ ~request.chunked /\ IsNumber(request)
        /\ request.head <= MaxHead /\ DeclaredLength(request) <= MaxBody
        /\ calls[i].from = BodyStart(request)
        /\ calls[i].to = calls[i].from + DeclaredLength(request)
        /\ calls[i].to <= sent

(***************************************************************************)
(* docs/writes.md: "oversized bodies return 413".  A request with a head   *)
(* the server accepts and a numeric Content-Length above the limit, by one *)
(* or by any number of digits, is answered 413 and never handled, and the  *)
(* framing itself rejects no other number with 413.                        *)
(***************************************************************************)
OversizeIs413 ==
    status # 0 /\ taken >= BodyStart(request) /\ request.head <= MaxHead
               /\ request.wellFormed /\ IsNumber(request)
        => /\ DeclaredLength(request) > MaxBody => status = 413 /\ calls = <<>>
           /\ status = 413 /\ calls = <<>> => DeclaredLength(request) > MaxBody

(***************************************************************************)
(* Whatever the client sends, a connection thread buffers no more than a   *)
(* head, a blank line and the larger of one read and one body.             *)
(***************************************************************************)
BufferBounded ==
    taken - drained <= MaxHead + Terminator + (IF Chunk > MaxBody THEN Chunk ELSE MaxBody)

(***************************************************************************)
(* The comment at the drain: "Bounded draining avoids a TCP reset masking  *)
(* the 413 for uploading clients".  A 413 is followed by a reset only if a *)
(* time or size limit ended the response or the drain first.               *)
(***************************************************************************)
RejectionNotMasked == status = 413 /\ reset => gaveUp

(***************************************************************************)
(* Every connection is closed, also that of a client that sends nothing,   *)
(* stalls anywhere, or never reads.                                        *)
(***************************************************************************)
ConnectionCloses == <>(pc = "closed")
=============================================================================
