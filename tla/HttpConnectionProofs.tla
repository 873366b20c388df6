------------------------- MODULE HttpConnectionProofs -------------------------
(***************************************************************************)
(* Proofs about HttpConnection, for any requests, limits and read sizes.   *)
(***************************************************************************)
EXTENDS HttpConnection, WellFoundedInduction, TLAPS

-----------------------------------------------------------------------------
(* The Content-Length loop.                                                *)

(***************************************************************************)
(* A set of numbers that is not empty has a least element: the induction   *)
(* over the characters of a header is an argument about the first one at   *)
(* which a claim fails.                                                    *)
(***************************************************************************)
LEMMA LeastNumber ==
    ASSUME NEW S \in SUBSET Nat, S # {}
    PROVE  \E m \in S : \A k \in Nat : k < m => k \notin S
  <1>. DEFINE R == OpToRel(<, Nat)
  <1>1. \E x \in S : \A y \in S : ~(<<y, x>> \in R)
    BY NatLessThanWellFounded, WFMin
  <1>2. \A x, y \in Nat : y < x => <<y, x>> \in R
    BY DEF OpToRel
  <1>. HIDE DEF R
  <1>3. QED
    BY <1>1, <1>2

(***************************************************************************)
(* The Content-Length loop runs over every character once, in order.       *)
(***************************************************************************)
LEMMA LengthLoopSteps ==
    ASSUME NEW raw, Len(raw) \in Nat, NEW start
    PROVE  /\ LengthLoop(start, raw)[0] = start
           /\ \A i \in 1 .. Len(raw) :
                 LengthLoop(start, raw)[i] = LengthStep(LengthLoop(start, raw)[i - 1], raw[i])
  <1>. DEFINE Loop(n, g) == g = [i \in 0 .. n |-> IF i = 0 THEN start
                                                  ELSE LengthStep(g[i - 1], raw[i])]
              Bad == {n \in Nat : ~\E g : Loop(n, g)}
  <1>1. Bad = {}
    <2>. SUFFICES ASSUME Bad # {} PROVE FALSE
      OBVIOUS
    <2>1. PICK m \in Bad : \A k \in Nat : k < m => k \notin Bad
      <3>1. Bad \in SUBSET Nat
        OBVIOUS
      <3>. HIDE DEF Bad
      <3>2. QED
        BY <3>1, LeastNumber
    <2>2. CASE m = 0
      <3>1. Loop(0, [i \in 0 .. 0 |-> start])
        OBVIOUS
      <3>2. QED
        BY <2>1, <2>2, <3>1
    <2>3. CASE m # 0
      <3>0. m - 1 \in Nat /\ m - 1 < m
        BY <2>1, <2>3
      <3>1. PICK g : Loop(m - 1, g)
        <4>1. m - 1 \notin Bad
          BY <2>1, <3>0
        <4>2. QED
          BY <3>0, <4>1
      <3>. DEFINE h == [i \in 0 .. m |-> IF i = m THEN LengthStep(g[m - 1], raw[m]) ELSE g[i]]
      <3>2. Loop(m, h)
        <4>1. \A i \in 0 .. m : h[i] = IF i = 0 THEN start ELSE LengthStep(h[i - 1], raw[i])
          <5>1. ASSUME NEW i \in 0 .. m - 1 
                PROVE h[i] = IF i = 0 THEN start ELSE LengthStep(h[i - 1], raw[i])
            BY <2>1, <2>3, <3>1
          <5>2. h[m] = LengthStep(h[m - 1], raw[m])
            BY <2>1, <2>3
          <5>3. QED
            BY <5>1, <5>2, <2>3
        <4>2. QED
          BY <4>1
      <3>3. QED
        BY <2>1, <3>2
    <2>4. QED
      BY <2>2, <2>3
  <1>2. \E g : Loop(Len(raw), g)
    BY <1>1
  <1>3. Loop(Len(raw), LengthLoop(start, raw))
    BY <1>2 DEF LengthLoop
  <1>. DEFINE f == LengthLoop(start, raw)
  <1>4. f = [i \in 0 .. Len(raw) |-> IF i = 0 THEN start ELSE LengthStep(f[i - 1], raw[i])]
    BY <1>3
  <1>. HIDE DEF f
  <1>5. /\ f[0] = start
        /\ \A i \in 1 .. Len(raw) : f[i] = LengthStep(f[i - 1], raw[i])
    BY <1>4
  <1>6. QED
    BY <1>5 DEF f

(***************************************************************************)
(* The decimal value of a prefix follows from that of the shorter one.     *)
(***************************************************************************)
LEMMA DecimalSteps ==
    ASSUME NEW digits, Len(digits) \in Nat
    PROVE  /\ Decimal(digits)[0] = 0
           /\ \A i \in 1 .. Len(digits) :
                 Decimal(digits)[i] = Decimal(digits)[i - 1] * 10 + digits[i]
  <1>. DEFINE Value(n, g) == g = [i \in 0 .. n |-> IF i = 0 THEN 0 ELSE g[i - 1] * 10 + digits[i]]
              Bad == {n \in Nat : ~\E g : Value(n, g)}
  <1>1. Bad = {}
    <2>. SUFFICES ASSUME Bad # {} PROVE FALSE
      OBVIOUS
    <2>1. PICK m \in Bad : \A k \in Nat : k < m => k \notin Bad
      <3>1. Bad \in SUBSET Nat
        OBVIOUS
      <3>. HIDE DEF Bad
      <3>2. QED
        BY <3>1, LeastNumber
    <2>2. CASE m = 0
      <3>1. Value(0, [i \in 0 .. 0 |-> 0])
        OBVIOUS
      <3>2. QED
        BY <2>1, <2>2, <3>1
    <2>3. CASE m # 0
      <3>1. PICK g : Value(m - 1, g)
        <4>1. m \in Nat /\ m - 1 \in Nat /\ m - 1 < m
          BY <2>1, <2>3
        <4>2. m - 1 \notin Bad
          BY <2>1, <4>1
        <4>. HIDE DEF Value
        <4>3. QED
          BY <4>1, <4>2
      <3>. DEFINE h == [i \in 0 .. m |-> IF i = m THEN g[m - 1] * 10 + digits[m] ELSE g[i]]
      <3>2. Value(m, h)
        <4>1. ASSUME NEW i \in 0 .. m - 1
              PROVE  h[i] = IF i = 0 THEN 0 ELSE h[i - 1] * 10 + digits[i]
          BY <2>1, <2>3, <3>1
        <4>2. h[m] = h[m - 1] * 10 + digits[m]
          BY <2>1, <2>3
        <4>3. \A i \in 0 .. m : h[i] = IF i = 0 THEN 0 ELSE h[i - 1] * 10 + digits[i]
          <5>. HIDE DEF h
          <5>1. QED
            BY <2>1, <2>3, <4>1, <4>2
        <4>4. QED
          BY <4>3
      <3>3. QED
        BY <2>1, <3>2
    <2>4. QED
      BY <2>2, <2>3
  <1>2. \E g : Value(Len(digits), g)
    BY <1>1
  <1>3. Value(Len(digits), Decimal(digits))
    BY <1>2 DEF Decimal
  <1>. DEFINE f == Decimal(digits)
  <1>4. f = [i \in 0 .. Len(digits) |-> IF i = 0 THEN 0 ELSE f[i - 1] * 10 + digits[i]]
    BY <1>3
  <1>. HIDE DEF f
  <1>5. /\ f[0] = 0
        /\ \A i \in 1 .. Len(digits) : f[i] = f[i - 1] * 10 + digits[i]
    BY <1>4
  <1>6. QED
    BY <1>5 DEF f

(***************************************************************************)
(* The loop computes the number that the digits mean, as long as it goes   *)
(* on; it stops, and the framing is invalid, at the first character that   *)
(* is no digit, or when the number read so far is already above the limit, *)
(* where more digits can only increase it.                                 *)
(***************************************************************************)
LEMMA LengthLoopValue ==
    ASSUME NEW raw \in Seq(NonDigit .. 9), NEW ok \in BOOLEAN, NEW f, NEW v,
           f = LengthLoop([length |-> 0, stop |-> FALSE, valid |-> ok], raw),
           v = Decimal(raw)
    PROVE  \A i \in 0 .. Len(raw) :
             /\ f[i] \in [length: Nat, stop: BOOLEAN, valid: BOOLEAN]
             /\ ~f[i].stop => /\ \A j \in 1 .. i : raw[j] # NonDigit
                              /\ f[i].length = v[i] /\ f[i].valid = ok
             /\ f[i].stop => ~f[i].valid
             /\ f[i].stop /\ (\A j \in 1 .. i : raw[j] # NonDigit)
                  => v[i] \in Nat /\ f[i].length > MaxBody /\ v[i] > MaxBody
  <1>. DEFINE P(i) ==
             /\ f[i] \in [length: Nat, stop: BOOLEAN, valid: BOOLEAN]
             /\ ~f[i].stop => /\ \A j \in 1 .. i : raw[j] # NonDigit
                              /\ f[i].length = v[i] /\ f[i].valid = ok
             /\ f[i].stop => ~f[i].valid
             /\ f[i].stop /\ (\A j \in 1 .. i : raw[j] # NonDigit)
                  => v[i] \in Nat /\ f[i].length > MaxBody /\ v[i] > MaxBody
              Bad == {i \in 0 .. Len(raw) : ~P(i)}
  <1>0. Len(raw) \in Nat /\ MaxBody \in Nat
    BY LimitsAssumption
  <1>1. /\ f[0] = [length |-> 0, stop |-> FALSE, valid |-> ok]
        /\ v[0] = 0
        /\ \A i \in 1 .. Len(raw) : /\ f[i] = LengthStep(f[i - 1], raw[i])
                                    /\ v[i] = v[i - 1] * 10 + raw[i]
    BY <1>0, LengthLoopSteps, DecimalSteps
  <1>2. P(0)
    <2>1. /\ f[0] \in [length: Nat, stop: BOOLEAN, valid: BOOLEAN]
          /\ ~f[0].stop /\ f[0].length = 0 /\ f[0].valid = ok
      <3>. DEFINE a == [length |-> 0, stop |-> FALSE, valid |-> ok]
      <3>1. a \in [length: Nat, stop: BOOLEAN, valid: BOOLEAN]
        OBVIOUS
      <3>2. a.stop = FALSE /\ a.length = 0 /\ a.valid = ok
        OBVIOUS
      <3>3. f[0] = a
        BY <1>1
      <3>. HIDE DEF a
      <3>4. QED
        BY <3>1, <3>2, <3>3, Zenon
    <2>2. \A j \in 1 .. 0 : FALSE
      OBVIOUS
    <2>3. QED
      BY <1>1, <2>1, <2>2
  <1>3. ASSUME NEW i \in 1 .. Len(raw), P(i - 1) PROVE P(i)
    <2>. DEFINE a == f[i - 1]
                c == raw[i]
    <2>1. c \in NonDigit .. 9 /\ i \in Nat /\ i # 0
      BY <1>0 DEF NonDigit
    <2>2. /\ a \in [length: Nat, stop: BOOLEAN, valid: BOOLEAN]
          /\ f[i] = LengthStep(a, c) /\ v[i] = v[i - 1] * 10 + c
      BY <1>1, <1>3
    <2>3. ASSUME \A j \in 1 .. i : raw[j] # NonDigit
          PROVE  c \in Nat /\ \A j \in 1 .. i - 1 : raw[j] # NonDigit
      BY <2>1, <2>3 DEF NonDigit
    <2>4. CASE a.stop
      <3>1. f[i] = a
        BY <2>2, <2>4 DEF LengthStep
      <3>2. ASSUME \A j \in 1 .. i : raw[j] # NonDigit
            PROVE  v[i] \in Nat /\ v[i] > MaxBody /\ a.length > MaxBody
        <4>1. v[i - 1] \in Nat /\ v[i - 1] > MaxBody /\ a.length > MaxBody /\ c \in Nat
          BY <1>3, <2>3, <2>4, <3>2
        <4>. HIDE DEF a, c
        <4>2. QED
          BY <1>0, <2>2, <4>1
      <3>3. QED
        BY <1>3, <2>2, <2>4, <3>1, <3>2
    <2>5. CASE ~a.stop /\ (c = NonDigit \/ a.length > MaxBody)
      <3>1. f[i] = [a EXCEPT !.valid = FALSE, !.stop = TRUE]
        BY <2>2, <2>5 DEF LengthStep
      <3>. HIDE DEF a
      <3>2. /\ f[i] \in [length: Nat, stop: BOOLEAN, valid: BOOLEAN]
            /\ f[i].stop /\ ~f[i].valid /\ f[i].length = a.length
        BY <2>2, <3>1
      <3>3. ASSUME \A j \in 1 .. i : raw[j] # NonDigit
            PROVE  v[i] \in Nat /\ v[i] > MaxBody /\ a.length > MaxBody
        <4>1. a.length = v[i - 1] /\ c \in Nat /\ a.length \in Nat /\ a.length > MaxBody
          <5>1. a.length \in Nat /\ a.length = v[i - 1]
            BY <1>3, <2>2, <2>5 DEF a
          <5>2. QED
            BY <2>3, <2>5, <3>3, <5>1
        <4>. HIDE DEF c
        <4>2. QED
          BY <1>0, <2>2, <4>1
      <3>4. QED
        BY <3>2, <3>3
    <2>6. CASE ~a.stop /\ c # NonDigit /\ ~(a.length > MaxBody)
      <3>1. f[i] = [a EXCEPT !.length = @ * 10 + c]
        BY <2>2, <2>6 DEF LengthStep
      <3>2. c \in Nat
        BY <2>1, <2>6 DEF NonDigit
      <3>3. a.length = v[i - 1] /\ a.length \in Nat /\ a.valid = ok
            /\ \A j \in 1 .. i - 1 : raw[j] # NonDigit
        BY <1>3, <2>2, <2>6
      <3>4. \A j \in 1 .. i : raw[j] # NonDigit
        BY <2>1, <2>6, <3>3
      <3>. HIDE DEF a, c
      <3>5. /\ f[i] \in [length: Nat, stop: BOOLEAN, valid: BOOLEAN]
            /\ f[i].length = a.length * 10 + c /\ ~f[i].stop /\ f[i].valid = a.valid
        BY <2>2, <2>6, <3>1, <3>2
      <3>6. QED
        BY <2>2, <3>3, <3>4, <3>5
    <2>7. QED
      BY <2>4, <2>5, <2>6
  <1>. HIDE DEF P
  <1>4. Bad = {}
    <2>. SUFFICES ASSUME Bad # {} PROVE FALSE
      OBVIOUS
    <2>1. PICK m \in Bad : \A k \in Nat : k < m => k \notin Bad
      <3>1. Bad \in SUBSET Nat
        BY <1>0
      <3>. HIDE DEF Bad
      <3>2. QED
        BY <3>1, LeastNumber
    <2>2. m \in 1 .. Len(raw) /\ P(m - 1)
      BY <1>0, <1>2, <2>1
    <2>3. QED
      BY <1>3, <2>1, <2>2
  <1>5. \A i \in 0 .. Len(raw) : P(i)
    BY <1>4
  <1>6. QED
    BY <1>5 DEF P

(***************************************************************************)
(* What the framing tells HandleConnection: a framing it accepts is not    *)
(* chunked and announces the number that the header means, and a number    *)
(* above the limit is recognised as such, however many digits it has.      *)
(***************************************************************************)
LEMMA FramingFacts ==
    ASSUME NEW r \in Requests
    PROVE  /\ Framing(r).length \in Nat /\ Framing(r).valid \in BOOLEAN
           /\ DeclaredLength(r) \in Int
           /\ Framing(r).valid => /\ ~r.chunked /\ IsNumber(r)
                                  /\ Framing(r).length = DeclaredLength(r)
           /\ IsNumber(r) => (Framing(r).length > MaxBody <=> DeclaredLength(r) > MaxBody)
  <1>. DEFINE raw == IF r.hasLength THEN r.rawLength ELSE <<>>
              ok  == ~r.chunked /\ (r.hasLength => r.rawLength # <<>>)
              f   == LengthLoop([length |-> 0, stop |-> FALSE, valid |-> ok], raw)
              v   == Decimal(raw)
              n   == Len(raw)
  <1>1. r.rawLength \in Seq(NonDigit .. 9) /\ r.chunked \in BOOLEAN /\ r.hasLength \in BOOLEAN
    BY RequestsAssumption DEF RequestType
  <1>2. raw \in Seq(NonDigit .. 9) /\ ok \in BOOLEAN /\ n \in Nat
    <2>1. raw \in Seq(NonDigit .. 9)
      <3>1. <<>> \in Seq(NonDigit .. 9)
        BY DEF NonDigit
      <3>2. QED
        BY <1>1, <3>1, Zenon
    <2>. HIDE DEF raw
    <2>2. n \in Nat
      BY <2>1
    <2>3. QED
      BY <2>1, <2>2
  <1>3. Framing(r) = f[n]
    BY DEF Framing
  <1>4. DeclaredLength(r) = v[n]
    <2>1. CASE r.hasLength
      BY <2>1 DEF DeclaredLength
    <2>2. CASE ~r.hasLength
      <3>1. raw = <<>> /\ n = 0
        BY <2>2
      <3>2. v[0] = 0
        <4>. HIDE DEF raw
        <4>1. QED
          BY <1>2, DecimalSteps
      <3>. HIDE DEF v
      <3>3. QED
        BY <2>2, <3>1, <3>2 DEF DeclaredLength
    <2>3. QED
      BY <2>1, <2>2
  <1>5. IsNumber(r) <=> (r.hasLength => r.rawLength # <<>>) /\ \A j \in 1 .. n : raw[j] # NonDigit
    BY <1>1 DEF IsNumber
  <1>6. v[n] \in Int
    <2>. HIDE DEF raw
    <2>. DEFINE Bad == {i \in 0 .. n : v[i] \notin Int}
    <2>1. v[0] = 0 /\ \A i \in 1 .. n : v[i] = v[i - 1] * 10 + raw[i] /\ raw[i] \in Int
      BY <1>2, DecimalSteps DEF NonDigit
    <2>. HIDE DEF v, n
    <2>2. Bad = {}
      <3>. SUFFICES ASSUME Bad # {} PROVE FALSE
        OBVIOUS
      <3>1. PICK m \in Bad : \A k \in Nat : k < m => k \notin Bad
        <4>1. Bad \in SUBSET Nat
          BY <1>2
        <4>. HIDE DEF Bad
        <4>2. QED
          BY <4>1, LeastNumber
      <3>2. m \in 1 .. n /\ v[m - 1] \in Int
        BY <1>2, <2>1, <3>1
      <3>3. QED
        BY <2>1, <3>1, <3>2
    <2>3. QED
      BY <1>2, <2>2
  <1>. HIDE DEF raw, ok, f, v
  <1>7. /\ f[n] \in [length: Nat, stop: BOOLEAN, valid: BOOLEAN]
        /\ ~f[n].stop => /\ \A j \in 1 .. n : raw[j] # NonDigit
                         /\ f[n].length = v[n] /\ f[n].valid = ok
        /\ f[n].stop => ~f[n].valid
        /\ f[n].stop /\ (\A j \in 1 .. n : raw[j] # NonDigit)
             => v[n] \in Nat /\ f[n].length > MaxBody /\ v[n] > MaxBody
    BY <1>2, LengthLoopValue DEF f, v
  <1>8. ok <=> ~r.chunked /\ (r.hasLength => r.rawLength # <<>>)
    BY DEF ok
  <1>. HIDE DEF n
  <1>9. QED
    BY <1>3, <1>4, <1>5, <1>6, <1>7, <1>8, LimitsAssumption

-----------------------------------------------------------------------------
(* The inductive invariant.                                                *)

\* While the head is incomplete, no more than the limit has been read.
InHead ==
    pc = "head" => /\ status = 0 /\ calls = <<>> /\ drained = 0
                   /\ taken <= MaxHead /\ taken < BodyStart(request)

\* The body is only read of a request whose framing was accepted.
InBody ==
    pc = "body" => /\ status = 0 /\ calls = <<>> /\ drained = 0
                   /\ request.wellFormed /\ request.head <= MaxHead
                   /\ Framing(request).valid
                   /\ length = Framing(request).length /\ length <= MaxBody
                   /\ taken >= BodyStart(request)

\* A response is sent only after its status was chosen; a 413 only after the
\* whole head was read, and only a 413 is followed by a drain.
Answering ==
    /\ pc \notin {"head", "body"} => status # 0
    /\ status = 413 => taken >= BodyStart(request)
    /\ pc = "drain" => status = 413

\* A 413 whose drain was not cut short has everything the client sends.
AfterDrain ==
    /\ reset => pc = "closed"
    /\ pc \in {"close", "closed"} /\ status = 413 /\ ~gaveUp => taken = sent /\ ClientDone

IInv ==
    /\ TypeOK
    /\ InHead /\ InBody /\ Answering /\ AfterDrain
    /\ FramedBody /\ OversizeIs413 /\ BufferBounded /\ RejectionNotMasked

(***************************************************************************)
(* The types of what a request is made of.                                 *)
(***************************************************************************)
LEMMA RequestFacts ==
    ASSUME NEW r \in Requests
    PROVE  /\ r.head \in Nat /\ r.total \in Nat /\ r.wellFormed \in BOOLEAN
           /\ BodyStart(r) \in Nat /\ BodyStart(r) > 0
           /\ r.head <= MaxHead => BodyStart(r) <= MaxHead + Terminator
           /\ IsNumber(r) \in BOOLEAN
  BY RequestsAssumption, LimitsAssumption DEF RequestType, BodyStart, IsNumber

(***************************************************************************)
(* A new connection.                                                       *)
(***************************************************************************)
LEMMA InitInv == Init => IInv
  <1>. SUFFICES ASSUME Init PROVE IInv
    OBVIOUS
  <1>1. request \in Requests
    BY DEF Init
  <1>2. TypeOK
    <2>1. sent \in 0 .. request.total /\ taken \in 0 .. sent /\ unsent \in 0 .. MaxResponse
      BY <1>1, RequestFacts, LimitsAssumption DEF Init
    <2>2. calls \in Seq([from: Nat, to: Nat])
      BY DEF Init
    <2>3. QED
      BY <1>1, <2>1, <2>2 DEF Init, TypeOK, Steps
  <1>3. InHead /\ InBody /\ Answering /\ AfterDrain
    BY <1>1, RequestFacts, LimitsAssumption DEF Init, InHead, InBody, Answering, AfterDrain
  <1>4. FramedBody /\ OversizeIs413 /\ BufferBounded /\ RejectionNotMasked
    BY LimitsAssumption DEF Init, FramedBody, OversizeIs413, BufferBounded, RejectionNotMasked
  <1>5. QED
    BY <1>2, <1>3, <1>4 DEF IInv

(***************************************************************************)
(* A step of the client changes neither what the server has read nor what  *)
(* it does; bytes that come after a completed drain there are none.        *)
(***************************************************************************)
LEMMA ClientKeepsInv ==
    ASSUME IInv, (\E n \in 1 .. request.total : ClientSends(n)) \/ ClientEnds
    PROVE  IInv'
  <1>1. request \in Requests /\ sent \in Nat /\ taken \in Nat
    BY DEF IInv, TypeOK
  <1>2. request' = request /\ UNCHANGED <<taken, pc, status, unsent, length, calls, drained, gaveUp>>
    BY DEF ClientSends, ClientEnds, answerVars
  <1>3. ASSUME NEW n \in 1 .. request.total, ClientSends(n)
        PROVE  TypeOK' /\ AfterDrain' /\ sent' \in Nat /\ sent <= sent'
    <2>1. sent' = sent + n /\ n \in Nat /\ n > 0 /\ sent' <= request.total /\ ~ended /\ ended' = ended
      BY <1>1, <1>3, RequestFacts DEF ClientSends
    <2>2. TypeOK'
      BY <1>1, <1>2, <1>3, <2>1, RequestFacts DEF IInv, TypeOK, ClientSends
    <2>3. ~ClientDone
      BY <1>1, <2>1, RequestFacts DEF ClientDone
    <2>4. AfterDrain'
      <3>1. reset' => pc = "closed"
        BY <1>3, Zenon DEF ClientSends
      <3>2. ~(pc \in {"close", "closed"} /\ status = 413 /\ ~gaveUp)
        BY <2>3 DEF IInv, AfterDrain
      <3>3. QED
        BY <1>2, <3>1, <3>2 DEF AfterDrain
    <2>5. QED
      BY <1>1, <2>1, <2>2, <2>4
  <1>4. ASSUME ClientEnds
        PROVE  TypeOK' /\ AfterDrain' /\ sent' \in Nat /\ sent <= sent'
    BY <1>1, <1>2, <1>4 DEF IInv, TypeOK, ClientEnds, AfterDrain, ClientDone
  <1>5. TypeOK' /\ AfterDrain' /\ sent' \in Nat /\ sent <= sent'
    BY <1>3, <1>4
  <1>6. InHead' /\ InBody' /\ Answering'
    BY <1>2 DEF IInv, InHead, InBody, Answering
  <1>7. FramedBody'
    <2>1. ASSUME NEW i \in DOMAIN calls PROVE calls[i].to \in Nat
      <3>. DEFINE C == [from: Nat, to: Nat]
      <3>1. calls \in Seq(C)
        BY DEF IInv, TypeOK
      <3>. HIDE DEF C
      <3>2. calls[i] \in C
        BY <3>1
      <3>3. QED
        BY <3>2 DEF C
    <2>2. QED
      BY <1>1, <1>2, <1>5, <2>1 DEF IInv, FramedBody
  <1>8. OversizeIs413' /\ BufferBounded'
    BY <1>2 DEF IInv, OversizeIs413, BufferBounded
  <1>9. RejectionNotMasked'
    <2>1. SUFFICES ASSUME status = 413, reset', ~gaveUp PROVE FALSE
      BY <1>2 DEF RejectionNotMasked
    <2>2. ~reset
      BY <2>1 DEF IInv, RejectionNotMasked
    <2>3. PICK n \in 1 .. request.total : ClientSends(n)
      BY <2>1, <2>2 DEF ClientEnds
    <2>4. pc = "closed" /\ ~ended /\ sent + n <= request.total
      BY <2>1, <2>3 DEF ClientSends
    <2>5. ClientDone
      BY <2>1, <2>4 DEF IInv, AfterDrain
    <2>6. QED
      BY <1>1, <2>4, <2>5, RequestFacts DEF ClientDone
  <1>10. QED
    BY <1>5, <1>6, <1>7, <1>8, <1>9 DEF IInv

(***************************************************************************)
(* A read of the head: it goes on, is refused, or is complete, and then    *)
(* the framing decides between the body, 400 and 413.                      *)
(***************************************************************************)
LEMMA ReadHeadKeepsInv ==
    ASSUME IInv, NEW n \in 1 .. Chunk, ReadHead(n)
    PROVE  IInv'
  <1>. DEFINE f == Framing(request)
  <1>1. /\ request \in Requests /\ sent \in Nat /\ taken \in Nat /\ n \in Nat /\ n <= Chunk
        /\ taken' = taken + n /\ taken' <= sent
        /\ UNCHANGED <<request, sent, ended, calls, drained, gaveUp, reset>>
        /\ pc = "head" /\ status = 0 /\ calls = <<>> /\ drained = 0 /\ taken <= MaxHead
    BY LimitsAssumption DEF IInv, TypeOK, ReadHead, InHead, clientVars
  <1>2. ~reset
    BY <1>1 DEF IInv, AfterDrain
  <1>3. /\ f.length \in Nat /\ f.valid \in BOOLEAN /\ DeclaredLength(request) \in Int
        /\ f.valid => ~request.chunked /\ IsNumber(request) /\ f.length = DeclaredLength(request)
        /\ IsNumber(request) => (f.length > MaxBody <=> DeclaredLength(request) > MaxBody)
    BY <1>1, FramingFacts
  <1>4. /\ request.head \in Nat /\ request.wellFormed \in BOOLEAN
        /\ BodyStart(request) \in Nat
        /\ request.head <= MaxHead => BodyStart(request) <= MaxHead + Terminator
    BY <1>1, RequestFacts
  <1>5. \/ /\ taken' >= BodyStart(request) /\ request.head > MaxHead
           /\ Answer(400) /\ length' = length
        \/ /\ taken' >= BodyStart(request) /\ request.head <= MaxHead
           /\ length' = f.length
           /\ \/ ~request.wellFormed /\ Answer(400)
              \/ request.wellFormed /\ f.length > MaxBody /\ Answer(413)
              \/ request.wellFormed /\ f.length <= MaxBody /\ ~f.valid /\ Answer(400)
              \/ /\ request.wellFormed /\ f.length <= MaxBody /\ f.valid
                 /\ pc' = "body" /\ UNCHANGED <<status, unsent>>
        \/ /\ taken' < BodyStart(request) /\ taken' > MaxHead /\ Answer(400) /\ length' = length
        \/ /\ taken' < BodyStart(request) /\ taken' <= MaxHead /\ length' = length
           /\ UNCHANGED <<pc, status, unsent>>
    BY <1>1, <1>3, <1>4, LimitsAssumption DEF ReadHead, ParseHead, answerVars
  <1>. HIDE DEF f
  <1>6. TypeOK'
    BY <1>1, <1>3, <1>5, LimitsAssumption DEF IInv, TypeOK, Answer, Steps
  <1>7. InHead' /\ InBody' /\ Answering' /\ AfterDrain'
    BY <1>1, <1>2, <1>5 DEF InHead, InBody, Answering, AfterDrain, Answer, f
  <1>8. FramedBody' /\ RejectionNotMasked'
    BY <1>1, <1>2 DEF FramedBody, RejectionNotMasked
  <1>9. OversizeIs413'
    BY <1>1, <1>3, <1>4, <1>5, LimitsAssumption DEF OversizeIs413, Answer
  <1>10. BufferBounded'
    BY <1>1, LimitsAssumption DEF BufferBounded
  <1>11. QED
    BY <1>6, <1>7, <1>8, <1>9, <1>10 DEF IInv

(***************************************************************************)
(* A read of the body takes at most what is missing of it.                 *)
(***************************************************************************)
LEMMA ReadBodyKeepsInv ==
    ASSUME IInv, NEW n \in 1 .. Chunk, ReadBody(n)
    PROVE  IInv'
  <1>1. /\ request \in Requests /\ sent \in Nat /\ taken \in Nat /\ n \in Nat /\ n <= Chunk
        /\ taken' = taken + n /\ taken' <= sent /\ n <= length - (taken - BodyStart(request))
        /\ UNCHANGED <<request, sent, ended, pc, status, unsent, length, calls, drained, gaveUp, reset>>
        /\ pc = "body" /\ status = 0 /\ calls = <<>> /\ drained = 0
        /\ taken >= BodyStart(request) /\ length <= MaxBody /\ length \in Nat
        /\ request.head <= MaxHead
    BY LimitsAssumption DEF IInv, TypeOK, ReadBody, InBody, clientVars, answerVars, BodySize
  <1>2. /\ BodyStart(request) \in Nat /\ BodyStart(request) <= MaxHead + Terminator
    BY <1>1, RequestFacts
  <1>3. TypeOK'
    BY <1>1 DEF IInv, TypeOK
  <1>4. InHead' /\ InBody' /\ Answering' /\ AfterDrain'
    BY <1>1, <1>2 DEF IInv, InHead, InBody, Answering, AfterDrain
  <1>5. FramedBody' /\ OversizeIs413' /\ RejectionNotMasked'
    BY <1>1 DEF IInv, FramedBody, OversizeIs413, RejectionNotMasked
  <1>6. BufferBounded'
    BY <1>1, <1>2, LimitsAssumption DEF BufferBounded
  <1>7. QED
    BY <1>3, <1>4, <1>5, <1>6 DEF IInv

(***************************************************************************)
(* A read that finds nothing is answered 400.                              *)
(***************************************************************************)
LEMMA ReadFailsKeepsInv ==
    ASSUME IInv, ReadFails
    PROVE  IInv'
  <1>1. /\ request \in Requests /\ pc \in {"head", "body"} /\ status = 0 /\ calls = <<>>
        /\ UNCHANGED <<request, sent, ended, taken, length, calls, drained, gaveUp, reset>>
        /\ status' = 400 /\ unsent' \in 1 .. MaxResponse /\ pc' = "send"
    BY DEF IInv, TypeOK, ReadFails, InHead, InBody, Answer, clientVars
  <1>2. TypeOK'
    BY <1>1, LimitsAssumption DEF IInv, TypeOK, Steps
  <1>3. InHead' /\ InBody' /\ Answering' /\ AfterDrain' /\ RejectionNotMasked'
    BY <1>1 DEF IInv, InHead, InBody, Answering, AfterDrain, RejectionNotMasked
  <1>4. FramedBody' /\ BufferBounded'
    BY <1>1 DEF IInv, FramedBody, BufferBounded
  <1>5. OversizeIs413'
    <2>1. /\ BodyStart(request) \in Nat /\ Framing(request).length \in Nat /\ taken \in Nat
          /\ DeclaredLength(request) \in Int
          /\ IsNumber(request) => (Framing(request).length > MaxBody
                                     <=> DeclaredLength(request) > MaxBody)
      BY <1>1, RequestFacts, FramingFacts DEF IInv, TypeOK
    <2>2. CASE pc = "head"
      BY <1>1, <2>1, <2>2 DEF IInv, InHead, OversizeIs413
    <2>3. CASE pc = "body"
      BY <1>1, <2>1, <2>3, LimitsAssumption DEF IInv, InBody, OversizeIs413
    <2>4. QED
      BY <1>1, <2>2, <2>3
  <1>6. QED
    BY <1>2, <1>3, <1>4, <1>5 DEF IInv

(***************************************************************************)
(* The handler is called with the announced body, all of which was read.   *)
(***************************************************************************)
LEMMA CallKeepsInv ==
    ASSUME IInv, CallHandler
    PROVE  IInv'
  <1>. DEFINE c == [from |-> BodyStart(request), to |-> BodyStart(request) + length]
  <1>1. /\ request \in Requests /\ pc = "body" /\ status = 0 /\ calls = <<>> /\ drained = 0
        /\ calls' = Append(calls, c)
        /\ UNCHANGED <<request, sent, ended, taken, length, drained, gaveUp, reset>>
        /\ status' \in {200, 400, 413, 500} /\ unsent' \in 1 .. MaxResponse /\ pc' = "send"
        /\ taken - BodyStart(request) >= length
        /\ taken \in Nat /\ sent \in Nat /\ length \in Nat /\ taken <= sent
        /\ taken >= BodyStart(request)
    BY DEF IInv, TypeOK, CallHandler, InBody, Answer, clientVars, BodySize
  <1>2. /\ BodyStart(request) \in Nat /\ DeclaredLength(request) \in Int
        /\ request.wellFormed /\ ~request.chunked /\ IsNumber(request)
        /\ request.head <= MaxHead /\ length = DeclaredLength(request) /\ length <= MaxBody
    BY <1>1, RequestFacts, FramingFacts DEF IInv, InBody
  <1>3. calls' = <<c>> /\ c \in [from: Nat, to: Nat]
    BY <1>1, <1>2
  <1>4. TypeOK'
    <2>. HIDE DEF c
    <2>1. calls' \in Seq([from: Nat, to: Nat])
      BY <1>3
    <2>2. QED
      BY <1>1, <2>1, LimitsAssumption DEF IInv, TypeOK, Steps
  <1>5. InHead' /\ InBody' /\ Answering' /\ AfterDrain' /\ RejectionNotMasked' /\ BufferBounded'
    BY <1>1 DEF IInv, InHead, InBody, Answering, AfterDrain, RejectionNotMasked, BufferBounded
  <1>6. FramedBody'
    <2>1. c.from = BodyStart(request) /\ c.to = BodyStart(request) + length
      OBVIOUS
    <2>2. c.to <= sent
      BY <1>1, <1>2, <2>1
    <2>. HIDE DEF c
    <2>3. Len(calls') = 1 /\ \A i \in DOMAIN calls' : calls'[i] = c
      BY <1>3
    <2>4. QED
      BY <1>1, <1>2, <2>1, <2>2, <2>3 DEF FramedBody
  <1>7. OversizeIs413'
    <2>1. calls' # <<>>
      <3>. HIDE DEF c
      <3>1. QED
        BY <1>3
    <2>2. ~(DeclaredLength(request) > MaxBody)
      BY <1>2, LimitsAssumption
    <2>3. QED
      BY <1>1, <2>1, <2>2 DEF OversizeIs413
  <1>8. QED
    BY <1>4, <1>5, <1>6, <1>7 DEF IInv

(***************************************************************************)
(* Sending, draining and closing leave the outcome alone.                  *)
(***************************************************************************)
LEMMA EndKeepsInv ==
    ASSUME IInv,
           \/ \E n \in 1 .. MaxResponse : SendSome(n)
           \/ SendFails
           \/ \E n \in 1 .. 2 * Chunk : Drain(n)
           \/ DrainEnds
           \/ Close
    PROVE  IInv'
  <1>1. /\ request \in Requests /\ sent \in Nat /\ taken \in Nat /\ drained \in Nat /\ taken <= sent
        /\ unsent \in Nat /\ BodyStart(request) \in Nat
        /\ UNCHANGED <<request, sent, ended, status, length, calls>>
        /\ pc \in {"send", "drain", "close"} /\ pc' \in {"send", "drain", "close", "closed"}
        /\ status # 0
    BY RequestFacts DEF IInv, TypeOK, Answering, SendSome, SendFails, Drain, DrainEnds, Close,
        AfterSend, clientVars, answerVars
  <1>2. ~reset
    BY <1>1 DEF IInv, AfterDrain
  <1>3. /\ taken' \in Nat /\ drained' \in Nat /\ taken' <= sent /\ taken <= taken'
        /\ taken' - drained' = taken - drained
        /\ taken' = taken \/ (status = 413 /\ pc = "drain" /\ pc' = "drain")
    BY <1>1, LimitsAssumption DEF IInv, Answering, SendSome, SendFails, Drain, DrainEnds, Close,
        answerVars
  <1>4. TypeOK'
    <2>1. unsent' \in 0 .. MaxResponse
      BY <1>1, LimitsAssumption DEF IInv, TypeOK, SendSome, SendFails, Drain, DrainEnds, Close,
        answerVars
    <2>2. gaveUp' \in BOOLEAN /\ reset' \in BOOLEAN
      <3>1. gaveUp' = gaveUp \/ gaveUp' = TRUE
        BY DEF SendSome, SendFails, Drain, DrainEnds, Close
      <3>2. reset' = reset \/ reset' = (taken < sent)
        BY DEF SendSome, SendFails, Drain, DrainEnds, Close
      <3>3. gaveUp \in BOOLEAN /\ reset \in BOOLEAN
        BY DEF IInv, TypeOK
      <3>4. (taken < sent) \in BOOLEAN
        OBVIOUS
      <3>5. gaveUp' \in BOOLEAN
        BY <3>1, <3>3, Zenon
      <3>6. reset' \in BOOLEAN
        BY <3>2, <3>3, <3>4, Zenon
      <3>7. QED
        BY <3>5, <3>6
    <2>3. QED
      BY <1>1, <1>3, <2>1, <2>2 DEF IInv, TypeOK, Steps
  <1>5. InHead' /\ InBody' /\ Answering'
    BY <1>1, <1>3 DEF IInv, InHead, InBody, Answering, SendSome, SendFails, Drain, DrainEnds,
        Close, AfterSend
  <1>6. AfterDrain'
    BY <1>1, <1>2 DEF IInv, AfterDrain, ClientDone, SendSome, SendFails, Drain, DrainEnds, Close,
        AfterSend
  <1>7. RejectionNotMasked'
    <2>1. SUFFICES ASSUME status = 413, reset', ~gaveUp' PROVE FALSE
      BY <1>1 DEF RejectionNotMasked
    <2>2. Close
      BY <1>2, <2>1 DEF SendSome, SendFails, Drain, DrainEnds
    <2>3. taken < sent /\ pc = "close" /\ ~gaveUp
      BY <2>1, <2>2, Zenon DEF Close
    <2>4. QED
      BY <1>1, <2>1, <2>3 DEF IInv, AfterDrain
  <1>8. FramedBody' /\ BufferBounded'
    <2>1. FramedBody'
      BY <1>1, <1>3 DEF IInv, FramedBody
    <2>2. BufferBounded'
      BY <1>1, <1>3 DEF IInv, BufferBounded
    <2>3. QED
      BY <2>1, <2>2
  <1>9. OversizeIs413'
    BY <1>1, <1>3 DEF IInv, OversizeIs413, Answering
  <1>10. QED
    BY <1>4, <1>5, <1>6, <1>7, <1>8, <1>9 DEF IInv

(***************************************************************************)
(* Every step of the client and of HandleConnection preserves it.          *)
(***************************************************************************)
LEMMA NextInv == IInv /\ [Next]_vars => IInv'
  <1>. SUFFICES ASSUME IInv, [Next]_vars PROVE IInv'
    OBVIOUS
  <1>1. CASE UNCHANGED vars
    BY <1>1 DEF vars, clientVars, answerVars, IInv, TypeOK, InHead, InBody, Answering,
        AfterDrain, ClientDone, FramedBody, OversizeIs413, BufferBounded, RejectionNotMasked
  <1>2. CASE Next
    BY <1>2, ClientKeepsInv, ReadHeadKeepsInv, ReadBodyKeepsInv, ReadFailsKeepsInv,
        CallKeepsInv, EndKeepsInv DEF Next, ServerStep
  <1>3. QED
    BY <1>1, <1>2

(***************************************************************************)
(* The invariant of a connection.                                          *)
(***************************************************************************)
LEMMA ConnectionInvariant == Spec => []IInv
  BY InitInv, NextInv, PTL DEF Spec

-----------------------------------------------------------------------------
(* The theorems.                                                           *)

(***************************************************************************)
(* TypeOK: HandleConnection reads no byte that was not sent, and is always *)
(* at one of its steps.                                                    *)
(***************************************************************************)
THEOREM ConnectionTypes == Spec => []TypeOK
  <1>1. IInv => TypeOK
    BY DEF IInv
  <1>2. QED
    BY <1>1, ConnectionInvariant, PTL

(***************************************************************************)
(* FramedBody: for every Content-Length text, every limit and every way to *)
(* cut the stream into reads, the handler is called at most once, with     *)
(* exactly the announced body of a request within the limits.              *)
(***************************************************************************)
THEOREM BodiesAreFramed == Spec => []FramedBody
  <1>1. IInv => FramedBody
    BY DEF IInv
  <1>2. QED
    BY <1>1, ConnectionInvariant, PTL

(***************************************************************************)
(* OversizeIs413: a number above the limit, of any number of digits, is    *)
(* answered 413 and not handled, and no other number is.                   *)
(***************************************************************************)
THEOREM OversizeRejected == Spec => []OversizeIs413
  <1>1. IInv => OversizeIs413
    BY DEF IInv
  <1>2. QED
    BY <1>1, ConnectionInvariant, PTL

(***************************************************************************)
(* BufferBounded: what a connection thread holds of the stream is bounded  *)
(* by the limits, whatever the client sends.                               *)
(***************************************************************************)
THEOREM BuffersAreBounded == Spec => []BufferBounded
  <1>1. IInv => BufferBounded
    BY DEF IInv
  <1>2. QED
    BY <1>1, ConnectionInvariant, PTL

(***************************************************************************)
(* RejectionNotMasked: only a limit that cut the response or the drain     *)
(* short lets a reset follow a 413.                                        *)
(***************************************************************************)
THEOREM RejectionsArrive == Spec => []RejectionNotMasked
  <1>1. IInv => RejectionNotMasked
    BY DEF IInv
  <1>2. QED
    BY <1>1, ConnectionInvariant, PTL
=============================================================================
