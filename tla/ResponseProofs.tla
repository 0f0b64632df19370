--------------------------- MODULE ResponseProofs ---------------------------
(***************************************************************************)
(* Theorems about Response, for any number of attempts, any bodies and any *)
(* limits: what the client has is a prefix of one answer, and the exchange *)
(* is the one Exchange promises.                                           *)
(* And about Verdict, for every answer, not those of a run only: a lane's  *)
(* rules are total functions of the answer.                                *)
(***************************************************************************)
EXTENDS Response, Verdict, SequenceTheorems, TLAPS

-----------------------------------------------------------------------------
(* The invariant.                                                          *)

\* How far the client is in the answer of an attempt.
Ahead(a) == IF a = attempt THEN Len(got) ELSE 0

\* The handler's place says which answers have come and which status line went out.
Placed ==
    /\ pc = "start" => attempt = 0 /\ status = "none"
    /\ pc \in {"reading", "probing", "waiting", "relay", "pump"} => attempt > 0
    /\ pc = "pump" /\ ~gone => status # "none"
    /\ \A a \in Attempts : a <= attempt => answer[a] \in AnswerRecords
    /\ pc = "probing" => OK(answer[attempt].wire)
    /\ pc = "reading" => ~OK(answer[attempt].wire)
    /\ pc \in {"relay", "pump"} /\ ~OK(answer[attempt].wire) /\ ~gone =>
         sample = Cut(answer[attempt].body)

\* An attempt has a goroutine once its answer is a 2xx, and only then.
Probed(a) ==
    /\ a > attempt => reader[a] = "none" /\ read[a] = 0
    /\ a <= attempt => (reader[a] = "none" <=> ~OK(answer[a].wire))
    /\ reader[a] = "none" => ended[a] = "no" /\ pipe[a] = "open"
    /\ reader[a] \in {"pass", "handing"} => a = attempt /\ pc \in {"pump", "done"}

\* What a goroutine holds is what it has read and the client has not got, in
\* order; it never holds more than a head.
Buffered(a) ==
    /\ read[a] <= Len(answer[a].body)
    /\ reader[a] \notin {"probe", "head", "handing"} => held[a] = <<>>
    /\ reader[a] \in {"probe", "head", "pass", "handing"} =>
         /\ Len(held[a]) = read[a] - Ahead(a)
         /\ \A i \in 1 .. Len(held[a]) : held[a][i] = Ahead(a) + i
    /\ reader[a] = "probe" => read[a] < HeadLimit /\ Ahead(a) = 0

\* What ended, unless the request was cancelled, ended at the end of the body;
\* and the handler sees the end of the pipe only behind its last piece.
EndsBehind(a) ==
    /\ ended[a] # "no" /\ ~Cancelled => read[a] = Len(answer[a].body)
    /\ pipe[a] \in {"eof", "fail"} =>
         /\ reader[a] = "done" /\ a = attempt /\ pc \in {"pump", "done"}
         /\ pc = "pump" /\ ~gone => Len(got) = Len(answer[a].body)

\* The client has pieces of the last answer only, and once it has any the pump runs.
Delivered ==
    /\ got # <<>> => pc \in {"pump", "done"} /\ attempt > 0
    /\ pc = "pump" /\ ~OK(answer[attempt].wire) => Len(got) <= Len(sample)

\* The first piece lifts the deadline, so only a client that has none is severed.
Severable ==
    /\ deadline # "none" => got = <<>>
    /\ severed => gone /\ deadline = "past"

\* What the client has is the answer's, and all of it once the handler is done
\* and the connection stands.
Sound ==
    /\ \A i \in DOMAIN got : got[i] = <<attempt, i>>
    /\ pc = "done" /\ ~gone /\ notice = "none" => Whole

Intact ==
    /\ TypeOK /\ Sound /\ Severable /\ Placed /\ Delivered
    /\ \A a \in Attempts : Probed(a) /\ Buffered(a) /\ EndsBehind(a)

-----------------------------------------------------------------------------
(* The data the steps work on.                                             *)

\* An answer has a body of pieces and an end.
LEMMA AnswersAreTyped ==
    ASSUME NEW ans \in AnswerRecords
    PROVE  ans.body \in Seq(Pieces) /\ ans.end \in {"eof", "fail"}
<1>1. \A b \in Bodies : b \in Seq(Pieces)
  BY ResponseAssumption
<1>2. \A b \in ErrorBodies : b \in Seq(Pieces)
  <2>1. {"part"} \subseteq Pieces
    BY DEF Pieces
  <2> QED BY <2>1, ResponseAssumption, SeqMonotonic
<1> QED BY <1>1, <1>2 DEF AnswerRecords

\* The buffered part of an error body is a body, no longer than the limit.
LEMMA CutIsABody ==
    ASSUME NEW body \in Seq(Pieces)
    PROVE  /\ Cut(body) \in Seq(Pieces) /\ Len(Cut(body)) \in Nat /\ Len(Cut(body)) <= Len(body)
           /\ Cut(body) = SubSeq(body, 1, Len(Cut(body)))
<1> DEFINE n == IF Len(body) < ErrorLimit THEN Len(body) ELSE ErrorLimit
<1>1. n \in Nat /\ n <= Len(body) /\ Len(body) \in Nat
  BY ResponseAssumption, LenProperties
<1>2. \A i \in 1 .. n : body[i] \in Pieces
  BY <1>1, ElementOfSeq
<1>3. SubSeq(body, 1, n) \in Seq(Pieces) /\ Len(SubSeq(body, 1, n)) = n
  <2> HIDE DEF n
  <2> QED BY <1>1, <1>2, SubSeqProperties
<1> QED BY <1>1, <1>3 DEF Cut

-----------------------------------------------------------------------------
(* The steps.                                                              *)

\* What the handler has read of an error's body when it stops reading: a part of
\* the body, and as much as the limit allows while the client is there.
LEMMA WhatWasReadIsABody ==
    ASSUME Intact, ErrorBodyEnds
    PROVE  sample' \in Seq(Pieces) /\ (~gone => sample' = Cut(answer[attempt].body))
<1> DEFINE body == answer[attempt].body  n == read[attempt]
<1>1. TypeOK /\ Placed
  BY DEF Intact
<1>2. attempt \in Attempts /\ answer[attempt] \in AnswerRecords /\ Buffered(attempt)
  BY <1>1, ResponseAssumption DEF Intact, ErrorBodyEnds, TypeOK, Placed, Attempts
<1>3. body \in Seq(Pieces) /\ Len(body) \in Nat /\ n \in Nat /\ n <= Len(body)
  BY <1>1, <1>2, AnswersAreTyped, LenProperties DEF TypeOK, Buffered
<1>4. sample' = SubSeq(body, 1, n) /\ (~gone => n = Len(Cut(body)))
  BY DEF ErrorBodyEnds
<1>5. \A i \in 1 .. n : body[i] \in Pieces
  BY <1>3, ElementOfSeq
<1> HIDE DEF body, n
<1>6. SubSeq(body, 1, n) \in Seq(Pieces)
  BY <1>3, <1>5, SubSeqProperties
<1>7. Cut(body) = SubSeq(body, 1, Len(Cut(body)))
  BY <1>3, CutIsABody
<1> QED BY <1>4, <1>6, <1>7 DEF body

\* A connection stands, is left by the client, or is severed at a deadline that
\* has passed (waiter.go Wait; proxy.go pump).
LEMMA ConnectionKept ==
    ASSUME TypeOK, Severable, UNCHANGED connection \/ (Sever /\ deadline = "past")
    PROVE  /\ gone' \in BOOLEAN /\ severed' \in BOOLEAN /\ (severed' => gone')
           /\ deadline' \in {"none", "armed", "past"} /\ deadline' = deadline
           /\ gone => gone'
           /\ severed' => deadline = "past"
<1>1. /\ gone \in BOOLEAN /\ severed \in BOOLEAN /\ (severed => gone /\ deadline = "past")
      /\ deadline \in {"none", "armed", "past"}
  BY DEF TypeOK, Severable
<1>2. CASE UNCHANGED connection
  <2>1. gone' = gone /\ severed' = severed /\ deadline' = deadline
    BY <1>2 DEF connection
  <2> QED BY <1>1, <2>1
<1>3. CASE Sever /\ deadline = "past"
  <2>1. gone' = TRUE /\ severed' = TRUE /\ deadline' = deadline /\ deadline = "past"
    BY <1>3 DEF Sever
  <2> QED BY <1>1, <2>1
<1> QED BY <1>2, <1>3

\* A write that fails leaves nobody to write to.
LEMMA BrokenWrites ==
    ASSUME TypeOK, Severable, WriteBreaks
    PROVE  /\ gone' /\ gone' \in BOOLEAN /\ severed' \in BOOLEAN /\ (severed' => deadline = "past")
           /\ deadline' = deadline
<1>1. UNCHANGED connection \/ (Sever /\ deadline = "past")
  BY DEF WriteBreaks
<1>2. gone'
  BY DEF WriteBreaks, Sever, connection
<1> QED BY <1>1, <1>2, ConnectionKept

\* What the handler does away from the bodies: the goroutines see of it only
\* that the request may be over (proxy.go laneHandler, waiter.go).
Aside == \/ ProbeTimeout \/ WaitStart \/ Ping \/ WaitEnd \/ GiveUp \/ Relay \/ HangUp
         \/ DeadlinePasses \/ ErrorBodyEnds
         \/ \E h \in HostKinds, u \in Uploads : Accept(h, u)

LEMMA AsideKeeps ==
    ASSUME Intact, Aside
    PROVE  Intact'
<1>1. UNCHANGED <<attempt, upstream, got>>
  BY DEF Aside, ProbeTimeout, WaitStart, Ping, WaitEnd, GiveUp, Relay, HangUp, DeadlinePasses,
         ErrorBodyEnds, Accept, client
<1>2. TypeOK'
  <2>1. TypeOK
    BY DEF Intact
  <2>2. UNCHANGED <<attempt, answer, read, reader, ended, held, pipe, got>>
    BY <1>1 DEF upstream
  <2>3. pc' \in Places /\ status' \in {"none", "ping", "answer", "own"}
        /\ notice' \in {"none", "status", "event"} /\ pings' \in 0 .. MaxPings
        /\ sample' \in Seq(Pieces)
        /\ gone' \in BOOLEAN /\ severed' \in BOOLEAN /\ (severed' => gone')
        /\ deadline' \in {"none", "armed", "past"}
    <3>1. CASE ProbeTimeout \/ Relay \/ GiveUp
      <4>1. UNCHANGED connection \/ (Sever /\ deadline = "past")
        BY <3>1 DEF ProbeTimeout, Relay, GiveUp
      <4>2. /\ gone' \in BOOLEAN /\ severed' \in BOOLEAN /\ (severed' => gone')
            /\ deadline' \in {"none", "armed", "past"}
        BY <2>1, <4>1, ConnectionKept DEF Intact
      <4> QED BY <2>1, <3>1, <4>2, EmptySeq DEF TypeOK, ProbeTimeout, Relay, GiveUp, Fail, client, Places
    <3>2. CASE WaitStart \/ WaitEnd \/ HangUp \/ DeadlinePasses
      <4>1. gone' \in BOOLEAN /\ severed' = severed /\ (severed' => gone')
            /\ deadline' \in {"none", "armed", "past"}
        <5>1. \/ gone' = gone /\ severed' = severed
              \/ gone' = TRUE /\ severed' = severed
          BY <3>2 DEF WaitStart, WaitEnd, HangUp, DeadlinePasses, connection
        <5>2. deadline' \in {"none", "armed", "past"}
          BY <2>1, <3>2 DEF TypeOK, WaitStart, WaitEnd, HangUp, DeadlinePasses, connection
        <5>3. gone \in BOOLEAN /\ severed \in BOOLEAN /\ (severed => gone)
          BY <2>1 DEF TypeOK
        <5>4. CASE gone' = gone /\ severed' = severed
          BY <5>2, <5>3, <5>4
        <5>5. CASE gone' = TRUE /\ severed' = severed
          BY <5>2, <5>5
        <5> QED BY <5>1, <5>4, <5>5
      <4> QED BY <2>1, <3>2, <4>1 DEF TypeOK, WaitStart, WaitEnd, HangUp, DeadlinePasses, client, Places
    <3>3. CASE Ping
      BY <2>1, <3>3, ResponseAssumption DEF TypeOK, Ping, connection
    <3>4. CASE ErrorBodyEnds
      <4>1. sample' \in Seq(Pieces)
        BY <3>4, WhatWasReadIsABody DEF Intact
      <4> QED BY <2>1, <3>4, <4>1 DEF TypeOK, ErrorBodyEnds, client, connection, Places
    <3>5. ASSUME NEW h \in HostKinds, NEW u \in Uploads, Accept(h, u)
          PROVE  /\ pc' \in Places /\ status' \in {"none", "ping", "answer", "own"}
                 /\ notice' \in {"none", "status", "event"} /\ pings' = pings /\ sample' = sample
                 /\ UNCHANGED <<gone, severed, deadline>>
      BY <2>1, <3>5 DEF TypeOK, Accept, connection, Places
    <3> QED BY <2>1, <3>1, <3>2, <3>3, <3>4, <3>5 DEF Aside, TypeOK
  <2> QED BY <2>1, <2>2, <2>3 DEF TypeOK
<1>3. /\ pc \in {"pump", "done"} => pc' = pc
      /\ gone => gone'
      /\ pc' = "pump" => pc = "pump" \/ (pc = "relay" /\ sample' = sample)
      /\ pc = "pump" => sample' = sample /\ status' = status
  BY DEF Intact, TypeOK, Aside, ProbeTimeout, WaitStart, Ping, WaitEnd, GiveUp, Relay, HangUp,
         DeadlinePasses, ErrorBodyEnds, Sever, Accept, client, connection
<1>4. Placed'
  <2>1. CASE ProbeTimeout \/ DeadlinePasses
    BY <1>1, <2>1 DEF Intact, Placed, ProbeTimeout, DeadlinePasses, upstream, client, connection
  <2>2. CASE Relay
    BY <1>1, <2>2 DEF Intact, Placed, Relay, Sever, upstream, connection
  <2>3. CASE WaitStart \/ Ping \/ WaitEnd \/ GiveUp \/ HangUp
    BY <1>1, <2>3 DEF Intact, Placed, WaitStart, Ping, WaitEnd, GiveUp, HangUp, Sever, upstream, client,
                      connection
  <2>4. CASE ErrorBodyEnds
    <3>1. pc = "reading" /\ pc' \in {"relay", "engine"} /\ UNCHANGED <<status, gone>>
      BY <2>4 DEF ErrorBodyEnds, client, connection
    <3>2. ~gone => sample' = Cut(answer[attempt].body)
      BY <2>4, WhatWasReadIsABody
    <3> QED BY <1>1, <3>1, <3>2 DEF Intact, Placed, upstream
  <2>5. ASSUME NEW h \in HostKinds, NEW u \in Uploads, Accept(h, u) PROVE Placed'
    BY <1>1, <2>5 DEF Intact, Placed, Accept, upstream, connection
  <2> QED BY <2>1, <2>2, <2>3, <2>4, <2>5 DEF Aside
<1>5. Delivered'
  <2>1. CASE pc = "pump"
    BY <1>1, <1>3, <2>1 DEF Intact, Delivered, upstream
  <2>2. CASE pc # "pump"
    <3>1. pc' = "pump" => got = <<>>
      BY <1>3, <2>2 DEF Intact, Delivered
    <3>2. pc' = "pump" => Len(got') <= Len(sample')
      BY <1>1, <1>2, <3>1, LenProperties DEF TypeOK
    <3> QED BY <1>1, <1>3, <3>2 DEF Intact, Delivered
  <2> QED BY <2>1, <2>2
<1>6. ASSUME NEW a \in Attempts PROVE (Probed(a) /\ Buffered(a) /\ EndsBehind(a))'
  <2>1. Probed(a) /\ Buffered(a) /\ EndsBehind(a)
    BY DEF Intact
  <2>2. UNCHANGED <<attempt, answer, read, reader, ended, held, pipe, got>>
    BY <1>1 DEF upstream
  <2>3. Probed(a)'
    BY <1>3, <2>1, <2>2 DEF Probed
  <2>4. Buffered(a)'
    BY <2>1, <2>2 DEF Buffered, Ahead
  <2>5. EndsBehind(a)'
    BY <1>3, <2>1, <2>2 DEF EndsBehind, Cancelled
  <2> QED BY <2>3, <2>4, <2>5
<1>7. Sound'
  <2>1. \A i \in DOMAIN got' : got'[i] = <<attempt', i>>
    BY <1>1 DEF Intact, Sound
  <2>2. pc' = "done" /\ ~gone' /\ notice' = "none" => pc = "done" /\ ~gone /\ notice = "none"
    BY DEF Aside, ProbeTimeout, WaitStart, Ping, WaitEnd, GiveUp, Fail, Relay, HangUp, DeadlinePasses,
           ErrorBodyEnds, Sever, Accept, client, connection
  <2> QED BY <1>1, <2>1, <2>2 DEF Intact, Sound, Whole, Owed, upstream
<1>8. Severable'
  <2>1. WaitStart => got = <<>>
    BY DEF Intact, Delivered, WaitStart
  <2>2. DeadlinePasses => deadline = "armed"
    BY DEF DeadlinePasses
  <2> QED
    BY <1>1, <2>1, <2>2 DEF Intact, Severable, Aside, ProbeTimeout, WaitStart, Ping, WaitEnd, GiveUp, Relay, HangUp,
                      DeadlinePasses, ErrorBodyEnds, Sever, Accept, client, connection
<1> QED BY <1>2, <1>4, <1>5, <1>6, <1>7, <1>8 DEF Intact

\* A new attempt has read nothing (engine.go Execute; http.go do).
LEMMA SendKeeps ==
    ASSUME Intact, NEW ans \in AnswerRecords, Send(ans)
    PROVE  Intact'
<1> DEFINE new == attempt + 1
<1>1. TypeOK /\ Placed /\ Delivered /\ Sound /\ Severable
  BY DEF Intact
<1>2. new \in Attempts /\ attempt \in Nat /\ attempt' = new /\ ~(new <= attempt)
      /\ \A a \in Attempts : a \in Nat /\ (a <= new => a <= attempt \/ a = new) /\ (a > new => a > attempt)
  BY <1>1, ResponseAssumption DEF Send, TypeOK, Attempts
<1>3. got = <<>> /\ Len(got) = 0
  BY <1>1, EmptySeq DEF Delivered, Send
<1>4. /\ answer' = [answer EXCEPT ![new] = ans]
      /\ UNCHANGED <<read, ended, held, pipe, client, connection>>
  BY <1>2 DEF Send
<1>5. /\ pc' = IF OK(ans.wire) THEN "probing" ELSE "reading"
      /\ sample' = <<>>
      /\ reader' = IF OK(ans.wire) THEN [reader EXCEPT ![new] = "probe"] ELSE reader
  BY <1>2 DEF Send
<1>6. ans.body \in Seq(Pieces) /\ Len(ans.body) \in Nat
  BY AnswersAreTyped, LenProperties
<1>7. TypeOK'
  <2>1. attempt' \in 0 .. MaxAttempts /\ <<>> \in Seq(Pieces)
    BY <1>2, ResponseAssumption, EmptySeq DEF Attempts
  <2>2. /\ answer' \in [Attempts -> AnswerRecords \cup {NoAnswer}]
        /\ reader' \in [Attempts -> Readers] /\ sample' \in Seq(Pieces)
    BY <1>1, <1>4, <1>5, <1>6, <2>1 DEF TypeOK, Readers
  <2> QED BY <1>1, <1>4, <1>5, <2>1, <2>2 DEF TypeOK, client, connection, Places
<1>8. answer'[new] = ans /\ \A a \in Attempts : a # new => answer'[a] = answer[a]
  BY <1>1, <1>2, <1>4 DEF TypeOK
<1>9. Placed'
  BY <1>1, <1>2, <1>5, <1>8 DEF Placed
<1>10. Delivered' /\ Sound' /\ Severable'
  BY <1>1, <1>2, <1>3, <1>4, <1>5 DEF Delivered, Sound, Severable, client, connection
<1>11. ASSUME NEW a \in Attempts PROVE (Probed(a) /\ Buffered(a) /\ EndsBehind(a))'
  <2>1. Probed(a) /\ Buffered(a) /\ EndsBehind(a)
    BY DEF Intact
  <2>2. Ahead(a) = 0 /\ Ahead(a)' = 0
    BY <1>3, <1>4 DEF Ahead, client
  <2>3. CASE a # new
    <3>1. UNCHANGED <<answer[a], read[a], reader[a], ended[a], held[a], pipe[a]>>
      BY <1>1, <1>2, <1>4, <1>5, <2>3 DEF TypeOK
    <3>2. Probed(a)' /\ EndsBehind(a)'
      <4>1. reader[a] \notin {"pass", "handing"} /\ pipe[a] \notin {"eof", "fail"}
        BY <2>1 DEF Probed, EndsBehind, Send
      <4> QED BY <1>2, <1>4, <1>5, <2>1, <2>3, <3>1, <4>1 DEF Probed, EndsBehind, Cancelled, Send, connection
    <3>3. Buffered(a)'
      BY <2>1, <2>2, <3>1 DEF Buffered
    <3> QED BY <3>2, <3>3
  <2>4. CASE a = new
    <3>1. reader[a] = "none" /\ read[a] = 0 /\ ended[a] = "no" /\ pipe[a] = "open" /\ held[a] = <<>>
      BY <1>2, <2>1, <2>4 DEF Probed, Buffered
    <3>2. /\ ended'[a] = "no" /\ pipe'[a] = "open" /\ held'[a] = <<>> /\ answer'[a] = ans /\ read'[a] = 0
          /\ reader'[a] = IF OK(ans.wire) THEN "probe" ELSE "none"
      BY <1>1, <1>4, <1>5, <1>8, <2>4, <3>1 DEF TypeOK
    <3>3. Probed(a)' /\ EndsBehind(a)'
      BY <1>2, <2>4, <3>2 DEF Probed, EndsBehind
    <3>4. Len(<<>>) = 0 /\ HeadLimit \in Nat /\ HeadLimit > 0
      BY ResponseAssumption
    <3>5. Buffered(a)'
      BY <1>6, <2>2, <3>2, <3>4 DEF Buffered
    <3> QED BY <3>3, <3>5
  <2> QED BY <2>3, <2>4
<1> QED BY <1>7, <1>9, <1>10, <1>11 DEF Intact

\* The handler reads an error's body up to the limit (engine.go Execute).
LEMMA ReadErrorBodyKeeps ==
    ASSUME Intact, ReadErrorBody
    PROVE  Intact'
<1> DEFINE body == answer[attempt].body
<1>1. TypeOK /\ Placed /\ Delivered /\ Sound /\ Severable
  BY DEF Intact
<1>2. /\ attempt \in Attempts /\ pc = "reading" /\ ~OK(answer[attempt].wire)
      /\ answer[attempt] \in AnswerRecords /\ read[attempt] \in Nat /\ read[attempt] < Len(Cut(body))
  BY <1>1, ResponseAssumption DEF ReadErrorBody, TypeOK, Placed, Attempts
<1>3. /\ read' = [read EXCEPT ![attempt] = @ + 1]
      /\ UNCHANGED <<pc, attempt, answer, reader, ended, held, pipe, sample, client, connection>>
  BY DEF ReadErrorBody
<1>4. read[attempt] + 1 \in Nat /\ read[attempt] + 1 <= Len(body)
  <2>1. Len(Cut(body)) \in Nat /\ Len(Cut(body)) <= Len(body) /\ Len(body) \in Nat
    BY <1>2, AnswersAreTyped, CutIsABody, LenProperties
  <2> QED BY <1>2, <2>1
<1>5. TypeOK' /\ Placed' /\ Delivered' /\ Sound' /\ Severable'
  <2>1. read' \in [Attempts -> Nat]
    BY <1>1, <1>3, <1>4 DEF TypeOK
  <2> QED BY <1>1, <1>3, <2>1 DEF TypeOK, Placed, Delivered, Sound, Severable, Whole, Owed, client, connection
<1>6. ASSUME NEW a \in Attempts PROVE (Probed(a) /\ Buffered(a) /\ EndsBehind(a))'
  <2>1. Probed(a) /\ Buffered(a) /\ EndsBehind(a)
    BY DEF Intact
  <2>2. a # attempt => read'[a] = read[a]
    BY <1>1, <1>3 DEF TypeOK
  <2>3. a = attempt => read'[a] <= Len(body) /\ reader[a] = "none" /\ ended[a] = "no" /\ pipe[a] = "open"
    BY <1>1, <1>2, <1>3, <1>4, <2>1 DEF TypeOK, Probed, Attempts
  <2>4. ~(attempt > attempt)
    BY <1>2 DEF Attempts
  <2> QED BY <1>3, <2>1, <2>2, <2>3, <2>4 DEF Probed, Buffered, EndsBehind, Ahead, Cancelled, client, connection
<1> QED BY <1>5, <1>6 DEF Intact

\* The sample is a copy: what the goroutine holds it still holds (http.go probeHead).
LEMMA SampledKeeps ==
    ASSUME Intact, Sampled
    PROVE  Intact'
<1>1. TypeOK /\ Placed /\ Delivered /\ Sound /\ Severable
  BY DEF Intact
<1>2. attempt \in Attempts /\ answer[attempt] \in AnswerRecords /\ OK(answer[attempt].wire) /\ pc = "probing"
      /\ reader[attempt] = "head"
  BY <1>1, ResponseAssumption DEF Sampled, TypeOK, Placed, Attempts
<1>3. /\ UNCHANGED <<attempt, answer, read, reader, ended, held, client, connection>>
      /\ pc' \in {"relay", "engine"}
  BY DEF Sampled, Judge
<1>4. pipe' = pipe \/ pipe' = [pipe EXCEPT ![attempt] = "closed"]
  BY DEF Sampled, Judge
<1>5. sample' \in Seq(Pieces)
  <2> DEFINE h == held[attempt]  body == answer[attempt].body
  <2>1. h \in Seq(Nat) /\ body \in Seq(Pieces)
    BY <1>1, <1>2, AnswersAreTyped DEF TypeOK
  <2>2. Len(h) \in Nat /\ DOMAIN h = 1 .. Len(h) /\ Len(body) \in Nat
    BY <2>1, LenProperties
  <2>3. \A i \in 1 .. Len(h) : h[i] \in 1 .. Len(body)
    <3>1. Buffered(attempt) /\ read[attempt] \in Nat /\ Len(got) \in Nat
      BY <1>1, <1>2, LenProperties DEF Intact, TypeOK
    <3>2. Ahead(attempt) = Len(got)
      BY DEF Ahead
    <3>3. Len(h) = read[attempt] - Len(got) /\ \A i \in 1 .. Len(h) : h[i] = Len(got) + i
      BY <1>2, <3>1, <3>2 DEF Buffered
    <3>4. read[attempt] <= Len(body)
      BY <3>1 DEF Buffered
    <3> QED BY <2>2, <3>1, <3>3, <3>4
  <2>4. \A i \in 1 .. Len(h) : body[h[i]] \in Pieces
    BY <2>1, <2>3, ElementOfSeq
  <2>5. sample' = [i \in 1 .. Len(h) |-> body[h[i]]]
    BY <2>2 DEF Sampled
  <2> HIDE DEF h, body
  <2> QED BY <2>2, <2>4, <2>5
<1>6. TypeOK'
  BY <1>1, <1>3, <1>4, <1>5 DEF TypeOK, Places, client, connection
<1>7. Placed' /\ Delivered' /\ Sound' /\ Severable'
  BY <1>1, <1>2, <1>3 DEF Placed, Delivered, Sound, Severable, Whole, Owed, client, connection
<1>8. ASSUME NEW a \in Attempts PROVE (Probed(a) /\ Buffered(a) /\ EndsBehind(a))'
  <2>1. Probed(a) /\ Buffered(a) /\ EndsBehind(a)
    BY DEF Intact
  <2>2. pipe'[a] = pipe[a] \/ (a = attempt /\ pipe'[a] = "closed")
    BY <1>1, <1>4 DEF TypeOK
  <2>3. Buffered(a)'
    BY <1>3, <2>1 DEF Buffered, Ahead, client
  <2>4. Probed(a)' /\ EndsBehind(a)'
    BY <1>2, <1>3, <2>1, <2>2 DEF Probed, EndsBehind, Cancelled, client, connection
  <2> QED BY <2>3, <2>4
<1> QED BY <1>6, <1>7, <1>8 DEF Intact

\* A piece goes from the goroutine to the client, and it is the next one (proxy.go
\* pump; io.Pipe).
LEMMA PumpPieceKeeps ==
    ASSUME Intact, PumpPiece
    PROVE  Intact'
<1> DEFINE h == held[attempt]
<1>1. TypeOK /\ Placed /\ Delivered /\ Sound /\ Severable
  BY DEF Intact
<1>2. /\ attempt \in Attempts /\ answer[attempt] \in AnswerRecords
      /\ pc = "pump" /\ OK(answer[attempt].wire) /\ reader[attempt] \in {"head", "handing"} /\ h # <<>>
  BY <1>1, ResponseAssumption DEF PumpPiece, TypeOK, Placed, Attempts
<1>3. UNCHANGED <<attempt, answer, read, reader, ended, sample, status, notice, pings>>
  BY DEF PumpPiece
<1>4. ASSUME NEW a \in Attempts PROVE Probed(a) /\ Buffered(a) /\ EndsBehind(a)
  BY DEF Intact
<1>5. CASE pc' = "done" /\ WriteBreaks /\ pipe' = [pipe EXCEPT ![attempt] = "closed"] /\ UNCHANGED <<held, got>>
  <2>1. /\ gone' /\ gone' \in BOOLEAN /\ severed' \in BOOLEAN /\ (severed' => deadline = "past")
        /\ deadline' = deadline
    BY <1>1, <1>5, BrokenWrites
  <2>2. TypeOK'
    BY <1>1, <1>3, <1>5, <2>1 DEF TypeOK, Places, WriteBreaks, Sever, connection
  <2>3. Placed' /\ Delivered' /\ Sound' /\ Severable'
    BY <1>1, <1>2, <1>3, <1>5, <2>1 DEF Placed, Delivered, Sound, Severable
  <2>4. ASSUME NEW a \in Attempts PROVE (Probed(a) /\ Buffered(a) /\ EndsBehind(a))'
    <3>1. pipe'[a] = pipe[a] \/ (a = attempt /\ pipe'[a] = "closed")
      BY <1>1, <1>5 DEF TypeOK
    <3>2. Buffered(a)'
      BY <1>3, <1>4, <1>5 DEF Buffered, Ahead
    <3>3. Probed(a)' /\ EndsBehind(a)'
      BY <1>2, <1>3, <1>4, <1>5, <3>1 DEF Probed, EndsBehind, Cancelled
    <3> QED BY <3>2, <3>3
  <2> QED BY <2>2, <2>3, <2>4 DEF Intact
<1>6. CASE WriteOut /\ got' = Append(got, <<attempt, Head(h)>>) /\ held' = [held EXCEPT ![attempt] = Tail(h)]
           /\ UNCHANGED <<pc, pipe>>
  <2>1. /\ got' = Append(got, <<attempt, Head(h)>>) /\ held' = [held EXCEPT ![attempt] = Tail(h)]
        /\ UNCHANGED <<pc, pipe, gone, severed>> /\ ~gone /\ deadline' = "none"
    BY <1>6 DEF WriteOut
  <2>2. h \in Seq(Nat) /\ Len(h) \in Nat \ {0} /\ got \in Seq(Attempts \X Nat) /\ Len(got) \in Nat
    BY <1>1, <1>2, EmptySeq, LenProperties DEF TypeOK
  <2>3. /\ Head(h) = h[1] /\ Head(h) \in Nat /\ Tail(h) \in Seq(Nat) /\ Len(Tail(h)) = Len(h) - 1
        /\ \A i \in 1 .. Len(Tail(h)) : Tail(h)[i] = h[i + 1]
    BY <1>2, <2>2, HeadTailProperties
  <2>4. Len(h) = read[attempt] - Len(got) /\ \A i \in 1 .. Len(h) : h[i] = Len(got) + i
    BY <1>2, <1>4 DEF Buffered, Ahead
  <2>5. Head(h) = Len(got) + 1
    <3> HIDE DEF h
    <3>1. 1 \in 1 .. Len(h)
      BY <2>2
    <3> QED BY <2>3, <2>4, <3>1
  <2>6. /\ got' \in Seq(Attempts \X Nat) /\ Len(got') = Len(got) + 1 /\ DOMAIN got' = 1 .. Len(got) + 1
        /\ \A i \in 1 .. Len(got) : got'[i] = got[i]
        /\ got'[Len(got) + 1] = <<attempt, Len(got) + 1>>
    <3> HIDE DEF h
    <3>1. <<attempt, Head(h)>> \in Attempts \X Nat
      BY <1>2, <2>3
    <3> QED BY <2>1, <2>2, <2>5, <3>1
  <2>7. Sound' /\ Severable'
    <3>1. DOMAIN got = 1 .. Len(got)
      BY <2>2
    <3>2. ASSUME NEW i \in DOMAIN got' PROVE got'[i] = <<attempt, i>>
      <4>1. i \in 1 .. Len(got) \/ i = Len(got) + 1
        BY <2>2, <2>6
      <4>2. i \in 1 .. Len(got) => got[i] = <<attempt, i>>
        BY <1>1, <3>1 DEF Sound
      <4> QED BY <2>6, <4>1, <4>2
    <3> QED BY <1>1, <1>2, <1>3, <2>1, <3>2 DEF Sound, Severable
  <2>8. TypeOK'
    <3>1. Len(Tail(h)) <= HeadLimit
      BY <1>1, <1>2, <2>2, <2>3, ResponseAssumption DEF TypeOK
    <3>2. held' \in [Attempts -> Seq(Nat)] /\ \A a \in Attempts : Len(held'[a]) <= HeadLimit
      BY <1>1, <1>2, <2>1, <2>3, <3>1 DEF TypeOK
    <3> QED BY <1>1, <1>3, <2>1, <2>6, <3>2 DEF TypeOK
  <2>9. Placed' /\ Delivered'
    BY <1>1, <1>2, <1>3, <2>1 DEF Placed, Delivered
  <2>10. ASSUME NEW a \in Attempts PROVE (Probed(a) /\ Buffered(a) /\ EndsBehind(a))'
    <3>1. Probed(a)' /\ EndsBehind(a)'
      BY <1>2, <1>3, <1>4, <2>1 DEF Probed, EndsBehind, Cancelled
    <3>2. CASE a # attempt
      <4>1. held'[a] = held[a] /\ Ahead(a) = 0 /\ Ahead(a)' = 0
        BY <1>1, <1>3, <2>1, <3>2 DEF TypeOK, Ahead
      <4>2. Buffered(a)'
        BY <1>3, <1>4, <4>1 DEF Buffered
      <4> QED BY <3>1, <4>2
    <3>3. CASE a = attempt
      <4>1. held'[a] = Tail(h) /\ Ahead(a)' = Len(got) + 1 /\ reader'[a] \in {"head", "handing"}
        BY <1>1, <1>2, <1>3, <2>1, <2>6, <3>3 DEF TypeOK, Ahead
      <4>2. Len(Tail(h)) = read[a] - (Len(got) + 1) /\ \A i \in 1 .. Len(Tail(h)) : Tail(h)[i] = Len(got) + 1 + i
        <5>1. read[a] \in Nat
          BY <1>1 DEF TypeOK
        <5> HIDE DEF h
        <5> QED BY <2>2, <2>3, <2>4, <3>3, <5>1
      <4>3. Buffered(a)'
        BY <1>3, <1>4, <4>1, <4>2 DEF Buffered
      <4> QED BY <3>1, <4>3
    <3> QED BY <3>2, <3>3
  <2> QED BY <2>7, <2>8, <2>9, <2>10 DEF Intact
<1> QED BY <1>5, <1>6 DEF PumpPiece

\* An error's body goes to the client piece by piece as well (proxy.go pump).
LEMMA PumpSampleKeeps ==
    ASSUME Intact, PumpSample
    PROVE  Intact'
<1>1. TypeOK /\ Placed /\ Delivered /\ Sound /\ Severable
  BY DEF Intact
<1>2. /\ attempt \in Attempts /\ pc = "pump" /\ ~OK(answer[attempt].wire) /\ Len(got) < Len(sample)
      /\ got \in Seq(Attempts \X Nat) /\ Len(got) \in Nat /\ Len(sample) \in Nat /\ DOMAIN got = 1 .. Len(got)
  BY <1>1, ResponseAssumption, LenProperties DEF PumpSample, TypeOK, Placed, Attempts
<1>3. UNCHANGED <<attempt, answer, read, reader, ended, held, pipe, sample, status, notice, pings>>
  BY DEF PumpSample, upstream
<1>4. \/ /\ gone' /\ pc' = "done" /\ got' = got /\ deadline' = deadline /\ gone' \in BOOLEAN
         /\ severed' \in BOOLEAN /\ (severed' => deadline = "past")
      \/ /\ ~gone /\ pc' = pc /\ got' = Append(got, <<attempt, Len(got) + 1>>)
         /\ UNCHANGED <<gone, severed>> /\ deadline' = "none"
  <2>1. CASE WriteBreaks /\ pc' = "done" /\ UNCHANGED got
    BY <1>1, <2>1, BrokenWrites
  <2>2. CASE WriteOut /\ got' = Append(got, <<attempt, Len(got) + 1>>) /\ UNCHANGED pc
    BY <2>2 DEF WriteOut
  <2> QED BY <2>1, <2>2 DEF PumpSample
<1>5. /\ got' \in Seq(Attempts \X Nat) /\ \A i \in DOMAIN got' : got'[i] = <<attempt, i>>
      /\ Len(got') <= Len(sample)
  <2>1. CASE got' = got
    BY <1>1, <1>2, <2>1 DEF Sound
  <2>2. CASE got' = Append(got, <<attempt, Len(got) + 1>>)
    <3>1. /\ got' \in Seq(Attempts \X Nat) /\ Len(got') = Len(got) + 1 /\ DOMAIN got' = 1 .. Len(got) + 1
          /\ \A i \in 1 .. Len(got) : got'[i] = got[i]
          /\ got'[Len(got) + 1] = <<attempt, Len(got) + 1>>
      <4>1. <<attempt, Len(got) + 1>> \in Attempts \X Nat
        BY <1>2
      <4> QED BY <1>2, <2>2, <4>1
    <3> QED BY <1>1, <1>2, <3>1 DEF Sound
  <2> QED BY <1>4, <2>1, <2>2
<1>6. TypeOK' /\ Placed' /\ Delivered' /\ Sound' /\ Severable'
  <2>1. gone' \in BOOLEAN /\ severed' \in BOOLEAN /\ (severed' => gone')
    <3>1. gone \in BOOLEAN /\ severed \in BOOLEAN /\ (severed => gone)
      BY <1>1 DEF TypeOK
    <3> QED BY <1>4, <3>1
  <2>2. TypeOK' /\ Placed' /\ Delivered'
    BY <1>1, <1>2, <1>3, <1>4, <1>5, <2>1 DEF TypeOK, Placed, Delivered, Places
  <2>3. Sound' /\ Severable'
    BY <1>1, <1>2, <1>3, <1>4, <1>5, <2>1 DEF Sound, Severable
  <2> QED BY <2>2, <2>3
<1>7. ASSUME NEW a \in Attempts PROVE (Probed(a) /\ Buffered(a) /\ EndsBehind(a))'
  <2>1. Probed(a) /\ Buffered(a) /\ EndsBehind(a)
    BY DEF Intact
  <2>2. a = attempt => reader[a] = "none" /\ pipe[a] = "open" /\ ended[a] = "no"
    BY <1>2, <2>1 DEF Probed, Attempts
  <2>3. a # attempt => Ahead(a)' = Ahead(a)
    BY <1>3 DEF Ahead
  <2>4. Probed(a)' /\ EndsBehind(a)'
    BY <1>2, <1>3, <1>4, <2>1, <2>2 DEF Probed, EndsBehind, Cancelled
  <2>5. Buffered(a)'
    BY <1>3, <2>1, <2>2, <2>3 DEF Buffered
  <2> QED BY <2>4, <2>5
<1> QED BY <1>6, <1>7 DEF Intact

\* The goroutine goes on behind what it handed over; behind the last piece it
\* closes the pipe (http.go probeHead; io.Pipe).
LEMMA HandedKeeps ==
    ASSUME Intact, Handed
    PROVE  Intact'
<1>1. TypeOK /\ Placed /\ Delivered /\ Sound /\ Severable
  BY DEF Intact
<1>2. /\ attempt \in Attempts /\ pc = "pump" /\ reader[attempt] \in {"head", "handing"} /\ held[attempt] = <<>>
      /\ got \in Seq(Attempts \X Nat) /\ Len(got) \in Nat
  BY <1>1, ResponseAssumption, LenProperties DEF Handed, TypeOK, Placed, Attempts
<1>3. UNCHANGED <<pc, attempt, answer, read, ended, held, sample, client, connection>>
  BY DEF Handed
<1>4. \/ ended[attempt] = "no" /\ reader' = [reader EXCEPT ![attempt] = "pass"] /\ pipe' = pipe
      \/ /\ ended[attempt] # "no" /\ reader' = [reader EXCEPT ![attempt] = "done"]
         /\ pipe' = [pipe EXCEPT ![attempt] = ended[attempt]]
  BY DEF Handed
<1>5. TypeOK'
  BY <1>1, <1>2, <1>3, <1>4 DEF TypeOK, Readers, client, connection
<1>6. Placed' /\ Delivered' /\ Sound' /\ Severable'
  BY <1>1, <1>2, <1>3 DEF Placed, Delivered, Sound, Severable, Whole, Owed, client, connection
<1>7. ASSUME NEW a \in Attempts PROVE (Probed(a) /\ Buffered(a) /\ EndsBehind(a))'
  <2>1. Probed(a) /\ Buffered(a) /\ EndsBehind(a)
    BY DEF Intact
  <2>2. CASE a # attempt
    <3>1. reader'[a] = reader[a] /\ pipe'[a] = pipe[a]
      BY <1>1, <1>4, <2>2 DEF TypeOK
    <3> QED BY <1>2, <1>3, <2>1, <3>1 DEF Probed, Buffered, EndsBehind, Ahead, Cancelled, client, connection
  <2>3. CASE a = attempt
    <3>1. \/ ended[a] = "no" /\ reader'[a] = "pass" /\ pipe'[a] = pipe[a]
          \/ ended[a] # "no" /\ reader'[a] = "done" /\ pipe'[a] = ended[a]
      BY <1>1, <1>2, <1>4, <2>3 DEF TypeOK
    <3>2. Probed(a)'
      BY <1>2, <1>3, <2>1, <2>3, <3>1 DEF Probed
    <3>3. Buffered(a)'
      BY <1>2, <1>3, <2>1, <2>3, <3>1 DEF Buffered, Ahead, client
    <3>4. read[a] = Len(got)
      <4>1. Len(held[a]) = 0
        BY <1>2, <2>3
      <4>2. Len(held[a]) = read[a] - Len(got) /\ read[a] \in Nat
        BY <1>1, <1>2, <2>1, <2>3 DEF Buffered, Ahead, TypeOK
      <4> QED BY <1>2, <4>1, <4>2
    <3>5. EndsBehind(a)'
      BY <1>2, <1>3, <2>1, <2>3, <3>1, <3>4 DEF EndsBehind, Cancelled, client, connection
    <3> QED BY <3>2, <3>3, <3>5
  <2> QED BY <2>2, <2>3
<1> QED BY <1>5, <1>6, <1>7 DEF Intact

\* The pump returns behind the last piece of what there is (proxy.go pump).
LEMMA PumpEndKeeps ==
    ASSUME Intact, PumpEnd
    PROVE  Intact'
<1>1. TypeOK /\ Placed /\ Delivered /\ Sound /\ Severable
  BY DEF Intact
<1>2. /\ attempt \in Attempts /\ pc = "pump" /\ pc' = "done" /\ UNCHANGED <<attempt, upstream, sample, client>>
      /\ gone' \in BOOLEAN /\ (gone => gone') /\ deadline' = deadline
      /\ severed' \in BOOLEAN /\ (severed' => gone' /\ deadline = "past")
  <2>1. attempt \in Attempts /\ pc = "pump" /\ pc' = "done" /\ UNCHANGED <<attempt, upstream, sample, client>>
    BY <1>1, ResponseAssumption DEF PumpEnd, TypeOK, Placed, Attempts
  <2>2. UNCHANGED connection \/ (Sever /\ deadline = "past")
    BY DEF PumpEnd
  <2> QED BY <1>1, <2>1, <2>2, ConnectionKept
<1>3. ~gone => Len(got) = Len(IF OK(answer[attempt].wire) THEN answer[attempt].body
                                                          ELSE Cut(answer[attempt].body))
  <2>1. CASE OK(answer[attempt].wire)
    <3>1. EndsBehind(attempt) /\ pipe[attempt] \in {"eof", "fail"}
      BY <1>2, <2>1 DEF Intact, PumpEnd
    <3> QED BY <1>2, <2>1, <3>1 DEF EndsBehind
  <2>2. CASE ~OK(answer[attempt].wire)
    BY <1>1, <1>2, <2>2 DEF PumpEnd, Placed
  <2> QED BY <2>1, <2>2
<1>4. TypeOK' /\ Placed' /\ Delivered'
  BY <1>1, <1>2 DEF TypeOK, Placed, Delivered, Places, upstream, client, connection
<1>5. Sound' /\ Severable'
  BY <1>1, <1>2, <1>3 DEF Sound, Severable, Whole, Owed, upstream, client, connection
<1>6. ASSUME NEW a \in Attempts PROVE (Probed(a) /\ Buffered(a) /\ EndsBehind(a))'
  <2>1. Probed(a) /\ Buffered(a) /\ EndsBehind(a)
    BY DEF Intact
  <2> QED BY <1>2, <2>1 DEF Probed, Buffered, EndsBehind, Ahead, Cancelled, upstream, client, connection
<1> QED BY <1>4, <1>5, <1>6 DEF Intact

\* A goroutine touches its own attempt and nothing of the handler's (http.go probeHead).
LEMMA GoroutinesKeepToThemselves ==
    ASSUME Intact, NEW a \in Attempts, Reads(a) \/ Frees(a)
    PROVE  /\ UNCHANGED <<pc, attempt, answer, sample, client, connection>>
           /\ Placed' /\ Delivered' /\ Sound' /\ Severable'
           /\ \A b \in Attempts \ {a} : (Probed(b) /\ Buffered(b) /\ EndsBehind(b))'
<1>1. TypeOK /\ Placed /\ Delivered /\ Sound /\ Severable
  BY DEF Intact
<1>2. UNCHANGED <<pc, attempt, answer, sample, client, connection>>
  BY DEF Reads, Frees, ReadHead, ReadOn, ReadDrain, UpstreamEnds, ReadCancelled, Ends, HeadEnds, PassEnds,
         DrainEnds, WriteFails
<1>3. Placed' /\ Delivered' /\ Sound' /\ Severable'
  BY <1>1, <1>2 DEF Placed, Delivered, Sound, Severable, Whole, Owed, client, connection
<1>4. ASSUME NEW b \in Attempts, b # a PROVE UNCHANGED <<read[b], reader[b], ended[b], held[b], pipe[b]>>
  <2> USE DEF TypeOK
  <2>1. CASE ReadHead(a) \/ ReadOn(a) \/ ReadDrain(a) \/ WriteFails(a)
    BY <1>1, <1>4, <2>1 DEF ReadHead, ReadOn, ReadDrain, WriteFails
  <2>2. CASE UpstreamEnds(a) \/ ReadCancelled(a)
    BY <1>1, <1>4, <2>2 DEF UpstreamEnds, ReadCancelled, Ends, HeadEnds, PassEnds, DrainEnds
  <2> QED BY <2>1, <2>2 DEF Reads, Frees
<1>5. ASSUME NEW b \in Attempts, b # a PROVE (Probed(b) /\ Buffered(b) /\ EndsBehind(b))'
  <2>1. Probed(b) /\ Buffered(b) /\ EndsBehind(b)
    BY DEF Intact
  <2> QED BY <1>2, <1>4, <1>5, <2>1 DEF Probed, Buffered, EndsBehind, Ahead, Cancelled, client, connection
<1> QED BY <1>2, <1>3, <1>5

\* One Read of the head: the piece goes to the end of the buffer.
LEMMA ReadHeadKeeps ==
    ASSUME Intact, NEW a \in Attempts, ReadHead(a)
    PROVE  Intact'
<1>1. TypeOK /\ Probed(a) /\ Buffered(a) /\ EndsBehind(a)
  BY DEF Intact
<1>2. /\ UNCHANGED <<pc, attempt, answer, sample, client, connection>> /\ Placed' /\ Delivered' /\ Sound' /\ Severable'
      /\ \A b \in Attempts \ {a} : (Probed(b) /\ Buffered(b) /\ EndsBehind(b))'
  BY GoroutinesKeepToThemselves DEF Reads
<1>3. /\ reader[a] = "probe" /\ read[a] < Len(answer[a].body)
      /\ read[a] \in Nat /\ held[a] \in Seq(Nat) /\ Len(held[a]) \in Nat
      /\ read[a] < HeadLimit /\ HeadLimit \in Nat /\ Len(held[a]) = read[a] /\ Ahead(a) = 0
      /\ \A i \in 1 .. Len(held[a]) : held[a][i] = i
  BY <1>1, ResponseAssumption, LenProperties DEF ReadHead, TypeOK, Buffered
<1>4. /\ read'[a] = read[a] + 1 /\ held'[a] = Append(held[a], read[a] + 1)
      /\ reader'[a] = IF HeadFull(a) THEN "head" ELSE "probe"
      /\ ended' = ended /\ pipe' = pipe
  BY <1>1 DEF ReadHead, TypeOK
<1>5. /\ Append(held[a], read[a] + 1) \in Seq(Nat)
      /\ Len(Append(held[a], read[a] + 1)) = read[a] + 1
      /\ \A i \in 1 .. read[a] + 1 : Append(held[a], read[a] + 1)[i] = i
  <2>1. read[a] + 1 \in Nat
    BY <1>3
  <2>2. /\ Append(held[a], read[a] + 1) \in Seq(Nat) /\ Len(Append(held[a], read[a] + 1)) = Len(held[a]) + 1
        /\ \A i \in 1 .. Len(held[a]) : Append(held[a], read[a] + 1)[i] = held[a][i]
        /\ Append(held[a], read[a] + 1)[Len(held[a]) + 1] = read[a] + 1
    BY <1>3, <2>1, AppendProperties
  <2> QED BY <1>3, <2>2
<1>6. TypeOK'
  <2>1. /\ held' \in [Attempts -> Seq(Nat)] /\ read' \in [Attempts -> Nat] /\ reader' \in [Attempts -> Readers]
    BY <1>1, <1>3, <1>5 DEF ReadHead, TypeOK, Readers
  <2>2. ASSUME NEW b \in Attempts PROVE Len(held'[b]) <= HeadLimit
    BY <1>1, <1>3, <1>4, <1>5 DEF ReadHead, TypeOK
  <2> QED BY <1>1, <1>2, <1>4, <2>1, <2>2 DEF TypeOK, client, connection
<1>7. ~HeadFull(a) => read[a] + 1 < HeadLimit
  BY <1>3 DEF HeadFull
<1>8. Ahead(a)' = 0
  BY <1>2, <1>3 DEF Ahead, client
<1>9. Probed(a)'
  BY <1>1, <1>2, <1>3, <1>4 DEF Probed
<1>10. Buffered(a)'
  <2>1. Len(answer[a].body) \in Nat
    BY <1>1, AnswersAreTyped, LenProperties, EmptySeq DEF TypeOK, NoAnswer
  <2> QED BY <1>2, <1>3, <1>4, <1>5, <1>7, <1>8, <2>1 DEF Buffered
<1>11. EndsBehind(a)'
  BY <1>1, <1>2, <1>3, <1>4 DEF EndsBehind, Cancelled, client, connection
<1> QED BY <1>2, <1>6, <1>9, <1>10, <1>11 DEF Intact

\* One Read behind the head: it is handed on at once (http.go forwardAll).
LEMMA ReadOnKeeps ==
    ASSUME Intact, NEW a \in Attempts, ReadOn(a)
    PROVE  Intact'
<1>1. TypeOK /\ Probed(a) /\ Buffered(a) /\ EndsBehind(a) /\ Delivered
  BY DEF Intact
<1>2. /\ UNCHANGED <<pc, attempt, answer, sample, client, connection>> /\ Placed' /\ Delivered' /\ Sound' /\ Severable'
      /\ \A b \in Attempts \ {a} : (Probed(b) /\ Buffered(b) /\ EndsBehind(b))'
  BY GoroutinesKeepToThemselves DEF Reads
<1>3. /\ reader[a] = "pass" /\ read[a] < Len(answer[a].body) /\ a = attempt
      /\ read[a] \in Nat /\ HeadLimit \in Nat \ {0} /\ Len(got) \in Nat /\ held[a] = <<>>
  BY <1>1, ResponseAssumption, LenProperties DEF ReadOn, TypeOK, Buffered, Probed
<1>4. /\ read'[a] = read[a] + 1 /\ held'[a] = <<read[a] + 1>> /\ reader'[a] = "handing"
      /\ ended' = ended /\ pipe' = pipe
  BY <1>1 DEF ReadOn, TypeOK
<1>5. read[a] = Len(got) /\ Ahead(a)' = Len(got)
  <2>1. Len(held[a]) = 0
    BY <1>3
  <2>2. Len(held[a]) = read[a] - Len(got)
    BY <1>1, <1>3 DEF Buffered, Ahead
  <2> QED BY <1>2, <1>3, <2>1, <2>2 DEF Ahead, client
<1>6. /\ <<read[a] + 1>> \in Seq(Nat) /\ Len(<<read[a] + 1>>) = 1
      /\ \A i \in 1 .. 1 : <<read[a] + 1>>[i] = read[a] + i
  BY <1>3
<1>7. TypeOK'
  <2>1. /\ held' \in [Attempts -> Seq(Nat)] /\ read' \in [Attempts -> Nat] /\ reader' \in [Attempts -> Readers]
    BY <1>1, <1>3, <1>6 DEF ReadOn, TypeOK, Readers
  <2>2. ASSUME NEW b \in Attempts PROVE Len(held'[b]) <= HeadLimit
    BY <1>1, <1>3, <1>4, <1>6 DEF ReadOn, TypeOK
  <2> QED BY <1>1, <1>2, <1>4, <2>1, <2>2 DEF TypeOK, client, connection
<1>8. Probed(a)' /\ EndsBehind(a)'
  BY <1>1, <1>2, <1>3, <1>4 DEF Probed, EndsBehind, Cancelled, client, connection
<1>9. Buffered(a)'
  <2>1. Len(answer[a].body) \in Nat
    BY <1>1, AnswersAreTyped, LenProperties, EmptySeq DEF TypeOK, NoAnswer
  <2> QED BY <1>2, <1>3, <1>4, <1>5, <1>6, <2>1 DEF Buffered
<1> QED BY <1>2, <1>7, <1>8, <1>9 DEF Intact

\* A body that is drained, and a Write that fails, leave nothing behind.
LEMMA DrainKeeps ==
    ASSUME Intact, NEW a \in Attempts, ReadDrain(a) \/ WriteFails(a)
    PROVE  Intact'
<1>1. TypeOK /\ Probed(a) /\ Buffered(a) /\ EndsBehind(a)
  BY DEF Intact
<1>2. /\ UNCHANGED <<pc, attempt, answer, sample, client, connection>> /\ Placed' /\ Delivered' /\ Sound' /\ Severable'
      /\ \A b \in Attempts \ {a} : (Probed(b) /\ Buffered(b) /\ EndsBehind(b))'
  BY GoroutinesKeepToThemselves DEF Reads, Frees
<1>3. /\ read[a] \in Nat /\ HeadLimit \in Nat /\ Len(answer[a].body) \in Nat
      /\ <<>> \in Seq(Nat) /\ Len(<<>>) = 0
  BY <1>1, ResponseAssumption, AnswersAreTyped, LenProperties, EmptySeq DEF TypeOK, NoAnswer
<1>4. CASE ReadDrain(a)
  <2>1. /\ reader[a] = "drain" /\ read'[a] = read[a] + 1 /\ read[a] < Len(answer[a].body)
        /\ UNCHANGED <<reader, ended, held, pipe>>
    BY <1>1, <1>4 DEF ReadDrain, TypeOK
  <2>2. TypeOK'
    <3>1. read' \in [Attempts -> Nat]
      BY <1>1, <1>3, <1>4 DEF ReadDrain, TypeOK
    <3> QED BY <1>1, <1>2, <2>1, <3>1 DEF TypeOK, client, connection
  <2>3. Probed(a)'
    BY <1>1, <1>2, <2>1 DEF Probed, TypeOK
  <2>4. Buffered(a)'
    BY <1>1, <1>2, <1>3, <2>1 DEF Buffered
  <2>5. EndsBehind(a)'
    BY <1>1, <1>2, <1>3, <2>1 DEF EndsBehind, Cancelled, client, connection
  <2> QED BY <1>2, <2>2, <2>3, <2>4, <2>5 DEF Intact
<1>5. CASE WriteFails(a)
  <2>1. /\ reader[a] \in {"head", "handing"} /\ reader'[a] \in {"drain", "done"} /\ held'[a] = <<>>
        /\ UNCHANGED <<read, ended, pipe>>
    BY <1>1, <1>5 DEF WriteFails, TypeOK
  <2>2. TypeOK'
    <3>1. held' \in [Attempts -> Seq(Nat)] /\ reader' \in [Attempts -> Readers]
      BY <1>1, <1>3, <1>5 DEF WriteFails, TypeOK, Readers
    <3>2. ASSUME NEW b \in Attempts PROVE Len(held'[b]) <= HeadLimit
      BY <1>1, <1>3, <1>5 DEF WriteFails, TypeOK
    <3> QED BY <1>1, <1>2, <2>1, <3>1, <3>2 DEF TypeOK, client, connection
  <2>3. (Probed(a) /\ Buffered(a) /\ EndsBehind(a))'
    BY <1>1, <1>2, <1>3, <2>1 DEF Probed, Buffered, EndsBehind, Cancelled, client, connection
  <2> QED BY <1>2, <2>2, <2>3 DEF Intact
<1> QED BY <1>4, <1>5

\* A body ends where it ends, unless its request was cancelled.
LEMMA EndsKeep ==
    ASSUME Intact, NEW a \in Attempts, UpstreamEnds(a) \/ ReadCancelled(a)
    PROVE  Intact'
<1>1. TypeOK /\ Placed /\ Probed(a) /\ Buffered(a) /\ EndsBehind(a)
  BY DEF Intact
<1>2. /\ UNCHANGED <<pc, attempt, answer, sample, client, connection>> /\ Placed' /\ Delivered' /\ Sound' /\ Severable'
      /\ \A b \in Attempts \ {a} : (Probed(b) /\ Buffered(b) /\ EndsBehind(b))'
  BY GoroutinesKeepToThemselves DEF Reads, Frees
<1>3. answer[a].end \in {"eof", "fail"}
  BY <1>1, AnswersAreTyped DEF TypeOK, NoAnswer
<1>4. PICK how \in {"eof", "fail"} : Ends(a, how)
  BY <1>3 DEF UpstreamEnds, ReadCancelled
<1>5. Cancelled \/ read[a] = Len(answer[a].body)
  BY DEF UpstreamEnds, ReadCancelled
<1>6. read' = read /\ held' = held /\ ended' = [ended EXCEPT ![a] = how]
  BY <1>4 DEF Ends, HeadEnds, PassEnds, DrainEnds
<1>7. \/ reader[a] \in {"probe", "drain"} /\ pipe' = pipe
         /\ reader' = [reader EXCEPT ![a] = IF reader[a] = "probe" THEN "head" ELSE "done"]
      \/ reader[a] = "pass" /\ reader' = [reader EXCEPT ![a] = "done"]
         /\ pipe' = IF pipe[a] = "open" THEN [pipe EXCEPT ![a] = how] ELSE pipe
  BY <1>4 DEF Ends, HeadEnds, PassEnds, DrainEnds
<1>8. TypeOK'
  BY <1>1, <1>2, <1>6, <1>7 DEF TypeOK, Readers, client, connection
<1>9. ended'[a] = how /\ reader'[a] \in {"head", "done"}
      /\ (reader'[a] = "head" <=> reader[a] = "probe")
      /\ (pipe'[a] = pipe[a] \/ (pipe'[a] = how /\ reader[a] = "pass"))
  BY <1>1, <1>6, <1>7 DEF TypeOK
<1>10. Probed(a)'
  BY <1>1, <1>2, <1>7, <1>9 DEF Probed
<1>11. Buffered(a)'
  BY <1>1, <1>2, <1>6, <1>7, <1>9 DEF Buffered, Ahead, client
<1>12. reader[a] = "pass" => read[a] = Len(got) /\ a = attempt /\ pc \in {"pump", "done"}
  <2>1. reader[a] = "pass" => held[a] = <<>> /\ Len(held[a]) = read[a] - Len(got) /\ a = attempt
    BY <1>1 DEF Buffered, Probed, Ahead
  <2>2. read[a] \in Nat /\ Len(got) \in Nat /\ Len(<<>>) = 0
    BY <1>1, LenProperties DEF TypeOK
  <2> QED BY <1>1, <2>1, <2>2 DEF Probed
<1>13. EndsBehind(a)'
  BY <1>1, <1>2, <1>5, <1>6, <1>7, <1>9, <1>12 DEF EndsBehind, Cancelled, client, connection
<1> QED BY <1>2, <1>8, <1>10, <1>11, <1>13 DEF Intact

-----------------------------------------------------------------------------
(* What the steps keep.                                                    *)

LEMMA IntactAtFirst ==
    ASSUME Init
    PROVE  Intact
<1>1. <<>> \in Seq(Nat) /\ <<>> \in Seq(Pieces) /\ <<>> \in Seq(Attempts \X Nat) /\ Len(<<>>) = 0
  BY EmptySeq
<1>2. \A a \in Attempts : a > 0
  BY ResponseAssumption DEF Attempts
<1>3. DOMAIN got = {}
  BY DEF Init
<1>4. TypeOK
  <2>1. attempt \in 0 .. MaxAttempts /\ pings \in 0 .. MaxPings
    BY ResponseAssumption DEF Init
  <2>2. pc \in Places /\ reader \in [Attempts -> Readers]
    BY DEF Init, Places, Readers
  <2>3. held \in [Attempts -> Seq(Nat)] /\ \A a \in Attempts : Len(held[a]) <= HeadLimit
    <3>1. held \in [Attempts -> Seq(Nat)] /\ \A a \in Attempts : held[a] = <<>>
      BY <1>1 DEF Init
    <3>2. 0 <= HeadLimit
      BY ResponseAssumption
    <3> QED BY <1>1, <3>1, <3>2
  <2>4. /\ answer \in [Attempts -> AnswerRecords \cup {NoAnswer}] /\ read \in [Attempts -> Nat]
        /\ ended \in [Attempts -> {"no", "eof", "fail"}]
        /\ pipe \in [Attempts -> {"open", "closed", "eof", "fail"}]
    BY DEF Init
  <2>5. sample \in Seq(Pieces) /\ got \in Seq(Attempts \X Nat)
    BY <1>1 DEF Init
  <2> QED BY <2>1, <2>2, <2>3, <2>4, <2>5 DEF Init, TypeOK
<1>5. Sound /\ Severable /\ Placed /\ Delivered
  BY <1>1, <1>2, <1>3 DEF Init, Sound, Severable, Placed, Delivered
<1>6. ASSUME NEW a \in Attempts
      PROVE  Probed(a) /\ Buffered(a) /\ EndsBehind(a)
  BY <1>1, <1>2, <1>6 DEF Init, Probed, Buffered, EndsBehind, NoAnswer, Attempts
<1> QED BY <1>4, <1>5, <1>6 DEF Intact

LEMMA IntactKept ==
    ASSUME Intact, [Next]_vars
    PROVE  Intact'
<1>1. CASE UNCHANGED vars
  <2>1. /\ UNCHANGED <<pc, attempt, answer, read, reader, ended, held, pipe, sample>>
        /\ UNCHANGED <<status, got, notice, pings, gone, severed, deadline>>
    BY <1>1 DEF vars, upstream, client, connection
  <2> QED BY <2>1 DEF Intact, TypeOK, Sound, Severable, Whole, Owed, Placed, Delivered, Probed, Buffered,
                      EndsBehind, Ahead, Cancelled
<1>2. CASE Aside
  BY <1>2, AsideKeeps
<1>3. CASE \E ans \in AnswerRecords : Send(ans)
  BY <1>3, SendKeeps
<1>4. CASE Sampled
  BY <1>4, SampledKeeps
<1>5. CASE PumpPiece \/ PumpSample \/ PumpEnd
  BY <1>5, PumpPieceKeeps, PumpSampleKeeps, PumpEndKeeps
<1>6. CASE Handed
  BY <1>6, HandedKeeps
<1>7. CASE \E a \in Attempts : Reads(a) \/ Frees(a)
  BY <1>7, ReadHeadKeeps, ReadOnKeeps, DrainKeeps, EndsKeep DEF Reads, Frees
<1>8. CASE ReadErrorBody
  BY <1>8, ReadErrorBodyKeeps
<1> QED BY <1>1, <1>2, <1>3, <1>4, <1>5, <1>6, <1>7, <1>8 DEF Next, Handler, Aside

\* Type correctness: every reachable state of an exchange is typed, and no
\* goroutine of probeHead ever holds more than headSampleLimit.
THEOREM ResponseTyped == Spec => []TypeOK
<1>1. Intact => TypeOK
  BY DEF Intact
<1>2. Init => Intact
  BY IntactAtFirst
<1>3. Intact /\ [Next]_vars => Intact'
  BY IntactKept
<1> QED BY <1>1, <1>2, <1>3, PTL DEF Spec

\* The probe neither loses, repeats nor reorders a byte (probeHead: "the
\* returned body delivers the complete original stream"): what the client has
\* is a prefix of one answer, and all of it when the handler is done with a
\* client that stayed, whichever of the sample, the timer, the end of the body
\* and the pump came first; but a client whose answer starts a minute after a
\* wait may be severed before the first piece (waiter.go Wait).
THEOREM StreamStaysIntact == Spec => []StreamIntact
<1>1. Intact => StreamIntact
  BY DEF Intact, Sound, Severable, StreamIntact, Stayed
<1>2. Init => Intact
  BY IntactAtFirst
<1>3. Intact /\ [Next]_vars => Intact'
  BY IntactKept
<1> QED BY <1>1, <1>2, <1>3, PTL DEF Spec

-----------------------------------------------------------------------------
(* The exchange it promises.                                               *)

\* The client's first piece says which answer it has, and every step that
\* gives it another gives it the next one of the same answer.
LEMMA APieceIsDelivered ==
    ASSUME Intact, pc = "pump", ~gone, NEW k \in Nat, got' = Append(got, <<attempt, k>>),
           UNCHANGED <<pc, attempt, status>>
    PROVE  Promise!Deliver
<1>1. TypeOK /\ Sound /\ Placed
  BY DEF Intact
<1>2. got \in Seq(Attempts \X Nat) /\ Len(got) \in Nat /\ attempt \in Attempts
  BY <1>1, LenProperties DEF TypeOK, Placed, Attempts
<1>3. <<attempt, k>> \in Attempts \X Nat
  BY <1>2
<1>4. /\ got' # <<>> /\ Len(got') = Len(got) + 1
      /\ \A i \in 1 .. Len(got) : got'[i] = got[i]
      /\ got'[Len(got) + 1] = <<attempt, k>>
  BY <1>2, <1>3, AppendProperties
<1>5. got'[1][1] = attempt
  <2>1. CASE got = <<>>
    BY <1>4, <2>1, EmptySeq
  <2>2. CASE got # <<>>
    <3>1. 1 \in 1 .. Len(got) /\ 1 \in DOMAIN got
      BY <1>2, <2>2, EmptySeq, LenProperties
    <3>2. got[1] = <<attempt, 1>> /\ got'[1] = got[1]
      BY <1>1, <1>4, <3>1 DEF Sound
    <3> QED BY <3>2
  <2> QED BY <2>1, <2>2
<1>6. got = <<>> \/ got[1][1] = attempt
  <2> SUFFICES ASSUME got # <<>> PROVE got[1][1] = attempt
    OBVIOUS
  <2>1. 1 \in DOMAIN got
    BY <1>2, EmptySeq, LenProperties
  <2> QED BY <1>1, <2>1 DEF Sound
<1> QED BY <1>1, <1>2, <1>4, <1>5, <1>6 DEF Promise!Deliver, Placed

\* Every step of the proxy is one the promise allows, or does not show.
LEMMA EveryStepKeepsThePromise ==
    ASSUME Intact, [Next]_vars
    PROVE  [Promise!Next]_Promise!vars
<1>1. TypeOK /\ Placed
  BY DEF Intact
<1>2. CASE UNCHANGED <<pc, status, got>> \/ (UNCHANGED <<status, got>> /\ pc # "done" /\ pc' # "done")
  BY <1>2 DEF Promise!vars
<1>3. CASE \E h \in HostKinds, u \in Uploads : Accept(h, u)
  <2>1. pc = "start" /\ status = "none" /\ got' = got
        /\ ((pc' = "engine" /\ status' = status) \/ (pc' = "done" /\ status' = "own"))
    BY <1>1, <1>3 DEF Accept, Placed
  <2> QED BY <2>1 DEF Promise!Next, Promise!Begin, Promise!vars
<1>4. CASE WaitStart \/ Relay
  <2>1. pc \in {"engine", "relay"} /\ pc' # "done" /\ got' = got
        /\ (status' = status \/ (status = "none" /\ status' \in {"ping", "answer"}))
    BY <1>4 DEF WaitStart, Relay
  <2> QED BY <2>1 DEF Promise!Next, Promise!Begin, Promise!vars
<1>5. CASE GiveUp
  <2>1. pc = "engine" /\ pc' = "done" /\ got' = got
        /\ (status' = status \/ (status = "none" /\ status' = "own"))
    BY <1>5 DEF GiveUp, Fail
  <2> QED BY <2>1 DEF Promise!Next, Promise!Begin, Promise!End
<1>6. CASE WaitEnd \/ PumpEnd
  <2>1. pc # "done" /\ UNCHANGED <<status, got>>
    BY <1>6 DEF WaitEnd, PumpEnd, client, connection
  <2> QED BY <2>1 DEF Promise!Next, Promise!End, Promise!vars
<1>7. CASE PumpPiece
  <2>1. pc = "pump" /\ UNCHANGED <<attempt, status>>
    BY <1>7 DEF PumpPiece
  <2>2. CASE pc' = "done" /\ got' = got
    BY <2>1, <2>2 DEF Promise!Next, Promise!End
  <2>3. CASE WriteOut /\ got' = Append(got, <<attempt, Head(held[attempt])>>) /\ pc' = pc
    <3>1. held[attempt] # <<>> /\ ~gone
      BY <1>7, <2>3 DEF PumpPiece, WriteOut
    <3>2. attempt \in Attempts
      BY <1>1, <2>1 DEF TypeOK, Placed, Attempts
    <3>3. held[attempt] \in Seq(Nat)
      BY <1>1, <3>2 DEF TypeOK
    <3>4. Head(held[attempt]) \in Nat
      BY <3>1, <3>3
    <3> QED BY <2>1, <2>3, <3>1, <3>4, APieceIsDelivered DEF Promise!Next
  <2> QED BY <1>7, <2>2, <2>3 DEF PumpPiece
<1>8. CASE PumpSample
  <2>1. pc = "pump" /\ UNCHANGED <<attempt, status>>
    BY <1>8 DEF PumpSample
  <2>2. CASE pc' = "done" /\ got' = got
    BY <2>1, <2>2 DEF Promise!Next, Promise!End
  <2>3. CASE WriteOut /\ got' = Append(got, <<attempt, Len(got) + 1>>) /\ pc' = pc
    <3>1. ~gone
      BY <2>3 DEF WriteOut
    <3>2. Len(got) + 1 \in Nat
      BY <1>1, LenProperties DEF TypeOK
    <3> QED BY <2>1, <2>3, <3>1, <3>2, APieceIsDelivered DEF Promise!Next
  <2> QED BY <1>8, <2>2, <2>3 DEF PumpSample
<1>9. CASE \/ Sampled \/ ProbeTimeout \/ Ping \/ HangUp \/ Handed
           \/ DeadlinePasses \/ ReadErrorBody \/ ErrorBodyEnds
           \/ \E ans \in AnswerRecords : Send(ans)
  <2>1. UNCHANGED <<status, got>> /\ pc # "done" /\ pc' # "done"
    BY <1>9 DEF DeadlinePasses, ReadErrorBody, ErrorBodyEnds, Sampled, Judge, ProbeTimeout, Ping, HangUp, Handed, Send, client, connection
  <2> QED BY <1>2, <2>1
<1>10. CASE \E a \in Attempts : Reads(a) \/ Frees(a)
  <2>1. UNCHANGED <<pc, status, got>>
    BY <1>10 DEF Reads, Frees, ReadHead, ReadOn, ReadDrain, UpstreamEnds, ReadCancelled,
       WriteFails, Ends, HeadEnds, PassEnds, DrainEnds, client
  <2> QED BY <1>2, <2>1
<1>11. CASE UNCHANGED vars
  <2>1. UNCHANGED <<pc, status, got>>
    BY <1>11 DEF vars, client
  <2> QED BY <1>2, <2>1
<1> QED BY <1>3, <1>4, <1>5, <1>6, <1>7, <1>8, <1>9, <1>10, <1>11 DEF Next, Handler

\* The proxy implements the exchange it promises (relay, writeExecuteError and
\* pump of proxy.go): one status line, whether a ping, an answer or an error of
\* its own, then the pieces of a single answer in order, then the end.
THEOREM ExchangeKept == Spec => OneExchange
<1>1. Init => Promise!Init
  BY DEF Init, Promise!Init
<1>2. Init => Intact
  BY IntactAtFirst
<1>3. Intact /\ [Next]_vars => Intact'
  BY IntactKept
<1>4. Intact /\ [Next]_vars => [Promise!Next]_Promise!vars
  BY EveryStepKeepsThePromise
<1> QED BY <1>1, <1>2, <1>3, <1>4, PTL DEF Spec, OneExchange, Promise!Spec

-----------------------------------------------------------------------------
(* The verdict on an answer.                                               *)

LEMMA WireFields ==
    ASSUME NEW w \in Wire
    PROVE  /\ w.status \in Nat /\ w.failed \in BOOLEAN
           /\ w.resets \in Figures /\ w.outer \in Figures /\ w.after \in Figures
           /\ w.dated \in BOOLEAN /\ w.unified \in Figures /\ w.reset5 \in Figures
           /\ w.reset7 \in Figures /\ w.rejected \in BOOLEAN /\ w.reached \in BOOLEAN
  BY DEF Wire

(* The lane's verdict on a 429 that is not an overload.                    *)
LEMMA Throttled ==
    ASSUME NEW w \in Wire, w.status = 429
    PROVE  /\ AnthropicClassify(w) \in {Overloaded, Anthropic429(w)}
           /\ OpenAIClassify(w) \in {Overloaded, OpenAI429(w)}
  <1>1. w.status \notin 200 .. 299
    OBVIOUS
  <1> QED
    BY <1>1 DEF AnthropicClassify, OpenAIClassify

(* A figure the rules have derived is a figure.                            *)
LEMMA DerivedFigures ==
    ASSUME NEW w \in Wire
    PROVE  /\ RetryAfter(w) \in Figures /\ ResetTime(w) \in Figures
           /\ AnyFigure(w) \in Figures
           /\ Given(RetryAfter(w)) => RetryAfter(w) >= 0
           /\ Given(AnyFigure(w)) => AnyFigure(w) > 0
  <1> USE WireFields, ClassifyAssumption DEF Figures, Given, Positive
  <1>1. RetryAfter(w) \in Figures /\ (Given(RetryAfter(w)) => RetryAfter(w) >= 0)
    BY DEF RetryAfter
  <1>2. ResetTime(w) \in Figures
    BY DEF ResetTime
  <1>3. AnyFigure(w) \in Figures /\ (Given(AnyFigure(w)) => AnyFigure(w) > 0)
    BY DEF AnyFigure
  <1> QED
    BY <1>1, <1>2, <1>3

(* The two lanes, one at a time: where the figures they read are all still *)
(* to come, the account is back at one of them.                            *)
LEMMA AnthropicFigures ==
    ASSUME NEW w \in Wire,
           NEW ra, ra = RetryAfter(w), NEW reset, reset = ResetTime(w),
           Given(ra) \/ Given(reset)
    PROVE  Back(Anthropic429(w)) \in {ra, reset} \ {Absent}
  <1> USE DEF Back, Hold, Spent, Outcome, Given
  <1>1. CASE w.rejected
    BY <1>1 DEF Anthropic429
  <1>2. CASE ~w.rejected /\ Given(ra)
    BY <1>2 DEF Anthropic429
  <1>3. CASE ~w.rejected /\ ~Given(ra)
    BY <1>3 DEF Anthropic429
  <1> QED
    BY <1>1, <1>2, <1>3

LEMMA OpenAIFigures ==
    ASSUME NEW w \in Wire,
           NEW ra, ra = RetryAfter(w), NEW figure, figure = AnyFigure(w),
           Given(ra) \/ Given(figure), Given(ra) => ra > 0
    PROVE  Back(OpenAI429(w)) \in {ra, figure} \ {Absent}
  <1> DEFINE wait == IF Given(figure) THEN figure ELSE ra
  <1>1. wait \in {ra, figure} \ {Absent} /\ Positive(wait) /\ Given(wait)
    BY DerivedFigures DEF Given, Positive
  <1>2. OpenAI429(w) \in {Spent(wait), Hold(wait)}
    BY <1>1 DEF OpenAI429
  <1> QED
    BY <1>1, <1>2 DEF Back, Hold, Spent, Outcome

(* Where a 429 names moments that are all still to come, the account is    *)
(* back at one of them and not after the guess (anthropic.go, openai.go).  *)
THEOREM FiguresAlwaysWin == AskSpec => []FiguresWin
  <1>1. ASSUME wire \in Wire PROVE FiguresWin
    <2> SUFFICES ASSUME NEW lane \in Lanes,
                        wire.status = 429,
                        ~LaneClassify(lane, wire).overload,
                        Read(lane, wire) \ {Absent} # {},
                        \A f \in Read(lane, wire) \ {Absent} : f > 0
                 PROVE  Back(LaneClassify(lane, wire)) \in Read(lane, wire) \ {Absent}
      BY DEF FiguresWin
    <2>1. Overloaded.overload
      BY DEF Overloaded, Outcome
    <2>2. CASE lane = "anthropic"
      <3>1. LaneClassify(lane, wire) = Anthropic429(wire)
        BY <1>1, <2>1, <2>2, Throttled DEF LaneClassify
      <3>2. Read(lane, wire) = {RetryAfter(wire), ResetTime(wire)}
        BY <2>2 DEF Read
      <3>3. Given(RetryAfter(wire)) \/ Given(ResetTime(wire))
        BY <3>2 DEF Given
      <3> QED
        BY <1>1, <3>1, <3>2, <3>3, AnthropicFigures
    <2>3. CASE lane = "openai"
      <3>1. LaneClassify(lane, wire) = OpenAI429(wire)
        BY <1>1, <2>1, <2>3, Throttled DEF LaneClassify
      <3>2. Read(lane, wire) = {AnyFigure(wire), RetryAfter(wire)}
        BY <2>3 DEF Read
      <3>3. /\ Given(RetryAfter(wire)) \/ Given(AnyFigure(wire))
            /\ Given(RetryAfter(wire)) => RetryAfter(wire) > 0
        BY <3>2 DEF Given
      <3> QED
        BY <1>1, <3>1, <3>2, <3>3, OpenAIFigures
    <2> QED
      BY <2>2, <2>3 DEF Lanes
  <1>2. wire \in Wires => wire \in Wire
    BY ClassifyAssumption
  <1>3. wire \in Wires /\ [Ask]_wire => (wire \in Wires)'
    BY DEF Ask
  <1> QED
    BY <1>1, <1>2, <1>3, PTL DEF AskSpec

(* An in-band failure without a figure is treated as its status would be.  *)
THEOREM InBandAlwaysItsStatus == AskSpec => []InBandWithoutFigures
  <1>1. ASSUME wire \in Wire PROVE InBandWithoutFigures
    <2> SUFFICES ASSUME Untimed(wire), NEW lane \in Lanes, wire.status = 200, wire.failed
                 PROVE  LaneClassify(lane, wire) = LaneClassify(lane, AtItsStatus)
      BY DEF InBandWithoutFigures, InBandIsItsStatus
    <2> DEFINE v == AtItsStatus
    <2> DEFINE names == {wire.type, wire.code}
    <2>1. /\ v.type = wire.type /\ v.code = wire.code /\ v.rejected = wire.rejected
          /\ v.reached = wire.reached /\ v.resets = wire.resets /\ v.outer = wire.outer
          /\ v.status = StatusOf(wire) /\ v.status \in {400, 401, 429, 529}
          /\ v.after = wire.after /\ v.dated = wire.dated /\ v.unified = wire.unified
          /\ v.reset5 = wire.reset5 /\ v.reset7 = wire.reset7
      BY <1>1 DEF AtItsStatus, Wire, StatusOf
    <2>2. LaneClassify(lane, wire) = ClassifyInBand(wire)
      BY DEF LaneClassify, AnthropicClassify, OpenAIClassify
    <2>3. ~Given(RetryAfter(v)) /\ ~Given(ResetTime(v)) /\ AnyFigure(v) = Absent
          /\ BodyFigure(wire) = Absent
      BY <2>1 DEF Untimed, RetryAfter, ResetTime, AnyFigure, BodyFigure, Given, Positive
    <2>4. Anthropic429(v) = Spent(FiveHours) /\ OpenAI429(v) = Spent(FiveHours)
      BY <2>1, <2>3 DEF Anthropic429, OpenAI429, Untimed, Given, Positive
    <2>5. v.status \notin 200 .. 299
      BY <2>1
    <2>6. CASE names \cap OverloadSignals # {}
      <3>1. ClassifyInBand(wire) = Overloaded /\ v.status = 529
        BY <2>1, <2>6 DEF ClassifyInBand, StatusOf
      <3> QED
        BY <2>2, <2>5, <3>1 DEF LaneClassify, AnthropicClassify, OpenAIClassify, ByStatus
    <2> DEFINE plan == \/ names \cap PlanExhausted # {}
                       \/ wire.type = "rate_limit_error" \/ wire.code = "rate_limit_exceeded"
    <2>7. CASE names \cap OverloadSignals = {} /\ plan
      <3>1. ClassifyInBand(wire) = Spent(FiveHours)
        BY <2>3, <2>7 DEF ClassifyInBand, Given
      <3>2. v.status = 429
        BY <2>1, <2>7 DEF StatusOf
      <3>3. v.type # "overloaded_error" /\ NamedCode(v) # "server_overloaded"
        <4>1. wire.type \notin OverloadSignals /\ wire.code \notin OverloadSignals
          BY <2>7
        <4>2. wire.type # "overloaded_error" /\ wire.type # "server_overloaded"
              /\ wire.code # "server_overloaded"
          BY <4>1 DEF OverloadSignals
        <4>3. NamedCode(v) \in {wire.type, wire.code}
          BY <2>1 DEF NamedCode
        <4> QED
          BY <2>1, <4>2, <4>3
      <3> QED
        BY <2>2, <2>4, <2>5, <3>1, <3>2, <3>3 DEF LaneClassify, AnthropicClassify, OpenAIClassify
    <2>8. CASE names \cap OverloadSignals = {} /\ ~plan
      <3>1. v.type # "overloaded_error" /\ NamedCode(v) # "server_overloaded"
        <4>1. wire.type \notin OverloadSignals /\ wire.code \notin OverloadSignals
          BY <2>8
        <4>2. wire.type # "overloaded_error" /\ wire.type # "server_overloaded"
              /\ wire.code # "server_overloaded"
          BY <4>1 DEF OverloadSignals
        <4>3. NamedCode(v) \in {wire.type, wire.code}
          BY <2>1 DEF NamedCode
        <4> QED
          BY <2>1, <4>2, <4>3
      <3>2. CASE names \cap AuthSignals # {}
        <4>1. ClassifyInBand(wire) = RefreshAuth /\ v.status = 401
          BY <2>1, <2>8, <3>2 DEF ClassifyInBand, StatusOf
        <4>2. ByStatus(v) = RefreshAuth
          BY <4>1 DEF ByStatus
        <4>3. AnthropicClassify(v) = ByStatus(v) /\ OpenAIClassify(v) = ByStatus(v)
          BY <2>5, <3>1, <4>1 DEF AnthropicClassify, OpenAIClassify
        <4> QED
          BY <2>2, <4>1, <4>2, <4>3 DEF LaneClassify
      <3>3. CASE names \cap AuthSignals = {}
        <4>1. ClassifyInBand(wire) = Fatal /\ v.status = 400
          BY <2>1, <2>8, <3>3 DEF ClassifyInBand, StatusOf
        <4>2. ByStatus(v) = Fatal
          BY <4>1 DEF ByStatus
        <4>3. AnthropicClassify(v) = ByStatus(v) /\ OpenAIClassify(v) = ByStatus(v)
          BY <2>5, <3>1, <4>1 DEF AnthropicClassify, OpenAIClassify
        <4> QED
          BY <2>2, <4>1, <4>2, <4>3 DEF LaneClassify
      <3> QED
        BY <3>2, <3>3
    <2> QED
      BY <2>6, <2>7, <2>8
  <1>2. wire \in Wires => wire \in Wire
    BY ClassifyAssumption
  <1>3. wire \in Wires /\ [Ask]_wire => (wire \in Wires)'
    BY DEF Ask
  <1> QED
    BY <1>1, <1>2, <1>3, PTL DEF AskSpec

-----------------------------------------------------------------------------
(* An answer and the same one that asks for a longer wait.                 *)

(* They differ in the wait alone, and it is the wait they name.            *)
LEMMA OnlyTheWaitDiffers ==
    ASSUME NEW w \in Wire, Positive(w.after), NEW longer \in Nat, w.after <= longer,
           NEW v, v = [w EXCEPT !.after = longer]
    PROVE  /\ v \in Wire
           /\ v.status = w.status /\ v.type = w.type /\ v.code = w.code
           /\ v.rejected = w.rejected /\ v.reached = w.reached
           /\ ResetTime(v) = ResetTime(w) /\ AnyFigure(v) = AnyFigure(w)
           /\ w.after \in Int /\ w.after > 0 /\ RetryAfter(w) = w.after /\ RetryAfter(v) = longer
  <1>1. w.after \in Int /\ w.after > 0
    BY WireFields DEF Figures, Positive, Given
  <1>2. longer # Absent /\ longer >= 0
    BY ClassifyAssumption
  <1>3. v.after = longer /\ v \in Wire
    BY DEF Wire, Figures
  <1>4. /\ v.status = w.status /\ v.type = w.type /\ v.code = w.code
        /\ v.rejected = w.rejected /\ v.reached = w.reached
        /\ v.unified = w.unified /\ v.reset5 = w.reset5 /\ v.reset7 = w.reset7
        /\ v.resets = w.resets /\ v.outer = w.outer
    BY DEF Wire
  <1>5. RetryAfter(w) = w.after /\ RetryAfter(v) = longer
    BY <1>1, <1>2, <1>3 DEF RetryAfter, Given, Positive
  <1> QED
    BY <1>1, <1>3, <1>4, <1>5 DEF ResetTime, AnyFigure

(* Held up to the cutoff and spent beyond it, but never past for sooner.   *)
LEMMA AnthropicLonger ==
    ASSUME NEW w \in Wire, NEW v \in Wire,
           v.rejected = w.rejected, ResetTime(v) = ResetTime(w),
           RetryAfter(w) \in Int, RetryAfter(v) \in Int, RetryAfter(w) <= RetryAfter(v)
    PROVE  Back(Anthropic429(w)) <= Back(Anthropic429(v))
  <1> DEFINE ra == RetryAfter(w)  longer == RetryAfter(v)  reset == ResetTime(w)
  <1>1. Given(ra) /\ Given(longer) /\ BurstCutoff \in Int /\ (Given(reset) => reset \in Int)
    BY DerivedFigures, ClassifyAssumption DEF Given, Figures
  <1> USE DEF Back, Hold, Spent, Outcome
  <1> HIDE DEF ra, longer, reset
  <1>2. CASE w.rejected
    <2>1. /\ Back(Anthropic429(w)) = IF Given(reset) THEN reset ELSE ra
          /\ Back(Anthropic429(v)) = IF Given(reset) THEN reset ELSE longer
      BY <1>1, <1>2 DEF Anthropic429, ra, longer, reset
    <2> QED
      BY <1>1, <2>1 DEF ra, longer
  <1>3. CASE ~w.rejected
    <2> DEFINE later(t) == IF t <= BurstCutoff THEN t
                           ELSE IF Given(reset) /\ reset > t THEN reset ELSE t
    <2>1. Back(Anthropic429(w)) = later(ra)
      BY <1>1, <1>3 DEF Anthropic429, ra, reset
    <2>2. Back(Anthropic429(v)) = later(longer)
      BY <1>1, <1>3 DEF Anthropic429, longer, reset
    <2>3. ra \in Int /\ longer \in Int /\ ra <= longer
      BY DEF ra, longer
    <2>4. CASE Given(reset)
      BY <1>1, <2>1, <2>2, <2>3, <2>4
    <2>5. CASE ~Given(reset)
      BY <1>1, <2>1, <2>2, <2>3, <2>5
    <2> QED
      BY <2>4, <2>5
  <1> QED
    BY <1>2, <1>3

(* The figure of the body wins where there is one; else the wait decides.  *)
LEMMA OpenAILonger ==
    ASSUME NEW w \in Wire, NEW v \in Wire,
           v.type = w.type, v.code = w.code, v.reached = w.reached, AnyFigure(v) = AnyFigure(w),
           RetryAfter(w) \in Int, RetryAfter(v) \in Int, 0 < RetryAfter(w), RetryAfter(w) <= RetryAfter(v)
    PROVE  Back(OpenAI429(w)) <= Back(OpenAI429(v))
  <1> DEFINE wait(u) == IF Given(AnyFigure(u)) THEN AnyFigure(u) ELSE RetryAfter(u)
  <1>1. ASSUME NEW u \in {w, v} PROVE Back(OpenAI429(u)) = wait(u)
    <2>1. wait(u) \in Int /\ wait(u) > 0 /\ Given(wait(u)) /\ Positive(wait(u))
      <3>1. RetryAfter(u) \in Int /\ RetryAfter(u) > 0 /\ Absent \notin Int
        BY ClassifyAssumption
      <3>2. Given(AnyFigure(u)) => AnyFigure(u) \in Int /\ AnyFigure(u) > 0
        BY DerivedFigures DEF Given, Figures
      <3>3. wait(u) \in Int /\ wait(u) > 0
        BY <3>1, <3>2
      <3> HIDE DEF wait
      <3> QED
        BY <3>1, <3>3 DEF Given, Positive
    <2>2. OpenAI429(u) \in {Spent(wait(u)), Hold(wait(u))}
      BY <2>1 DEF OpenAI429
    <2> QED
      BY <2>2 DEF Back, Hold, Spent, Outcome
  <1>2. wait(w) <= wait(v)
    <2>1. Given(AnyFigure(w)) => AnyFigure(w) \in Int
      BY DerivedFigures DEF Given, Figures
    <2> QED
      BY <2>1
  <1> QED
    BY <1>1, <1>2

(* On either lane an upstream that asks for a longer wait never gets the   *)
(* next request sooner, for any cutoff and any longer wait up to the guess *)
(* (lane.go Outcome; anthropic.go and openai.go, classify429).             *)
THEOREM LongerNeverSooner == AskSpec => []LongerIsNotSooner
  <1>1. ASSUME wire \in Wire PROVE LongerIsNotSooner
    <2> SUFFICES ASSUME NEW lane \in Lanes, NEW longer \in 1 .. FiveHours,
                        wire.status = 429, Positive(wire.after), wire.after <= longer
                 PROVE  Back(LaneClassify(lane, wire))
                          <= Back(LaneClassify(lane, [wire EXCEPT !.after = longer]))
      BY DEF LongerIsNotSooner
    <2> DEFINE v == [wire EXCEPT !.after = longer]
    <2>1. longer \in Nat
      BY ClassifyAssumption
    <2>2. /\ v \in Wire /\ v.status = 429 /\ v.type = wire.type /\ v.code = wire.code
          /\ v.rejected = wire.rejected /\ v.reached = wire.reached
          /\ ResetTime(v) = ResetTime(wire) /\ AnyFigure(v) = AnyFigure(wire)
          /\ RetryAfter(wire) \in Int /\ RetryAfter(v) \in Int
          /\ 0 < RetryAfter(wire) /\ RetryAfter(wire) <= RetryAfter(v)
      BY <1>1, <2>1, OnlyTheWaitDiffers
    <2> HIDE DEF v
    <2>3. Back(Overloaded) <= Back(Overloaded)
      BY DEF Back, Overloaded, Outcome
    <2>4. wire.status \notin 200 .. 299 /\ v.status \notin 200 .. 299
      BY <2>2
    <2>5. Back(AnthropicClassify(wire)) <= Back(AnthropicClassify(v))
      <3>1. Back(Anthropic429(wire)) <= Back(Anthropic429(v))
        BY <1>1, <2>2, AnthropicLonger
      <3> QED
        BY <2>2, <2>3, <2>4, <3>1 DEF AnthropicClassify
    <2>6. Back(OpenAIClassify(wire)) <= Back(OpenAIClassify(v))
      <3>1. Back(OpenAI429(wire)) <= Back(OpenAI429(v))
        BY <1>1, <2>2, OpenAILonger
      <3>2. NamedCode(v) = NamedCode(wire)
        BY <2>2 DEF NamedCode
      <3> QED
        BY <2>2, <2>3, <2>4, <3>1, <3>2 DEF OpenAIClassify
    <2> QED
      BY <2>5, <2>6 DEF LaneClassify, v
  <1>2. wire \in Wires => wire \in Wire
    BY ClassifyAssumption
  <1>3. wire \in Wires /\ [Ask]_wire => (wire \in Wires)'
    BY DEF Ask
  <1> QED
    BY <1>1, <1>2, <1>3, PTL DEF AskSpec
=============================================================================
