------------------------------ MODULE Response ------------------------------
(***************************************************************************)
(* One request through internal/proxy: laneHandler, the stream waiter, the *)
(* head probe of internal/engine/http.go and the pump to the client.       *)
(*                                                                         *)
(* A body is a sequence of pieces, each what one Read returns:             *)
(*   "part"     bytes without an event boundary,                           *)
(*   "event"    bytes that complete a benign event,                        *)
(*   "refusal"  bytes that complete a terminal failure event,              *)
(*   "envelope" a JSON error envelope, which no boundary follows.          *)
(* Which attempt follows a refused one, and when Execute gives up instead, *)
(* is module Engine's subject and a free choice here.                      *)
(***************************************************************************)
EXTENDS Classify, Sequences

CONSTANTS
    MaxAttempts,    \* bound: upstream attempts of the request
    HeadLimit,      \* headSampleLimit, in pieces
    ErrorLimit,     \* errorBodyLimit, in pieces
    PingMode,       \* keepalive mode "ping"; "silent" otherwise
    MaxPings,       \* bound: ping frames
    HostKinds,      \* the kinds of Host header requests carry
    Lane,           \* the request's lane
    Sent,           \* the answers the upstream may give, as Classify reads them
    Bodies,         \* the bodies of its 2xx answers: sequences of pieces
    ErrorBodies,    \* the bodies of its error statuses
    Uploads         \* how reading the request body may end: "whole", "large", "broken"

Attempts == 1 .. MaxAttempts
Pieces == {"part", "event", "refusal", "envelope"}

ASSUME ResponseAssumption ==
    /\ MaxAttempts \in Nat \ {0} /\ HeadLimit \in Nat \ {0}
    /\ ErrorLimit \in Nat \ {0} /\ MaxPings \in Nat
    /\ PingMode \in BOOLEAN
    /\ Lane \in Lanes /\ Sent \subseteq Wires
    /\ Bodies \subseteq Seq(Pieces) /\ ErrorBodies \subseteq Seq({"part"})
    /\ Uploads \subseteq {"whole", "large", "broken"}

VARIABLES
    pc,        \* the handler: see Places
    attempt,   \* the current attempt
    answer,    \* what each attempt's upstream sends: chosen when it is sent
    read,      \* pieces of it its reader has read
    reader,    \* the goroutine of each attempt's probeHead
    ended,     \* how its reads ended: "no", "eof", "fail"
    held,      \* pieces read and not yet through the pipe, by index
    pipe,      \* "open", "closed" by the handler, or the "eof" / "fail" the reader closed it with
    sample,    \* the classification sample of the current attempt
    status,    \* the status line: "none", "ping", "answer", "own"
    got,       \* what the client has of upstream bodies: <<attempt, index>>
    notice,    \* the error the proxy reports itself: "none", "status", "event"
    pings,     \* ping frames sent
    gone,      \* the connection to the client has gone
    severed,   \* history: it went because a write to it failed at the deadline
    deadline   \* the write deadline a wait has set: "none", "armed", "past"

Places == {"start", "engine", "reading", "probing", "waiting", "relay", "pump", "done"}
Readers == {"none", "probe", "head", "pass", "handing", "drain", "done"}
OK(w) == w.status \in 200 .. 299
NoAnswer == [wire |-> Absent, body |-> <<>>, end |-> "eof"]
AnswerRecords == [wire : {w \in Sent : OK(w)}, body : Bodies, end : {"eof", "fail"}]
                 \cup [wire : {w \in Sent : ~OK(w)}, body : ErrorBodies, end : {"eof", "fail"}]

upstream == <<answer, read, reader, ended, held, pipe>>
client == <<status, got, notice, pings>>
connection == <<gone, severed, deadline>>
vars == <<pc, attempt, upstream, sample, client, connection>>

-----------------------------------------------------------------------------
(* Helpers.                                                                *)

(* hostAllowed: an absent Host, a loopback name or address, the address we *)
(* listen on and the configured names are ours.                            *)
HostAllowed(h) == h \in {"absent", "localhost", "loopback", "bound", "listed"}

Cut(body) == SubSeq(body, 1, IF Len(body) < ErrorLimit THEN Len(body) ELSE ErrorLimit)
Failed(s) == \E i \in DOMAIN s : s[i] \in {"refusal", "envelope"}

(* http.Request.Context ends when the handler returns or the client goes.  *)
Cancelled == gone \/ pc = "done"

Init ==
    /\ pc = "start" /\ attempt = 0
    /\ answer = [a \in Attempts |-> NoAnswer]
    /\ read = [a \in Attempts |-> 0]
    /\ reader = [a \in Attempts |-> "none"]
    /\ ended = [a \in Attempts |-> "no"]
    /\ held = [a \in Attempts |-> <<>>]
    /\ pipe = [a \in Attempts |-> "open"]
    /\ sample = <<>>
    /\ status = "none" /\ got = <<>> /\ notice = "none" /\ pings = 0
    /\ gone = FALSE /\ severed = FALSE /\ deadline = "none"

-----------------------------------------------------------------------------
(* The handler.                                                            *)

(* A Write or a Flush that the deadline has overtaken fails, and with it   *)
(* the connection and the request's context.                               *)
Sever == gone' = TRUE /\ severed' = TRUE /\ UNCHANGED deadline

(* Server.fail: an HTTP status, or an in-band event once one is spent.     *)
Fail == IF status = "none" THEN status' = "own" /\ notice' = "status"
                           ELSE status' = status /\ notice' = "event"

(* guardHost, then the upload: too large, broken off, or whole.            *)
Accept(h, upload) ==
    /\ pc = "start"
    /\ IF HostAllowed(h) /\ upload = "whole"
       THEN pc' = "engine" /\ UNCHANGED <<status, notice>>
       ELSE pc' = "done" /\ status' = "own" /\ notice' = "status"
    /\ UNCHANGED <<attempt, upstream, sample, got, pings, connection>>

(* What Classify makes of an answer decides whether it is served.          *)
Served(w) == LaneClassify(Lane, w).action \in {"relay", "fatal"}

(* send: one more attempt.  A 2xx answer gets a probe of its own.          *)
Send(ans) ==
    /\ pc = "engine" /\ ~gone /\ attempt < MaxAttempts
    /\ attempt' = attempt + 1
    /\ answer' = [answer EXCEPT ![attempt'] = ans]
    /\ sample' = <<>>
    /\ IF OK(ans.wire)
       THEN pc' = "probing" /\ reader' = [reader EXCEPT ![attempt'] = "probe"]
       ELSE pc' = "reading" /\ UNCHANGED reader
    /\ UNCHANGED <<read, ended, held, pipe, client, connection>>

(* The body of any other answer is read by the handler itself, up to a     *)
(* limit.  Whatever ends the reading, what has been read is the sample.    *)
ReadErrorBody ==
    /\ pc = "reading" /\ read[attempt] < Len(Cut(answer[attempt].body))
    /\ read' = [read EXCEPT ![attempt] = @ + 1]
    /\ UNCHANGED <<pc, attempt, answer, reader, ended, held, pipe, sample, client, connection>>
ErrorBodyEnds ==
    /\ pc = "reading" /\ (gone \/ read[attempt] = Len(Cut(answer[attempt].body)))
    /\ sample' = SubSeq(answer[attempt].body, 1, read[attempt])
    /\ pc' = IF Served(answer[attempt].wire) THEN "relay" ELSE "engine"
    /\ UNCHANGED <<attempt, upstream, client, connection>>

(* The pipe of an answer that is not served is closed.                     *)
Judge(s) ==
    IF Served([answer[attempt].wire EXCEPT !.failed = Failed(s)])
    THEN pc' = "relay" /\ UNCHANGED pipe
    ELSE pc' = "engine" /\ pipe' = [pipe EXCEPT ![attempt] = "closed"]

(* The two ways out of probeHead's select.                                 *)
(* mutant: the sampled bytes are not forwarded.                            *)
SampleEaten ==
    /\ pc = "probing" /\ reader[attempt] = "head"
    /\ LET s == [i \in DOMAIN held[attempt] |-> answer[attempt].body[held[attempt][i]]]
       IN sample' = s /\ Judge(s)
    /\ held' = [held EXCEPT ![attempt] = <<>>]
    /\ UNCHANGED <<attempt, answer, read, reader, ended, client, connection>>
Sampled ==
    /\ pc = "probing" /\ reader[attempt] = "head"
    /\ LET s == [i \in DOMAIN held[attempt] |-> answer[attempt].body[held[attempt][i]]]
       IN sample' = s /\ Judge(s)
    /\ UNCHANGED <<attempt, answer, read, reader, ended, held, client, connection>>

ProbeTimeout ==
    /\ pc = "probing"
    /\ sample' = <<>> /\ pc' = "relay"
    /\ UNCHANGED <<attempt, upstream, client, connection>>

(* The engine waits before the next attempt.  Wait sets a write deadline a *)
(* minute beyond its end.  It commits once, and only in ping mode; a wait  *)
(* of no length returns at once.                                           *)
WaitStart ==
    /\ pc = "engine" /\ ~gone /\ attempt > 0
    /\ pc' = "waiting"
    /\ status' = IF PingMode /\ status = "none" THEN "ping" ELSE status
    /\ deadline' = "armed"
    /\ UNCHANGED <<attempt, upstream, sample, got, notice, pings, gone, severed>>

(* The answer takes longer than that minute.                               *)
DeadlinePasses ==
    /\ deadline = "armed" /\ pc \in {"engine", "reading", "probing", "relay", "pump"}
    /\ deadline' = "past"
    /\ UNCHANGED <<pc, attempt, upstream, sample, client, gone, severed>>

(* A tick of the wait.  A ping to a client that is gone ends it.           *)
Ping ==
    /\ pc = "waiting" /\ PingMode /\ ~gone /\ pings < MaxPings
    /\ pings' = pings + 1
    /\ UNCHANGED <<pc, attempt, upstream, sample, status, got, notice, connection>>

WaitEnd ==
    /\ pc = "waiting"
    /\ pc' = IF gone THEN "done" ELSE "engine"
    /\ UNCHANGED <<attempt, upstream, sample, client, connection>>

(* Execute gives up: writeExecuteError says so, unless nobody is there.    *)
GiveUp ==
    /\ pc = "engine"
    /\ pc' = "done"
    /\ IF ~gone /\ deadline # "past"
       THEN Fail /\ UNCHANGED connection
       ELSE UNCHANGED <<status, notice>> /\ IF gone THEN UNCHANGED connection ELSE Sever
    /\ UNCHANGED <<attempt, upstream, sample, got, pings>>

(* mutant: the status line is sent again after a ping.                     *)
RelayTwice ==
    /\ pc = "relay"
    /\ pc' = "pump"
    /\ status' = "answer"
    /\ UNCHANGED <<attempt, upstream, sample, got, notice, pings, connection>>
(* relay: the answer's status line, flushed, unless a ping has spent it.   *)
Relay ==
    /\ pc = "relay"
    /\ pc' = "pump"
    /\ IF status = "none" /\ deadline = "past" /\ ~gone
       THEN Sever /\ UNCHANGED status
       ELSE status' = (IF status = "none" THEN "answer" ELSE status) /\ UNCHANGED connection
    /\ UNCHANGED <<attempt, upstream, sample, got, notice, pings>>

(* A Write to a client that is gone fails, and one beyond the deadline may: *)
(* a small one is buffered, and flushed once the deadline has been lifted. *)
WriteOut == ~gone /\ deadline' = "none" /\ UNCHANGED <<gone, severed>>
WriteBreaks ==
    \/ gone /\ UNCHANGED connection
    \/ ~gone /\ deadline = "past" /\ Sever

(* pump: one piece to the client.                                          *)
PumpPiece ==
    /\ pc = "pump" /\ OK(answer[attempt].wire) /\ held[attempt] # <<>>
    /\ reader[attempt] \in {"head", "handing"}
    /\ \/ /\ WriteBreaks
          /\ pc' = "done" /\ pipe' = [pipe EXCEPT ![attempt] = "closed"]
          /\ UNCHANGED <<held, got>>
       \/ /\ WriteOut
          /\ got' = Append(got, <<attempt, Head(held[attempt])>>)
          /\ held' = [held EXCEPT ![attempt] = Tail(@)]
          /\ UNCHANGED <<pc, pipe>>
    /\ UNCHANGED <<attempt, answer, read, reader, ended, sample, status, notice, pings>>

(* The reader's Write returns once all it offered is taken.  If that was   *)
(* the end of the body, the pipe closes the way the body ended.            *)
Handed ==
    /\ pc = "pump" /\ reader[attempt] \in {"head", "handing"} /\ held[attempt] = <<>>
    /\ IF ended[attempt] = "no"
       THEN reader' = [reader EXCEPT ![attempt] = "pass"] /\ UNCHANGED pipe
       ELSE /\ reader' = [reader EXCEPT ![attempt] = "done"]
            /\ pipe' = [pipe EXCEPT ![attempt] = ended[attempt]]
    /\ UNCHANGED <<pc, attempt, answer, read, ended, held, sample, client, connection>>

(* The body of an answer that is not a 2xx comes from memory.              *)
PumpSample ==
    /\ pc = "pump" /\ ~OK(answer[attempt].wire) /\ Len(got) < Len(sample)
    /\ \/ WriteBreaks /\ pc' = "done" /\ UNCHANGED got
       \/ WriteOut /\ got' = Append(got, <<attempt, Len(got) + 1>>) /\ UNCHANGED pc
    /\ UNCHANGED <<attempt, upstream, sample, status, notice, pings>>

(* The end of the body.  pump returns the same way after an error.  Where  *)
(* nothing lifted the deadline, the server's own last Flush meets it.      *)
PumpEnd ==
    /\ pc = "pump"
    /\ IF OK(answer[attempt].wire) THEN pipe[attempt] \in {"eof", "fail"} ELSE Len(got) = Len(sample)
    /\ pc' = "done"
    /\ IF deadline = "past" /\ ~gone THEN Sever ELSE UNCHANGED connection
    /\ UNCHANGED <<attempt, upstream, sample, client>>

HangUp ==
    /\ ~gone /\ pc # "done" /\ gone' = TRUE
    /\ UNCHANGED <<pc, attempt, upstream, sample, client, severed, deadline>>

-----------------------------------------------------------------------------
(* The goroutine of probeHead: the sole reader of its attempt's body.      *)

(* Phase 1, one Read.                                                      *)
HeadFull(a) == \/ read[a] + 1 >= HeadLimit
               \/ answer[a].body[read[a] + 1] \in {"event", "refusal"}
ReadHead(a) ==
    /\ reader[a] = "probe" /\ read[a] < Len(answer[a].body)
    /\ read' = [read EXCEPT ![a] = @ + 1]
    /\ held' = [held EXCEPT ![a] = Append(@, read[a] + 1)]
    /\ reader' = [reader EXCEPT ![a] = IF HeadFull(a) THEN "head" ELSE "probe"]
    /\ UNCHANGED <<pc, attempt, answer, ended, pipe, sample, client, connection>>

(* Its Read ends the body.  What is buffered still goes out first: even an *)
(* empty Write into an io.Pipe waits for the other end.                    *)
HeadEnds(a, how) ==
    /\ reader[a] = "probe"
    /\ ended' = [ended EXCEPT ![a] = how]
    /\ reader' = [reader EXCEPT ![a] = "head"]
    /\ UNCHANGED <<pc, attempt, answer, read, held, pipe, sample, client, connection>>

(* forwardAll, one Read.                                                   *)
ReadOn(a) ==
    /\ reader[a] = "pass" /\ read[a] < Len(answer[a].body)
    /\ read' = [read EXCEPT ![a] = @ + 1]
    /\ held' = [held EXCEPT ![a] = <<read[a] + 1>>]
    /\ reader' = [reader EXCEPT ![a] = "handing"]
    /\ UNCHANGED <<pc, attempt, answer, ended, pipe, sample, client, connection>>

PassEnds(a, how) ==
    /\ reader[a] = "pass"
    /\ ended' = [ended EXCEPT ![a] = how]
    /\ reader' = [reader EXCEPT ![a] = "done"]
    /\ pipe' = IF pipe[a] = "open" THEN [pipe EXCEPT ![a] = how] ELSE pipe
    /\ UNCHANGED <<pc, attempt, answer, read, held, sample, client, connection>>

(* mutant: phase 2 waits for a reader that never comes.                    *)
WriteBlocks(a) ==
    /\ reader[a] = "handing"
    /\ pipe[a] = "closed" \/ pc = "done"
    /\ reader' = [reader EXCEPT ![a] = "done"]
    /\ held' = [held EXCEPT ![a] = <<>>]
    /\ UNCHANGED <<pc, attempt, answer, read, ended, pipe, sample, client, connection>>
(* A Write into a pipe the handler has closed: phase 2 drains the body,    *)
(* forwardAll gives up.  The handler's deferred Close makes it so too.     *)
WriteFails(a) ==
    /\ reader[a] \in {"head", "handing"}
    /\ pipe[a] = "closed" \/ pc = "done"
    /\ reader' = [reader EXCEPT ![a] = IF @ = "head" /\ ended[a] = "no" THEN "drain" ELSE "done"]
    /\ held' = [held EXCEPT ![a] = <<>>]
    /\ UNCHANGED <<pc, attempt, answer, read, ended, pipe, sample, client, connection>>
ReadDrain(a) ==
    /\ reader[a] = "drain" /\ read[a] < Len(answer[a].body)
    /\ read' = [read EXCEPT ![a] = @ + 1]
    /\ UNCHANGED <<pc, attempt, answer, reader, ended, held, pipe, sample, client, connection>>

DrainEnds(a, how) ==
    /\ reader[a] = "drain"
    /\ ended' = [ended EXCEPT ![a] = how]
    /\ reader' = [reader EXCEPT ![a] = "done"]
    /\ UNCHANGED <<pc, attempt, answer, read, held, pipe, sample, client, connection>>

Ends(a, how) == HeadEnds(a, how) \/ PassEnds(a, how) \/ DrainEnds(a, how)

(* The upstream ends its body; a Read of a cancelled request fails.        *)
UpstreamEnds(a) == read[a] = Len(answer[a].body) /\ Ends(a, answer[a].end)
ReadCancelled(a) == Cancelled /\ Ends(a, "fail")

-----------------------------------------------------------------------------

Handler == \/ Sampled \/ ProbeTimeout \/ WaitStart \/ Ping \/ WaitEnd \/ GiveUp
           \/ ReadErrorBody \/ ErrorBodyEnds \/ DeadlinePasses
           \/ Relay \/ PumpPiece \/ Handed \/ PumpSample \/ PumpEnd
           \/ \E h \in HostKinds, u \in Uploads : Accept(h, u)
           \/ \E ans \in AnswerRecords : Send(ans)
Reads(a) == ReadHead(a) \/ ReadOn(a) \/ ReadDrain(a) \/ UpstreamEnds(a)
Frees(a) == WriteFails(a) \/ ReadCancelled(a)

Next == Handler \/ HangUp \/ \E a \in Attempts : Reads(a) \/ Frees(a)
Spec == Init /\ [][Next]_vars

(* The handler is never starved, a failed Write or Read always returns, a  *)
(* wait ends and Execute returns; the upstream may stall at any point.     *)
Fairness == /\ WF_vars(Sampled \/ ProbeTimeout) /\ WF_vars(WaitEnd) /\ SF_vars(GiveUp)
            /\ WF_vars(gone /\ ErrorBodyEnds) /\ WF_vars(Relay)
            /\ WF_vars(PumpPiece \/ Handed \/ PumpSample \/ PumpEnd)
            /\ \A a \in Attempts : WF_vars(Frees(a))
FairSpec == Spec /\ Fairness
-----------------------------------------------------------------------------
(* Properties.                                                             *)

(* Type invariant.                                                         *)
TypeOK ==
    /\ pc \in Places /\ attempt \in 0 .. MaxAttempts
    /\ answer \in [Attempts -> AnswerRecords \cup {NoAnswer}]
    /\ read \in [Attempts -> Nat]
    /\ reader \in [Attempts -> Readers]
    /\ ended \in [Attempts -> {"no", "eof", "fail"}]
    /\ held \in [Attempts -> Seq(Nat)]
    /\ pipe \in [Attempts -> {"open", "closed", "eof", "fail"}]
    /\ sample \in Seq(Pieces)
    /\ \A a \in Attempts : Len(held[a]) <= HeadLimit
    /\ status \in {"none", "ping", "answer", "own"}
    /\ got \in Seq(Attempts \X Nat)
    /\ notice \in {"none", "status", "event"} /\ pings \in 0 .. MaxPings
    /\ gone \in BOOLEAN /\ severed \in BOOLEAN /\ (severed => gone)
    /\ deadline \in {"none", "armed", "past"}

(* What of its answer the handler owes the client, and has sent.           *)
Owed == IF OK(answer[attempt].wire) THEN answer[attempt].body ELSE Cut(answer[attempt].body)
Whole == Len(got) = Len(Owed)
Stayed == gone => severed

(* The body the client has is always a prefix of one answer's, and once    *)
(* the handler is done with a client that stayed, all of it: the probe     *)
(* neither loses, repeats nor reorders a byte, whichever of the sample,    *)
(* the timer, the end of the body and the pump comes first (probeHead:     *)
(* "the returned body delivers the complete original stream").  The body   *)
(* of an error status is whole up to errorBodyLimit.  Except where the     *)
(* answer to a request that has waited starts a minute late: then the      *)
(* deadline of Wait may sever the client, before the first piece and never *)
(* after it (waiter.go Wait; proxy.go pump lifts the deadline).            *)
StreamIntact ==
    /\ \A i \in DOMAIN got : got[i] = <<attempt, i>>
    /\ pc = "done" /\ Stayed /\ notice = "none" => Whole \/ (severed /\ deadline = "past" /\ got = <<>>)

(* A client that stayed is always told something: the whole answer or an   *)
(* error of the proxy's own (Wait: "the write deadline must outlast the    *)
(* wait, or the runtime severs the connection").                           *)
NeverSevered == pc = "done" /\ Stayed /\ notice = "none" => Whole /\ ~severed

(* The whole exchange is the one Exchange promises: a single status line,  *)
(* then pieces of a single answer (relay and writeExecuteError).           *)
Promise == INSTANCE Exchange WITH
    Lines <- {"ping", "answer", "own"},
    line <- status,
    source <- IF got = <<>> THEN 0 ELSE got[1][1],
    delivered <- Len(got),
    over <- pc = "done"
OneExchange == Promise!Spec

(* A body that stalls holds the handler up for the length of the probe and *)
(* no longer (probeHead's timer), and no goroutine outlives the request:   *)
(* whatever it is doing when the handler returns, reading, writing into a  *)
(* pipe nobody reads, or draining a refused body, it ends, even if the     *)
(* upstream never sends another byte.  The body of an error status may     *)
(* stall for as long as the client stays; once it has left, the handler    *)
(* ends wherever it is (io.ReadAll of an error body, Wait, the pump).      *)
ReadersEnd ==
    /\ pc = "probing" ~> pc # "probing"
    /\ \A a \in Attempts : pc = "done" ~> reader[a] \in {"none", "done"}
    /\ gone /\ pc # "start" ~> pc = "done"

(* What the waiter's comment says of ping mode: once the 200 is sent, a    *)
(* failure has to be reported as an in-band error event.                   *)
LateFailureIsAnEvent ==
    pc = "done" /\ ~gone /\ status = "ping" /\ attempt > 0 /\ got # <<>> => OK(answer[attempt].wire)
=============================================================================
