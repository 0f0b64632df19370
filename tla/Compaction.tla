----------------------------- MODULE Compaction -----------------------------
(***************************************************************************)
(* Abridging a session to a token budget (compact.go): the ladder of       *)
(* reductions, each applied to the untouched source, the archive of what a *)
(* reduction takes out and the markers that point into it.  Lengths are in *)
(* bytes as in the code, so that the ladder is the program's own except    *)
(* for how many recent turns its last rungs keep.                          *)
(*                                                                         *)
(* A part carries the place it has in the source and the archive file its  *)
(* marker names (<<>> for none).                                           *)
(***************************************************************************)
EXTENDS Transcript, FiniteSetsExt

CONSTANTS
    Turns,      \* the events a session may be made of
    Bytes,      \* the length of every body
    Keeps,      \* the recent turns the last rungs keep; the code's are 60, 30, 14, 6
    Budgets,    \* the budgets tried
    MaxEvents   \* bound: events of a session

ASSUME CompactionAssumption ==
    /\ MaxEvents \in Nat
    /\ Keeps \in Seq(Nat) /\ \A i, j \in DOMAIN Keeps : i < j => Keeps[i] > Keeps[j]
    /\ \A b \in DOMAIN Bytes : Bytes[b] \in Nat
    /\ Budgets \subseteq Nat
    /\ \A e \in Turns : e \in [role : STRING, parts : Seq(
          [kind : STRING, call : STRING, body : STRING, err : BOOLEAN])]

VARIABLES
    source,   \* the session, which no step changes once it is being reduced
    budget,   \* 0 until the compaction begins
    rung,     \* how many rungs have been tried
    target,   \* the last rung's session
    files,    \* the last rung's archive, in the order its files are written
    fit       \* the last rung fits the budget

vars == <<source, budget, rung, target, files, fit>>

-----------------------------------------------------------------------------
(* What a session costs the target. *)

MarkerBytes == 110
Tokens(bytes) == (2 * bytes + 6) \div 7
PartBytes(p) ==
    IF p.file = <<>> \/ p.limit = 0 \/ p.limit >= Bytes[p.body] THEN Bytes[p.body]
    ELSE p.limit + MarkerBytes
PartTokens(p) ==
    CASE p.kind = "plan"  -> Tokens(Bytes[p.body])
      [] p.kind = "media" -> 4 + 1600
      [] OTHER            -> 4 + Tokens(PartBytes(p))
EstimateTokens(h) ==
    FoldLeft(LAMBDA n, e : n + 8 + FoldLeft(LAMBDA m, p : m + PartTokens(p), 0, e.parts), 0, h)

-----------------------------------------------------------------------------
(* The archive. A file is [name, holds]: the name is the event, what it is, *)
(* what distinguishes it and the counter of a collision.                    *)

Used(fs, name) == Cardinality({i \in DOMAIN fs : fs[i].name = name})
SameName(fs, name) == name  \* mutant: no counter
NameFor(fs, name) ==
    LET n == Used(fs, name) IN IF n > 0 THEN [name EXCEPT ![4] = n + 1] ELSE name
Added(fs, name, places) == Append(fs, [name |-> NameFor(fs, name), holds |-> places])
LastName(fs) == fs[Len(fs)].name

(* The file a part is taken out into, and the parts that may be.            *)
Files(p) == p.kind \in {"media", "result", "text", "tagged"}
FileName(role, p) ==
    CASE p.kind = "media"  -> <<p.of[1], "media", "attachment", 1>>
      [] p.kind = "result" -> <<p.of[1], "tool-result", p.call, 1>>
      [] OTHER             -> <<p.of[1], "message", role, 1>>

(* Where a file is written twice the later one stays.                       *)
Holds(fs, name) == fs[Max({i \in DOMAIN fs : fs[i].name = name})].holds

-----------------------------------------------------------------------------
(* One rung, part by part. *)

Marked(p, kind, limit, name) == [p EXCEPT !.kind = kind, !.file = name, !.limit = limit]

(* The event that holds a call's result; a second one in another event      *)
(* would make the session invalid.                                          *)
ResultElsewhere(p) == \E q \in Where(source, LAMBDA x : x.kind = "result") :
    At(source, q).call = p.call /\ q[1] # p.of[1]

(* archiveMedia: a pointer in a form the role may hold, or nothing.         *)
MediaMarker(role, p, name) ==
    LET as(kind) == <<Marked([p EXCEPT !.body = "marker"], kind, 0, name)>>
    IN  IF role = "assistant" \/ p.call = None
        THEN IF role = "tool" THEN <<>> ELSE as("text")
        ELSE IF ResultElsewhere(p) THEN <<>> ELSE as("result")

(* s is what the event has become, and the archive so far.                  *)
Reduced(r, role, s, p) ==
    LET put(parts(_)) == LET fs == Added(s.files, FileName(role, p), {p.of})
                         IN  [parts |-> s.parts \o parts(LastName(fs)), files |-> fs, took |-> s.took + 1]
        cut(limit, n) == <<Marked(p, p.kind, limit, n)>>
    IN  CASE p.kind = "reasoning" /\ r.reasoning -> [s EXCEPT !.took = @ + 1]
          [] p.kind = "media" /\ r.media ->
               put(LAMBDA n : MediaMarker(role, p, n))
          [] p.kind = "result" /\ r.results \in 1..(Bytes[p.body] - 1) ->
               put(LAMBDA n : cut(r.results, n))
          [] p.kind \in {"text", "tagged"} /\ r.text \in 1..(Bytes[p.body] - 1) ->
               put(LAMBDA n : cut(r.text, n))
          [] OTHER -> [s EXCEPT !.parts = Append(@, p)]

ReducedEvent(r, s, e) ==
    LET t == FoldLeft(LAMBDA u, p : Reduced(r, e.role, u, p),
                      [parts |-> <<>>, files |-> s.files, took |-> s.took], e.parts)
    IN  [events |-> s.events \o MessageOf(e.role, t.parts), files |-> t.files, took |-> t.took]

-----------------------------------------------------------------------------
(* The collapse of all but the opening request and the recent turns. *)

HasCall(e) == \E i \in DOMAIN e.parts : IsCall(e.parts[i])
Opening(es) == IF es[1].role = "user" /\ ~HasCall(es[1]) THEN 1 ELSE 0

(* No answer of the kept tail has its call before it: the latest boundary   *)
(* at or before the wished one that cuts no call from its answer.           *)
Whole(es, start) == \A p \in Where(es, Answers) : p[1] >= start =>
    \A q \in CallPlaces(es) : At(es, q).call = At(es, p).call => q[1] >= start
AnyBoundary(es, keep) == Len(es) - keep + 1  \* mutant: the tail may begin anywhere
Boundary(es, keep) ==
    Max({Opening(es) + 1} \cup {b \in (Opening(es) + 1)..(Len(es) - keep + 1) : Whole(es, b)})

(* A part compaction adds: a text of no place in the source. *)
Note(body, name) == [kind |-> "text", call |-> None, body |-> body, err |-> FALSE,
                     file |-> name, limit |-> 0, of |-> <<0, 0>>]

Collapsed(s, keep) ==
    LET es    == s.events
        start == Boundary(es, keep)
        gone  == SubSeq(es, Opening(es) + 1, start - 1)
        fs    == Added(s.files, <<Opening(es) + 1, "collapsed", None, start>>,
                       {At(gone, p).of : p \in Places(gone)})
    IN  IF keep = 0 \/ Len(es) <= keep + 2 \/ start <= Opening(es) + 1 THEN s
        ELSE [events |-> SubSeq(es, 1, Opening(es))
                           \o <<Event("user", <<Note("brief", LastName(fs))>>)>>
                           \o SubSeq(es, start, Len(es)),
              files |-> fs, took |-> s.took + Len(gone)]

(* applyReduction: a digest of the whole source goes in front of anything   *)
(* that has lost something.                                                 *)
Candidate(r) ==
    LET cut == FoldLeft(LAMBDA s, e : ReducedEvent(r, s, e),
                        [events |-> <<>>, files |-> <<>>, took |-> 0], source)
        s   == Collapsed(cut, r.keep)
    IN  IF s.took = 0 THEN s
        ELSE [s EXCEPT !.events = <<Event("user", <<Note("digest", <<>>)>>)>> \o @]

Rung(reasoning, results, text, media, keep) ==
    [reasoning |-> reasoning, results |-> results, text |-> text, media |-> media, keep |-> keep]
Ladder ==
    << Rung(FALSE, 0, 0, FALSE, 0), Rung(TRUE, 0, 0, FALSE, 0), Rung(TRUE, 8000, 0, FALSE, 0),
       Rung(TRUE, 2000, 0, FALSE, 0), Rung(TRUE, 600, 0, FALSE, 0), Rung(TRUE, 600, 6000, FALSE, 0),
       Rung(TRUE, 600, 2000, FALSE, 0), Rung(TRUE, 300, 2000, FALSE, 0), Rung(TRUE, 300, 2000, TRUE, 0) >>
    \o [k \in DOMAIN Keeps |-> Rung(TRUE, 300, 2000, TRUE, Keeps[k])]

-----------------------------------------------------------------------------
Init ==
    /\ source = <<>> /\ budget = 0 /\ rung = 0
    /\ target = <<>> /\ files = <<>> /\ fit = FALSE

(* The source session as a reader hands it over: Manager.Teleport validates *)
(* it before the compaction.                                                *)
Placed(e, i) == [e EXCEPT !.parts = [j \in DOMAIN e.parts |->
    LET p == e.parts[j] IN [kind |-> p.kind, call |-> p.call, body |-> p.body, err |-> p.err,
                            file |-> <<>>, limit |-> 0, of |-> <<i, j>>]]]
Extend ==
    /\ budget = 0 /\ Len(source) < MaxEvents
    /\ \E e \in Turns :
          LET h == Append(source, Placed(e, Len(source) + 1))
          IN  Valid(h) /\ source' = h
    /\ UNCHANGED <<budget, rung, target, files, fit>>

Begin ==
    /\ budget = 0 /\ source # <<>>
    /\ budget' \in Budgets
    /\ UNCHANGED <<source, rung, target, files, fit>>

(* The next rung, until one fits. An invalid candidate fails the transfer.  *)
TryRung ==
    /\ budget > 0 /\ ~fit /\ rung < Len(Ladder)
    /\ rung > 0 => Valid(target)
    /\ LET c == Candidate(Ladder[rung + 1]) IN
       /\ target' = c.events /\ files' = c.files
       /\ fit' = (EstimateTokens(c.events) <= budget /\ Valid(c.events))
    /\ rung' = rung + 1
    /\ UNCHANGED <<source, budget>>

Next == Extend \/ Begin \/ TryRung
Spec == Init /\ [][Next]_vars

-----------------------------------------------------------------------------
(* Properties *)

Kept == {At(target, p).of : p \in Where(target, LAMBDA q : q.file = <<>>)}
Archived == UNION {Holds(files, files[i].name) : i \in DOMAIN files}
MarkersResolve == \A p \in Where(target, LAMBDA q : q.file # <<>> /\ q.body # "brief") :
    At(target, p).of \in Holds(files, At(target, p).file)
Payload(p) == ~IsCall(p) /\ p.kind # "reasoning"

(* Three payloads of one event for one file: the counter of the third is   *)
(* the second's (archive.go:114).                                          *)
Crowded ==
    LET name(p) == FileName(source[p[1]].role, At(source, p)) IN
    \E p, q, o \in Where(source, Files) :
        p # q /\ q # o /\ p # o /\ name(p) = name(q) /\ name(q) = name(o)

(* Every part of the source is in the target as it was or in the archive,   *)
(* recorded reasoning aside, which only the archived session keeps          *)
(* (archive.go:12), and every marker names the file that holds what it      *)
(* stands for (archive.go:111).                                             *)
NothingLost == rung > 0 /\ ~Crowded =>
    /\ \A p \in Where(source, Payload) : p \in Kept \cup Archived
    /\ MarkersResolve

(* Pictures that answer one call in two events. *)
PicturesApart == \E p, q \in Where(source, LAMBDA x : x.kind = "media" /\ x.call # None) :
    p[1] # q[1] /\ At(source, p).call = At(source, q).call

(* The assistant's own message answers a call with a picture: Validate lets *)
(* it pass, though no harness but Claude could record it.                   *)
SelfAnswered == \E p \in Where(source, LAMBDA x : x.kind = "media" /\ x.call # None) :
    source[p[1]].role = "assistant"

(* A reduction of a valid session is valid (compact.go:192): no answer is   *)
(* parted from its call and no call is answered twice; and a call that was  *)
(* answered and is kept is still answered: neither an archived picture nor  *)
(* the collapse takes the answer alone (compact.go:343).                    *)
StaysValid == rung > 0 =>
    /\ Valid(target) \/ PicturesApart
    /\ Dangling(target) \subseteq Dangling(source) \/ SelfAnswered

(* Violated: the digest and the markers cost more than a small reduction    *)
(* saves, so a rung may remove less than the one before it, and what does   *)
(* not fit may leave larger than it came (compact.go:168).                  *)
NeverGrows == rung > 0 => EstimateTokens(target) <= EstimateTokens(source)

(* Violated: the third of three pictures of a message takes the file of the *)
(* second (archive.go:111).                                                 *)
NothingOverwritten == rung > 0 => MarkersResolve

(* Violated: pictures of two events that answer one call become two results *)
(* of it, and the transfer fails (compact.go:363).                          *)
AlwaysValid == rung > 0 => Valid(target)

(* Violated: the text that stands for an assistant's own picture leaves the *)
(* call it answered unanswered (compact.go:356).                            *)
AnswersKept == rung > 0 => Dangling(target) \subseteq Dangling(source)
=============================================================================
