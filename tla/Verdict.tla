------------------------------ MODULE Verdict ------------------------------
(***************************************************************************)
(* What the rules of Classify promise the engine, whichever answer comes   *)
(* next.                                                                   *)
(***************************************************************************)
EXTENDS Classify

VARIABLE wire                    \* the answer a lane is asked about

Ask == wire' \in Wires
AskSpec == wire \in Wires /\ [][Ask]_wire

(* How soon the engine comes back to the account of a 429.                 *)
Back(o) == IF o.action = "retry" THEN o.wait ELSE o.at

(* What each lane reads of the timing of a 429.                            *)
Read(lane, w) == IF lane = "anthropic" THEN {RetryAfter(w), ResetTime(w)}
                                       ELSE {AnyFigure(w), RetryAfter(w)}

(* The five hours are a last resort: where a 429 says when its limit       *)
(* lifts, and that is still to come, the engine acts on a moment the       *)
(* answer names ("take the reset time from whatever the server actually    *)
(* told us"; "prefer the server's own reset figure over any inference").   *)
FiguresWin ==
    \A lane \in Lanes :
        LET o == LaneClassify(lane, wire)
            figures == Read(lane, wire) \ {Absent}
        IN  wire.status = 429 /\ ~o.overload /\ figures # {} /\ (\A f \in figures : f > 0)
                => Back(o) \in figures

(* An upstream that asks for a longer wait never gets the next request     *)
(* sooner, across the cutoff where holding turns into rotating.            *)
LongerIsNotSooner ==
    \A lane \in Lanes, longer \in 1 .. FiveHours :
        wire.status = 429 /\ Positive(wire.after) /\ wire.after <= longer
            => Back(LaneClassify(lane, wire)) <= Back(LaneClassify(lane, [wire EXCEPT !.after = longer]))

(* The status an error name goes with.                                     *)
StatusOf(w) ==
    IF {w.type, w.code} \cap OverloadSignals # {} THEN 529
    ELSE IF \/ {w.type, w.code} \cap PlanExhausted # {}
            \/ w.type = "rate_limit_error" \/ w.code = "rate_limit_exceeded" THEN 429
    ELSE IF {w.type, w.code} \cap AuthSignals # {} THEN 401
    ELSE 400
AtItsStatus == [wire EXCEPT !.status = StatusOf(wire)]

(* "An in-band failure classifies exactly like its HTTP-status             *)
(* equivalent" (lane.go, Lane.Classify).                                   *)
InBandIsItsStatus ==
    \A lane \in Lanes :
        wire.status = 200 /\ wire.failed =>
            LaneClassify(lane, wire) = LaneClassify(lane, AtItsStatus)

(* It does as long as the answer gives no figure.                          *)
Untimed(w) == /\ ~Positive(w.resets) /\ ~Positive(w.outer) /\ ~Given(RetryAfter(w))
              /\ ~Given(ResetTime(w)) /\ ~w.rejected /\ ~w.reached
InBandWithoutFigures == Untimed(wire) => InBandIsItsStatus

(* A limit about to lift is not the dearest one: "a sub-second burst limit *)
(* is the shortest wait there is; it must not be the most expensive"       *)
(* (openai.go, seconds).                                                   *)
ShortestIsNotDearest ==
    \A lane \in Lanes :
        wire.status = 429 /\ RetryAfter(wire) = 0 /\ ~Given(AnyFigure(wire)) /\ ~wire.rejected
            => Back(LaneClassify(lane, wire)) <= BurstCutoff
=============================================================================
