------------------------------ MODULE Classify ------------------------------
(***************************************************************************)
(* internal/lane: what one upstream answer means.  The engine acts on the  *)
(* outcome alone; the two lanes read the same kinds of answer by rules of  *)
(* their own.                                                              *)
(*                                                                         *)
(* An answer is what the rules read of it: its status, the error its body  *)
(* names, and the figures its body and headers give.  A figure is a number *)
(* of seconds from now, negative for a moment already past, or Absent.     *)
(***************************************************************************)
EXTENDS Integers, FiniteSets

CONSTANTS
    Names,          \* the error types and codes answers carry
    Absent,         \* no figure, no type, no code
    BurstCutoff,    \* retry.burst_cutoff
    FiveHours,      \* the guess when the upstream says nothing
    Wires           \* the answers considered

Lanes == {"anthropic", "openai"}
Figures == Int \cup {Absent}
Wire == [status : Nat, failed : BOOLEAN, type : Names \cup {Absent}, code : Names \cup {Absent},
         resets : Figures, outer : Figures,      \* in the envelope, and outside it
         after : Figures, dated : BOOLEAN,       \* Retry-After, and whether as a date
         unified : Figures, reset5 : Figures, reset7 : Figures,
         rejected : BOOLEAN, reached : BOOLEAN]  \* status=rejected; a plan limit was reached

ASSUME ClassifyAssumption ==
    /\ Absent \notin Int /\ BurstCutoff \in Nat /\ FiveHours \in Nat
    /\ BurstCutoff < FiveHours
    /\ Wires \subseteq Wire

OverloadSignals == {"overloaded_error", "service_unavailable_error", "server_error", "api_error",
                    "internal_error", "internal_server_error", "server_overloaded",
                    "server_is_overloaded", "overloaded"}
PlanExhausted == {"usage_limit_reached", "usage_limit_exceeded",
                  "workspace_owner_usage_limit_reached", "workspace_member_usage_limit_reached",
                  "workspace_member_credits_depleted", "insufficient_quota"}
AuthSignals == {"authentication_error", "permission_error", "invalid_api_key", "unauthorized"}

(* The outcomes.  wait is how long to hold the account, at when a spent    *)
(* one is usable again.                                                    *)
Outcome(action, overload, wait, at) ==
    [action |-> action, overload |-> overload, wait |-> wait, at |-> at]
Relayed == Outcome("relay", FALSE, 0, 0)
Fatal == Outcome("fatal", FALSE, 0, 0)
RefreshAuth == Outcome("auth", FALSE, 0, 0)
Overloaded == Outcome("retry", TRUE, 0, 0)
Hold(wait) == Outcome("retry", FALSE, wait, 0)
Spent(at) == Outcome("rotate", FALSE, 0, at)

Given(f) == f # Absent
Positive(f) == Given(f) /\ f > 0

-----------------------------------------------------------------------------
(* What the headers and the body say.                                      *)

(* RetryAfterHeader: delay seconds, or a date.  A negative delay is no     *)
(* figure; a date already past is none to wait for.                        *)
RetryAfter(w) ==
    IF ~Given(w.after) THEN Absent
    ELSE IF w.after >= 0 THEN w.after
    ELSE IF w.dated THEN 0 ELSE Absent

(* anthropic.resetTime: the unified reset, else the earlier window's.      *)
ResetTime(w) ==
    IF Given(w.unified) THEN w.unified
    ELSE IF ~Given(w.reset5) THEN w.reset7
    ELSE IF ~Given(w.reset7) \/ w.reset5 <= w.reset7 THEN w.reset5 ELSE w.reset7

(* envelopeError, and firstPositive of openai.classify429, which reads the *)
(* figure outside the envelope too.                                        *)
BodyFigure(w) == IF Positive(w.resets) THEN w.resets ELSE Absent
AnyFigure(w) == IF Positive(w.resets) THEN w.resets
                ELSE IF Positive(w.outer) THEN w.outer ELSE Absent

(* openai: the first of code and type that is there.                       *)
NamedCode(w) == IF Given(w.code) THEN w.code ELSE w.type

-----------------------------------------------------------------------------
(* The shared rules for a failure inside a response whose status was 2xx.  *)
(* mutant: the code beside the type is not read.                           *)
TypeOnly(w) ==
    LET names == {w.type}
        figure == BodyFigure(w)
    IN  IF names \cap OverloadSignals # {} THEN Overloaded
        ELSE IF names \cap PlanExhausted # {} THEN
            Spent(IF Given(figure) THEN figure ELSE FiveHours)
        ELSE IF w.type = "rate_limit_error" \/ w.code = "rate_limit_exceeded" THEN
            IF Given(figure) /\ figure <= BurstCutoff THEN Hold(figure)
            ELSE Spent(IF Given(figure) THEN figure ELSE FiveHours)
        ELSE IF names \cap AuthSignals # {} THEN RefreshAuth
        ELSE Fatal
ClassifyInBand(w) ==
    LET names == {w.type, w.code}
        figure == BodyFigure(w)
    IN  IF names \cap OverloadSignals # {} THEN Overloaded
        ELSE IF names \cap PlanExhausted # {} THEN
            Spent(IF Given(figure) THEN figure ELSE FiveHours)
        ELSE IF w.type = "rate_limit_error" \/ w.code = "rate_limit_exceeded" THEN
            IF Given(figure) /\ figure <= BurstCutoff THEN Hold(figure)
            ELSE Spent(IF Given(figure) THEN figure ELSE FiveHours)
        ELSE IF names \cap AuthSignals # {} THEN RefreshAuth
        ELSE Fatal

(* The status codes both lanes read alike, a 429 apart.                    *)
ByStatus(w) ==
    IF w.status \in 300 .. 399 THEN Fatal
    ELSE IF w.status \in {401, 403} THEN RefreshAuth
    ELSE IF w.status = 408 \/ w.status >= 500 THEN Overloaded
    ELSE Fatal

-----------------------------------------------------------------------------
(* The Anthropic lane.                                                     *)

(* mutant: a rejection's own reset loses to the guess.                     *)
Anthropic429Guess(w) ==
    LET reset == ResetTime(w)
        ra == RetryAfter(w)
    IN  IF w.rejected THEN Spent(IF Given(ra) THEN ra ELSE FiveHours)
        ELSE IF Given(ra) THEN
            IF ra <= BurstCutoff THEN Hold(ra)
            ELSE Spent(IF Given(reset) /\ reset > ra THEN reset ELSE ra)
        ELSE IF Given(reset) THEN
            IF reset <= BurstCutoff THEN Hold(reset) ELSE Spent(reset)
        ELSE Spent(FiveHours)
(* mutant: of two figures the earlier one.                                 *)
AnthropicEarlier(w) ==
    LET reset == ResetTime(w)
        ra == RetryAfter(w)
    IN  IF w.rejected THEN Spent(IF Given(reset) THEN reset ELSE IF Given(ra) THEN ra ELSE FiveHours)
        ELSE IF Given(ra) THEN
            IF ra <= BurstCutoff THEN Hold(ra)
            ELSE Spent(IF Given(reset) /\ reset < ra THEN reset ELSE ra)
        ELSE IF Given(reset) THEN
            IF reset <= BurstCutoff THEN Hold(reset) ELSE Spent(reset)
        ELSE Spent(FiveHours)
Anthropic429(w) ==
    LET reset == ResetTime(w)
        ra == RetryAfter(w)
    IN  IF w.rejected THEN Spent(IF Given(reset) THEN reset ELSE IF Given(ra) THEN ra ELSE FiveHours)
        ELSE IF Given(ra) THEN
            IF ra <= BurstCutoff THEN Hold(ra)
            ELSE Spent(IF Given(reset) /\ reset > ra THEN reset ELSE ra)
        ELSE IF Given(reset) THEN
            IF reset <= BurstCutoff THEN Hold(reset) ELSE Spent(reset)
        ELSE Spent(FiveHours)

AnthropicClassify(w) ==
    IF w.status \in 200 .. 299 THEN IF w.failed THEN ClassifyInBand(w) ELSE Relayed
    ELSE IF w.type = "overloaded_error" THEN Overloaded
    ELSE IF w.status = 429 THEN Anthropic429(w)
    ELSE ByStatus(w)

-----------------------------------------------------------------------------
(* The OpenAI lane.                                                        *)

OpenAI429(w) ==
    LET figure == AnyFigure(w)
        ra == RetryAfter(w)
        wait == IF Given(figure) THEN figure ELSE ra
    IN  IF NamedCode(w) \in PlanExhausted \/ w.reached THEN
            Spent(IF Given(wait) THEN wait ELSE FiveHours)
        ELSE IF ~Positive(wait) THEN Spent(FiveHours)
        ELSE IF wait <= BurstCutoff THEN Hold(wait)
        ELSE Spent(wait)

OpenAIClassify(w) ==
    IF w.status \in 200 .. 299 THEN IF w.failed THEN ClassifyInBand(w) ELSE Relayed
    ELSE IF NamedCode(w) = "server_overloaded" THEN Overloaded
    ELSE IF w.status = 429 THEN OpenAI429(w)
    ELSE ByStatus(w)

LaneClassify(lane, w) ==
    IF lane = "anthropic" THEN AnthropicClassify(w) ELSE OpenAIClassify(w)
=============================================================================
