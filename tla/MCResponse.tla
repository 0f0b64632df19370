---------------------------- MODULE MCResponse ----------------------------
(* Instances of Response: bodies long enough for a head, a boundary and a  *)
(* tail, for a failure before and after the sample's limit.  Instances of  *)
(* Classify: every combination of what each lane reads.                    *)
EXTENDS Response, Verdict

MCNames == {"rate_limit_error", "overloaded_error", "permission_error", "server_error",
            "invalid_request_error", "usage_limit_reached", "rate_limit_exceeded"}
Plain == [status |-> 200, failed |-> FALSE, type |-> Absent, code |-> Absent, resets |-> Absent,
          outer |-> Absent, after |-> Absent, dated |-> FALSE, unified |-> Absent,
          reset5 |-> Absent, reset7 |-> Absent, rejected |-> FALSE, reached |-> FALSE]
Figs == {Absent, -1, 1, 6}
Afters == {Absent, -1, 0, 1, 3, 6}

Named == {[Plain EXCEPT !.status = s, !.failed = TRUE, !.type = t, !.code = c, !.resets = f] :
            s \in {200, 401, 429, 500}, t \in MCNames \cup {Absent}, c \in MCNames \cup {Absent},
            f \in {Absent, 1, 6}}
Headed == {[Plain EXCEPT !.status = 429, !.unified = u, !.reset5 = a, !.reset7 = b,
                         !.after = r, !.dated = d, !.rejected = j] :
             u \in Figs, a \in Figs, b \in Figs, r \in Afters, d \in BOOLEAN, j \in BOOLEAN}
Timed == {[Plain EXCEPT !.status = 429, !.code = c, !.resets = f, !.outer = g, !.after = r,
                        !.reached = p] :
            c \in {Absent, "usage_limit_reached"}, f \in Figs, g \in Figs, r \in Afters, p \in BOOLEAN}
Inline == {[Plain EXCEPT !.failed = TRUE, !.type = "rate_limit_error", !.after = r] : r \in Afters}
MCSent == {[Plain EXCEPT !.type = "overloaded_error"],
           [Plain EXCEPT !.status = 400, !.type = "invalid_request_error"],
           [Plain EXCEPT !.status = 429, !.after = 1]}
MCWires == Named \cup Headed \cup Timed \cup Inline \cup MCSent \cup {Plain}

MCBodies == {<<>>, <<"part">>, <<"part", "event", "part">>, <<"refusal", "part">>,
             <<"part", "part", "refusal">>, <<"envelope">>}
MCErrorBodies == {<<"part">>, <<"part", "part", "part">>}
MCHosts == {"localhost", "other"}

(* Requests that are refused outright, and after them the lanes asked      *)
(* about every kind of answer.                                             *)
MCNext == \/ Next /\ UNCHANGED wire
          \/ pc = "done" /\ attempt = 0 /\ wire = Plain /\ Ask /\ UNCHANGED vars
MCInit == Init /\ wire = Plain
MCSpec == MCInit /\ [][MCNext]_<<vars, wire>> /\ Fairness
=============================================================================
