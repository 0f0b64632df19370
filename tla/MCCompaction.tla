---------------------------- MODULE MCCompaction ----------------------------
(* Compaction on sessions of a few turns, with the lengths a turn has: a    *)
(* short message, a pasted file, the output of a command.                   *)
EXTENDS Compaction

MCBytes == [b \in {"short", "long", "huge", "pic", "args", "marker", "digest", "brief"} |->
    CASE b = "short" -> 60 [] b = "long" -> 2500 [] b = "huge" -> 9000 [] b = "pic" -> 0
      [] b = "args" -> 120 [] b = "marker" -> 150 [] b = "digest" -> 1200 [] b = "brief" -> 400]

T(b) == Part("text", None, b, FALSE)
C(c) == Part("call", c, "args", FALSE)
R(c, b) == Part("result", c, b, FALSE)
Pic(c) == Part("media", c, "pic", FALSE)

MCTurns ==
    {Event("user", <<T("short")>>), Event("user", <<T("huge"), Pic(None), Pic(None)>>),
     Event("user", <<T("long"), T("long")>>),
     Event("assistant", <<Part("reasoning", None, "long", FALSE)>>),
     Event("assistant", <<Part("reasoning", None, "short", FALSE), C("c1")>>),
     Event("assistant", <<T("short"), C("c2")>>),
     Event("tool", <<R("c1", "huge")>>), Event("tool", <<R("c2", "long"), Pic("c1")>>),
     Event("tool", <<Pic("c2")>>), PlanEvent("short")}
MCCrowd == MCTurns \cup {Event("user", <<Pic(None), Pic(None), Pic(None)>>)}
MCSelf == MCTurns \cup {Event("assistant", <<Pic("c1")>>)}
MCKeeps == <<2, 1>>
=============================================================================
