----------------------------- MODULE MCTransfer -----------------------------
(* Instance of Transfer: the records each harness is seen to write. *)
EXTENDS Transfer

T(b) == Part("text", None, b, FALSE)
K(kind, b) == Part(kind, None, b, FALSE)
C(c) == Part("call", c, c, FALSE)
R(c, b, e) == Part("result", c, b, e)
M(c, b) == Part("media", c, b, FALSE)
X(c) == Part("exit", c, "p2", FALSE)

MCRecorded == [a \in Harnesses |->
    CASE a = "claude" ->
            {Claude("user", <<T("u")>>), Claude("user", <<K("media", "pic")>>),
             Claude("assistant", <<K("reasoning", "r"), T("a"), C("c1")>>),
             Claude("assistant", <<K("tagged", "p1"), C("c2")>>),
             Claude("assistant", <<X("c2")>>),
             Claude("user", <<R("c1", "ok", FALSE)>>), Claude("user", <<R("c2", "bad", TRUE)>>),
             Claude("user", <<R("c1", "one", FALSE), R("c1", "two", FALSE)>>),
             Claude("user", <<R("c1", "ok", FALSE), M("c1", "shot")>>),
             Claude("user", <<M("c1", "shot"), T("more")>>),
             Claude("enqueue", <<T("q")>>), Claude("dequeue", <<T(None)>>), Claude("remove", <<T("q")>>),
             Claude("queued", <<T("q")>>), Claude("planref", <<K("plan", "p1")>>),
             Claude("planfile", <<K("plan", "p3")>>), Claude("mode", <<>>)}
      [] a = "codex" ->
            {Item("user", <<T("u"), K("media", "pic")>>), Item("assistant", <<T("a"), K("tagged", "p1")>>),
             Item("reasoning", <<K("reasoning", "r")>>), Item("call", <<C("c1")>>),
             Item("output", <<R("c1", "bad", TRUE)>>),
             Item("output", <<R("c1", "ok", FALSE), M("c1", "shot")>>),
             Item("output", <<Part("other", "c1", "x", FALSE)>>),
             Item("plan_update", <<K("plan", "p2")>>), Item("web_search_call", <<>>)}
      [] a = "opencode" ->
            {Exported("user", <<T("u"), K("media", "pic")>>),
             Exported("assistant", <<K("reasoning", "r"), T("a"), C("c1"), R("c1", "ok", FALSE), T("b")>>),
             Exported("assistant", <<C("c2"), R("c2", "bad", TRUE), K("tagged", "p1")>>),
             Exported("assistant", <<T("c"), C("c1")>>), Exported("system", <<>>)}
      [] a = "kimi" ->
            {Wire("message", <<T("u"), K("media", "pic")>>), Wire("part", <<T("a")>>),
             Wire("part", <<K("tagged", "p1")>>), Wire("part", <<K("reasoning", "r")>>),
             Wire("call", <<C("c1")>>), Wire("result", <<R("c1", "bad", TRUE)>>),
             Wire("result", <<R("c1", "one", FALSE), M("c1", "shot")>>),
             Wire("revision", <<K("plan", "p2")>>), Wire("usage.record", <<>>)}
      [] a = "legacy" ->
            {Wire("user", <<T("u")>>), Wire("user", <<T("u"), K("media", "pic")>>),
             Wire("assistant", <<K("reasoning", "r"), T("a"), C("c1"), C("c2")>>),
             Wire("tool", <<R("c1", "bad", TRUE)>>), Wire("tool", <<R("c2", "ok", FALSE)>>),
             Wire("display", <<K("plan", "p1")>>)}]
=============================================================================
