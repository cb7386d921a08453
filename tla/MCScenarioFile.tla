--------------------------- MODULE MCScenarioFile ----------------------------
(* Files and values of ScenarioFile's constants for TLC. *)
EXTENDS ScenarioFile

Case(id, target, persona, legacy) ==
    [id |-> id, prompt |-> "p", model |-> None, target |-> target,
     personaReview |-> persona, accessibility |-> legacy]

Page(viewport) == [platform |-> "web", of |-> "url", viewport |-> viewport]
Phone == [platform |-> "android", of |-> "app", viewport |-> None]

(* Every key with a comment, in another order than the server's; the       *)
(* legacy keys; both names of the personas; no mapping at all.             *)
MCCommitted == {
    <<Pair("tags", {"head"}, <<"smoke">>), Pair("title", {"title"}, "t"),
      Pair("target", {"target"}, Page(None)), Pair("personaReview", {"personas"}, "child"),
      Pair("cases", {"cases"},
           [lead |-> {"first"},
            items |-> <<[notes |-> {}, fields |-> Case("a", Phone, None, None)],
                        [notes |-> {"second"}, fields |-> Case("b", None, "child", None)]>>])>>,
    <<Pair("accessibility", {"head"}, "child"), Pair("app", {"app"}, "app"),
      Pair("title", {}, "t"),
      Pair("cases", {},
           [lead |-> {},
            items |-> <<[notes |-> {}, fields |-> Case("a", None, None, "child")],
                        [notes |-> {"second"}, fields |-> Case("b", Page(None), None, None)]>>])>>,
    <<Pair("title", {}, "t"), Pair("accessibility", {"personas"}, "child"),
      Pair("target", {}, Page("phone")),
      Pair("cases", {}, [lead |-> {"first"},
                         items |-> <<[notes |-> {}, fields |-> Case("b", None, None, None)]>>])>>,
    <<Pair("title", {}, "t"), Pair("accessibility", {}, "child"), Pair("personaReview", {}, "child"),
      Pair("cases", {}, [lead |-> {},
                         items |-> <<[notes |-> {}, fields |-> Case("a", None, None, None)]>>])>>,
    <<>>}

MCStrings == {"a", "b", "c", "p", "t", "v", "url", "app", "phone", "child", "smoke", "slow", "Smoke"}

MCTags == {<<>>, <<"smoke">>, <<"slow", "smoke">>, <<"Smoke">>}
===============================================================================
