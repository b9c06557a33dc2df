---------------------------- MODULE MCApiSpec ----------------------------
(* A help desk: tickets are listed, opened and deleted; teams are read under two names. *)
EXTENDS ApiSpec

FeatureNames == {"f", "g", "h"}
RouteNames == {"list", "open", "delete", "team", "teamId", "stray", "other"}
AllRoutes == RouteNames \cup {"twin"}
Ranks == ("f" :> 1) @@ ("g" :> 2) @@ ("h" :> 3)
RouteRanks == [r \in AllRoutes |->
  CASE r = "delete" -> 1 [] r = "stray" -> 2 [] r = "team" -> 3 [] r = "teamId" -> 4
    [] r = "list" -> 5 [] r = "twin" -> 6 [] r = "open" -> 7 [] OTHER -> 8]
ShapeOf == [r \in AllRoutes |-> IF r = "teamId" THEN "team" ELSE r]
TwinOf == [r \in AllRoutes |-> "twin"]
MeaningOf == [r \in AllRoutes |-> IF r \in {"stray", "other"} THEN "login" ELSE "nobody"]
GuessOf == [r \in AllRoutes |-> IF r = "stray" THEN "g" ELSE "nobody"]
Clues == [r \in AllRoutes |->
  CASE r = "stray" -> <<{}, {"tickets", "teams"}, {"boards"}>> [] r = "open" -> <<{"teams"}>> [] OTHER -> <<{}>>]
Keepers == ("boards" :> "tickets") @@ ("teams" :> "nobody") @@ ("tickets" :> "nobody")
TableRoutes == [p \in AllRoutes \X {"boards", "teams", "tickets"} |->
  CASE p = <<"stray", "tickets">> -> "list" [] p[1] = "open" -> "other" [] OTHER -> p[1]]
WrittenAs == [r \in AllRoutes |-> CASE r = "list" -> "text" [] r = "delete" -> "gap" [] OTHER -> "kept"]

Contract(fs, rs, ts, off, bad) == [features |-> fs, routes |-> rs, typed |-> ts, off |-> off, flawed |-> bad]
Desk == Contract(<<"f", "g">>, ("f" :> <<"open", "delete">>) @@ ("g" :> <<"list">>), {<<"f", "open">>}, {}, FALSE)
Shared == Contract(<<"f", "g", "h">>, ("f" :> <<"list">>) @@ ("g" :> <<"open", "list">>) @@ ("h" :> <<"delete">>),
                   {<<"g", "list">>}, {"h"}, TRUE)
Open == Contract(<<"f", "g">>, ("f" :> <<"list">>) @@ ("g" :> <<>>), {}, {}, FALSE)
Teams == Contract(<<"f", "g">>, ("f" :> <<"team">>) @@ ("g" :> <<"teamId">>), {}, {}, FALSE)
Screens == Contract(<<"h">>, ("h" :> <<"delete">>), {}, {"h"}, FALSE)
Contracts == {Desk, Shared, Open, Teams, Screens}

PlanSets == {{}, {"stray", "other"}, {"list", "stray", "open"}}
AnswerRoutes == [r \in AllRoutes |->
  CASE r = "open" -> {<<"open", TRUE>>, <<"stray", TRUE>>, <<"stray", FALSE>>}
    [] r = "delete" -> {<<"delete", TRUE>>, <<"open", TRUE>>, <<"open", FALSE>>}
    [] r = "teamId" -> {<<"teamId", TRUE>>, <<"team", TRUE>>} [] r = "team" -> {<<"team", FALSE>>, <<"team", TRUE>>}
    [] OTHER -> {<<r, TRUE>>}]
Told == {{"list", "delete"}, {"open", "team"}, {"stray"}}
Patch(reply, shape) == [reply |-> reply, shape |-> shape]
PatchSet == {("list" :> Patch("text", "bad")) @@ ("delete" :> Patch("text", "kept")),
             ("delete" :> Patch("schema", "kept")) @@ ("open" :> Patch("remove", "kept")),
             ("open" :> Patch("text", "good")) @@ ("team" :> Patch("remove", "kept")),
             ("list" :> Patch("remove", "kept")), ("stray" :> Patch("text", "good"))}
=============================================================================
