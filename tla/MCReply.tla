------------------------------ MODULE MCReply ------------------------------
(* An instance of Reply: a user with one row in every layer, two spellings  *)
(* of one name, and budgets of a few marks.                                 *)
EXTENDS Reply

MCWords == {"tea", "anna", "Anna", "fine", "sure", "oops"}
MCLower == [w \in MCWords |-> IF w = "Anna" THEN "anna" ELSE w]

MCItems == {"name", "job", "sister", "trip", "met", "walk"}
MCLayerOf == "name" :> "basic" @@ "job" :> "more" @@ "sister" :> "relationship"
             @@ "trip" :> "event" @@ "met" :> "episodic" @@ "walk" :> "episodic"
MCItemWords == "name" :> {"fine"} @@ "job" :> {"tea"} @@ "sister" :> {"anna"}
               @@ "trip" :> {"tea"} @@ "met" :> {"anna"} @@ "walk" :> {"Anna", "tea"}

(* "padded" is "chat" with a blank after it, "quote" reads "chat" twice.    *)
MCMessages == {"chat", "padded", "quote", "deny", "sad"}
MCReadsAs == LET line(text) == <<"user", text>>
             IN  [m \in MCMessages |-> CASE m = "padded" -> <<line("chat")>>
                                         [] m = "quote" -> <<line("chat"), line("chat")>>
                                         [] OTHER -> <<line(m)>>]
MCSignals == "chat" :> {} @@ "padded" :> {} @@ "quote" :> {} @@ "deny" :> {"opening", "recall"} @@ "sad" :> {"mood"}
MCMsgWords == "chat" :> {"tea"} @@ "padded" :> {"tea"} @@ "quote" :> {"tea"}
              @@ "deny" :> {"anna"} @@ "sad" :> {"tea"}

MCPersonality == {"introvert", "balanced"}
MCMaxChars == "introvert" :> 3 @@ "balanced" :> 4

MCReplies == {<<>>, <<"fine", "sure">>, <<"tea", ".", "Anna", "?">>,
              <<"tea", "?", ")">>, <<"tea", "anna", "oops", "fine", "?">>}
=============================================================================
