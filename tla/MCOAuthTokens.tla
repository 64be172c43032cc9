----------------------------- MODULE MCOAuthTokens -----------------------------
(* Two processes with grok, one with openai and one with a plain provider, *)
(* any two of their calls at a time and a new login of grok, for TLC.      *)
EXTENDS OAuthTokens, TLC

CONSTANTS g1, g2, o, a, c1, c2

AllProviders == {"grok", "openai", "plain"}
AllSessions == {g1, g2, o, a}
AllCalls == {c1, c2}
Providing == g1 :> "grok" @@ g2 :> "grok" @@ o :> "openai" @@ a :> "plain"
Spread(s, t) == c1 :> s @@ c2 :> t
AllThreads ==
  {Spread(g1, s) : s \in AllSessions} \cup {Spread(o, o), Spread(o, a), Spread(a, a)}
===============================================================================
