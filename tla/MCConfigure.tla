------------------------------ MODULE MCConfigure ------------------------------
(* All logins, and wizards over four families on some machines, for TLC.   *)
EXTENDS Configure

AllProviders == {"openai", "anthropic", "gemini", "grok", "cloud"}

Nothing == [s \in Slots |-> NoKey]
Only(s, k) == [Nothing EXCEPT ![s] = <<s, k>>]
World(c, keys, exported, logins) ==
  [config |-> c, api_keys |-> keys, shell |-> exported, creds |-> logins]

OldMiniMax ==
  [Default EXCEPT !.version = 7, !.variant = "MiniMax", !.source = "file",
                  !.temp = [agent |-> 2, helper |-> 1]]

SomeWorlds ==
  {World(Absent, Nothing, Only("google", "shell"), {}),
   World(Default, Only("minimax", "old"), Only("minimax", "shell"), {"openai_oauth"}),
   World(OldMiniMax, Only("minimax", "old"), Nothing, {"gemini_oauth_code_assist"}),
   World([Default EXCEPT !.version = 0], Nothing, Nothing, {})}

NoFlags == [family |-> Nil, mode |-> Nil, model |-> Nil, key |-> NoKey, url |-> FALSE]
SomeFlags ==
  {NoFlags,
   [NoFlags EXCEPT !.key = <<"given", 1>>],
   [NoFlags EXCEPT !.family = "gemini", !.model = "listed"],
   [NoFlags EXCEPT !.family = "minimax", !.model = "listed"],
   [NoFlags EXCEPT !.family = "zai", !.mode = "coding_api", !.url = TRUE],
   [NoFlags EXCEPT !.family = "minimax", !.mode = "oauth"]}
===============================================================================
