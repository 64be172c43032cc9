------------------------------- MODULE Configure -------------------------------
(***************************************************************************)
(* The commands that set a model up: a login (OAuthLogin), or the wizard of *)
(* `mobilerun configure`, which asks for provider, auth mode, model and     *)
(* credentials and leaves a config file and a store of API keys to the     *)
(* processes that run agents later (Loaded).                               *)
(*                                                                         *)
(* The wizard keeps what it has asked in one state, which Back and the     *)
(* choice of another provider clear in part.  Keys and logins are stored   *)
(* when a selection is applied, the config only at the end.  A role is one *)
(* of the agents that share a temperature; the rest of a profile is the    *)
(* same for all.                                                           *)
(***************************************************************************)
EXTENDS OAuthLogin

CONSTANTS
  Families,      \* the provider families offered
  Worlds,        \* what the machine may hold before: config, saved, shell, creds
  FlagSets,      \* options of the command line
  Temperatures,  \* what is entered for one, in tenths
  MaxPicks,      \* bound: choices in the menu, of all wizards
  MaxWizards     \* bound: wizards run one after the other

VARIABLES
  command,    \* "login" or "configure"
  at,         \* where the wizard is
  flags, fixed, \* its options; they still fix the choices
  sel,        \* ConfigureWizardState
  cfg,        \* the config in memory
  config,     \* config.yaml; Absent before there is one
  api_keys,   \* apiKeys of auth-profiles.json
  creds,      \* the OAuth slots of auth-profiles.json
  shell, env, \* exported keys: of the user's shell, of this process
  picks, wizards,
  meant, promise \* what a run is to use, by the user's choice: of cfg, of config

store == <<config, api_keys, creds>>
bounds == <<picks, wizards>>
wizardVars == <<at, flags, fixed, sel, cfg, store, shell, env, bounds, meant, promise>>
setupVars == <<flowVars, command, wizardVars>>

NoKey == <<>>

-----------------------------------------------------------------------------
(* The catalog.                                                            *)

Hosted ==
  [gemini |-> <<"GoogleGenAI", "gemini_oauth_code_assist">>,
   openai |-> <<"OpenAIResponses", "openai_oauth">>,
   anthropic |-> <<"Anthropic", "anthropic_oauth">>,
   xai |-> <<"XAI", "xai_oauth">>]

Compatible ==
  [ollama |-> <<"Ollama">>, openai_like |-> <<"OpenAILike">>, minimax |-> <<"MiniMax">>,
   zai |-> <<"ZAI", "ZAI_Coding">>]

\* The variants of a family, one for each of its auth modes.
VariantsOf(family) ==
  LET variants == IF family \in DOMAIN Hosted THEN Hosted[family] ELSE Compatible[family]
  IN  {variants[i] : i \in DOMAIN variants}

ByLogin == {"gemini_oauth_code_assist", "openai_oauth", "anthropic_oauth", "xai_oauth"}
NeedsUrl == {"Ollama", "OpenAILike", "MiniMax", "ZAI", "ZAI_Coding"}
NeedsKey(v) == v \notin ByLogin \cup {"Ollama"}
Mode(v) ==
  CASE v \in ByLogin -> "oauth" [] v = "Ollama" -> "none" [] v = "ZAI_Coding" -> "coding_api"
    [] OTHER -> "api_key"

Slots == {"google", "openai", "xai", "anthropic", "zai", "minimax"}

\* VARIANT_ENV_KEY_SLOT
SlotOf(v) ==
  CASE v = "GoogleGenAI" -> "google" [] v = "OpenAIResponses" -> "openai" [] v = "XAI" -> "xai"
    [] v = "Anthropic" -> "anthropic" [] v \in {"ZAI", "ZAI_Coding"} -> "zai"
    [] v = "MiniMax" -> "minimax" [] OTHER -> Nil

\* What a profile calls its provider: MiniMax and ZAI travel as OpenAILike.
Transport(v) == IF v \in {"MiniMax", "ZAI", "ZAI_Coding"} THEN "OpenAILike" ELSE v

\* An id of the family's other catalog; the private catalogs refuse it.
Models == {"listed", "foreign"}
Accepts(v, model) == ~(v \in {"gemini_oauth_code_assist", "openai_oauth"} /\ model = "foreign")

-----------------------------------------------------------------------------
(* Keys and profiles.                                                      *)

\* The saved key goes before the exported one.
FirstKey(a, b) == IF a # NoKey THEN a ELSE b
Either(s) == FirstKey(api_keys[s], env[s])

Roles == {"agent", "helper", "vision"}

\* Mutant of Normalized: minimax keeps a role's temperature.
NotNormalized(v, t) == IF v \in {"OpenAIResponses", "openai_oauth"} THEN 10 ELSE t

\* OpenAI wants 1; MiniMax wants more than 0, and no more than 1.
Normalized(v, t) ==
  CASE v \in {"OpenAIResponses", "openai_oauth"} -> 10
    [] v = "MiniMax" /\ t \notin 1..10 -> 1
    [] OTHER -> t

\* create_profile_for_variant: only a provider without a slot carries its key.
Profile(v, m, old) ==
  [version |-> 8, variant |-> v, model |-> m,
   source |-> IF sel.source = Nil THEN "auto" ELSE sel.source,
   key |-> IF v = "OpenAILike" THEN FirstKey(sel.key, <<"stub">>) ELSE NoKey,
   temp |-> [r \in Roles |-> Normalized(v, old.temp[r])], cloned |-> FALSE]

\* The glm-5 of the coding plan is replaced where the endpoint lacks it.
Effective(v, model) ==
  IF v = "ZAI_Coding" /\ model = "foreign" /\ sel.key # NoKey THEN Models ELSE {model}

Default ==
  [version |-> 8, variant |-> "GoogleGenAI", source |-> "auto", key |-> NoKey, model |-> "listed",
   temp |-> [agent |-> 2, helper |-> 0, vision |-> 0], cloned |-> FALSE]

Absent == [Default EXCEPT !.version = 9]

\* v008: the vision profile is a copy of another at temperature 0.
Migrated(c) ==
  IF c.version = 8 THEN c
  ELSE [c EXCEPT !.version = 8, !.temp = [r \in Roles |-> IF r = "vision" THEN 0 ELSE c.temp[r]],
                 !.cloned = TRUE]

\* to_load_llm_kwargs: by provider, or by family for a wrapped one.
ProfileSlot(v) ==
  IF SlotOf(Transport(v)) # Nil THEN SlotOf(Transport(v))
  ELSE IF v \in {"ZAI", "ZAI_Coding"} THEN "zai"
  ELSE IF v = "MiniMax" THEN "minimax" ELSE Nil

\* The key a run of the config finds; OAuth reads its credentials itself.
KeyFound(c) ==
  LET s == ProfileSlot(c.variant)
  IN  IF c.key # NoKey \/ s = Nil THEN c.key
      ELSE CASE c.source = "env" -> shell[s] [] c.source = "file" -> api_keys[s]
             [] OTHER -> FirstKey(api_keys[s], shell[s])

\* load_llm: what it takes to build the client of a profile.
Client(c) ==
  IF ~Accepts(c.variant, c.model) THEN NoKey
  ELSE CASE c.variant \in ByLogin -> IF c.variant \in creds THEN <<"login", c.variant>> ELSE NoKey
         [] c.variant = "Ollama" -> <<"open">>
         [] OTHER -> KeyFound(c)

\* load_agent_llms, in another process: what the agents of a run get to use.
Loaded(c) == [r \in Roles |-> Client(c)]

\* MiniMax refuses other temperatures; a migration clones a vision profile.
Fits(c) ==
  c.variant = "MiniMax" =>
    \A r \in Roles : (r = "vision" /\ (c.cloned \/ c.version # 8)) \/ c.temp[r] \in 1..10

\* Families and options are those of the catalog, a config is one that this
\* program or an earlier version has written.
ASSUME ConfigureAssumption ==
  /\ Families \subseteq DOMAIN Hosted \cup DOMAIN Compatible
  /\ \A f \in FlagSets : f.family \in DOMAIN Hosted \cup DOMAIN Compatible \cup {Nil}
  /\ Worlds # {}
  /\ \A w \in Worlds :
       /\ w.config = [version |-> w.config.version, variant |-> w.config.variant,
                      source |-> w.config.source, key |-> w.config.key,
                      model |-> w.config.model, temp |-> w.config.temp,
                      cloned |-> w.config.cloned]
       /\ Fits(w.config)

-----------------------------------------------------------------------------
(* The wizard.                                                             *)

Blank(f) ==
  [family |-> Nil, variant |-> Nil, model |-> Nil, key |-> f.key,
   source |-> IF f.key # NoKey THEN "file" ELSE Nil, url |-> f.url, last |-> Nil,
   prepared |-> Nil]

IsFixed(f) == fixed /\ flags[f] # Nil
NonInteractive == IsFixed("family") /\ IsFixed("model")

\* Options for part of the flow go straight to it; one that names only the
\* provider does not.
StartsFixed(f) == f.family # Nil /\ (f.mode # Nil \/ f.model # Nil)

LoadConfig ==
  /\ at = "load"
  /\ LET c == IF config = Absent THEN Default ELSE config
     IN  IF c.version = 0 THEN at' = "error" /\ UNCHANGED <<cfg, config>>
         ELSE /\ cfg' = Migrated(c) /\ config' = Migrated(c)
              /\ at' = IF fixed THEN "family" ELSE "menu"
  /\ meant' = promise
  /\ UNCHANGED <<flags, fixed, sel, api_keys, creds, shell, env, bounds, promise>>

Menu ==
  /\ at = "menu" /\ picks < MaxPicks
  /\ picks' = picks + 1
  /\ \/ at' = "family" /\ sel' = Blank(flags)
     \/ at' = "advanced" /\ UNCHANGED sel
  /\ UNCHANGED <<flags, fixed, cfg, store, shell, env, wizards, meant, promise>>

\* Only one setting concerns the properties; it is asked again until it fits.
Advanced ==
  /\ at = "advanced"
  /\ \/ \E t \in Temperatures :
          /\ cfg.variant = "MiniMax" => t \in 1..10
          /\ cfg' = [cfg EXCEPT !.temp = [r \in Roles |-> t], !.cloned = FALSE]
          /\ UNCHANGED at
     \/ at' = "menu" /\ UNCHANGED cfg
  /\ UNCHANGED <<flags, fixed, sel, store, shell, env, bounds, meant, promise>>

\* Everything is on disk only now.
SaveConfig(c) == config' = c /\ at' = "over"

FinishSetup ==
  /\ at = "menu"
  /\ SaveConfig(cfg) /\ promise' = meant
  /\ UNCHANGED <<flags, fixed, sel, cfg, api_keys, creds, shell, env, bounds, meant>>

asking == <<flags, cfg, store, shell, env, bounds, meant, promise>>

\* The flow gives up: the menu comes, and its options fix nothing any more.
GiveUp == at' = "menu" /\ fixed' = FALSE

ChooseFamily ==
  /\ at = "family"
  /\ \/ sel.family # Nil /\ at' = "mode" /\ UNCHANGED <<fixed, sel>>
     \/ /\ sel.family = Nil
        /\ \E f \in Families : sel' = [sel EXCEPT !.family = f]
        /\ at' = "mode" /\ UNCHANGED fixed
     \/ sel.family = Nil /\ GiveUp /\ UNCHANGED sel
  /\ UNCHANGED asking

OneMode == \E v \in VariantsOf(sel.family) : VariantsOf(sel.family) = {v}

\* The mode is asked again whenever the flow comes by, if there is a choice.
ChooseMode ==
  /\ at = "mode"
  /\ LET offered == {v \in VariantsOf(sel.family) :
                       IsFixed("mode") => Mode(v) = flags.mode}
     IN  \/ \E v \in offered : sel' = [sel EXCEPT !.variant = v] /\ at' = "model"
         \/ /\ ~IsFixed("mode") /\ ~OneMode
            /\ sel' = [sel EXCEPT !.family = Nil, !.variant = Nil] /\ at' = "family"
         \/ offered = {} /\ at' = "error" /\ UNCHANGED sel
  /\ UNCHANGED <<asking, fixed>>

ChooseModel ==
  /\ at = "model"
  /\ \/ IsFixed("model") /\ at' = "credentials" /\ UNCHANGED sel
     \/ /\ ~IsFixed("model") /\ at' = "credentials"
        /\ \E m \in Models : sel' = [sel EXCEPT !.model = m]
  /\ UNCHANGED <<asking, fixed>>

\* Back from the model, to the last question that was really asked.
ModelBack ==
  /\ at = "model" /\ ~IsFixed("model")
  /\ LET settled == IsFixed("mode") \/ OneMode
     IN  IF IsFixed("family") /\ settled THEN GiveUp /\ UNCHANGED sel
         ELSE /\ at' = "family" /\ UNCHANGED fixed
              /\ sel' = [sel EXCEPT !.model = Nil,
                                    !.family = IF settled THEN Nil ELSE @,
                                    !.variant = IF IsFixed("mode") THEN @ ELSE Nil]
  /\ UNCHANGED asking

\* What was entered for another variant is forgotten, unless it was an option.
Credentials ==
  /\ at = "credentials" /\ at' = "key"
  /\ sel' = IF sel.variant = sel.last THEN sel
            ELSE [sel EXCEPT !.key = flags.key,
                             !.source = IF flags.key = NoKey THEN Nil ELSE @,
                             !.url = flags.url, !.last = sel.variant, !.prepared = Nil]
  /\ UNCHANGED <<asking, fixed>>

\* The sources offered for a key: what this process sees exported, what is
\* saved, or a new one, which may be left empty.  Back is one more of them:
\* the flow goes on without a key.
KeyChoices(v) ==
  LET s == SlotOf(v)
      pasted == {<<v, picks, wizards>>, NoKey} \X {"file"}
      offered == {<<env[s], "env">>, <<api_keys[s], "file">>}
  IN  IF s = Nil THEN pasted
      ELSE {o \in offered : o[1] # NoKey} \cup pasted \cup {<<NoKey, "back">>}

ChooseKey ==
  /\ at = "key"
  /\ LET s == SlotOf(sel.variant)
     IN  IF ~NeedsKey(sel.variant) \/ sel.key # NoKey THEN at' = "url" /\ UNCHANGED sel
         ELSE IF ~NonInteractive
         THEN /\ at' = "url"
              /\ \E c \in KeyChoices(sel.variant) : sel' = [sel EXCEPT !.key = c[1], !.source = c[2]]
         ELSE IF s # Nil /\ Either(s) # NoKey
         THEN at' = "url" /\ sel' = [sel EXCEPT !.key = Either(s), !.source = "auto"]
         ELSE at' = "error" /\ UNCHANGED sel
  /\ UNCHANGED <<asking, fixed>>

\* A base URL is taken from the catalog, chosen or typed.
ChooseUrl ==
  /\ at = "url" /\ at' = "login"
  /\ sel' = [sel EXCEPT !.url = @ \/ sel.variant \in NeedsUrl]
  /\ UNCHANGED <<asking, fixed>>

\* Mutant of Present: any provider's login makes the file exist.
FilePresent(v) == creds # {}

\* The file is shared: its existence says nothing of this provider.
Present(v) == v \in creds

ChooseLogin ==
  /\ at = "login"
  /\ LET v == sel.variant
         found == v \in ByLogin /\ sel.prepared # v /\ Present(v)
     IN  \/ found /\ at' = "apply" /\ sel' = [sel EXCEPT !.prepared = v] /\ UNCHANGED fixed
         \/ found /\ ~NonInteractive /\ at' = "sign_in" /\ UNCHANGED <<sel, fixed>>
         \/ /\ found /\ ~NonInteractive
            /\ IF IsFixed("model") THEN GiveUp /\ UNCHANGED sel
               ELSE at' = "family" /\ sel' = [sel EXCEPT !.model = Nil] /\ UNCHANGED fixed
         \/ /\ ~found /\ UNCHANGED <<sel, fixed>>
            /\ at' = IF v \in ByLogin /\ sel.prepared # v THEN "sign_in" ELSE "apply"
  /\ UNCHANGED asking

\* A whole login, with the outcomes OAuthLogin has: an exception ends the
\* wizard, rarely with the credentials replaced.
SignIn ==
  /\ at = "sign_in"
  /\ \/ at' = "apply" /\ sel' = [sel EXCEPT !.prepared = sel.variant]
        /\ creds' = creds \cup {sel.variant}
     \/ at' = "error" /\ UNCHANGED sel /\ creds' \in {creds, creds \cup {sel.variant}}
  /\ UNCHANGED <<flags, fixed, cfg, config, api_keys, shell, env, bounds, meant, promise>>

\* save_env_keys: every slot is written, also with keys that were only exported.
Stored == [s \in Slots |-> IF s = SlotOf(sel.variant) THEN sel.key ELSE Either(s)]
Saves == sel.key # NoKey /\ SlotOf(sel.variant) # Nil /\ sel.source # "env"

\* A failing write is not reported.
SaveKeys ==
  \/ Saves /\ api_keys' = Stored /\ env' = Stored
  \/ UNCHANGED <<api_keys, env>>

\* What the user has chosen a run to use; nothing if that was not to be had:
\* Back or no key entered, a write that failed, a key exported by the wizard
\* itself, a model of the wrong catalog.
Choice(c) ==
  IF ~Accepts(c.variant, c.model) THEN NoKey
  ELSE CASE c.variant \in ByLogin -> <<"login", c.variant>>
         [] c.variant = "Ollama" -> <<"open">>
         [] c.variant = "OpenAILike" -> c.key
         [] OTHER ->
              LET s == SlotOf(c.variant)
              IN  IF (Saves /\ api_keys'[s] # sel.key) \/ (c.source = "env" /\ shell[s] # sel.key)
                  THEN NoKey ELSE sel.key

\* A key saved for a provider is meant for the configs that read its slot, too.
Renewed(c, old) ==
  IF old # NoKey /\ Saves /\ api_keys' # api_keys /\ c.source # "env"
       /\ SlotOf(c.variant) = SlotOf(sel.variant)
  THEN sel.key ELSE old

Apply ==
  /\ at = "apply"
  /\ SaveKeys
  /\ \E m \in Effective(sel.variant, sel.model) :
       LET c == Profile(sel.variant, m, cfg)
       IN  /\ cfg' = c /\ meant' = Choice(c)
           /\ IF fixed THEN SaveConfig(c) /\ promise' = Choice(c)
              ELSE /\ at' = "menu" /\ UNCHANGED config
                   /\ promise' = Renewed(config, promise)
  /\ UNCHANGED <<flags, fixed, sel, creds, shell, bounds>>

\* Ctrl-C at any question, or an error: what was not saved is gone.
Abandon ==
  /\ at \in {"menu", "advanced", "family", "mode", "model", "key", "url", "login", "error"}
  /\ at' = "over"
  /\ sel' = Blank(flags) /\ cfg' = Default /\ meant' = NoKey
  /\ UNCHANGED <<flags, fixed, store, shell, env, bounds, promise>>

Start(f) == flags' = f /\ fixed' = StartsFixed(f)
         /\ sel' = [Blank(f) EXCEPT !.family = f.family, !.model = f.model]

NextWizard ==
  /\ at = "over" /\ wizards < MaxWizards
  /\ wizards' = wizards + 1 /\ at' = "load"
  /\ \E f \in FlagSets : Start(f)
  /\ env' = shell
  /\ UNCHANGED <<cfg, store, shell, picks, meant, promise>>

WizardNext ==
  \/ LoadConfig \/ Menu \/ Advanced \/ FinishSetup \/ ChooseFamily \/ ChooseMode
  \/ ChooseModel \/ ModelBack \/ Credentials \/ ChooseKey \/ ChooseUrl \/ ChooseLogin
  \/ SignIn \/ Apply \/ Abandon \/ NextWizard

-----------------------------------------------------------------------------
SetupInit ==
  /\ command \in {"login", "configure"}
  /\ IF command = "login" THEN LoginInit
     ELSE provider = (CHOOSE p \in Logins : TRUE) /\ stage = "over" /\ NoLogin
  /\ at = "over" /\ fixed = FALSE
  /\ \E w \in IF command = "login" THEN {CHOOSE w \in Worlds : TRUE} ELSE Worlds :
       config = w.config /\ api_keys = w.api_keys /\ shell = w.shell /\ creds = w.creds
  /\ flags = [family |-> Nil, mode |-> Nil, model |-> Nil, key |-> NoKey, url |-> FALSE]
  /\ sel = Blank(flags) /\ cfg = Default /\ env = shell
  /\ picks = 0 /\ wizards = IF command = "login" THEN MaxWizards ELSE 0
  /\ meant = NoKey /\ promise = NoKey

LoginSteps == command = "login" /\ LoginProceeds /\ UNCHANGED <<command, wizardVars>>
SetupNext ==
  \/ LoginSteps
  \/ command = "login" /\ (UserNext \/ LoginOver) /\ UNCHANGED <<command, wizardVars>>
  \/ command = "configure" /\ WizardNext /\ UNCHANGED <<command, flowVars>>

SetupSpec == SetupInit /\ [][SetupNext]_setupVars /\ WF_setupVars(LoginSteps)

-----------------------------------------------------------------------------
\* What the wizard has saved is what a run finds, in another process and
\* however many wizards came later or were abandoned: the key last entered for
\* the provider, from the source that was chosen, or a login of that provider
\* (to_load_llm_kwargs against apply_selection_to_roles).
RunsAsChosen == promise # NoKey => \A r \in Roles : Loaded(config)[r] = promise

\* No saved config has MiniMax at a temperature it refuses, in whatever order
\* providers and settings were chosen, but for the vision profile a migration
\* has cloned (test_minimax_configuration.py, _normalize_generated_temperature).
TemperatureFits ==
  config.version = 8 /\ config.variant = "MiniMax" =>
    \A r \in Roles : config.temp[r] \in 1..10 \/ (config.cloned /\ r = "vision")
===============================================================================
