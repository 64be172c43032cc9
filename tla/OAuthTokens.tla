------------------------------ MODULE OAuthTokens ------------------------------
(***************************************************************************)
(* The tokens of logged in providers in use (agent/utils/oauth): model     *)
(* calls of several processes that take their access token from one file   *)
(* (config_manager/auth_profile_store.py), refresh it when it has run out, *)
(* and save what they got, each provider in a slot of its own.             *)
(*                                                                         *)
(* grok reads, refreshes and saves under the file lock.  openai trusts its *)
(* memory and locks out its own threads only; anthropic and gemini         *)
(* ("plain") lock the file for the save alone.  The provider may give a    *)
(* new refresh token with every refresh, and honours the last one only.    *)
(*                                                                         *)
(* Tokens are numbered as they are issued; an access token and the refresh *)
(* token that came with it have the same number.                           *)
(***************************************************************************)
EXTENDS Naturals, FiniteSets, Functions

CONSTANTS
  Providers,   \* "grok", "openai", "plain"
  Sessions,    \* an LLM object with its manager, in a process of its own
  Calls,       \* calls of a model, each in a thread
  None,
  ProviderOf,
  Threads,     \* the ways in which the calls may be spread over the sessions
  NewLogins,   \* the providers a user logs into again
  Retries,     \* of an unanswered refresh: retry_backoff_seconds of grok
  MaxTokens, MaxFaults \* bounds: tokens issued; revocations, lost answers, crashes

ASSUME OAuthTokensAssumption ==
  /\ Providers \subseteq {"grok", "openai", "plain"} /\ IsFiniteSet(Providers)
  /\ ProviderOf \in [Sessions -> Providers] /\ Threads \subseteq [Calls -> Sessions]
  /\ NewLogins \subseteq Providers /\ None \notin Calls
  /\ {Retries, MaxTokens, MaxFaults} \subseteq Nat /\ MaxTokens >= Cardinality(Providers)

VARIABLES
  SessionOf, \* of each call
  file,     \* the slot of each provider
  memory,   \* the credentials a session has at hand, or None
  fileLock, threadLock, \* the calls that hold them, or None
  pc,
  profile,  \* of each call: the file as read under the lock
  fresh,    \* what its refresh brought
  token,    \* the access token it posts
  rejected, \* the one that was answered 401, by the second try
  retries,
  status,   \* of each access token, at the server and by the clock
  issued, grants, \* tokens given out, refresh tokens that are honoured
  login, bought,  \* a new login of each provider, and its credentials
  faults,
  saved,    \* the credentials each provider saved last
  lost      \* refresh tokens whose successor got lost on the way to the file

callVars == <<SessionOf, profile, fresh, token, rejected, retries>>
lockVars == <<fileLock, threadLock>>
serverVars == <<status, issued, grants>>
loginVars == <<login, bought>>
fileVars == <<file, saved>>
vars == <<fileVars, memory, lockVars, pc, callVars, serverVars, loginVars, faults, lost>>

Provider(c) == ProviderOf[SessionOf[c]]
Remembered(c) == memory[SessionOf[c]]
Remember(c, creds) == memory' = [memory EXCEPT ![SessionOf[c]] = creds]
Goes(c, to) == pc' = [pc EXCEPT ![c] = to]

\* is_valid, _access_token_is_stale: by the clock; the server is not asked.
Valid(creds) == status[creds.access] \in {"valid", "revoked"}

\* The first tokens, one for each provider.
First(p) ==
  LET number == CHOOSE f \in [Providers -> 1 .. Cardinality(Providers)] : IsInjective(f)
  IN number[p]

FromFile(s) == IF ProviderOf[s] = "plain" THEN file["plain"] ELSE None

Init ==
  /\ SessionOf \in Threads
  /\ file = [p \in Providers |-> [access |-> First(p), refresh |-> First(p), login |-> "old"]]
  /\ saved = file /\ bought = file
  /\ memory = [s \in Sessions |-> FromFile(s)]
  /\ fileLock = None /\ threadLock = [s \in Sessions |-> None]
  /\ pc = [c \in Calls |-> "start"]
  /\ profile = [c \in Calls |-> None] /\ fresh = [c \in Calls |-> None]
  /\ token = [c \in Calls |-> None] /\ rejected = [c \in Calls |-> None]
  /\ retries = [c \in Calls |-> 0]
  /\ issued = Cardinality(Providers) /\ grants = 1 .. issued
  /\ status = [n \in 1 .. MaxTokens |-> IF n <= issued THEN "valid" ELSE "none"]
  /\ login = [p \in Providers |-> "no"]
  /\ faults = 0 /\ lost = {}

\* with: the locks a call holds are released however it leaves.
Release(c) ==
  /\ fileLock' = IF fileLock = c THEN None ELSE fileLock
  /\ threadLock' = [s \in Sessions |-> IF threadLock[s] = c THEN None ELSE threadLock[s]]

\* A call's variables go out of scope.
Forgets(c) ==
  /\ profile' = [profile EXCEPT ![c] = None] /\ fresh' = [fresh EXCEPT ![c] = None]
  /\ retries' = [retries EXCEPT ![c] = 0]

\* It has its answer or failed.
Ends(c) ==
  /\ Goes(c, "over") /\ Release(c) /\ Forgets(c)
  /\ token' = [token EXCEPT ![c] = None] /\ rejected' = [rejected EXCEPT ![c] = None]

-----------------------------------------------------------------------------
(* The token of a call: get_valid_credentials, _resolve_access_token.      *)

LockThread(c) ==
  /\ pc[c] = "start" /\ Provider(c) # "plain"
  /\ threadLock[SessionOf[c]] = None
  /\ threadLock' = [threadLock EXCEPT ![SessionOf[c]] = c]
  /\ Goes(c, "look")
  /\ UNCHANGED <<fileVars, memory, fileLock, callVars, serverVars, loginVars, faults, lost>>

\* The token at hand will do.
Use(c, creds) ==
  /\ token' = [token EXCEPT ![c] = creds.access]
  /\ Goes(c, "post")
  /\ Release(c) /\ Forgets(c)

\* Mutant of LookGrok: the file is read under the lock, and locked no longer.
LookGrokAndUnlock(c) ==
  LET creds == file["grok"] IN
  /\ pc[c] = "look" /\ Provider(c) = "grok" /\ fileLock = None
  /\ IF Valid(creds) /\ creds.access # rejected[c]
     THEN Remember(c, creds) /\ Use(c, creds)
     ELSE /\ profile' = [profile EXCEPT ![c] = file]
          /\ Goes(c, "refresh")
          /\ UNCHANGED <<memory, lockVars, token, fresh, retries>>
  /\ UNCHANGED <<SessionOf, fileVars, rejected, serverVars, loginVars, faults, lost>>

\* Under the file lock.  A token the server has rejected is refreshed,
\* whatever the clock says, unless another process has done so meanwhile.
LookGrok(c) ==
  LET creds == file["grok"] IN
  /\ pc[c] = "look" /\ Provider(c) = "grok"
  /\ fileLock = None
  /\ IF Valid(creds) /\ creds.access # rejected[c]
     THEN Remember(c, creds) /\ Use(c, creds)
     ELSE /\ fileLock' = c /\ profile' = [profile EXCEPT ![c] = file]
          /\ Goes(c, "refresh")
          /\ UNCHANGED <<memory, threadLock, token, fresh, retries>>
  /\ UNCHANGED <<SessionOf, fileVars, rejected, serverVars, loginVars, faults, lost>>

\* The file is read, under its lock, by the first call of a session only.
LookOpenAI(c) ==
  LET creds == IF Remembered(c) # None THEN Remembered(c) ELSE file["openai"] IN
  /\ pc[c] = "look" /\ Provider(c) = "openai"
  /\ Remembered(c) = None => fileLock = None
  /\ Remember(c, creds)
  /\ IF Valid(creds) THEN Use(c, creds)
     ELSE Goes(c, "refresh") /\ UNCHANGED <<lockVars, token, profile, fresh, retries>>
  /\ UNCHANGED <<SessionOf, fileVars, rejected, serverVars, loginVars, faults, lost>>

LookPlain(c) ==
  /\ pc[c] = "start" /\ Provider(c) = "plain"
  /\ IF Valid(Remembered(c)) THEN Use(c, Remembered(c))
     ELSE Goes(c, "refresh") /\ UNCHANGED <<lockVars, token, profile, fresh, retries>>
  /\ UNCHANGED <<SessionOf, fileVars, memory, rejected, serverVars, loginVars, faults, lost>>

-----------------------------------------------------------------------------
(* Refresh.                                                                *)

\* What the refresh is asked with.
Grant(c) == IF Provider(c) = "grok" THEN profile[c]["grok"] ELSE Remembered(c)

\* A refresh token that is replaced is honoured no more.
Grants(c) ==
  LET creds == Grant(c)
      n == issued + 1
  IN
  /\ pc[c] = "refresh" /\ creds.refresh \in grants /\ issued < MaxTokens
  /\ issued' = n /\ status' = [status EXCEPT ![n] = "valid"]
  /\ \E next \in {creds.refresh, n} :
       /\ fresh' = [fresh EXCEPT ![c] = [access |-> n, refresh |-> next,
                                         login |-> creds.login]]
       /\ grants' = (grants \ {creds.refresh}) \cup {next}
  /\ Goes(c, "granted")
  /\ UNCHANGED <<SessionOf, fileVars, memory, lockVars, profile, token, rejected, retries,
                 loginVars, faults, lost>>

\* The server, or the way to it, is in trouble; the answer may be lost.
NoAnswer(c) ==
  /\ \/ pc[c] = "refresh" /\ UNCHANGED <<lost, faults>>
     \/ /\ pc[c] = "granted" /\ faults < MaxFaults
        /\ faults' = faults + 1 /\ lost' = lost \cup {Grant(c).refresh}
  /\ IF Provider(c) = "grok" /\ retries[c] < Retries
     THEN /\ retries' = [retries EXCEPT ![c] = @ + 1] /\ Goes(c, "refresh")
          /\ UNCHANGED <<lockVars, profile, fresh, token, rejected>>
     ELSE Ends(c)
  /\ UNCHANGED <<SessionOf, fileVars, memory, serverVars, loginVars>>

\* invalid_grant: grok forgets the token too.
Refused(c) ==
  /\ pc[c] = "refresh" /\ Grant(c).refresh \notin grants
  /\ IF Provider(c) = "grok" THEN Remember(c, None) ELSE UNCHANGED memory
  /\ Ends(c)
  /\ UNCHANGED <<SessionOf, fileVars, serverVars, loginVars, faults, lost>>

Granted(c) ==
  /\ pc[c] = "granted"
  /\ Remember(c, fresh[c])
  /\ Goes(c, IF Provider(c) = "grok" THEN "save" ELSE "lock")
  /\ UNCHANGED <<fileVars, lockVars, callVars, serverVars, loginVars, faults, lost>>

\* Mutant of LockFile: the file is read without the lock.
ReadFile(c) ==
  /\ pc[c] = "lock"
  /\ profile' = [profile EXCEPT ![c] = file]
  /\ Goes(c, "save")
  /\ UNCHANGED <<SessionOf, fileVars, memory, lockVars, fresh, token, rejected, retries,
                 serverVars, loginVars, faults, lost>>

\* AuthProfileTransaction.__enter__
LockFile(c) ==
  /\ pc[c] = "lock" /\ fileLock = None
  /\ fileLock' = c /\ profile' = [profile EXCEPT ![c] = file]
  /\ Goes(c, "save")
  /\ UNCHANGED <<SessionOf, fileVars, memory, threadLock, fresh, token, rejected, retries,
                 serverVars, loginVars, faults, lost>>

\* The slot of the provider in what was read, and all of it replaces the file.
Written(c) == [profile[c] EXCEPT ![Provider(c)] = fresh[c]]

Save(c) ==
  /\ pc[c] = "save"
  /\ file' = Written(c)
  /\ saved' = [saved EXCEPT ![Provider(c)] = fresh[c]]
  /\ Use(c, fresh[c])
  /\ UNCHANGED <<SessionOf, memory, rejected, serverVars, loginVars, faults, lost>>

\* Before the file is replaced, or after.
SaveFails(c) ==
  /\ pc[c] = "save" /\ faults < MaxFaults
  /\ faults' = faults + 1
  /\ \/ file' = Written(c) /\ saved' = [saved EXCEPT ![Provider(c)] = fresh[c]]
        /\ UNCHANGED lost
     \/ lost' = lost \cup {profile[c][Provider(c)].refresh} /\ UNCHANGED fileVars
  /\ Ends(c)
  /\ UNCHANGED <<SessionOf, memory, serverVars, loginVars>>

-----------------------------------------------------------------------------
(* The call itself.                                                        *)

\* A stale token may be refused, a revoked one is.
Accepted(c) == pc[c] = "post" /\ status[token[c]] # "revoked"
Rejected(c) == pc[c] = "post" /\ status[token[c]] # "valid"

\* The call has its answer, or failed for another reason.
Answered(c) ==
  /\ Accepted(c)
  /\ Ends(c)
  /\ UNCHANGED <<SessionOf, fileVars, memory, serverVars, loginVars, faults, lost>>

\* 401: grok asks for another token and tries once more.
Unauthorized(c) ==
  /\ Rejected(c)
  /\ IF Provider(c) = "grok" /\ rejected[c] = None
     THEN /\ Goes(c, "start") /\ rejected' = [rejected EXCEPT ![c] = token[c]]
          /\ UNCHANGED <<lockVars, profile, fresh, token, retries>>
     ELSE Ends(c)
  /\ UNCHANGED <<SessionOf, fileVars, memory, serverVars, loginVars, faults, lost>>

CallNext(c) ==
  \/ LockThread(c) \/ LookGrok(c) \/ LookOpenAI(c) \/ LookPlain(c)
  \/ Grants(c) \/ NoAnswer(c) \/ Refused(c) \/ Granted(c) \/ LockFile(c)
  \/ Save(c) \/ SaveFails(c) \/ Answered(c) \/ Unauthorized(c)

-----------------------------------------------------------------------------
(* What else happens.                                                      *)

\* A process dies; its locks are the system's to release.
Dies(s) ==
  LET mine == {c \in Calls : SessionOf[c] = s /\ pc[c] \notin {"start", "over"}}
      Gone(var, none) == [c \in Calls |-> IF c \in mine THEN none ELSE var[c]]
  IN
  /\ mine # {} /\ faults < MaxFaults
  /\ faults' = faults + 1
  /\ pc' = Gone(pc, "over") /\ retries' = Gone(retries, 0)
  /\ profile' = Gone(profile, None) /\ fresh' = Gone(fresh, None)
  /\ token' = Gone(token, None) /\ rejected' = Gone(rejected, None)
  /\ lost' = lost \cup {Grant(c).refresh : c \in {d \in mine : pc[d] \in {"granted", "save"}}}
  /\ fileLock' = IF fileLock \in mine THEN None ELSE fileLock
  /\ threadLock' = [threadLock EXCEPT ![s] = None]
  /\ memory' = [memory EXCEPT ![s] = FromFile(s)]
  /\ UNCHANGED <<SessionOf, fileVars, serverVars, loginVars>>

\* The tokens that calls may still look at.
InUse ==
  UNION {{creds.access : creds \in {file[Provider(c)], Remembered(c), fresh[c]} \ {None}}
         \cup {token[c]} : c \in {d \in Calls : pc[d] # "over"}}

\* A token runs out: it is due for a refresh, and refused sooner or later.
Ages(n) ==
  /\ n \in InUse /\ status[n] \in {"valid", "revoked"}
  /\ status' = [status EXCEPT ![n] = "stale"]
  /\ UNCHANGED <<fileVars, memory, lockVars, pc, callVars, issued, grants, loginVars, faults,
                 lost>>

Revoked(n) ==
  /\ n \in InUse /\ status[n] = "valid" /\ faults < MaxFaults
  /\ faults' = faults + 1 /\ status' = [status EXCEPT ![n] = "revoked"]
  /\ UNCHANGED <<fileVars, memory, lockVars, pc, callVars, issued, grants, loginVars, lost>>

\* A login in a process of its own (OAuthLogin) buys tokens ...
LoginBuys(p) ==
  /\ p \in NewLogins /\ login[p] = "no" /\ issued < MaxTokens
  /\ issued' = issued + 1 /\ status' = [status EXCEPT ![issued'] = "valid"]
  /\ grants' = grants \cup {issued'}
  /\ bought' = [bought EXCEPT ![p] = [access |-> issued', refresh |-> issued', login |-> "new"]]
  /\ login' = [login EXCEPT ![p] = "bought"]
  /\ UNCHANGED <<fileVars, memory, lockVars, pc, callVars, faults, lost>>

\* ... and saves them under the file lock.
LoginSaves(p) ==
  /\ login[p] = "bought" /\ fileLock = None
  /\ file' = [file EXCEPT ![p] = bought[p]] /\ saved' = [saved EXCEPT ![p] = bought[p]]
  /\ login' = [login EXCEPT ![p] = "over"]
  /\ UNCHANGED <<memory, lockVars, pc, callVars, serverVars, bought, faults, lost>>

OutsideNext ==
  \/ \E s \in Sessions : Dies(s)
  \/ \E n \in 1 .. issued : Ages(n) \/ Revoked(n)
  \/ \E p \in Providers : LoginBuys(p) \/ LoginSaves(p)

\* Every call was answered or failed: a state without a step but this one is a
\* call that waits for ever.
Over == (\A c \in Calls : pc[c] = "over") /\ UNCHANGED vars

Next == (\E c \in Calls : CallNext(c)) \/ OutsideNext \/ Over

Spec == Init /\ [][Next]_vars

-----------------------------------------------------------------------------
Creds == [access : 1 .. MaxTokens, refresh : 1 .. MaxTokens, login : {"old", "new"}]

TypeOK ==
  /\ {file, saved, bought} \subseteq [Providers -> Creds]
  /\ memory \in [Sessions -> Creds \cup {None}] /\ fresh \in [Calls -> Creds \cup {None}]
  /\ fileLock \in Calls \cup {None} /\ threadLock \in [Sessions -> Calls \cup {None}]
  /\ pc \in [Calls -> {"start", "look", "refresh", "granted", "lock", "save", "post", "over"}]
  /\ profile \in [Calls -> [Providers -> Creds] \cup {None}]
  /\ {token, rejected} \subseteq [Calls -> 1 .. MaxTokens \cup {None}]
  /\ retries \in [Calls -> 0 .. Retries]
  /\ status \in [1 .. MaxTokens -> {"none", "valid", "stale", "revoked"}]
  /\ issued \in 0 .. MaxTokens /\ grants \subseteq 1 .. issued /\ lost \subseteq 1 .. issued
  /\ login \in [Providers -> {"no", "bought", "over"}] /\ faults \in 0 .. MaxFaults

\* What a provider saved stays in its slot until that provider saves again:
\* no writer takes another's slot back to what it was (AuthProfileStore:
\* "Cross-process-safe JSON object store used by all auth providers").
SlotsSurvive == file = saved

\* "separate Mobilerun processes cannot rotate the same refresh token
\* concurrently" (GrokOAuthSessionManager.get_valid_credentials): the refresh
\* token in the file is honoured, unless a call is just replacing it or its
\* successor was lost with a process, an answer or a disk.
GrokTokenIsHonoured ==
  "grok" \in Providers =>
    LET refresh == file["grok"].refresh IN
    \/ refresh \in grants \cup lost
    \/ fileLock # None /\ Provider(fileLock) = "grok" /\ pc[fileLock] \in {"granted", "save"}
       /\ Grant(fileLock).refresh = refresh

\* A refresh that began before a user logged in again does not bring the old
\* login back (grok; an openai session that lives through the login does).
GrokLoginStands == "grok" \in Providers /\ login["grok"] = "over" => file["grok"].login = "new"
===============================================================================
