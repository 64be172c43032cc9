------------------------------ MODULE OAuthLogin ------------------------------
(***************************************************************************)
(* One login to a model provider (agent/utils/oauth, cli/oauth_actions.py) *)
(* or to the Mobilerun cloud (cli/deviceauth.py), from the command line to *)
(* the credentials on disk.                                                *)
(*                                                                         *)
(* With a browser at hand the code arrives at a callback server; else the  *)
(* user pastes it (anthropic, gemini) or approves a device code that the   *)
(* login polls for (openai, grok, cloud).  The code buys a token, and the  *)
(* token is saved in a file that other processes lock.  One monotonic      *)
(* deadline bounds all of it, but not the cloud's.                         *)
(*                                                                         *)
(* Time passes while the login waits or writes; what it does in between    *)
(* takes none.  A token is one, whatever it says.                          *)
(***************************************************************************)
EXTENDS Naturals

CONSTANTS
  Logins,        \* the logins to look at
  Budget,           \* the login's timeout
  Expiries,         \* what servers give a device code to live
  Cap,              \* timeout of one request
  Interval, SlowDown, Backoff, \* pause between polls, what is added to it, pause of a retry
  MAX_CODE_ATTEMPTS, LoginRetries,
  MaxInterval, MaxLate \* bounds: slow_downs, time a write takes beyond the deadline

ASSUME OAuthLoginAssumption ==
  /\ Logins \subseteq {"openai", "anthropic", "gemini", "grok", "cloud"}
  /\ {Budget, Cap, Interval, SlowDown, Backoff, MAX_CODE_ATTEMPTS} \subseteq Nat \ {0}
  /\ Expiries \subseteq Nat \ {0} /\ {LoginRetries, MaxInterval, MaxLate} \subseteq Nat

VARIABLES
  provider, now,
  stage,      \* where the login is
  until,      \* end of the wait, request or pause
  deadline,   \* of the phase: the login's, or that of its device code
  expires,    \* when the server forgets the device code
  interval, tries,
  listener,   \* the callback server
  callback,   \* the callback it took
  code,       \* the code to exchange: issued for this login, or another
  spent,      \* how often it was posted
  entitled,   \* the provider let the token use its models
  credentials, \* on disk: "old" or "new"
  savedAt,
  hiccup,     \* something failed after the file was replaced
  outcome

clockVars == <<provider, now>>
pollVars == <<interval, tries>>
codeVars == <<listener, callback, code, spent>>
savedVars == <<entitled, credentials, savedAt, hiccup>>
flowVars == <<clockVars, stage, until, deadline, expires, pollVars, codeVars, savedVars,
          outcome>>

Least(a, b) == IF a < b THEN a ELSE b
Nil == "none"
Forever == Budget + Cap + MaxLate + 1000

Shared == provider # "cloud" \* one deadline is shared by all stages

\* Nothing of a login has happened yet.
NoLogin ==
  /\ now = 0 /\ until = 0
  /\ deadline = IF Shared THEN Budget ELSE Forever
  /\ expires = Forever
  /\ interval = Interval /\ tries = 0
  /\ listener = "closed" /\ callback = Nil /\ code = Nil /\ spent = 0
  /\ entitled = FALSE /\ credentials = "old" /\ savedAt = 0 /\ hiccup = FALSE
  /\ outcome = Nil

LoginInit == provider \in Logins /\ stage = "start" /\ NoLogin

\* An exception or the end: the callback server goes down on the way out.
Leave(how) ==
  /\ outcome' = how
  /\ stage' = IF listener = "open" THEN "closing" ELSE "over"

\* OAuthLoginDeadline.check, before and after every stage.
Late == now >= deadline

\* remaining(cap): no request may last longer.
Remaining(cap) == Least(now + cap, deadline)

\* limited_to: capped by what the server says, never a new budget.
LimitedTo(lifetime) == Least(deadline, now + lifetime)

-----------------------------------------------------------------------------
(* A browser.                                                              *)

\* The callback server listens; the URL is opened, or printed only.
StartBrowser ==
  /\ stage = "start" /\ provider # "cloud"
  /\ stage' = "waiting" /\ until' = deadline
  /\ listener' = "open"
  /\ UNCHANGED <<clockVars, deadline, expires, pollVars, callback, code, spent, savedVars,
                 outcome>>

Callbacks == {"code", "stray", "error", "no_code"}

\* do_GET: the first callback counts, a later one is answered 409.
Callback ==
  /\ listener = "open" /\ callback = Nil
  /\ callback' \in Callbacks
  /\ UNCHANGED <<clockVars, stage, until, deadline, expires, pollVars, listener, code, spent,
                 savedVars, outcome>>

\* An error, another login's state or no code ends the login.
CallbackTaken ==
  /\ stage = "waiting" /\ callback # Nil
  /\ IF Late \/ callback # "code"
     THEN Leave(IF Late THEN "timeout" ELSE "failed") /\ UNCHANGED code
     ELSE stage' = "exchange" /\ code' = "code" /\ UNCHANGED outcome
  /\ UNCHANGED <<clockVars, until, deadline, expires, pollVars, listener, callback, spent,
                 savedVars>>

NoCallback ==
  /\ stage = "waiting" /\ callback = Nil
  /\ now >= until
  /\ Leave("timeout")
  /\ UNCHANGED <<clockVars, until, deadline, expires, pollVars, codeVars, savedVars>>

-----------------------------------------------------------------------------
(* No browser, or no port for the callback.                                *)

\* _tls_preflight, for openai: a certificate error ends the login.
Preflight ==
  /\ stage = "start" /\ provider = "openai"
  /\ Leave("failed")
  /\ UNCHANGED <<clockVars, until, deadline, expires, pollVars, codeVars, savedVars>>

FallBack ==
  /\ stage = "start"
  /\ IF provider \in {"anthropic", "gemini"}
     THEN stage' = "manual" /\ until' = deadline
     ELSE stage' = "request" /\ UNCHANGED until
  /\ UNCHANGED <<clockVars, deadline, expires, pollVars, codeVars, savedVars, outcome>>

\* login_headless: a code without a state may be that of another login; a
\* second bad entry ends the login.
PasteCode ==
  /\ stage = "manual"
  /\ tries' = tries + 1
  /\ \/ Late /\ Leave("timeout") /\ UNCHANGED code
     \/ ~Late /\ code' \in {"code", "stray"} /\ stage' = "exchange" /\ UNCHANGED outcome
     \/ /\ ~Late /\ UNCHANGED code
        /\ IF tries' < MAX_CODE_ATTEMPTS THEN UNCHANGED <<stage, outcome>>
           ELSE Leave("failed")
  /\ UNCHANGED <<clockVars, until, deadline, expires, interval, listener,
                 callback, spent, savedVars>>

NothingPasted ==
  /\ stage = "manual"
  /\ Leave(IF now >= until THEN "timeout" ELSE "failed") \* or stdin is closed
  /\ UNCHANGED <<clockVars, until, deadline, expires, pollVars, codeVars, savedVars>>

\* The request for a device code; openai repeats it when it is not answered.
RequestDeviceCode ==
  /\ stage = "request"
  /\ IF Late THEN Leave("timeout") /\ UNCHANGED until
     ELSE stage' = "requesting" /\ until' = Remaining(Cap) /\ UNCHANGED outcome
  /\ UNCHANGED <<clockVars, deadline, expires, pollVars, codeVars, savedVars>>

Unanswered ==
  IF Late THEN Leave("timeout") /\ UNCHANGED <<until, tries>>
  ELSE IF provider = "openai" /\ tries < LoginRetries
  THEN /\ stage' = "request_pause" /\ until' = Remaining(Backoff) /\ tries' = tries + 1
       /\ UNCHANGED outcome
  ELSE Leave("failed") /\ UNCHANGED <<until, tries>>

NoDeviceCode ==
  /\ stage = "requesting"
  /\ Unanswered
  /\ UNCHANGED <<clockVars, deadline, expires, interval, codeVars, savedVars>>

DeviceCode ==
  /\ stage = "requesting"
  /\ IF Late THEN Leave("timeout") /\ UNCHANGED <<until, deadline, expires>>
     ELSE \E lifetime \in Expiries :
            /\ expires' = now + lifetime
            /\ deadline' = LimitedTo(lifetime)
            /\ IF provider = "cloud"
               THEN stage' = "pause" /\ until' = now + interval
               ELSE stage' = "poll" /\ UNCHANGED until
            /\ UNCHANGED outcome
  /\ tries' = 0
  /\ UNCHANGED <<clockVars, interval, codeVars, savedVars>>

\* The cloud's poll looks at its deadline only after it has asked.
Poll ==
  /\ stage = "poll"
  /\ IF Late /\ Shared THEN Leave("timeout") /\ UNCHANGED until
     ELSE /\ stage' = "polling"
          /\ until' = IF Shared THEN Remaining(Cap) ELSE now + Cap
          /\ UNCHANGED outcome
  /\ UNCHANGED <<clockVars, deadline, expires, interval, tries, codeVars, savedVars>>

\* The next poll, after a pause.
Pause(length) ==
  IF Late /\ Shared THEN Leave("timeout") /\ UNCHANGED until
  ELSE IF now > deadline THEN Leave("failed") /\ UNCHANGED until
  ELSE /\ stage' = "pause" /\ UNCHANGED outcome
       /\ until' = IF Shared THEN Remaining(length) ELSE now + length

\* authorization_pending and slow_down; openai is not told to slow down.
NotYet ==
  /\ stage = "polling" /\ tries' = 0
  /\ \E more \in IF provider = "openai" \/ interval >= MaxInterval THEN {0} ELSE {0, SlowDown} :
       interval' = interval + more
  /\ Pause(interval')
  /\ UNCHANGED <<clockVars, deadline, expires, codeVars, savedVars>>

\* A server error, or no answer in time: openai asks again later, grok twice
\* at once, the cloud's login fails.
PollFails ==
  /\ stage = "polling"
  /\ \/ /\ provider = "openai" /\ Pause(interval) /\ UNCHANGED tries
     \/ /\ provider = "grok" /\ tries < LoginRetries /\ Pause(Backoff)
        /\ tries' = tries + 1
     \/ /\ provider = "cloud" \/ (provider = "grok" /\ tries = LoginRetries)
        /\ Leave(IF Late /\ Shared THEN "timeout" ELSE "failed")
        /\ UNCHANGED <<until, tries>>
  /\ UNCHANGED <<clockVars, deadline, expires, interval, codeVars, savedVars>>

\* The user or the server says no.
Denied ==
  /\ stage = "polling"
  /\ Leave(IF Late THEN "timeout" ELSE "failed")
  /\ UNCHANGED <<clockVars, until, deadline, expires, pollVars, codeVars, savedVars>>

\* The user has approved: openai gets a code to exchange, the others the token.
Approved ==
  /\ stage = "polling" /\ now < expires
  /\ IF Late /\ Shared THEN Leave("timeout") /\ UNCHANGED code
     ELSE /\ code' = "code" /\ UNCHANGED outcome
          /\ stage' = IF provider = "openai" THEN "exchange" ELSE "save"
  /\ UNCHANGED <<clockVars, until, deadline, expires, pollVars, listener, callback, spent,
                 savedVars>>

PauseEnds ==
  /\ stage \in {"pause", "request_pause"} /\ now >= until
  /\ IF Late /\ Shared THEN Leave("timeout")
     ELSE stage' = (IF stage = "pause" THEN "poll" ELSE "request") /\ UNCHANGED outcome
  /\ UNCHANGED <<clockVars, until, deadline, expires, pollVars, codeVars, savedVars>>

-----------------------------------------------------------------------------
(* The token.                                                              *)

\* The code is posted once: an exchange is not safe to replay.
Exchange ==
  /\ stage = "exchange"
  /\ IF Late THEN Leave("timeout") /\ UNCHANGED <<until, spent>>
     ELSE /\ stage' = "exchanging" /\ until' = Remaining(Cap) /\ spent' = spent + 1
          /\ UNCHANGED outcome
  /\ UNCHANGED <<clockVars, deadline, expires, pollVars, listener, callback, code, savedVars>>

\* Only the code that was issued for this login buys a token.
Exchanged ==
  /\ stage = "exchanging" /\ code = "code"
  /\ IF Late THEN Leave("timeout")
     ELSE stage' = (IF provider = "gemini" THEN "verify" ELSE "save") /\ UNCHANGED outcome
  /\ UNCHANGED <<clockVars, until, deadline, expires, pollVars, codeVars, savedVars>>

\* Refused, malformed or not answered.
RequestFails ==
  /\ stage \in {"exchanging", "verifying"}
  /\ Leave(IF Late THEN "timeout" ELSE "failed")
  /\ UNCHANGED <<clockVars, until, deadline, expires, pollVars, codeVars, savedVars>>

\* gemini: the token is saved only once it has shown some models.
Verify ==
  /\ stage = "verify"
  /\ IF Late THEN Leave("timeout") /\ UNCHANGED until
     ELSE stage' = "verifying" /\ until' = Remaining(Cap) /\ UNCHANGED outcome
  /\ UNCHANGED <<clockVars, deadline, expires, pollVars, codeVars, savedVars>>

Verified ==
  /\ stage = "verifying"
  /\ IF Late THEN Leave("timeout") /\ UNCHANGED entitled
     ELSE stage' = "save" /\ entitled' = TRUE /\ UNCHANGED outcome
  /\ UNCHANGED <<clockVars, until, deadline, expires, pollVars, codeVars, credentials, savedAt,
                 hiccup>>

\* The file lock, which another process may hold for as long as it likes.
LockProfile ==
  /\ stage = "save"
  /\ IF Late /\ Shared THEN Leave("timeout")
     ELSE stage' = "writing" /\ UNCHANGED outcome
  /\ UNCHANGED <<clockVars, until, deadline, expires, pollVars, codeVars, savedVars>>

\* Mutant of Commit: the deadline is not checked once more.
CommitAnyway ==
  /\ stage = "writing"
  /\ credentials' = "new" /\ savedAt' = now /\ UNCHANGED hiccup
  /\ Leave("ok")
  /\ UNCHANGED <<clockVars, until, deadline, expires, pollVars, codeVars, entitled>>

\* The temporary file is on disk: it replaces the old one unless it is too
\* late (before_commit).  Setting its mode or syncing the directory may fail
\* afterwards.
Commit ==
  /\ stage = "writing"
  /\ \/ /\ Late /\ Shared /\ Leave("timeout")
        /\ UNCHANGED <<credentials, savedAt, hiccup>>
     \/ /\ ~(Late /\ Shared)
        /\ credentials' = "new" /\ savedAt' = now
        /\ hiccup' \in BOOLEAN
        /\ Leave(IF hiccup' THEN "failed" ELSE "ok")
  /\ UNCHANGED <<clockVars, until, deadline, expires, pollVars, codeVars, entitled>>

WriteFails ==
  /\ stage = "writing"
  /\ Leave("failed")
  /\ UNCHANGED <<clockVars, until, deadline, expires, pollVars, codeVars, savedVars>>

\* Mutant of CloseListener: only a login that succeeded tidies up.
CloseAfterSuccess ==
  /\ stage = "closing"
  /\ stage' = "over" /\ listener' = IF outcome = "ok" THEN "closed" ELSE listener
  /\ UNCHANGED <<clockVars, until, deadline, expires, pollVars, callback, code, spent,
                 savedVars, outcome>>

\* The finally block of the browser login.
CloseListener ==
  /\ stage = "closing"
  /\ stage' = "over" /\ listener' = "closed"
  /\ UNCHANGED <<clockVars, until, deadline, expires, pollVars, callback, code, spent,
                 savedVars, outcome>>

-----------------------------------------------------------------------------
Waiting == {"waiting", "manual", "requesting", "polling", "exchanging", "verifying",
            "pause", "request_pause"}

\* Waits, requests and pauses end in time; a lock is waited for until the
\* deadline, a write may take longer.
Tick ==
  /\ \/ stage \in Waiting /\ now < until
     \/ stage = "save" /\ now < deadline
     \/ stage = "writing" /\ now < Least(deadline, Budget) + MaxLate
  /\ now' = now + 1
  /\ UNCHANGED <<provider, stage, until, deadline, expires, pollVars, codeVars, savedVars,
                 outcome>>

StartNext == StartBrowser \/ Preflight \/ FallBack
BrowserNext == CallbackTaken \/ NoCallback
DeviceNext ==
  \/ RequestDeviceCode \/ NoDeviceCode \/ DeviceCode \/ Poll \/ NotYet \/ PollFails
  \/ Denied \/ Approved \/ PauseEnds
TokenNext ==
  \/ Exchange \/ Exchanged \/ RequestFails \/ Verify \/ Verified \/ LockProfile
  \/ Commit \/ WriteFails
LoginProceeds ==
  \/ StartNext \/ BrowserNext \/ DeviceNext \/ TokenNext \/ CloseListener
  \/ (stage = "manual" /\ now >= until /\ NothingPasted) \/ Tick
UserNext == Callback \/ PasteCode \/ NothingPasted

LoginOver == stage = "over" /\ UNCHANGED flowVars

LoginNext == LoginProceeds \/ UserNext \/ LoginOver

\* Requests return or time out, the clock goes on; a user need do nothing.
LoginSpec == LoginInit /\ [][LoginNext]_flowVars /\ WF_flowVars(LoginProceeds)

-----------------------------------------------------------------------------
LoginTypeOK ==
  /\ provider \in Logins /\ now \in Nat
  /\ stage \in Waiting \cup {"start", "request", "poll", "exchange", "verify", "save",
                          "writing", "closing", "over"}
  /\ {until, deadline, expires, interval, tries, spent, savedAt} \subseteq Nat
  /\ {entitled, hiccup} \subseteq BOOLEAN
  /\ listener \in {"open", "closed"} /\ callback \in Callbacks \cup {Nil}
  /\ code \in {Nil, "code", "stray"} /\ credentials \in {"old", "new"}
  /\ outcome \in {Nil, "ok", "failed", "timeout"}

\* What the user is told is so: a login that timed out or failed has saved
\* nothing, one that succeeded has saved a token that was bought with its own
\* code, in time and, for gemini, after it had shown its models.  Only a
\* failure after the file was replaced leaves new credentials behind an error
\* (OAuthLoginDeadline.check as before_commit, run_gemini_oauth_login).
OutcomeIsTrue ==
  /\ outcome \in {"timeout", "failed"} => credentials = "old" \/ hiccup
  /\ outcome = "ok" => credentials = "new"
  /\ credentials = "new" =>
       /\ code = "code"
       /\ provider = "gemini" => entitled
       /\ Shared => savedAt < Budget

\* A login comes to an end, also if the user does nothing, and leaves no
\* callback server behind.
LoginEnds == <>(stage = "over" /\ listener = "closed")
===============================================================================
