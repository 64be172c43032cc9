--------------------------- MODULE OAuthTokensProofs ---------------------------
(***************************************************************************)
(* Proofs about OAuthTokens, for any number of processes and threads, and  *)
(* about Configure with the login it extends.                              *)
(*                                                                         *)
(* The first rest on what the file lock protects: whoever is going to      *)
(* write holds it, and has read what is in the file now.  A login has      *)
(* saved nothing while it goes on; a config serves what was chosen, and    *)
(* every step that stores a key says for which configs that is renewed.    *)
(***************************************************************************)
EXTENDS OAuthTokens, Configure, FiniteSetTheorems, FunctionTheorems, TLAPS

\* A call that will replace the file with what it has read.
Writes(c) ==
  pc[c] = "save" \/ (Provider(c) = "grok" /\ pc[c] \in {"refresh", "granted"})

\* A call of grok that has asked for a refresh and been answered.
HasFresh(c) == Provider(c) = "grok" /\ pc[c] \in {"granted", "save"}

Shapes ==
  /\ SessionOf \in [Calls -> Sessions]
  /\ pc = [c \in Calls |-> pc[c]] /\ profile = [c \in Calls |-> profile[c]]
  /\ fresh = [c \in Calls |-> fresh[c]]
  /\ file = [p \in Providers |-> file[p]] /\ bought = [p \in Providers |-> bought[p]]
  /\ login = [p \in Providers |-> login[p]]
  /\ \A p \in Providers : login[p] \in {"no", "bought", "over"}

WritersLock == \A c \in Calls : Writes(c) => fileLock = c /\ profile[c] = file

LInv == Shapes /\ WritersLock

\* What a refresh brings belongs to the login it was asked with.
LoginInv ==
  /\ \A c \in Calls : /\ HasFresh(c) => fresh[c].login = profile[c]["grok"].login
                      /\ pc[c] = "lock" => Provider(c) # "grok"
  /\ \A p \in Providers : login[p] = "bought" => bought[p].login = "new"
  /\ GrokLoginStands

LEMMA LInvInit == Init => LInv
  BY OAuthTokensAssumption DEF Init, LInv, Shapes, WritersLock, Writes, FromFile

LEMMA CallKeepsLInv ==
  ASSUME LInv, NEW c \in Calls, CallNext(c)
  PROVE  LInv'
<1> USE OAuthTokensAssumption DEF LInv, Shapes, WritersLock, Writes, Provider, Goes,
        callVars, fileVars, lockVars, serverVars, loginVars
<1>1. CASE LockThread(c)
  BY <1>1 DEF LockThread
<1>2. CASE LookGrok(c)
  <2>1. /\ pc' = [pc EXCEPT ![c] = pc'[c]] /\ pc'[c] \in {"post", "refresh"}
        /\ profile' = [profile EXCEPT ![c] = profile'[c]]
        /\ fresh' = [fresh EXCEPT ![c] = fresh'[c]]
        /\ UNCHANGED <<SessionOf, file, bought, login>>
    BY <1>2 DEF LookGrok, Use, Forgets
  <2>2. /\ pc'[c] = "refresh" => fileLock' = c /\ profile'[c] = file
        /\ fileLock = None
    BY <1>2 DEF LookGrok, Use
  <2>3. \A d \in Calls : ~Writes(d)
    BY <2>2
  <2> QED
    BY <2>1, <2>2, <2>3
<1>3. CASE LookOpenAI(c)
  BY <1>3 DEF LookOpenAI, Use, Release, Forgets
<1>4. CASE LookPlain(c)
  BY <1>4 DEF LookPlain, Use, Release, Forgets
<1>5. CASE Grants(c)
  BY <1>5 DEF Grants
<1>6. CASE NoAnswer(c)
  BY <1>6 DEF NoAnswer, Ends, Release, Forgets
<1>7. CASE Refused(c)
  BY <1>7 DEF Refused, Ends, Release, Forgets
<1>8. CASE Granted(c)
  BY <1>8 DEF Granted
<1>9. CASE LockFile(c)
  BY <1>9 DEF LockFile
<1>10. CASE Save(c) \/ SaveFails(c)
  <2>1. profile[c] = file /\ fileLock = c
    BY <1>10 DEF Save, SaveFails
  <2>2. file' = [p \in Providers |-> file'[p]]
    BY <1>10, <2>1 DEF Save, SaveFails, Written
  <2>3. /\ pc' = [pc EXCEPT ![c] = pc'[c]] /\ pc'[c] \in {"post", "over"}
        /\ profile' = [profile EXCEPT ![c] = None]
        /\ fresh' = [fresh EXCEPT ![c] = None]
        /\ UNCHANGED <<SessionOf, bought, login>>
    BY <1>10 DEF Save, SaveFails, Use, Ends, Forgets
  <2>4. Shapes'
    BY <2>2, <2>3
  <2>5. ASSUME NEW d \in Calls, Writes(d)' PROVE FALSE
    <3>1. d # c
      BY <2>3, <2>5
    <3>2. Writes(d) /\ fileLock = d
      BY <2>3, <2>5, <3>1
    <3> QED
      BY <2>1, <3>1, <3>2
  <2> QED
    BY <2>4, <2>5
<1>11. CASE Answered(c)
  BY <1>11 DEF Answered, Ends, Release, Forgets
<1>12. CASE Unauthorized(c)
  BY <1>12 DEF Unauthorized, Ends, Release, Forgets
<1> QED
  BY <1>1, <1>2, <1>3, <1>4, <1>5, <1>6, <1>7, <1>8, <1>9, <1>10, <1>11, <1>12
  DEF CallNext

LEMMA OutsideKeepsLInv ==
  ASSUME LInv, OutsideNext
  PROVE  LInv'
<1> USE OAuthTokensAssumption DEF LInv, Shapes, WritersLock, Writes, Provider,
        callVars, fileVars, lockVars, serverVars, loginVars
<1>1. CASE \E s \in Sessions : Dies(s)
  BY <1>1 DEF Dies
<1>2. CASE \E n \in 1 .. issued : Ages(n) \/ Revoked(n)
  BY <1>2 DEF Ages, Revoked
<1>3. CASE \E p \in Providers : LoginBuys(p) \/ LoginSaves(p)
  BY <1>3 DEF LoginBuys, LoginSaves
<1> QED
  BY <1>1, <1>2, <1>3 DEF OutsideNext

LEMMA LInvIsInductive == LInv /\ [Next]_vars => LInv'
<1> SUFFICES ASSUME LInv, [Next]_vars PROVE LInv'
  OBVIOUS
<1>1. CASE UNCHANGED vars
  BY <1>1 DEF LInv, Shapes, WritersLock, Writes, Provider, vars, callVars, fileVars,
              lockVars, serverVars, loginVars
<1> QED
  BY <1>1, CallKeepsLInv, OutsideKeepsLInv DEF Next, Over

LEMMA SlotsSurviveSteps == LInv /\ SlotsSurvive /\ [Next]_vars => SlotsSurvive'
<1> SUFFICES ASSUME LInv, SlotsSurvive, [Next]_vars PROVE SlotsSurvive'
  OBVIOUS
<1> USE DEF SlotsSurvive, fileVars
<1>1. ASSUME NEW c \in Calls, CallNext(c) PROVE SlotsSurvive'
  <2>1. CASE Save(c) \/ SaveFails(c)
    <3>1. pc[c] = "save" /\ profile[c] = file
      BY <2>1 DEF Save, SaveFails, LInv, WritersLock, Writes
    <3> QED
      BY <2>1, <3>1 DEF Save, SaveFails, Written
  <2>2. CASE ~(Save(c) \/ SaveFails(c))
    <3>1. UNCHANGED fileVars
      BY <1>1, <2>2 DEF CallNext, LockThread, LookGrok, LookOpenAI, LookPlain, Grants,
         NoAnswer, Refused, Granted, LockFile, Answered, Unauthorized
    <3> QED
      BY <3>1
  <2> QED
    BY <2>1, <2>2
<1>2. CASE OutsideNext
  BY <1>2 DEF OutsideNext, Dies, Ages, Revoked, LoginBuys, LoginSaves
<1>3. CASE UNCHANGED vars
  BY <1>3 DEF vars
<1> QED
  BY <1>1, <1>2, <1>3 DEF Next, Over

\* What a provider saved stays in its slot until that provider saves again,
\* however many processes refresh, log in, fail and die around it.
THEOREM SlotsSurviveHolds == Spec => []SlotsSurvive
<1>1. Init => SlotsSurvive
  BY DEF Init, SlotsSurvive
<1> QED
  BY <1>1, LInvInit, LInvIsInductive, SlotsSurviveSteps, PTL DEF Spec

-----------------------------------------------------------------------------
LEMMA LoginInvInit == Init => LoginInv
  BY DEF Init, LoginInv, HasFresh, GrokLoginStands

LEMMA CallKeepsLoginInv ==
  ASSUME LInv, LoginInv, NEW c \in Calls, CallNext(c)
  PROVE  LoginInv'
<1> USE OAuthTokensAssumption DEF LInv, Shapes, LoginInv, HasFresh, GrokLoginStands, Provider,
        Goes, callVars, fileVars, lockVars, serverVars, loginVars
<1>0. UNCHANGED <<SessionOf, login, bought>>
  BY DEF CallNext, LockThread, LookGrok, LookOpenAI, LookPlain, Grants, NoAnswer, Refused,
     Granted, LockFile, Save, SaveFails, Answered, Unauthorized
<1>1. CASE LockThread(c)
  BY <1>1 DEF LockThread
<1>2. CASE LookGrok(c)
  <2>1. pc' = [pc EXCEPT ![c] = pc'[c]] /\ pc'[c] \in {"post", "refresh"}
    BY <1>2 DEF LookGrok, Use
  <2>2. fresh' = [fresh EXCEPT ![c] = fresh'[c]] /\ profile' = [profile EXCEPT ![c] = profile'[c]]
    BY <1>2 DEF LookGrok, Use, Forgets
  <2>3. file' = file
    BY <1>2 DEF LookGrok
  <2> QED
    BY <1>0, <2>1, <2>2, <2>3
<1>3. CASE LookOpenAI(c)
  BY <1>3 DEF LookOpenAI, Use, Release, Forgets
<1>4. CASE LookPlain(c)
  BY <1>4 DEF LookPlain, Use, Release, Forgets
<1>5. CASE Grants(c)
  BY <1>5 DEF Grants, Grant
<1>6. CASE NoAnswer(c)
  BY <1>6 DEF NoAnswer, Ends, Release, Forgets
<1>7. CASE Refused(c)
  BY <1>7 DEF Refused, Ends, Release, Forgets
<1>8. CASE Granted(c)
  BY <1>8 DEF Granted
<1>9. CASE LockFile(c)
  BY <1>9 DEF LockFile, WritersLock, Writes
<1>10. CASE Save(c) \/ SaveFails(c)
  <2>1. pc[c] = "save" /\ profile[c] = file
    BY <1>10 DEF Save, SaveFails, WritersLock, Writes
  <2>2. "grok" \in Providers => file'["grok"].login = file["grok"].login
    <3>1. CASE Provider(c) = "grok"
      <4>1. fresh[c].login = file["grok"].login
        BY <2>1, <3>1
      <4> QED
        BY <1>10, <2>1, <3>1, <4>1 DEF Save, SaveFails, Written
    <3>2. CASE Provider(c) # "grok"
      BY <1>10, <2>1, <3>2 DEF Save, SaveFails, Written
    <3> QED
      BY <3>1, <3>2
  <2>3. /\ pc' = [pc EXCEPT ![c] = pc'[c]] /\ pc'[c] \in {"post", "over"}
        /\ profile' = [profile EXCEPT ![c] = None] /\ fresh' = [fresh EXCEPT ![c] = None]
    BY <1>10 DEF Save, SaveFails, Use, Ends, Forgets
  <2>4. \A d \in Calls : /\ HasFresh(d)' => fresh'[d].login = profile'[d]["grok"].login
                         /\ pc'[d] = "lock" => Provider(d)' # "grok"
    <3>1. ASSUME NEW d \in Calls, d # c
          PROVE  pc'[d] = pc[d] /\ fresh'[d] = fresh[d] /\ profile'[d] = profile[d]
      BY <2>3, <3>1
    <3>2. ~HasFresh(c)' /\ pc'[c] # "lock"
      BY <1>0, <2>3
    <3> QED
      BY <1>0, <3>1, <3>2
  <2> QED
    BY <1>0, <2>2, <2>4
<1>11. CASE Answered(c)
  BY <1>11 DEF Answered, Ends, Release, Forgets
<1>12. CASE Unauthorized(c)
  BY <1>12 DEF Unauthorized, Ends, Release, Forgets
<1> QED
  BY <1>1, <1>2, <1>3, <1>4, <1>5, <1>6, <1>7, <1>8, <1>9, <1>10, <1>11, <1>12 DEF CallNext

LEMMA OutsideKeepsLoginInv ==
  ASSUME LInv, LoginInv, OutsideNext
  PROVE  LoginInv'
<1> USE OAuthTokensAssumption DEF LInv, Shapes, LoginInv, HasFresh, GrokLoginStands, Provider,
        callVars, fileVars, lockVars, serverVars, loginVars
<1>1. CASE \E s \in Sessions : Dies(s)
  BY <1>1 DEF Dies
<1>2. CASE \E n \in 1 .. issued : Ages(n) \/ Revoked(n)
  BY <1>2 DEF Ages, Revoked
<1>3. CASE \E p \in Providers : LoginBuys(p)
  <2>1. PICK p \in Providers : LoginBuys(p)
    BY <1>3
  <2>2. /\ login' = [login EXCEPT ![p] = "bought"] /\ bought'[p].login = "new"
        /\ login[p] = "no" /\ \A q \in Providers \ {p} : bought'[q] = bought[q]
    BY <2>1 DEF LoginBuys
  <2>3. UNCHANGED <<SessionOf, pc, profile, fresh, file>>
    BY <2>1 DEF LoginBuys
  <2> QED
    BY <2>2, <2>3
<1>4. CASE \E p \in Providers : LoginSaves(p)
  BY <1>4 DEF LoginSaves
<1> QED
  BY <1>1, <1>2, <1>3, <1>4 DEF OutsideNext

LEMMA LoginInvSteps == LInv /\ LoginInv /\ [Next]_vars => LoginInv'
<1> SUFFICES ASSUME LInv, LoginInv, [Next]_vars PROVE LoginInv'
  OBVIOUS
<1>1. CASE UNCHANGED vars
  BY <1>1 DEF LoginInv, HasFresh, GrokLoginStands, Provider, vars, callVars, fileVars,
              lockVars, serverVars, loginVars
<1> QED
  BY <1>1, CallKeepsLoginInv, OutsideKeepsLoginInv DEF Next, Over

\* A refresh of grok that began before a user logged in again never brings the
\* old login back: it holds the file lock from reading to writing.
THEOREM GrokLoginStandsHolds == Spec => []GrokLoginStands
<1>1. LInv /\ LoginInv => GrokLoginStands
  BY DEF LoginInv
<1> QED
  BY <1>1, LInvInit, LInvIsInductive, LoginInvInit, LoginInvSteps, PTL DEF Spec

-----------------------------------------------------------------------------
(* The refresh token of grok.                                              *)

\* A refresh token that is not grok's: no refresh asked with it revokes one that
\* the file has, a login has bought or a call of grok is about to save.
Foreign(n) ==
  /\ n \in 1 .. issued
  /\ n # file["grok"].refresh /\ n # bought["grok"].refresh
  /\ \A c \in Calls : HasFresh(c) => n # fresh[c].refresh

\* What the other providers' sessions and calls work with is foreign to grok.
TokensApart ==
  /\ issued \in Nat /\ memory = [s \in Sessions |-> memory[s]]
  /\ file["grok"].refresh \in 1 .. issued /\ bought["grok"].refresh \in 1 .. issued
  /\ \A c \in Calls : HasFresh(c) => fresh[c].refresh \in 1 .. issued
  /\ \A p \in Providers \ {"grok"} : Foreign(file[p].refresh) /\ Foreign(bought[p].refresh)
  /\ \A s \in Sessions : \/ ProviderOf[s] = "grok"
                         \/ ProviderOf[s] = "openai" /\ memory[s] = None
                         \/ Foreign(memory[s].refresh)
  /\ \A c \in Calls : Provider(c) # "grok" =>
       /\ pc[c] = "refresh" => Foreign(Remembered(c).refresh)
       /\ pc[c] \in {"granted", "lock", "save"} => Foreign(fresh[c].refresh)

\* The token in the file is honoured or being replaced; what replaces it, and
\* what a new login has bought, is honoured.
Honoured ==
  /\ file["grok"].refresh \in grants \cup lost \/ \E c \in Calls : HasFresh(c)
  /\ \A c \in Calls : HasFresh(c) => fresh[c].refresh \in grants
  /\ login["grok"] = "bought" =>
       /\ bought["grok"].refresh \in grants
       /\ bought["grok"].refresh # file["grok"].refresh
       /\ \A c \in Calls : HasFresh(c) => fresh[c].refresh # bought["grok"].refresh

GrokInv == "grok" \in Providers => TokensApart /\ Honoured

\* The providers begin with a token each.
LEMMA FirstTokensDiffer ==
  /\ \A p \in Providers : First(p) \in 1 .. Cardinality(Providers)
  /\ \A p, q \in Providers : First(p) = First(q) => p = q
<1> DEFINE K == 1 .. Cardinality(Providers)
           number == CHOOSE f \in [Providers -> K] : IsInjective(f)
<1>1. \E f \in [Providers -> K] : IsInjective(f)
  <2>1. ExistsBijection(K, Providers)
    BY FS_CardinalityType, OAuthTokensAssumption
  <2>2. ExistsBijection(Providers, K)
    BY <2>1, Fun_ExistsBijSymmetric
  <2>3. PICK f \in Bijection(Providers, K) : TRUE
    BY <2>2 DEF ExistsBijection
  <2>4. f \in [Providers -> K] /\ \A a, b \in Providers : f[a] = f[b] => a = b
    BY <2>3, Fun_BijectionProperties, Zenon
  <2> QED
    BY <2>4 DEF IsInjective
<1>2. number \in [Providers -> K] /\ IsInjective(number)
  BY <1>1
<1>3. \A p \in Providers : First(p) = number[p]
  BY DEF First
<1> HIDE DEF number
<1> QED
  BY <1>2, <1>3 DEF IsInjective

LEMMA GrokInvInit == Init => GrokInv
<1> SUFFICES ASSUME Init, "grok" \in Providers PROVE TokensApart /\ Honoured
  BY DEF GrokInv
<1> DEFINE n == Cardinality(Providers)
<1>1. n \in Nat
  BY FS_CardinalityType, OAuthTokensAssumption
<1> HIDE DEF n
<1>2. \A p \in Providers : file[p].refresh = First(p) /\ bought[p].refresh = First(p)
  BY DEF Init
<1>3. issued = n /\ grants = 1 .. n /\ \A c \in Calls : pc[c] = "start"
  BY DEF Init, n
<1>4. \A p \in Providers : First(p) \in 1 .. n /\ (p # "grok" => First(p) # First("grok"))
  BY FirstTokensDiffer DEF n
<1>5. \A s \in Sessions : ProviderOf[s] \in Providers \ {"grok"} =>
        \/ ProviderOf[s] = "openai" /\ memory[s] = None
        \/ memory[s] = file[ProviderOf[s]]
  BY OAuthTokensAssumption DEF Init, FromFile
<1>6. \A p \in Providers \ {"grok"} : Foreign(First(p))
  BY <1>2, <1>3, <1>4 DEF Foreign, HasFresh
<1>7. TokensApart
  <2>1. \A s \in Sessions : ProviderOf[s] \in Providers
    BY OAuthTokensAssumption
  <2>2. memory = [s \in Sessions |-> memory[s]]
    BY DEF Init
  <2> QED
    BY <1>1, <1>2, <1>3, <1>4, <1>5, <1>6, <2>1, <2>2 DEF TokensApart, HasFresh
<1>8. Honoured
  BY <1>2, <1>3, <1>4 DEF Init, Honoured, HasFresh
<1> QED
  BY <1>7, <1>8

\* A call that does not ask for a refresh, and does not save, leaves the file and
\* the server alone, and no call of grok has been answered by it.
LEMMA QuietCall ==
  ASSUME LInv, LoginInv, NEW c \in Calls,
         LockThread(c) \/ LookGrok(c) \/ LookOpenAI(c) \/ LookPlain(c) \/ NoAnswer(c)
           \/ Refused(c) \/ Granted(c) \/ LockFile(c) \/ Answered(c) \/ Unauthorized(c)
  PROVE  /\ UNCHANGED <<SessionOf, file, issued, grants, login, bought>>
         /\ \A d \in Calls : HasFresh(d)' => HasFresh(d) /\ fresh'[d] = fresh[d]
<1> USE OAuthTokensAssumption DEF LInv, Shapes, HasFresh, Provider, Goes,
        callVars, fileVars, lockVars, serverVars, loginVars
<1>1. UNCHANGED <<SessionOf, file, issued, grants, login, bought>>
  BY DEF LockThread, LookGrok, LookOpenAI, LookPlain, NoAnswer, Refused, Granted, LockFile,
     Answered, Unauthorized
<1>2. ASSUME NEW d \in Calls, HasFresh(d)' PROVE HasFresh(d) /\ fresh'[d] = fresh[d]
  <2>1. CASE LockThread(c) \/ LockFile(c)
    BY <1>2, <2>1 DEF LockThread, LockFile, LoginInv
  <2>2. CASE LookGrok(c)
    BY <1>2, <2>2 DEF LookGrok, Use, Forgets
  <2>3. CASE LookOpenAI(c) \/ LookPlain(c)
    BY <1>2, <2>3 DEF LookOpenAI, LookPlain, Use, Forgets
  <2>4. CASE NoAnswer(c)
    BY <1>2, <2>4 DEF NoAnswer, Ends, Forgets
  <2>5. CASE Refused(c) \/ Answered(c) \/ Unauthorized(c)
    BY <1>2, <2>5 DEF Refused, Answered, Unauthorized, Ends, Forgets
  <2>6. CASE Granted(c)
    BY <1>2, <2>6 DEF Granted
  <2> QED
    BY <2>1, <2>2, <2>3, <2>4, <2>5, <2>6
<1> QED
  BY <1>1, <1>2

LEMMA QuietCallKeepsGrokInv ==
  ASSUME LInv, LoginInv, "grok" \in Providers, TokensApart, Honoured, NEW c \in Calls,
         LockThread(c) \/ LookGrok(c) \/ LookOpenAI(c) \/ LookPlain(c) \/ NoAnswer(c)
           \/ Refused(c) \/ Granted(c) \/ LockFile(c) \/ Answered(c) \/ Unauthorized(c)
  PROVE  (TokensApart /\ Honoured)'
<1> USE OAuthTokensAssumption
<1>1. /\ UNCHANGED <<SessionOf, file, issued, grants, login, bought>>
      /\ \A d \in Calls : HasFresh(d)' => HasFresh(d) /\ fresh'[d] = fresh[d]
  BY QuietCall
<1>2. ASSUME NEW n, Foreign(n) PROVE Foreign(n)'
  BY <1>1, <1>2 DEF Foreign
<1>3. \A s \in Sessions :
        ProviderOf[s] # "grok" => memory'[s] = memory[s] \/ Foreign(memory'[s].refresh)
  <2> USE DEF Provider, Remembered, Remember, TokensApart
  <2>1. CASE UNCHANGED memory
    BY <2>1
  <2>2. CASE Provider(c) = "grok" /\ \E k : Remember(c, k)
    BY <2>2 DEF LInv, Shapes
  <2>3. CASE LookOpenAI(c)
    BY <2>3 DEF LookOpenAI, LInv, Shapes
  <2>4. CASE Provider(c) # "grok" /\ Granted(c)
    BY <2>4 DEF Granted, LInv, Shapes
  <2> QED
    BY <2>1, <2>2, <2>3, <2>4 DEF LockThread, LookGrok, LookPlain, NoAnswer, Refused,
       Granted, LockFile, Answered, Unauthorized
<1>4. \A d \in Calls : Provider(d) # "grok" =>
        /\ pc'[d] = "refresh" => Foreign(memory'[SessionOf[d]].refresh)
        /\ pc'[d] \in {"granted", "lock", "save"} => Foreign(fresh'[d].refresh)
  <2> SUFFICES ASSUME NEW d \in Calls, Provider(d) # "grok"
               PROVE  /\ pc'[d] = "refresh" => Foreign(memory'[SessionOf[d]].refresh)
                      /\ pc'[d] \in {"granted", "lock", "save"} => Foreign(fresh'[d].refresh)
    OBVIOUS
  <2> USE DEF LInv, Shapes, Goes
  <2>1. CASE d # c
    <3>1. pc'[d] = pc[d] /\ fresh'[d] = fresh[d]
      BY <2>1 DEF LockThread, LookGrok, LookOpenAI, LookPlain, NoAnswer, Refused, Granted,
         LockFile, Answered, Unauthorized, Use, Ends, Forgets, callVars
    <3> QED
      BY <1>3, <3>1 DEF TokensApart, Provider, Remembered
  <2>2. CASE d = c /\ (Granted(c) \/ LockFile(c))
    <3>1. pc'[c] \in {"lock", "save"} /\ pc[c] \in {"granted", "lock"} /\ fresh'[c] = fresh[c]
      BY <2>2 DEF Granted, LockFile, callVars
    <3> QED
      BY <2>2, <3>1 DEF TokensApart
  <2>3. CASE d = c /\ LookOpenAI(c)
    <3>1. pc'[c] \in {"post", "refresh"}
      BY <2>3 DEF LookOpenAI, Use
    <3>2. Foreign(memory'[SessionOf[c]].refresh)
      BY <2>3 DEF LookOpenAI, TokensApart, Provider, Remembered, Remember
    <3> QED
      BY <2>3, <3>1, <3>2
  <2>4. CASE d = c /\ LookPlain(c)
    <3>1. pc'[c] \in {"post", "refresh"} /\ UNCHANGED memory
      BY <2>4 DEF LookPlain, Use
    <3> QED
      BY <2>4, <3>1 DEF LookPlain, TokensApart, Provider
  <2>5. CASE d = c /\ (LockThread(c) \/ LookGrok(c) \/ NoAnswer(c) \/ Refused(c)
                         \/ Answered(c) \/ Unauthorized(c))
    <3>1. pc'[c] \in {"look", "start", "post", "over"}
      BY <2>5 DEF LockThread, LookGrok, NoAnswer, Refused, Answered, Unauthorized, Use, Ends
    <3> QED
      BY <2>5, <3>1
  <2> QED
    BY <2>1, <2>2, <2>3, <2>4, <2>5
<1>5. memory' = [s \in Sessions |-> memory'[s]]
  <2>1. UNCHANGED memory \/ \E k : Remember(c, k)
    BY DEF LockThread, LookGrok, LookOpenAI, LookPlain, NoAnswer, Refused, Granted, LockFile,
       Answered, Unauthorized
  <2> QED
    BY <2>1 DEF TokensApart, Remember
<1>6. TokensApart'
  <2>1. \A s \in Sessions : \/ ProviderOf[s] = "grok"
                            \/ ProviderOf[s] = "openai" /\ memory'[s] = None
                            \/ Foreign(memory'[s].refresh)
    BY <1>3 DEF TokensApart
  <2> QED
    BY <1>1, <1>2, <1>4, <1>5, <2>1 DEF TokensApart, Provider, Remembered
<1>7. file["grok"].refresh \in grants \cup lost' \/ \E d \in Calls : HasFresh(d)'
  <2>1. lost \subseteq lost'
    BY DEF LockThread, LookGrok, LookOpenAI, LookPlain, NoAnswer, Refused, Granted, LockFile,
       Answered, Unauthorized
  <2>2. CASE file["grok"].refresh \in grants \cup lost
    BY <2>1, <2>2
  <2>3. ASSUME NEW d \in Calls, HasFresh(d), d # c PROVE HasFresh(d)'
    <3>1. pc'[d] = pc[d]
      BY <2>3 DEF LInv, Shapes, Goes, LockThread, LookGrok, LookOpenAI, LookPlain, NoAnswer,
         Refused, Granted, LockFile, Answered, Unauthorized, Use, Ends
    <3> QED
      BY <1>1, <2>3, <3>1 DEF HasFresh, Provider
  <2>4. CASE HasFresh(c)
    <3>1. CASE Granted(c)
      BY <1>1, <2>4, <3>1 DEF Granted, Goes, HasFresh, Provider, LInv, Shapes
    <3>2. CASE NoAnswer(c)
      <4>1. profile[c] = file
        BY <2>4 DEF HasFresh, LInv, WritersLock, Writes
      <4>2. lost' = lost \cup {profile[c]["grok"].refresh}
        BY <2>4, <3>2 DEF NoAnswer, HasFresh, Grant
      <4> QED
        BY <4>1, <4>2
    <3> QED
      BY <2>4, <3>1, <3>2 DEF HasFresh, LockThread, LookGrok, LookOpenAI, LookPlain, Refused,
         LockFile, Answered, Accepted, Unauthorized, Rejected
  <2> QED
    BY <2>2, <2>3, <2>4 DEF Honoured
<1>8. Honoured'
  BY <1>1, <1>7 DEF Honoured
<1> QED
  BY <1>6, <1>8

LEMMA GrantsKeepsGrokInv ==
  ASSUME LInv, "grok" \in Providers, TokensApart, Honoured, NEW c \in Calls, Grants(c)
  PROVE  (TokensApart /\ Honoured)'
<1> USE OAuthTokensAssumption
<1> DEFINE old == Grant(c).refresh
           next == fresh'[c].refresh
<1>1. /\ pc[c] = "refresh" /\ issued' = issued + 1
      /\ next \in {old, issued + 1} /\ grants' = (grants \ {old}) \cup {next}
  <2>1. PICK m \in {old, issued + 1} :
          /\ fresh' = [fresh EXCEPT ![c] = [access |-> issued + 1, refresh |-> m,
                                            login |-> Grant(c).login]]
          /\ grants' = (grants \ {old}) \cup {m}
    BY DEF Grants
  <2>2. fresh'[c].refresh = m
    BY <2>1 DEF LInv, Shapes
  <2> QED
    BY <2>1, <2>2 DEF Grants
<1>2. UNCHANGED <<SessionOf, file, login, bought, memory, lost>>
  BY DEF Grants, fileVars, loginVars
<1>3. /\ \A d \in Calls \ {c} : pc'[d] = pc[d] /\ fresh'[d] = fresh[d]
      /\ pc'[c] = "granted"
  BY DEF Grants, Goes, LInv, Shapes
<1>4. issued \in Nat
  BY DEF TokensApart
<1> HIDE DEF old, next
<1>5. CASE Provider(c) = "grok"
  <2>1. fileLock = c /\ old = file["grok"].refresh
    BY <1>1, <1>5 DEF LInv, WritersLock, Writes, Grant, old
  <2>2. \A d \in Calls : ~HasFresh(d)
    BY <1>1, <2>1 DEF LInv, WritersLock, Writes, HasFresh
  <2>3. \A d \in Calls : HasFresh(d)' => d = c
    BY <1>2, <1>3, <2>2 DEF HasFresh, Provider
  <2>4. ASSUME NEW n, Foreign(n) PROVE Foreign(n)'
    <3>1. n \in 1 .. issued /\ n # file["grok"].refresh /\ n # bought["grok"].refresh
      BY <2>4 DEF Foreign
    <3>2. n # next
      BY <1>1, <1>4, <2>1, <3>1
    <3> QED
      BY <1>1, <1>2, <1>4, <2>3, <3>1, <3>2 DEF Foreign, next
  <2>5. file["grok"].refresh \in 1 .. issued + 1 /\ bought["grok"].refresh \in 1 .. issued + 1
    BY <1>4 DEF TokensApart
  <2>6. next \in 1 .. issued + 1
    BY <1>1, <1>4, <2>1, <2>5
  <2>7. \A d \in Calls : Provider(d) # "grok" => d # c
    BY <1>5
  <2>8. TokensApart'
    <3>1. \A d \in Calls : Provider(d)' # "grok" =>
            /\ (pc[d] = "refresh")' => Foreign(Remembered(d).refresh)'
            /\ (pc[d] \in {"granted", "lock", "save"})' => Foreign(fresh[d].refresh)'
      BY <1>2, <1>3, <2>4, <2>7 DEF TokensApart, Provider, Remembered
    <3> QED
      BY <1>1, <1>2, <1>4, <2>3, <2>4, <2>5, <2>6, <3>1 DEF TokensApart, next
  <2>9. Honoured'
    <3>1. HasFresh(c)'
      BY <1>2, <1>3, <1>5 DEF HasFresh, Provider
    <3>2. login["grok"] = "bought" => bought["grok"].refresh \in grants'
      BY <1>1, <2>1 DEF Honoured
    <3>3. login["grok"] = "bought" => bought["grok"].refresh # next
      BY <1>1, <1>4, <2>1 DEF Honoured, TokensApart
    <3> QED
      BY <1>1, <1>2, <2>3, <3>1, <3>2, <3>3 DEF Honoured, next
  <2> QED
    BY <2>8, <2>9
<1>6. CASE Provider(c) # "grok"
  <2>1. Foreign(old)
    BY <1>1, <1>6 DEF TokensApart, Grant, old
  <2>2. \A d \in Calls : HasFresh(d)' <=> HasFresh(d)
    BY <1>2, <1>3, <1>6 DEF HasFresh, Provider
  <2>3. \A d \in Calls : HasFresh(d) => fresh'[d] = fresh[d]
    BY <1>3, <1>6 DEF HasFresh
  <2>4. ASSUME NEW n, Foreign(n) PROVE Foreign(n)'
    BY <1>1, <1>2, <1>4, <2>2, <2>3, <2>4 DEF Foreign
  <2>5. ASSUME NEW n, n = issued + 1 PROVE Foreign(n)'
    <3>1. /\ n \in 1 .. issued'
          /\ n # file["grok"].refresh /\ n # bought["grok"].refresh
          /\ \A d \in Calls : HasFresh(d) => n # fresh[d].refresh
      BY <1>1, <1>4, <2>5 DEF TokensApart
    <3> QED
      BY <1>2, <2>2, <2>3, <3>1 DEF Foreign
  <2>6. Foreign(fresh[c].refresh)'
    <3>1. next = old \/ next = issued + 1
      BY <1>1
    <3>2. ASSUME NEW n, n = old PROVE Foreign(n)'
      BY <2>1, <2>4, <3>2
    <3> QED
      BY <2>5, <3>1, <3>2 DEF next
  <2>7. TokensApart'
    <3>1. \A d \in Calls : Provider(d)' # "grok" =>
            /\ (pc[d] = "refresh")' => Foreign(Remembered(d).refresh)'
            /\ (pc[d] \in {"granted", "lock", "save"})' => Foreign(fresh[d].refresh)'
      BY <1>2, <1>3, <2>4, <2>6 DEF TokensApart, Provider, Remembered
    <3>2. \A d \in Calls : HasFresh(d)' => fresh'[d].refresh \in 1 .. issued'
      BY <1>1, <1>4, <2>2, <2>3 DEF TokensApart
    <3> QED
      BY <1>1, <1>2, <1>4, <2>4, <3>1, <3>2 DEF TokensApart
  <2>8. Honoured'
    <3>1. /\ old # file["grok"].refresh /\ old # bought["grok"].refresh
          /\ \A d \in Calls : HasFresh(d) => old # fresh[d].refresh
      BY <2>1 DEF Foreign
    <3> QED
      BY <1>1, <1>2, <2>2, <2>3, <3>1 DEF Honoured
  <2> QED
    BY <2>7, <2>8
<1> QED
  BY <1>5, <1>6

LEMMA SavesKeepGrokInv ==
  ASSUME LInv, "grok" \in Providers, TokensApart, Honoured, NEW c \in Calls,
         Save(c) \/ SaveFails(c)
  PROVE  (TokensApart /\ Honoured)'
<1> USE OAuthTokensAssumption
<1> DEFINE p == Provider(c)
<1>1. pc[c] = "save" /\ fileLock = c /\ profile[c] = file
  BY DEF Save, SaveFails, LInv, WritersLock, Writes
<1>2. UNCHANGED <<SessionOf, memory, issued, grants, login, bought>> /\ lost \subseteq lost'
  BY DEF Save, SaveFails, serverVars, loginVars
<1>3. /\ \A d \in Calls \ {c} : pc'[d] = pc[d] /\ fresh'[d] = fresh[d]
      /\ pc'[c] \in {"post", "over"}
  BY DEF Save, SaveFails, Use, Ends, Forgets, Goes, LInv, Shapes
<1>4. \/ file' = [file EXCEPT ![p] = fresh[c]]
      \/ file' = file /\ file[p].refresh \in lost'
  BY <1>1 DEF Save, SaveFails, Written, fileVars
<1>5. p \in Providers
  BY DEF LInv, Shapes, Provider
<1> HIDE DEF p
<1>6. \A q \in Providers : file'[q] = file[q] \/ (q = p /\ file'[q] = fresh[c])
  BY <1>4, <1>5 DEF LInv, Shapes
<1>7. \A d \in Calls : HasFresh(d) => d = c
  BY <1>1 DEF LInv, WritersLock, Writes, HasFresh
<1>8. \A d \in Calls : ~HasFresh(d)'
  BY <1>2, <1>3, <1>7 DEF HasFresh, Provider
<1>9. HasFresh(c) <=> p = "grok"
  BY <1>1 DEF HasFresh, p
<1>10. ASSUME NEW n, Foreign(n) PROVE Foreign(n)'
  BY <1>2, <1>6, <1>8, <1>9, <1>10 DEF Foreign
<1>11. TokensApart'
  <2>1. file'["grok"].refresh \in 1 .. issued
    BY <1>6, <1>9 DEF TokensApart
  <2>2. p # "grok" => Foreign(fresh[c].refresh)
    BY <1>1 DEF TokensApart, p
  <2>3. \A q \in Providers \ {"grok"} : Foreign(file'[q].refresh)
    BY <1>6, <2>2 DEF TokensApart
  <2>4. \A q \in Providers \ {"grok"} : Foreign(file[q].refresh)' /\ Foreign(bought[q].refresh)'
    BY <1>2, <1>10, <2>3 DEF TokensApart
  <2>5. \A d \in Calls : Provider(d)' # "grok" =>
          /\ (pc[d] = "refresh")' => Foreign(Remembered(d).refresh)'
          /\ (pc[d] \in {"granted", "lock", "save"})' => Foreign(fresh[d].refresh)'
    BY <1>2, <1>3, <1>10 DEF TokensApart, Provider, Remembered
  <2> QED
    BY <1>2, <1>8, <1>10, <2>1, <2>4, <2>5 DEF TokensApart
<1>12. Honoured'
  <2>1. file'["grok"].refresh \in grants \cup lost'
    <3>1. CASE p = "grok"
      <4>1. fresh[c].refresh \in grants
        BY <1>9, <3>1 DEF Honoured
      <4> QED
        BY <1>4, <1>5, <3>1, <4>1 DEF LInv, Shapes
    <3>2. CASE p # "grok"
      BY <1>2, <1>6, <1>7, <1>9, <3>2 DEF Honoured
    <3> QED
      BY <3>1, <3>2
  <2>2. login["grok"] = "bought" => bought["grok"].refresh # file'["grok"].refresh
    BY <1>6, <1>9 DEF Honoured
  <2> QED
    BY <1>2, <1>8, <2>1, <2>2 DEF Honoured
<1> QED
  BY <1>11, <1>12

LEMMA DiesKeepsGrokInv ==
  ASSUME LInv, "grok" \in Providers, TokensApart, Honoured, NEW s \in Sessions, Dies(s)
  PROVE  (TokensApart /\ Honoured)'
<1> USE OAuthTokensAssumption
<1> DEFINE mine == {c \in Calls : SessionOf[c] = s /\ pc[c] \notin {"start", "over"}}
<1>1. UNCHANGED <<SessionOf, file, issued, grants, login, bought>>
  BY DEF Dies, fileVars, serverVars, loginVars
<1>2. /\ memory' = [memory EXCEPT ![s] = FromFile(s)]
      /\ lost' = lost \cup {Grant(c).refresh : c \in {d \in mine : pc[d] \in {"granted", "save"}}}
  BY DEF Dies
<1>3. \A c \in Calls : /\ c \in mine => pc'[c] = "over"
                       /\ c \notin mine => pc'[c] = pc[c] /\ fresh'[c] = fresh[c]
  BY DEF Dies
<1>4. \A c \in Calls : HasFresh(c)' => HasFresh(c) /\ c \notin mine /\ fresh'[c] = fresh[c]
  BY <1>1, <1>3 DEF HasFresh, Provider
<1>5. \A c \in Calls : HasFresh(c) /\ c \notin mine => HasFresh(c)'
  BY <1>1, <1>3 DEF HasFresh, Provider
<1>6. ASSUME NEW n, Foreign(n) PROVE Foreign(n)'
  BY <1>1, <1>4, <1>6 DEF Foreign
<1>7. TokensApart'
  <2>1. \A t \in Sessions : memory'[t] = IF t = s THEN FromFile(s) ELSE memory[t]
    BY <1>2 DEF TokensApart
  <2>2. \/ ProviderOf[s] = "grok"
        \/ ProviderOf[s] = "openai" /\ FromFile(s) = None
        \/ Foreign(FromFile(s).refresh)
    BY DEF TokensApart, FromFile
  <2>3. \A t \in Sessions : \/ ProviderOf[t] = "grok"
                            \/ ProviderOf[t] = "openai" /\ memory'[t] = None
                            \/ Foreign(memory'[t].refresh)
    BY <2>1, <2>2 DEF TokensApart
  <2>4. memory' = [t \in Sessions |-> memory'[t]]
    BY <1>2 DEF TokensApart
  <2>5. ASSUME NEW c \in Calls, Provider(c) # "grok", pc'[c] = "refresh"
        PROVE  Foreign(memory'[SessionOf[c]].refresh)
    <3>1. SessionOf[c] # s /\ pc[c] = "refresh" /\ SessionOf[c] \in Sessions
      BY <1>3, <2>5 DEF LInv, Shapes
    <3> QED
      BY <2>1, <2>5, <3>1 DEF TokensApart, Remembered
  <2>6. \A c \in Calls : Provider(c) # "grok" /\ pc'[c] \in {"granted", "lock", "save"} =>
          Foreign(fresh'[c].refresh)
    BY <1>3 DEF TokensApart
  <2>7. \A c \in Calls : Provider(c)' # "grok" =>
          /\ (pc[c] = "refresh")' => Foreign(Remembered(c).refresh)'
          /\ (pc[c] \in {"granted", "lock", "save"})' => Foreign(fresh[c].refresh)'
    BY <1>1, <1>6, <2>5, <2>6 DEF Provider, Remembered
  <2> QED
    BY <1>1, <1>4, <1>6, <2>3, <2>4, <2>7 DEF TokensApart
<1>8. Honoured'
  <2>1. ASSUME NEW c \in mine, HasFresh(c) PROVE file["grok"].refresh \in lost'
    <3>1. profile[c] = file
      BY <2>1 DEF LInv, WritersLock, Writes, HasFresh
    <3>2. Grant(c).refresh = file["grok"].refresh
      BY <2>1, <3>1 DEF HasFresh, Grant
    <3> QED
      BY <1>2, <2>1, <3>2 DEF HasFresh
  <2>2. file["grok"].refresh \in grants \cup lost' \/ \E c \in Calls : HasFresh(c)'
    BY <1>2, <1>5, <2>1 DEF Honoured
  <2> QED
    BY <1>1, <1>4, <2>2 DEF Honoured
<1> QED
  BY <1>7, <1>8

LEMMA LoginsKeepGrokInv ==
  ASSUME LInv, "grok" \in Providers, TokensApart, Honoured,
         NEW p \in Providers, LoginBuys(p) \/ LoginSaves(p)
  PROVE  (TokensApart /\ Honoured)'
<1> USE OAuthTokensAssumption
<1>1. UNCHANGED <<SessionOf, memory, pc, profile, fresh, lost>>
  BY DEF LoginBuys, LoginSaves, callVars
<1>2. \A c \in Calls : HasFresh(c)' <=> HasFresh(c)
  BY <1>1 DEF HasFresh, Provider
<1>3. issued \in Nat
  BY DEF TokensApart
<1>4. CASE LoginBuys(p)
  <2>1. /\ issued' = issued + 1 /\ grants' = grants \cup {issued + 1} /\ file' = file
        /\ login' = [login EXCEPT ![p] = "bought"] /\ bought'[p].refresh = issued + 1
        /\ \A q \in Providers \ {p} : bought'[q] = bought[q]
    BY <1>4 DEF LoginBuys, LInv, Shapes, fileVars
  <2>2. ASSUME NEW n, Foreign(n) PROVE Foreign(n)'
    BY <1>1, <1>2, <1>3, <2>1, <2>2 DEF Foreign
  <2>3. ASSUME NEW n, n = issued + 1, p # "grok" PROVE Foreign(n)'
    BY <1>1, <1>2, <1>3, <2>1, <2>3 DEF Foreign, TokensApart
  <2>4. \A q \in Providers \ {"grok"} : Foreign(file[q].refresh)' /\ Foreign(bought[q].refresh)'
    BY <2>1, <2>2, <2>3 DEF TokensApart
  <2>5. /\ (file["grok"].refresh \in 1 .. issued)' /\ (bought["grok"].refresh \in 1 .. issued)'
        /\ \A c \in Calls : HasFresh(c)' => (fresh[c].refresh \in 1 .. issued)'
    BY <1>1, <1>2, <1>3, <2>1 DEF TokensApart
  <2>6. TokensApart'
    BY <1>1, <1>3, <2>1, <2>2, <2>4, <2>5 DEF TokensApart, Provider, Remembered
  <2>7. Honoured'
    <3>1. p = "grok" => /\ bought'["grok"].refresh # file["grok"].refresh
                        /\ \A c \in Calls : HasFresh(c) => fresh[c].refresh # issued + 1
      BY <1>3, <2>1 DEF TokensApart
    <3>2. p # "grok" => login'["grok"] = login["grok"] /\ bought'["grok"] = bought["grok"]
      BY <2>1 DEF LInv, Shapes
    <3> QED
      BY <1>1, <1>2, <2>1, <3>1, <3>2 DEF Honoured
  <2> QED
    BY <2>6, <2>7
<1>5. CASE LoginSaves(p)
  <2>1. /\ UNCHANGED <<bought, issued, grants>> /\ login[p] = "bought" /\ login'[p] = "over"
        /\ \A q \in Providers \ {p} : file'[q] = file[q] /\ login'[q] = login[q]
        /\ file'[p] = bought[p] /\ fileLock = None
    BY <1>5 DEF LoginSaves, LInv, Shapes, serverVars
  <2>2. \A c \in Calls : ~HasFresh(c)
    BY <2>1 DEF LInv, WritersLock, Writes, HasFresh
  <2>3. ASSUME NEW n, Foreign(n) PROVE Foreign(n)'
    BY <1>2, <2>1, <2>2, <2>3 DEF Foreign
  <2>4. \A q \in Providers \ {"grok"} : Foreign(file[q].refresh)' /\ Foreign(bought[q].refresh)'
    BY <2>1, <2>3 DEF TokensApart
  <2>5. file'["grok"].refresh \in 1 .. issued
    BY <2>1 DEF TokensApart
  <2>6. TokensApart'
    BY <1>1, <1>2, <2>1, <2>2, <2>3, <2>4, <2>5 DEF TokensApart, Provider, Remembered
  <2>7. Honoured'
    BY <1>1, <1>2, <2>1, <2>2 DEF Honoured
  <2> QED
    BY <2>6, <2>7
<1> QED
  BY <1>4, <1>5

LEMMA GrokInvSteps == LInv /\ LoginInv /\ GrokInv /\ [Next]_vars => GrokInv'
<1> SUFFICES ASSUME LInv, LoginInv, TokensApart, Honoured, "grok" \in Providers, [Next]_vars
             PROVE  (TokensApart /\ Honoured)'
  BY DEF GrokInv
<1>1. ASSUME UNCHANGED <<SessionOf, file, memory, pc, profile, fresh, issued, grants, login,
                         bought, lost>>
      PROVE  (TokensApart /\ Honoured)'
  <2>1. /\ \A c \in Calls : HasFresh(c)' <=> HasFresh(c)
        /\ \A n : Foreign(n)' <=> Foreign(n)
    BY <1>1 DEF Foreign, HasFresh, Provider
  <2>2. TokensApart'
    BY <1>1, <2>1 DEF TokensApart, Provider, Remembered
  <2>3. Honoured'
    BY <1>1, <2>1 DEF Honoured
  <2> QED
    BY <2>2, <2>3
<1>2. ASSUME NEW c \in Calls, CallNext(c) PROVE (TokensApart /\ Honoured)'
  BY <1>2, QuietCallKeepsGrokInv, GrantsKeepsGrokInv, SavesKeepGrokInv DEF CallNext
<1>3. CASE \E s \in Sessions : Dies(s)
  BY <1>3, DiesKeepsGrokInv
<1>4. CASE \E n \in 1 .. issued : Ages(n) \/ Revoked(n)
  BY <1>1, <1>4 DEF Ages, Revoked, fileVars, callVars, loginVars
<1>5. CASE \E p \in Providers : LoginBuys(p) \/ LoginSaves(p)
  BY <1>5, LoginsKeepGrokInv
<1>6. CASE UNCHANGED vars
  BY <1>1, <1>6 DEF vars, fileVars, callVars, serverVars, loginVars
<1> QED
  BY <1>2, <1>3, <1>4, <1>5, <1>6 DEF Next, OutsideNext, Over

\* "separate Mobilerun processes cannot rotate the same refresh token concurrently"
\* (GrokOAuthSessionManager.get_valid_credentials): the refresh token in the file
\* is honoured, is being replaced by the holder of the file lock, or its successor
\* was lost with a process, an answer or a disk.
THEOREM GrokTokenIsHonouredHolds == Spec => []GrokTokenIsHonoured
<1>1. LInv /\ GrokInv => GrokTokenIsHonoured
  <2> SUFFICES ASSUME LInv, TokensApart, Honoured, "grok" \in Providers,
                      NEW c \in Calls, HasFresh(c)
               PROVE  /\ fileLock # None /\ Provider(fileLock) = "grok"
                      /\ pc[fileLock] \in {"granted", "save"}
                      /\ Grant(fileLock).refresh = file["grok"].refresh
    BY DEF GrokInv, GrokTokenIsHonoured, Honoured
  <2>1. fileLock = c /\ profile[c] = file
    BY DEF LInv, WritersLock, Writes, HasFresh
  <2> QED
    BY <2>1, OAuthTokensAssumption DEF HasFresh, Grant
<1> QED
  BY <1>1, LInvInit, LInvIsInductive, LoginInvInit, LoginInvSteps, GrokInvInit, GrokInvSteps, PTL
  DEF Spec

-----------------------------------------------------------------------------
(* One login: OAuthLogin.                                                  *)

LoginTypes ==
  /\ now \in Nat /\ until \in Nat /\ deadline \in Nat /\ expires \in Nat
  /\ interval \in Nat /\ tries \in Nat /\ spent \in Nat /\ savedAt \in Nat
  /\ stage \in Waiting \cup {"start", "request", "poll", "exchange", "verify", "save",
                             "writing", "closing", "over"}
  /\ entitled \in BOOLEAN /\ hiccup \in BOOLEAN
  /\ listener \in {"open", "closed"} /\ callback \in Callbacks \cup {Nil}
  /\ code \in {Nil, "code", "stray"} /\ credentials \in {"old", "new"}
  /\ outcome \in {Nil, "ok", "failed", "timeout"}

\* While a login goes on nothing is saved, and nobody was told anything.
Undecided ==
  /\ stage \notin {"closing", "over"} => credentials = "old" /\ outcome = Nil
  /\ stage \in {"verify", "verifying", "save", "writing"} => code = "code"
  /\ stage \in {"save", "writing"} /\ provider = "gemini" => entitled
  /\ stage \in {"request", "requesting", "request_pause", "poll", "polling", "pause"} =>
       provider # "gemini"
  /\ Shared => deadline <= Budget

LoginIInv == LoginTypes /\ Undecided /\ OutcomeIsTrue

LEMMA LoginConstants ==
  /\ Budget \in Nat /\ Cap \in Nat /\ Interval \in Nat /\ SlowDown \in Nat /\ Backoff \in Nat
  /\ MAX_CODE_ATTEMPTS \in Nat /\ LoginRetries \in Nat /\ MaxInterval \in Nat /\ MaxLate \in Nat
  /\ Expiries \subseteq Nat /\ Forever \in Nat /\ Budget <= Forever
<1>1. \A x \in {Budget, Cap, Interval, SlowDown, Backoff, MAX_CODE_ATTEMPTS} : x \in Nat
  BY OAuthLoginAssumption
<1>2. \A x \in {LoginRetries, MaxInterval, MaxLate} : x \in Nat
  BY OAuthLoginAssumption
<1>3. Budget \in Nat /\ Cap \in Nat /\ MaxLate \in Nat
  BY <1>1, <1>2
<1>4. Forever \in Nat /\ Budget <= Forever
  BY <1>3 DEF Forever
<1> QED BY <1>1, <1>2, <1>4, OAuthLoginAssumption

LEMMA LoginInitInvariant == NoLogin /\ stage \in {"start", "over"} => LoginIInv
<1> SUFFICES ASSUME NoLogin, stage \in {"start", "over"} PROVE LoginIInv
  OBVIOUS
<1>1. deadline = IF Shared THEN Budget ELSE Forever
  BY DEF NoLogin
<1>2. deadline \in Nat /\ (Shared => deadline <= Budget)
  BY <1>1, LoginConstants
<1>3. LoginTypes
  BY <1>2, LoginConstants DEF NoLogin, LoginTypes
<1>4. Undecided /\ OutcomeIsTrue
  BY <1>2 DEF NoLogin, Undecided, OutcomeIsTrue, Nil
<1> QED BY <1>3, <1>4 DEF LoginIInv

\* What ends a login before its token was saved: nothing was.
LEMMA LeftEmpty ==
  ASSUME LoginIInv, stage \notin {"closing", "over"}, NEW how \in {"failed", "timeout"}, Leave(how),
         UNCHANGED <<provider, now, deadline, credentials, hiccup, savedAt, entitled, code>>,
         UNCHANGED <<listener, callback, expires, spent>>,
         until' \in Nat, interval' \in Nat, tries' \in Nat
  PROVE  LoginIInv'
<1>1. stage' \in {"closing", "over"} /\ outcome' = how
  BY DEF Leave
<1>2. LoginTypes'
  BY <1>1 DEF LoginIInv, LoginTypes
<1>3. Undecided' /\ OutcomeIsTrue'
  BY <1>1 DEF LoginIInv, Undecided, OutcomeIsTrue, Shared
<1> QED BY <1>2, <1>3 DEF LoginIInv

\* What goes on keeps what has to be so while a login goes on.
LEMMA GoesOn ==
  ASSUME LoginIInv, stage \notin {"closing", "over"},
         UNCHANGED <<outcome, provider, credentials, hiccup, savedAt>>,
         LoginTypes', Undecided', stage' \notin {"closing", "over"}
  PROVE  LoginIInv'
BY DEF LoginIInv, Undecided, OutcomeIsTrue, Nil

LEMMA LoginNextInvariant == LoginIInv /\ [LoginNext]_flowVars => LoginIInv'
<1> SUFFICES ASSUME LoginIInv, [LoginNext]_flowVars PROVE LoginIInv'
  OBVIOUS
<1> USE LoginConstants
<1>a. LoginTypes /\ Undecided
  BY DEF LoginIInv
<1>b. \A a \in Nat, b \in Nat : Least(a, b) \in Nat /\ Least(a, b) <= a /\ Least(a, b) <= b
  BY DEF Least
<1>c. \A x \in Nat : Remaining(x) \in Nat
  BY <1>a, <1>b DEF Remaining, LoginTypes
<1>1. CASE UNCHANGED flowVars
  BY <1>1 DEF flowVars, clockVars, pollVars, codeVars, savedVars, LoginIInv, LoginTypes, Undecided,
     OutcomeIsTrue, Shared
<1>2. CASE StartBrowser \/ Callback
  BY <1>2 DEF StartBrowser, Callback, clockVars, pollVars, savedVars, LoginIInv, LoginTypes,
     Undecided, OutcomeIsTrue, Shared, Waiting
<1>3. CASE CallbackTaken
  <2>1. CASE Late \/ callback # "code"
    <3>1. PICK how \in {"failed", "timeout"} : Leave(how)
      BY <1>3, <2>1 DEF CallbackTaken
    <3> QED BY <1>3, <1>a, <2>1, <3>1, LeftEmpty
               DEF CallbackTaken, clockVars, pollVars, savedVars, LoginTypes
  <2>2. CASE ~(Late \/ callback # "code")
    <3>1. LoginTypes' /\ Undecided'
      BY <1>3, <1>a, <2>2
         DEF CallbackTaken, clockVars, pollVars, savedVars, LoginTypes, Undecided, Shared, Waiting
    <3> QED BY <1>3, <2>2, <3>1, GoesOn DEF CallbackTaken, clockVars, savedVars
  <2> QED BY <2>1, <2>2
<1>4. CASE NoCallback \/ Preflight \/ NothingPasted \/ Denied \/ RequestFails
  <2>1. PICK how \in {"failed", "timeout"} : Leave(how)
    BY <1>4 DEF NoCallback, Preflight, NothingPasted, Denied, RequestFails
  <2> QED BY <1>4, <1>a, <2>1, LeftEmpty
             DEF NoCallback, Preflight, NothingPasted, Denied, RequestFails, 
     clockVars, pollVars, codeVars, savedVars, LoginTypes
<1>5. CASE FallBack
  <2>1. LoginTypes' /\ Undecided'
    BY <1>5, <1>a
       DEF FallBack, clockVars, pollVars, codeVars, savedVars, LoginTypes, Undecided, Shared,
           Waiting
  <2> QED BY <1>5, <2>1, GoesOn DEF FallBack, clockVars, savedVars
<1>6. CASE PasteCode
  <2>1. tries' \in Nat
    BY <1>6, <1>a DEF PasteCode, LoginTypes
  <2>2. CASE \E how \in {"failed", "timeout"} : Leave(how) /\ UNCHANGED code
    BY <1>6, <1>a, <2>1, <2>2, LeftEmpty DEF PasteCode, clockVars, savedVars, LoginTypes
  <2>3. CASE /\ stage' \in {"exchange", "manual"} /\ UNCHANGED outcome
             /\ code' \in {Nil, "code", "stray"}
    <3>1. LoginTypes' /\ Undecided'
      BY <1>6, <1>a, <2>1, <2>3
         DEF PasteCode, clockVars, savedVars, LoginTypes, Undecided, Shared, Waiting
    <3> QED BY <1>6, <2>3, <3>1, GoesOn DEF PasteCode, clockVars, savedVars
  <2> QED BY <1>6, <1>a, <2>2, <2>3 DEF PasteCode, LoginTypes
<1>7. CASE RequestDeviceCode \/ Exchange \/ Verify
  <2>1. CASE Late
    <3>1. Leave("timeout") /\ until' = until
      BY <1>7, <2>1 DEF RequestDeviceCode, Exchange, Verify
    <3> QED BY <1>7, <1>a, <2>1, <3>1, LeftEmpty
               DEF RequestDeviceCode, Exchange, Verify, clockVars, pollVars, codeVars, savedVars,
                   LoginTypes
  <2>2. CASE ~Late
    <3>1. LoginTypes' /\ Undecided'
      BY <1>7, <1>a, <1>c, <2>2
         DEF RequestDeviceCode, Exchange, Verify, clockVars, pollVars, codeVars, savedVars,
             LoginTypes, Undecided, Shared, Waiting
    <3> QED BY <1>7, <2>2, <3>1, GoesOn
               DEF RequestDeviceCode, Exchange, Verify, clockVars, savedVars
  <2> QED BY <2>1, <2>2
<1>8. CASE NoDeviceCode
  <2>1. CASE Late \/ ~(provider = "openai" /\ tries < LoginRetries)
    <3>1. PICK how \in {"failed", "timeout"} : Leave(how) /\ UNCHANGED <<until, tries>>
      BY <1>8, <2>1 DEF NoDeviceCode, Unanswered
    <3> QED BY <1>8, <1>a, <3>1, LeftEmpty
               DEF NoDeviceCode, clockVars, codeVars, savedVars, LoginTypes
  <2>2. CASE ~Late /\ provider = "openai" /\ tries < LoginRetries
    <3>1. /\ stage' = "request_pause" /\ until' = Remaining(Backoff) /\ tries' = tries + 1
          /\ UNCHANGED outcome
      BY <1>8, <2>2 DEF NoDeviceCode, Unanswered
    <3>2. LoginTypes' /\ Undecided'
      BY <1>8, <1>a, <1>c, <2>2, <3>1
         DEF NoDeviceCode, clockVars, codeVars, savedVars, LoginTypes, Undecided, Shared, Waiting
    <3> QED BY <1>8, <3>1, <3>2, GoesOn DEF NoDeviceCode, clockVars, savedVars
  <2> QED BY <2>1, <2>2
<1>9. CASE DeviceCode
  <2>1. CASE Late
    BY <1>9, <1>a, <2>1, LeftEmpty DEF DeviceCode, clockVars, codeVars, savedVars, LoginTypes
  <2>2. CASE ~Late
    <3>1. PICK lifetime \in Expiries :
            /\ expires' = now + lifetime
            /\ deadline' = LimitedTo(lifetime)
            /\ IF provider = "cloud"
               THEN stage' = "pause" /\ until' = now + interval
               ELSE stage' = "poll" /\ UNCHANGED until
            /\ UNCHANGED outcome
      BY <1>9, <2>2 DEF DeviceCode
    <3>2. now + lifetime \in Nat /\ until' \in Nat
      BY <1>a, <3>1 DEF LoginTypes
    <3>3. deadline' \in Nat /\ deadline' <= deadline
      BY <1>a, <1>b, <3>1, <3>2 DEF LimitedTo, LoginTypes
    <3>4. LoginTypes'
      BY <1>9, <1>a, <3>1, <3>2, <3>3
         DEF DeviceCode, clockVars, codeVars, savedVars, LoginTypes, Waiting
    <3>5. Undecided'
      BY <1>9, <1>a, <3>1, <3>3
         DEF DeviceCode, clockVars, codeVars, savedVars, LoginTypes, Undecided, Shared
    <3> QED BY <1>9, <3>1, <3>4, <3>5, GoesOn DEF DeviceCode, clockVars, savedVars
  <2> QED BY <2>1, <2>2
<1>10. CASE Poll
  <2>1. CASE Late /\ Shared
    BY <1>10, <1>a, <2>1, LeftEmpty DEF Poll, clockVars, codeVars, savedVars, LoginTypes
  <2>2. CASE ~(Late /\ Shared)
    <3>1. until' \in Nat
      BY <1>10, <1>a, <1>c, <2>2 DEF Poll, LoginTypes
    <3>2. LoginTypes' /\ Undecided'
      BY <1>10, <1>a, <2>2, <3>1
         DEF Poll, clockVars, codeVars, savedVars, LoginTypes, Undecided, Shared, Waiting
    <3> QED BY <1>10, <2>2, <3>2, GoesOn DEF Poll, clockVars, savedVars
  <2> QED BY <2>1, <2>2
<1>d. ASSUME NEW length \in Nat, Pause(length), stage = "polling", interval' \in Nat, tries' \in Nat,
             UNCHANGED <<clockVars, deadline, expires, codeVars, savedVars>>
      PROVE  LoginIInv'
  <2>1. CASE stage' # "pause"
    <3>1. PICK how \in {"failed", "timeout"} : Leave(how) /\ UNCHANGED until
      BY <1>d, <2>1 DEF Pause
    <3> QED BY <1>a, <1>d, <3>1, LeftEmpty DEF clockVars, codeVars, savedVars, LoginTypes
  <2>2. CASE stage' = "pause"
    <3>1. UNCHANGED outcome /\ until' = IF Shared THEN Remaining(length) ELSE now + length
      BY <1>d, <2>2 DEF Pause, Leave
    <3>2. until' \in Nat
      BY <1>a, <1>c, <3>1 DEF LoginTypes
    <3>3. LoginTypes' /\ Undecided'
      BY <1>a, <1>d, <2>2, <3>1, <3>2
         DEF clockVars, codeVars, savedVars, LoginTypes, Undecided, Shared, Waiting
    <3> QED BY <1>d, <2>2, <3>1, <3>3, GoesOn DEF clockVars, savedVars
  <2> QED BY <2>1, <2>2
<1>11. CASE NotYet
  <2>1. interval' \in Nat /\ tries' \in Nat
    BY <1>11, <1>a DEF NotYet, LoginTypes
  <2> QED BY <1>11, <1>d, <2>1 DEF NotYet
<1>12. CASE PollFails
  <2>1. CASE \E length \in Nat : Pause(length) /\ tries' \in {tries, tries + 1}
    BY <1>12, <1>a, <1>d, <2>1 DEF PollFails, LoginTypes
  <2>2. CASE \E how \in {"failed", "timeout"} : Leave(how) /\ UNCHANGED <<until, tries>>
    BY <1>12, <1>a, <2>2, LeftEmpty DEF PollFails, clockVars, codeVars, savedVars, LoginTypes
  <2> QED BY <1>12, <1>a, <2>1, <2>2 DEF PollFails, LoginTypes
<1>13. CASE Approved
  <2>1. CASE Late /\ Shared
    BY <1>13, <1>a, <2>1, LeftEmpty DEF Approved, clockVars, pollVars, savedVars, LoginTypes
  <2>2. CASE ~(Late /\ Shared)
    <3>1. LoginTypes' /\ Undecided'
      BY <1>13, <1>a, <2>2
         DEF Approved, clockVars, pollVars, savedVars, LoginTypes, Undecided, Shared
    <3> QED BY <1>13, <2>2, <3>1, GoesOn DEF Approved, clockVars, savedVars
  <2> QED BY <2>1, <2>2
<1>14. CASE PauseEnds
  <2>1. CASE Late /\ Shared
    BY <1>14, <1>a, <2>1, LeftEmpty
       DEF PauseEnds, clockVars, pollVars, codeVars, savedVars, LoginTypes
  <2>2. CASE ~(Late /\ Shared)
    <3>1. LoginTypes' /\ Undecided'
      BY <1>14, <1>a, <2>2
         DEF PauseEnds, clockVars, pollVars, codeVars, savedVars, LoginTypes, Undecided, Shared
    <3> QED BY <1>14, <2>2, <3>1, GoesOn DEF PauseEnds, clockVars, savedVars
  <2> QED BY <2>1, <2>2
<1>15. CASE Exchanged \/ Verified
  <2>1. CASE Late
    BY <1>15, <1>a, <2>1, LeftEmpty
       DEF Exchanged, Verified, clockVars, pollVars, codeVars, savedVars, LoginTypes
  <2>2. CASE ~Late
    <3>1. LoginTypes' /\ Undecided'
      BY <1>15, <1>a, <2>2
         DEF Exchanged, Verified, clockVars, pollVars, codeVars, savedVars, LoginTypes, Undecided,
             Shared
    <3> QED BY <1>15, <2>2, <3>1, GoesOn DEF Exchanged, Verified, clockVars, savedVars
  <2> QED BY <2>1, <2>2
<1>16. CASE LockProfile
  <2>1. CASE Late /\ Shared
    BY <1>16, <1>a, <2>1, LeftEmpty
       DEF LockProfile, clockVars, pollVars, codeVars, savedVars, LoginTypes
  <2>2. CASE ~(Late /\ Shared)
    <3>1. LoginTypes' /\ Undecided'
      BY <1>16, <1>a, <2>2
         DEF LockProfile, clockVars, pollVars, codeVars, savedVars, LoginTypes, Undecided, Shared
    <3> QED BY <1>16, <2>2, <3>1, GoesOn DEF LockProfile, clockVars, savedVars
  <2> QED BY <2>1, <2>2
<1>17. CASE Commit
  <2>1. CASE Late /\ Shared
    BY <1>17, <1>a, <2>1, LeftEmpty DEF Commit, clockVars, pollVars, codeVars, LoginTypes
  <2>2. CASE ~(Late /\ Shared)
    <3>1. /\ credentials' = "new" /\ savedAt' = now /\ hiccup' \in BOOLEAN
          /\ outcome' = (IF hiccup' THEN "failed" ELSE "ok") /\ stage' \in {"closing", "over"}
          /\ UNCHANGED <<clockVars, until, deadline, expires, pollVars, codeVars, entitled>>
      BY <1>17, <2>2 DEF Commit, Leave
    <3>2. Shared => now < Budget
      BY <1>a, <2>2 DEF Late, Undecided, LoginTypes
    <3>3. code = "code" /\ (provider = "gemini" => entitled)
      BY <1>17, <1>a DEF Commit, Undecided
    <3>4. LoginTypes'
      BY <1>a, <3>1 DEF clockVars, pollVars, codeVars, LoginTypes
    <3>5. Undecided' /\ OutcomeIsTrue'
      BY <1>a, <3>1, <3>2, <3>3 DEF clockVars, codeVars, Undecided, OutcomeIsTrue, Shared
    <3> QED BY <3>4, <3>5 DEF LoginIInv
  <2> QED BY <2>1, <2>2
<1>18. CASE WriteFails
  BY <1>18, <1>a, LeftEmpty DEF WriteFails, clockVars, pollVars, codeVars, savedVars, LoginTypes
<1>19. CASE CloseListener
  BY <1>19 DEF CloseListener, clockVars, pollVars, savedVars, LoginIInv, LoginTypes, Undecided,
     OutcomeIsTrue, Shared
<1>20. CASE Tick
  <2>1. now' = now + 1 /\ stage \notin {"closing", "over"}
    BY <1>20 DEF Tick, Waiting
  <2>2. LoginTypes' /\ Undecided'
    BY <1>20, <1>a, <2>1
       DEF Tick, clockVars, pollVars, codeVars, savedVars, LoginTypes, Undecided, Shared
  <2> QED BY <1>20, <2>1, <2>2, GoesOn DEF Tick, savedVars
<1> QED
  BY <1>1, <1>2, <1>3, <1>4, <1>5, <1>6, <1>7, <1>8, <1>9, <1>10, <1>11, <1>12, <1>13, <1>14,
     <1>15, <1>16, <1>17, <1>18, <1>19, <1>20
     DEF LoginNext, LoginProceeds, UserNext, LoginOver, StartNext, BrowserNext, DeviceNext, TokenNext

-----------------------------------------------------------------------------
(* The wizard: Configure.                                                  *)

Known == DOMAIN Hosted \cup DOMAIN Compatible
Variants ==
  ByLogin \cup {"GoogleGenAI", "OpenAIResponses", "Anthropic", "XAI", "Ollama", "OpenAILike",
                "MiniMax", "ZAI", "ZAI_Coding"}

IsConfig(c) ==
  c = [version |-> c.version, variant |-> c.variant, source |-> c.source, key |-> c.key,
       model |-> c.model, temp |-> c.temp, cloned |-> c.cloned]

IsSelection(s) ==
  s = [family |-> s.family, variant |-> s.variant, model |-> s.model, key |-> s.key,
       source |-> s.source, url |-> s.url, last |-> s.last, prepared |-> s.prepared]

\* A run of the config uses what was chosen for it, and finds it by the slot.
Serves(c, choice) ==
  choice # NoKey =>
    /\ c.version = 8 /\ c.variant \in Variants
    /\ c.variant # "OpenAILike" => c.key = NoKey
    /\ Client(c) = choice

\* The exported keys are those of the user until the wizard exports the saved.
KeysShared == env = shell \/ env = api_keys

\* What is applied is a variant of the catalog, with its login if it needs one.
SelectionFits ==
  /\ IsSelection(sel)
  /\ sel.family \in Known \cup {Nil} /\ flags.family \in Known \cup {Nil}
  /\ at = "mode" => sel.family # Nil
  /\ at \in {"model", "credentials", "key", "url", "login", "sign_in", "apply"} =>
       sel.variant \in Variants
  /\ sel.prepared # Nil => sel.prepared \in creds
  /\ at = "apply" /\ sel.variant \in ByLogin => sel.variant \in creds

ConfigsFit ==
  /\ IsConfig(cfg) /\ IsConfig(config) /\ cfg.version = 8
  /\ Fits(cfg) /\ Fits(config)

SetupIInv ==
  KeysShared /\ SelectionFits /\ ConfigsFit /\ Serves(config, promise) /\ Serves(cfg, meant)

LEMMA KnownVariants == \A f \in Known : VariantsOf(f) \subseteq Variants
<1> SUFFICES ASSUME NEW f \in Known PROVE VariantsOf(f) \subseteq Variants
  OBVIOUS
<1>1. f \in DOMAIN Hosted => VariantsOf(f) = {Hosted[f][i] : i \in DOMAIN Hosted[f]}
  BY DEF VariantsOf
<1>2. f \notin DOMAIN Hosted => VariantsOf(f) = {Compatible[f][i] : i \in DOMAIN Compatible[f]}
  BY DEF VariantsOf
<1>3. f \in {"gemini", "openai", "anthropic", "xai", "ollama", "openai_like", "minimax", "zai"}
  BY DEF Known, Hosted, Compatible
<1>4. CASE f \in {"gemini", "openai", "anthropic", "xai"}
  <2>1. \A i \in DOMAIN Hosted[f] : Hosted[f][i] \in Variants
    BY <1>4 DEF Hosted, Variants, ByLogin
  <2>2. f \in DOMAIN Hosted
    BY <1>4 DEF Hosted
  <2> QED BY <1>1, <2>1, <2>2
<1>5. CASE f \in {"ollama", "openai_like", "minimax", "zai"}
  <2>1. \A i \in DOMAIN Compatible[f] : Compatible[f][i] \in Variants
    BY <1>5 DEF Compatible, Variants
  <2>2. f \notin DOMAIN Hosted
    BY <1>5 DEF Hosted
  <2> QED BY <1>2, <2>1, <2>2
<1> QED BY <1>3, <1>4, <1>5

\* Both sides find the key of a provider in the same slot.
LEMMA SlotsAgree ==
  /\ \A v \in Variants : ProfileSlot(v) = SlotOf(v)
  /\ \A v \in Variants \ (ByLogin \cup {"Ollama", "OpenAILike"}) :
       SlotOf(v) \in Slots /\ SlotOf(v) # Nil
  /\ \A v \in ByLogin \cup {"Ollama", "OpenAILike"} : SlotOf(v) = Nil
BY DEF Variants, ByLogin, ProfileSlot, SlotOf, Transport, Slots, Nil

\* What a selection brings, and what has become of the keys, is what a run finds.
LEMMA AppliedServes ==
  ASSUME SelectionFits, SaveKeys, at = "apply", UNCHANGED <<shell, creds>>,
         NEW m, NEW c, c = Profile(sel.variant, m, cfg)
  PROVE  /\ IsConfig(c) /\ c.version = 8 /\ Fits(c)
         /\ Choice(c) # NoKey =>
              /\ c.variant \in Variants
              /\ c.variant # "OpenAILike" => c.key = NoKey
              /\ Client(c)' = Choice(c)
<1> DEFINE v == sel.variant
           s == SlotOf(v)
<1>1. /\ c.version = 8 /\ c.variant = v /\ c.model = m
      /\ c.source = IF sel.source = Nil THEN "auto" ELSE sel.source
      /\ c.key = IF v = "OpenAILike" THEN FirstKey(sel.key, <<"stub">>) ELSE NoKey
      /\ c.temp = [r \in Roles |-> Normalized(v, cfg.temp[r])]
  BY DEF Profile
<1>2. IsConfig(c)
  BY DEF Profile, IsConfig
<1>3. Fits(c)
  <2> SUFFICES ASSUME v = "MiniMax", NEW r \in Roles PROVE Normalized(v, cfg.temp[r]) \in 1..10
    BY <1>1 DEF Fits
  <2> QED BY DEF Normalized
<1>4. v \in Variants /\ (v \in ByLogin => v \in creds)
  BY DEF SelectionFits, IsSelection
<1>5. ASSUME Choice(c) # NoKey PROVE Client(c)' = Choice(c)
  <2>1. Accepts(v, m)
    BY <1>1, <1>5 DEF Choice
  <2>2. CASE v \in ByLogin
    BY <1>1, <1>4, <2>1, <2>2 DEF Client, Choice, ByLogin
  <2>3. CASE v \notin ByLogin /\ v = "Ollama"
    BY <1>1, <2>1, <2>3 DEF Client, Choice
  <2>4. CASE v \notin ByLogin /\ v = "OpenAILike"
    <3>1. Choice(c) = c.key
      BY <1>1, <2>1, <2>4 DEF Choice
    <3>2. Client(c)' = KeyFound(c)'
      BY <1>1, <2>1, <2>4 DEF Client
    <3> QED BY <1>5, <3>1, <3>2 DEF KeyFound
  <2>5. CASE v \notin ByLogin \cup {"Ollama", "OpenAILike"}
    <3>1. s # Nil /\ s \in Slots /\ ProfileSlot(v) = s
      BY <1>4, <2>5, SlotsAgree
    <3>2. /\ Choice(c) = sel.key /\ sel.key # NoKey
          /\ Saves => api_keys'[s] = sel.key
          /\ c.source = "env" => shell[s] = sel.key
      BY <1>1, <1>5, <2>1, <2>5 DEF Choice
    <3>3. Client(c)' = KeyFound(c)'
      BY <1>1, <2>1, <2>5 DEF Client
    <3>4. c.source # "env" => api_keys'[s] = sel.key
      BY <1>1, <3>1, <3>2 DEF Saves, Nil
    <3>5. c.key = NoKey
      BY <1>1, <2>5
    <3> QED BY <1>1, <3>1, <3>2, <3>3, <3>4, <3>5 DEF KeyFound, FirstKey
  <2> QED BY <2>2, <2>3, <2>4, <2>5
<1>6. v # "OpenAILike" => c.key = NoKey
  BY <1>1
<1> QED BY <1>1, <1>2, <1>3, <1>4, <1>5, <1>6

\* Saving a key changes nothing for the other configs, but renews the key of
\* those that read its slot.
LEMMA RenewedServes ==
  ASSUME KeysShared, SaveKeys, UNCHANGED <<shell, creds>>, NEW c, NEW choice, Serves(c, choice)
  PROVE  Renewed(c, choice) # NoKey =>
           /\ c.version = 8 /\ c.variant \in Variants
           /\ c.variant # "OpenAILike" => c.key = NoKey
           /\ Client(c)' = Renewed(c, choice)
<1> SUFFICES ASSUME Renewed(c, choice) # NoKey
             PROVE  choice # NoKey /\ Client(c)' = Renewed(c, choice)
  BY DEF Serves
<1>1. choice # NoKey
  BY DEF Renewed
<1>2. /\ c.variant \in Variants /\ Client(c) = choice
      /\ c.variant # "OpenAILike" => c.key = NoKey
  BY <1>1 DEF Serves
<1> DEFINE s == SlotOf(c.variant)
<1>3. Accepts(c.variant, c.model)
  BY <1>1, <1>2 DEF Client
<1>4. CASE api_keys' = api_keys
  <2>1. Renewed(c, choice) = choice
    BY <1>4 DEF Renewed
  <2>2. Client(c)' = Client(c)
    BY <1>4 DEF Client, KeyFound
  <2> QED BY <1>1, <1>2, <2>1, <2>2
<1>5. CASE api_keys' # api_keys /\ c.variant \in ByLogin \cup {"Ollama", "OpenAILike"}
  <2>1. s = Nil /\ ProfileSlot(c.variant) = Nil
    BY <1>2, <1>5, SlotsAgree
  <2>2. Saves
    BY <1>5 DEF SaveKeys
  <2>3. Renewed(c, choice) = choice
    BY <2>1, <2>2 DEF Renewed, Saves
  <2>4. Client(c)' = Client(c)
    BY <1>5, <2>1 DEF Client, KeyFound
  <2> QED BY <1>1, <1>2, <2>3, <2>4
<1>6. CASE api_keys' # api_keys /\ c.variant \notin ByLogin \cup {"Ollama", "OpenAILike"}
  <2>1. s # Nil /\ s \in Slots /\ ProfileSlot(c.variant) = s
    BY <1>2, <1>6, SlotsAgree
  <2>2. Saves /\ api_keys' = Stored /\ sel.key # NoKey
    BY <1>6 DEF SaveKeys, Saves
  <2>3. api_keys'[s] = IF s = SlotOf(sel.variant) THEN sel.key ELSE FirstKey(api_keys[s], env[s])
    BY <2>1, <2>2 DEF Stored, Either
  <2>4. Client(c) = KeyFound(c) /\ Client(c)' = KeyFound(c)' /\ c.key = NoKey
    BY <1>2, <1>3, <1>6 DEF Client
  <2>5. KeyFound(c) = CASE c.source = "env" -> shell[s] [] c.source = "file" -> api_keys[s]
                        [] OTHER -> FirstKey(api_keys[s], shell[s])
    BY <2>1, <2>4 DEF KeyFound
  <2>6. KeyFound(c)' = CASE c.source = "env" -> shell[s] [] c.source = "file" -> api_keys'[s]
                         [] OTHER -> FirstKey(api_keys'[s], shell[s])
    BY <2>1, <2>4 DEF KeyFound
  <2>7. CASE c.source = "env"
    BY <1>1, <1>2, <2>4, <2>5, <2>6, <2>7 DEF Renewed
  <2>8. CASE c.source # "env" /\ s = SlotOf(sel.variant)
    <3>1. Renewed(c, choice) = sel.key
      BY <1>1, <1>6, <2>2, <2>8 DEF Renewed
    <3> QED BY <1>1, <2>2, <2>3, <2>4, <2>6, <2>8, <3>1 DEF FirstKey
  <2>9. CASE c.source # "env" /\ s # SlotOf(sel.variant)
    <3>1. Renewed(c, choice) = choice
      BY <2>9 DEF Renewed
    <3>2. env[s] = shell[s] \/ env[s] = api_keys[s]
      BY DEF KeysShared
    <3>3. CASE c.source = "file"
      BY <1>1, <1>2, <2>3, <2>4, <2>5, <2>6, <2>9, <3>1, <3>3 DEF FirstKey
    <3>4. CASE c.source # "file"
      BY <1>1, <1>2, <2>3, <2>4, <2>5, <2>6, <2>9, <3>1, <3>2, <3>4 DEF FirstKey
    <3> QED BY <3>3, <3>4
  <2> QED BY <2>7, <2>8, <2>9
<1> QED BY <1>4, <1>5, <1>6

LEMMA SetupInitInvariant == SetupInit => SetupIInv /\ LoginIInv
<1> SUFFICES ASSUME SetupInit PROVE SetupIInv /\ LoginIInv
  OBVIOUS
<1>1. PICK w \in Worlds :
        config = w.config /\ api_keys = w.api_keys /\ shell = w.shell /\ creds = w.creds
  <2>1. (CHOOSE w \in Worlds : TRUE) \in Worlds
    BY ConfigureAssumption
  <2> QED BY <2>1 DEF SetupInit
<1>2. IsConfig(config) /\ Fits(config)
  BY <1>1, ConfigureAssumption DEF IsConfig
<1>3. IsConfig(cfg) /\ Fits(cfg) /\ cfg.version = 8
  BY DEF SetupInit, Default, IsConfig, Fits
<1>4. /\ sel.family = Nil /\ sel.prepared = Nil /\ flags.family = Nil
      /\ IsSelection(sel)
  BY DEF SetupInit, Blank, IsSelection
<1>5. SelectionFits
  BY <1>4 DEF SetupInit, SelectionFits, IsSelection
<1>6. KeysShared /\ Serves(config, promise) /\ Serves(cfg, meant)
  BY DEF SetupInit, KeysShared, Serves
<1>7. LoginIInv
  BY LoginInitInvariant DEF SetupInit, LoginInit
<1> QED BY <1>2, <1>3, <1>5, <1>6, <1>7 DEF SetupIInv, ConfigsFit

\* Configs that stay are found as before while no key changes and no login goes.
LEMMA StillServes ==
  ASSUME NEW c, NEW choice, Serves(c, choice), UNCHANGED <<api_keys, shell>>, creds \subseteq creds'
  PROVE  choice # NoKey =>
           /\ c.version = 8 /\ c.variant \in Variants
           /\ c.variant # "OpenAILike" => c.key = NoKey
           /\ Client(c)' = choice
<1> SUFFICES ASSUME choice # NoKey PROVE Client(c)' = Client(c)
  BY DEF Serves
<1>1. Client(c) # NoKey /\ Accepts(c.variant, c.model)
  BY DEF Serves, Client
<1>2. c.variant \in ByLogin => c.variant \in creds
  BY <1>1 DEF Client, ByLogin
<1> QED BY <1>1, <1>2 DEF Client, KeyFound, ByLogin

\* A question was answered: the configs, and what they find, are as before.
LEMMA Asked ==
  ASSUME SetupIInv, SelectionFits', UNCHANGED <<cfg, config, api_keys, shell, env, meant, promise>>,
         creds \subseteq creds'
  PROVE  SetupIInv'
<1>1. Serves(config, promise)' /\ Serves(cfg, meant)'
  BY StillServes DEF SetupIInv, Serves
<1>2. KeysShared' /\ ConfigsFit'
  BY DEF SetupIInv, KeysShared, ConfigsFit, IsConfig, Fits
<1> QED BY <1>1, <1>2 DEF SetupIInv

LEMMA MigratedFits ==
  ASSUME NEW c, IsConfig(c), Fits(c)
  PROVE  /\ IsConfig(Migrated(c)) /\ Migrated(c).version = 8 /\ Fits(Migrated(c))
         /\ c.version = 8 => Migrated(c) = c
<1>1. CASE c.version = 8
  BY <1>1 DEF Migrated
<1>2. CASE c.version # 8
  <2> DEFINE t == [r \in Roles |-> IF r = "vision" THEN 0 ELSE c.temp[r]]
  <2>1. Migrated(c) = [version |-> 8, variant |-> c.variant, source |-> c.source, key |-> c.key,
                       model |-> c.model, temp |-> t, cloned |-> TRUE]
    BY <1>2 DEF Migrated, IsConfig
  <2>2. \A r \in Roles \ {"vision"} : t[r] = c.temp[r]
    OBVIOUS
  <2> HIDE DEF t
  <2>3. c.variant = "MiniMax" => \A r \in Roles \ {"vision"} : t[r] \in 1..10
    BY <2>2 DEF Fits
  <2>4. IsConfig(Migrated(c)) /\ Migrated(c).version = 8
    BY <2>1 DEF IsConfig
  <2>5. Fits(Migrated(c))
    BY <2>1, <2>3 DEF Fits
  <2> QED BY <1>2, <2>4, <2>5
<1> QED BY <1>1, <1>2

LEMMA DefaultFits == IsConfig(Default) /\ Fits(Default) /\ Default.version = 8 /\ Absent.version = 9
  BY DEF IsConfig, Fits, Default, Absent

LEMMA LoadKeepsInvariant == SetupIInv /\ LoadConfig => SetupIInv'
<1> SUFFICES ASSUME SetupIInv, LoadConfig PROVE SetupIInv'
  OBVIOUS
<1> DEFINE c == IF config = Absent THEN Default ELSE config
<1>1. /\ at = "load" /\ meant' = promise /\ promise' = promise
      /\ UNCHANGED <<flags, sel, api_keys, creds, shell, env>>
      /\ at' \in {"error", "family", "menu"}
      /\ \/ c.version = 0 /\ UNCHANGED <<cfg, config>>
         \/ c.version # 0 /\ cfg' = Migrated(c) /\ config' = Migrated(c)
  BY DEF LoadConfig
<1>2. IsConfig(c) /\ Fits(c)
  BY DefaultFits DEF SetupIInv, ConfigsFit
<1>3. promise # NoKey => c = config /\ config.version = 8
  BY DefaultFits DEF SetupIInv, Serves
<1>4. SelectionFits' /\ KeysShared'
  BY <1>1 DEF SetupIInv, SelectionFits, IsSelection, KeysShared
<1> HIDE DEF c
<1>5. CASE c.version = 0
  <2>1. promise' = NoKey /\ meant' = NoKey
    BY <1>1, <1>3, <1>5
  <2>2. Serves(config, promise)' /\ Serves(cfg, meant)'
    BY <2>1 DEF Serves
  <2>3. ConfigsFit'
    BY <1>1, <1>5 DEF SetupIInv, ConfigsFit, IsConfig, Fits
  <2> QED BY <1>4, <2>2, <2>3 DEF SetupIInv
<1>6. CASE c.version # 0
  <2>1. cfg' = Migrated(c) /\ config' = Migrated(c)
    BY <1>1, <1>6
  <2>2. ConfigsFit'
    <3> DEFINE d == Migrated(c)
    <3>1. IsConfig(d) /\ Fits(d) /\ d.version = 8 /\ cfg' = d /\ config' = d
      BY <1>2, <2>1, MigratedFits
    <3> HIDE DEF d
    <3> QED BY <3>1 DEF ConfigsFit, IsConfig, Fits
  <2>3. promise # NoKey => cfg' = config /\ config' = config
    BY <1>2, <1>3, <2>1, MigratedFits
  <2>4. Serves(config, promise)' /\ Serves(cfg, meant)'
    BY <1>1, <2>3, StillServes DEF SetupIInv, Serves
  <2> QED BY <1>4, <2>2, <2>4 DEF SetupIInv
<1> QED BY <1>5, <1>6

LEMMA MenuKeepsInvariant ==
  SetupIInv /\ (Menu \/ Advanced \/ FinishSetup \/ Abandon \/ NextWizard) => SetupIInv'
<1> SUFFICES ASSUME SetupIInv, Menu \/ Advanced \/ FinishSetup \/ Abandon \/ NextWizard
             PROVE  SetupIInv'
  OBVIOUS
<1>a. SelectionFits /\ ConfigsFit /\ KeysShared
  BY DEF SetupIInv
<1>1. CASE Menu
  <2>1. SelectionFits'
    BY <1>1, <1>a DEF Menu, SelectionFits, IsSelection, Blank, store
  <2> QED BY <1>1, <2>1, Asked DEF Menu, store
<1>2. CASE Advanced
  <2>1. CASE UNCHANGED cfg
    <3>1. SelectionFits'
      BY <1>2, <1>a DEF Advanced, SelectionFits, IsSelection, store
    <3> QED BY <1>2, <2>1, <3>1, Asked DEF Advanced, store
  <2>2. CASE cfg' # cfg
    <3>1. PICK t \in Temperatures :
            /\ cfg.variant = "MiniMax" => t \in 1..10
            /\ cfg' = [cfg EXCEPT !.temp = [r \in Roles |-> t], !.cloned = FALSE]
            /\ UNCHANGED at
      BY <1>2, <2>2 DEF Advanced
    <3>2. SelectionFits' /\ KeysShared' /\ Serves(config, promise)'
      <4>1. SelectionFits' /\ KeysShared'
        BY <1>2, <1>a, <3>1 DEF Advanced, SelectionFits, IsSelection, KeysShared, store
      <4>2. Serves(config, promise)'
        BY <1>2, StillServes DEF Advanced, store, SetupIInv, Serves
      <4> QED BY <4>1, <4>2
    <3>3. cfg' = [version |-> 8, variant |-> cfg.variant, source |-> cfg.source, key |-> cfg.key,
                  model |-> cfg.model, temp |-> [r \in Roles |-> t], cloned |-> FALSE]
      BY <1>a, <3>1 DEF ConfigsFit, IsConfig
    <3>4. IsConfig(cfg') /\ Fits(cfg')
      <4> DEFINE u == [r \in Roles |-> t]
      <4>1. IsConfig(cfg') /\ cfg'.temp = u /\ cfg'.variant = cfg.variant
        BY <3>3 DEF IsConfig
      <4>2. \A r \in Roles : u[r] = t
        OBVIOUS
      <4> HIDE DEF u
      <4> QED BY <3>1, <4>1, <4>2 DEF Fits
    <3>5. ConfigsFit'
      BY <1>2, <1>a, <3>3, <3>4 DEF Advanced, store, ConfigsFit, IsConfig, Fits
    <3>6. Serves(cfg, meant)'
      BY <1>2, <3>3 DEF Advanced, store, SetupIInv, Serves, Client, KeyFound
    <3> QED BY <3>2, <3>5, <3>6 DEF SetupIInv
  <2> QED BY <2>1, <2>2
<1>3. CASE FinishSetup
  <2>1. SelectionFits' /\ KeysShared' /\ ConfigsFit'
    BY <1>3, <1>a DEF FinishSetup, SaveConfig, SelectionFits, IsSelection, KeysShared,
       ConfigsFit, IsConfig, Fits
  <2>2. Serves(cfg, meant)' /\ config' = cfg' /\ promise' = meant'
    BY <1>3, StillServes DEF FinishSetup, SaveConfig, SetupIInv, Serves
  <2>3. Serves(config, promise)'
    BY <2>2 DEF Serves
  <2> QED BY <2>1, <2>2, <2>3 DEF SetupIInv
<1>4. CASE Abandon
  <2>1. SelectionFits' /\ KeysShared'
    BY <1>4, <1>a DEF Abandon, SelectionFits, IsSelection, KeysShared, Blank, store
  <2>2. Serves(config, promise)'
    BY <1>4, StillServes DEF Abandon, store, SetupIInv, Serves
  <2>3. Serves(cfg, meant)'
    BY <1>4 DEF Abandon, Serves
  <2>4. ConfigsFit'
    BY <1>4, <1>a, DefaultFits DEF Abandon, store, ConfigsFit, IsConfig, Fits
  <2> QED BY <2>1, <2>2, <2>3, <2>4 DEF SetupIInv
<1>5. CASE NextWizard
  <2>1. PICK f \in FlagSets : Start(f)
    BY <1>5 DEF NextWizard
  <2>2. /\ at' = "load" /\ env' = shell /\ flags' = f
        /\ UNCHANGED <<cfg, config, api_keys, creds, shell, meant, promise>>
    BY <1>5, <2>1 DEF NextWizard, Start, store
  <2>3. f.family \in Known \cup {Nil}
    BY ConfigureAssumption DEF Known
  <2>4. sel' = [family |-> f.family, variant |-> Nil, model |-> f.model, key |-> f.key,
                source |-> Blank(f).source, url |-> f.url, last |-> Nil, prepared |-> Nil]
    BY <2>1 DEF Start, Blank
  <2>5. SelectionFits' /\ KeysShared'
    BY <2>2, <2>3, <2>4 DEF SelectionFits, IsSelection, KeysShared
  <2>6. Serves(config, promise)' /\ Serves(cfg, meant)'
    BY <2>2, StillServes DEF SetupIInv, Serves
  <2>7. ConfigsFit'
    BY <1>a, <2>2 DEF ConfigsFit, IsConfig, Fits
  <2> QED BY <2>5, <2>6, <2>7 DEF SetupIInv
<1> QED BY <1>1, <1>2, <1>3, <1>4, <1>5

LEMMA QuestionsKeepInvariant ==
  SetupIInv /\ (ChooseFamily \/ ChooseMode \/ ChooseModel \/ ModelBack \/ Credentials \/ ChooseKey
                \/ ChooseUrl \/ ChooseLogin)
    => SetupIInv'
<1> SUFFICES ASSUME SetupIInv,
                    ChooseFamily \/ ChooseMode \/ ChooseModel \/ ModelBack \/ Credentials \/ ChooseKey
                      \/ ChooseUrl \/ ChooseLogin
             PROVE  SetupIInv'
  OBVIOUS
<1>a. /\ SelectionFits
      /\ IsSelection(sel)
  BY DEF SetupIInv, SelectionFits, IsSelection
<1>b. UNCHANGED asking
  BY DEF ChooseFamily, ChooseMode, ChooseModel, ModelBack, Credentials, ChooseKey, ChooseUrl,
     ChooseLogin, asking
<1> SUFFICES SelectionFits'
  BY <1>b, Asked DEF asking, store
<1>c. UNCHANGED <<flags, creds>>
  BY <1>b DEF asking, store
<1>d. Nil \notin Variants /\ Nil \notin Known
  BY DEF Nil, Variants, ByLogin, Known, Hosted, Compatible
<1>1. CASE ChooseFamily
  <2>1. \A f \in Families : f \in Known
    BY ConfigureAssumption DEF Known
  <2> QED BY <1>1, <1>a, <1>c, <1>d, <2>1 DEF ChooseFamily, GiveUp, SelectionFits, IsSelection
<1>2. CASE ChooseMode
  <2>1. \A v \in VariantsOf(sel.family) : v \in Variants
    BY <1>2, <1>a, KnownVariants DEF ChooseMode, SelectionFits, IsSelection
  <2> QED BY <1>2, <1>a, <1>c, <2>1 DEF ChooseMode, SelectionFits, IsSelection
<1>3. CASE ChooseModel
  BY <1>3, <1>a, <1>c DEF ChooseModel, SelectionFits, IsSelection
<1>4. CASE ModelBack
  <2>1. CASE at' = "menu" /\ UNCHANGED sel
    BY <1>a, <1>c, <2>1 DEF SelectionFits, IsSelection
  <2>2. CASE \E family \in {sel.family, Nil}, variant \in {sel.variant, Nil} :
               /\ sel' = [sel EXCEPT !.model = Nil, !.family = family, !.variant = variant]
               /\ at' = "family"
    BY <1>a, <1>c, <2>2 DEF SelectionFits, IsSelection
  <2> QED BY <1>4, <2>1, <2>2 DEF ModelBack, GiveUp
<1>5. CASE Credentials
  BY <1>5, <1>a, <1>c DEF Credentials, SelectionFits, IsSelection
<1>6. CASE ChooseKey
  <2>1. /\ sel' = [sel EXCEPT !.key = sel'.key, !.source = sel'.source]
        /\ at = "key" /\ at' \in {"url", "error"}
    BY <1>6, <1>a DEF ChooseKey, IsSelection
  <2> QED BY <1>a, <1>c, <2>1 DEF SelectionFits, IsSelection
<1>7. CASE ChooseUrl
  BY <1>7, <1>a, <1>c DEF ChooseUrl, SelectionFits, IsSelection
<1>8. CASE ChooseLogin
  <2>1. CASE sel' = [sel EXCEPT !.prepared = sel.variant] /\ Present(sel.variant) /\ at' = "apply"
    <3>1. at = "login"
      BY <1>8 DEF ChooseLogin
    <3> QED BY <1>a, <1>c, <2>1, <3>1 DEF Present, SelectionFits, IsSelection
  <2>2. CASE UNCHANGED sel
    <3>1. at = "login" /\ at' \in {"sign_in", "menu", "family", "apply"}
          /\ (at' = "apply" => sel.variant \notin ByLogin \/ sel.prepared = sel.variant
                                 \/ Present(sel.variant))
      BY <1>8, <2>2 DEF ChooseLogin, GiveUp
    <3> QED BY <1>a, <1>c, <1>d, <2>2, <3>1 DEF SelectionFits, IsSelection, Present
  <2>3. CASE sel' = [sel EXCEPT !.model = Nil] /\ at' = "family"
    BY <1>a, <1>c, <2>3 DEF SelectionFits, IsSelection
  <2> QED BY <1>8, <2>1, <2>2, <2>3 DEF ChooseLogin
<1> QED BY <1>1, <1>2, <1>3, <1>4, <1>5, <1>6, <1>7, <1>8

LEMMA SignInKeepsInvariant == SetupIInv /\ SignIn => SetupIInv'
<1> SUFFICES ASSUME SetupIInv, SignIn PROVE SetupIInv'
  OBVIOUS
<1>1. /\ UNCHANGED <<flags, cfg, config, api_keys, shell, env, meant, promise>>
      /\ creds \subseteq creds' /\ at = "sign_in"
      /\ \/ at' = "apply" /\ sel' = [sel EXCEPT !.prepared = sel.variant] /\ sel.variant \in creds'
         \/ at' = "error" /\ UNCHANGED sel
  BY DEF SignIn
<1>2. SelectionFits'
  BY <1>1 DEF SetupIInv, SelectionFits, IsSelection
<1> QED BY <1>1, <1>2, Asked

LEMMA ApplyKeepsInvariant == SetupIInv /\ Apply => SetupIInv'
<1> SUFFICES ASSUME SetupIInv, Apply PROVE SetupIInv'
  OBVIOUS
<1>1. PICK m \in Effective(sel.variant, sel.model) :
        LET c == Profile(sel.variant, m, cfg)
        IN  /\ cfg' = c /\ meant' = Choice(c)
            /\ IF fixed THEN SaveConfig(c) /\ promise' = Choice(c)
               ELSE /\ at' = "menu" /\ UNCHANGED config
                    /\ promise' = Renewed(config, promise)
  BY DEF Apply
<1>2. at = "apply" /\ SaveKeys /\ UNCHANGED <<flags, fixed, sel, creds, shell>>
  BY DEF Apply
<1>3. SelectionFits /\ KeysShared /\ Serves(config, promise) /\ ConfigsFit
  BY DEF SetupIInv
<1>4. PICK c : c = Profile(sel.variant, m, cfg)
  OBVIOUS
<1>5. /\ cfg' = c /\ meant' = Choice(c)
      /\ IF fixed THEN config' = c /\ at' = "over" /\ promise' = Choice(c)
         ELSE at' = "menu" /\ config' = config /\ promise' = Renewed(config, promise)
  BY <1>1, <1>4 DEF SaveConfig
<1>6. /\ IsConfig(c) /\ c.version = 8 /\ Fits(c)
      /\ Choice(c) # NoKey =>
           /\ c.variant \in Variants
           /\ c.variant # "OpenAILike" => c.key = NoKey
           /\ Client(c)' = Choice(c)
  BY <1>2, <1>3, <1>4, AppliedServes
<1>7. Serves(cfg, meant)'
  BY <1>5, <1>6 DEF Serves
<1>8. KeysShared'
  BY <1>2, <1>3 DEF SaveKeys, KeysShared
<1>9. SelectionFits'
  BY <1>2, <1>3, <1>5 DEF SelectionFits, IsSelection
<1>10. CASE fixed
  <2>1. ConfigsFit'
    BY <1>5, <1>6, <1>10 DEF ConfigsFit, IsConfig, Fits
  <2>2. Serves(config, promise)'
    BY <1>5, <1>6, <1>10 DEF Serves
  <2> QED BY <1>7, <1>8, <1>9, <2>1, <2>2 DEF SetupIInv
<1>11. CASE ~fixed
  <2>1. ConfigsFit'
    BY <1>3, <1>5, <1>6, <1>11 DEF ConfigsFit, IsConfig, Fits
  <2>2. PICK d, k : d = config /\ k = promise
    OBVIOUS
  <2>3. Renewed(d, k) # NoKey =>
          /\ d.version = 8 /\ d.variant \in Variants
          /\ d.variant # "OpenAILike" => d.key = NoKey
          /\ Client(d)' = Renewed(d, k)
    BY <1>2, <1>3, <2>2, RenewedServes
  <2>4. config' = d /\ promise' = Renewed(d, k)
    BY <1>5, <1>11, <2>2
  <2>5. Serves(config, promise)'
    BY <2>3, <2>4 DEF Serves
  <2> QED BY <1>7, <1>8, <1>9, <2>1, <2>5 DEF SetupIInv
<1> QED BY <1>10, <1>11

LEMMA WizardKeepsInvariant == SetupIInv /\ WizardNext => SetupIInv'
BY LoadKeepsInvariant, MenuKeepsInvariant, QuestionsKeepInvariant, SignInKeepsInvariant,
   ApplyKeepsInvariant DEF WizardNext

\* While a login of the command line goes on, the wizard rests.
LEMMA SetupNextInvariant ==
  SetupIInv /\ LoginIInv /\ [SetupNext]_setupVars => SetupIInv' /\ LoginIInv'
<1> SUFFICES ASSUME SetupIInv, LoginIInv, [SetupNext]_setupVars PROVE SetupIInv' /\ LoginIInv'
  OBVIOUS
<1>1. CASE UNCHANGED wizardVars /\ [LoginNext]_flowVars
  <2>1. SelectionFits' /\ UNCHANGED <<cfg, config, api_keys, creds, shell, env, meant, promise>>
    BY <1>1 DEF wizardVars, store, SetupIInv, SelectionFits, IsSelection
  <2> QED BY <1>1, <2>1, Asked, LoginNextInvariant
<1>2. CASE WizardNext /\ UNCHANGED flowVars
  BY <1>2, WizardKeepsInvariant, LoginNextInvariant
<1> QED BY <1>1, <1>2 DEF SetupNext, LoginSteps, LoginNext, setupVars

\* The wizard keeps its word (apply_selection_to_roles), and a login has saved
\* nothing before it is done (before_commit).
THEOREM SetupInvariant == SetupSpec => [](SetupIInv /\ LoginIInv)
<1>1. SetupInit => SetupIInv /\ LoginIInv
  BY SetupInitInvariant
<1>2. SetupIInv /\ LoginIInv /\ [SetupNext]_setupVars => (SetupIInv /\ LoginIInv)'
  BY SetupNextInvariant
<1> QED BY <1>1, <1>2, PTL DEF SetupSpec

\* What was chosen for a config is what a run of it finds
\* (to_load_llm_kwargs against apply_selection_to_roles).
THEOREM RunsAsChosenHolds == SetupSpec => []RunsAsChosen
<1>1. SetupIInv => RunsAsChosen
  BY DEF SetupIInv, Serves, RunsAsChosen, Loaded
<1> QED BY <1>1, SetupInvariant, PTL

\* A saved config for MiniMax has a temperature it accepts, but for the vision
\* profile of a migration (_normalize_generated_temperature).
THEOREM TemperatureFitsHolds == SetupSpec => []TemperatureFits
<1>1. SetupIInv => TemperatureFits
  BY DEF SetupIInv, ConfigsFit, Fits, TemperatureFits
<1> QED BY <1>1, SetupInvariant, PTL

\* A login that failed has saved nothing, unless something failed afterwards;
\* one that succeeded saved its own token in time (before_commit).
THEOREM OutcomeIsTrueHolds == SetupSpec => []OutcomeIsTrue
<1>1. LoginIInv => OutcomeIsTrue
  BY DEF LoginIInv
<1> QED BY <1>1, SetupInvariant, PTL

LEMMA ProviderStays == [LoginNext]_flowVars => provider' = provider
BY DEF LoginNext, LoginProceeds, UserNext, LoginOver, StartNext, BrowserNext, DeviceNext, TokenNext,
   StartBrowser, Preflight, FallBack, CallbackTaken, NoCallback, RequestDeviceCode, NoDeviceCode,
   DeviceCode, Poll, NotYet, PollFails, Denied, Approved, PauseEnds, Exchange, Exchanged,
   RequestFails, Verify, Verified, LockProfile, Commit, WriteFails, CloseListener, Callback,
   PasteCode, NothingPasted, Tick, clockVars, flowVars

\* A login of its own has the state its code reads and writes, and tells the
\* truth when it ends (run_gemini_oauth_login, OAuthLoginDeadline.check).
THEOREM LoginTypeCorrect == LoginSpec => [](LoginTypeOK /\ OutcomeIsTrue)
<1> DEFINE Inv == LoginIInv /\ provider \in Logins
<1>1. LoginInit => Inv
  BY LoginInitInvariant DEF LoginInit
<1>2. Inv /\ [LoginNext]_flowVars => Inv'
  BY LoginNextInvariant, ProviderStays
<1>3. Inv => LoginTypeOK /\ OutcomeIsTrue
  <2> SUFFICES ASSUME Inv PROVE LoginTypeOK
    BY DEF LoginIInv
  <2>1. {until, deadline, expires, interval, tries, spent, savedAt} \subseteq Nat
    BY DEF LoginIInv, LoginTypes
  <2>2. {entitled, hiccup} \subseteq BOOLEAN
    <3>1. entitled \in BOOLEAN /\ hiccup \in BOOLEAN
      BY DEF LoginIInv, LoginTypes
    <3> QED BY <3>1, Zenon
  <2> QED BY <2>1, <2>2 DEF LoginIInv, LoginTypes, LoginTypeOK
<1> QED BY <1>1, <1>2, <1>3, PTL DEF LoginSpec
===============================================================================
