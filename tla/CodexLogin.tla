------------------------------ MODULE CodexLogin ------------------------------
(***************************************************************************)
(* CodexOAuth of auth/openai_codex.py with CredentialStore of              *)
(* auth/storage.py, from the start of the application to its requests to   *)
(* the provider, over stops and restarts at any step.  Credentials are     *)
(* numbered in the order the server issues them.  The server accepts a     *)
(* refresh token once: it issues the next one with every refresh.          *)
(***************************************************************************)
EXTENDS Integers, Sequences

CONSTANTS
    MaxIssued, MaxStarts        \* bounds of the model

ASSUME BoundsAssumption == MaxIssued \in Nat /\ MaxStarts \in Nat

VARIABLES
    pc,             \* what credential() awaits or does; then "ready"; or how it failed
    file, temporary,        \* the files at oauth_path and oauth_path.tmp
    credential,     \* the credential held by the application, 0 for None
    age,            \* age of each access token: "fresh", "ending" or "expired"
    refreshable,    \* the credentials whose refresh token the server accepts
    late,           \* the deadline of the device authorization has passed
    starts

diskVars == <<file, temporary>>
serverVars == <<age, refreshable>>
loginVars == <<pc, diskVars, credential, serverVars, late, starts>>

(* What a file may hold other than a credential.                           *)
Empty == 0
NoFile == -1
Torn == -2

LoginInit ==
    /\ pc = "down"
    /\ file = NoFile /\ temporary = NoFile
    /\ credential = 0
    /\ age = <<>> /\ refreshable = {}
    /\ late = FALSE
    /\ starts = 0

Issued == DOMAIN age

Goto(from, to) ==
    /\ pc = from
    /\ pc' = to
    /\ UNCHANGED <<diskVars, credential, serverVars, starts>>

-----------------------------------------------------------------------------
(* credential(): what is stored decides.                                   *)

Start ==
    /\ pc = "down"
    /\ starts < MaxStarts
    /\ starts' = starts + 1
    /\ pc' = "start"
    /\ UNCHANGED <<diskVars, credential, serverVars, late>>

(* The two values of codex_login_method.                                   *)
LoginMethods == {"prompting", "requesting"}

(* The access token ends within a minute, or has ended.                    *)
NeedsRefresh(k) == age[k] # "fresh"

Load ==
    /\ pc = "start"
    /\ \/ file = NoFile /\ pc' \in LoginMethods
       \/ file \in {Empty, Torn} /\ pc' = "unreadable"
       \/ file \in Issued /\ pc' = IF NeedsRefresh(file) THEN "refreshing" ELSE "ready"
    /\ credential' = IF file \in Issued THEN file ELSE 0
    /\ UNCHANGED <<diskVars, serverVars, late, starts>>

(* The browser's callback URL is pasted: with a code and the flow's state, *)
(* or without.                                                             *)
Paste == (Goto("prompting", "exchanging") \/ Goto("prompting", "failed")) /\ UNCHANGED late

RequestDevice ==
    /\ Goto("requesting", "polling") \/ Goto("requesting", "failed")
    /\ late' = FALSE

(* Variant: the deadline is not looked at.                                 *)
PollsForEver == "asking"

NextPoll == IF late THEN "failed" ELSE "asking"

(* The deadline is read, then the interval slept.                          *)
Poll == Goto("polling", NextPoll) /\ UNCHANGED late

(* Pending and slow_down, a code, or an error.                             *)
PollAnswered ==
    /\ \E next \in {"polling", "exchanging", "failed"} : Goto("asking", next)
    /\ UNCHANGED late

DeadlinePasses ==
    /\ pc \in {"polling", "asking"} /\ ~late
    /\ late' = TRUE
    /\ UNCHANGED <<pc, diskVars, credential, serverVars, starts>>

-----------------------------------------------------------------------------
(* _token_request                                                          *)

(* The server issues a credential, in place of the one refreshed if any;   *)
(* its response may be lost or not be understood.                          *)
TokenIssued(spent) ==
    /\ Len(age) < MaxIssued
    /\ age' = Append(age, "fresh")
    /\ refreshable' = (refreshable \ spent) \cup {Len(age')}
    /\ \/ pc' = "creating" /\ credential' = Len(age')
       \/ pc' = "failed" /\ UNCHANGED credential
    /\ UNCHANGED <<diskVars, late, starts>>

Exchange ==
    /\ pc = "exchanging"
    /\ TokenIssued({}) \/ (Goto("exchanging", "failed") /\ UNCHANGED late)

Refresh ==
    /\ pc = "refreshing"
    /\ \/ credential \in refreshable /\ TokenIssued({credential})
       \/ credential \notin refreshable /\ Goto("refreshing", "refused") /\ UNCHANGED late
       \/ Goto("refreshing", "failed") /\ UNCHANGED late       \* no answer

-----------------------------------------------------------------------------
(* CredentialStore.save, one system call at a time.  Any of them may raise.*)
(* What stops is the process: without an fsync nothing is promised when    *)
(* the machine does.                                                       *)

Save(from, to) ==
    /\ pc = from
    /\ pc' = to
    /\ UNCHANGED <<credential, serverVars, late, starts>>

Created(content) == IF content = NoFile THEN Empty ELSE content

CreateFile ==
    /\ Save("creating", "opening")
    /\ file' = Created(file)
    /\ UNCHANGED temporary

(* ensure_private_file, then write_text: it truncates, and then writes.    *)
OpenTemporary ==
    /\ Save("opening", "writing")
    /\ temporary' = Torn
    /\ UNCHANGED file

(* Variant: there is no temporary file.                                    *)
TearsInPlace == file' = Torn /\ UNCHANGED temporary

Tears == temporary' = Torn /\ UNCHANGED file

WritePart == Save("writing", "completing") /\ Tears

WriteRest == Save("completing", "replacing") /\ temporary' = credential /\ UNCHANGED file

(* Variant: the rename is forgotten.                                       *)
StaysTemporary == UNCHANGED diskVars

Replaces == file' = temporary /\ temporary' = NoFile

Replace == Save("replacing", "ready") /\ Replaces

SaveFails ==
    /\ \E from \in {"creating", "opening", "writing", "completing", "replacing"} :
          Save(from, "failed")
    /\ UNCHANGED diskVars

-----------------------------------------------------------------------------
(* The session: the provider keeps the credential it was created with.     *)

Request == Goto("ready", "responding") /\ UNCHANGED late

Response == Goto("responding", "ready") /\ UNCHANGED late

Ageing ==
    /\ \E k \in Issued :
          /\ age[k] # "expired"
          /\ age' = [age EXCEPT ![k] = IF @ = "fresh" THEN "ending" ELSE "expired"]
    /\ UNCHANGED <<pc, diskVars, credential, refreshable, late, starts>>

(* The application ends: an error, /quit, Ctrl-C, a crash.                 *)
Stop ==
    /\ pc # "down"
    /\ pc' = "down"
    /\ credential' = 0
    /\ UNCHANGED <<diskVars, serverVars, late, starts>>

LoginRest == pc = "down" /\ starts = MaxStarts /\ UNCHANGED loginVars

LoginNext ==
    \/ Start \/ Load \/ Paste \/ RequestDevice \/ Poll \/ PollAnswered \/ DeadlinePasses
    \/ Exchange \/ Refresh
    \/ CreateFile \/ OpenTemporary \/ WritePart \/ WriteRest \/ Replace \/ SaveFails
    \/ Request \/ Response \/ Ageing \/ Stop \/ LoginRest

LoginSpec == LoginInit /\ [][LoginNext]_loginVars

(* asyncio.sleep returns, every request ends in an answer or in httpx's    *)
(* time-out, and time passes.                                              *)
FairLoginSpec == LoginSpec /\ WF_loginVars(Poll) /\ WF_loginVars(PollAnswered) /\ WF_loginVars(DeadlinePasses)

-----------------------------------------------------------------------------

(* PLAN 8.2: a stored credential is replaced by a later, complete one or   *)
(* stays; no stop during save() costs the one that was there.              *)
StoredOnlyRenewed ==
    [][file' # file => \/ file = NoFile /\ file' = Empty
                       \/ file' \in 1 .. Len(age) /\ file' > file]_file

(* README.md:48, "refreshable credentials": when the application starts to *)
(* work, the next start will find what this one uses, and the server will  *)
(* renew it.                                                               *)
ReadyIsStored ==
    pc \in {"ready", "responding"} => credential = file /\ file \in refreshable

(* README.md:46: polling goes on until authorization, cancellation or      *)
(* expiry, and no longer.                                                  *)
LoginEnds == (pc \in {"polling", "asking"}) ~> (pc \in {"exchanging", "failed", "down"})

(* PLAN 8.2: without a valid credential the application starts the login.  *)
(* What a stop during the first save() leaves is no valid credential.      *)
UnreadableStartsLogin == pc # "unreadable"

(* The same for a credential whose refresh token the server refuses.       *)
RefusedStartsLogin == pc # "refused"

(* PLAN 8.2, "refresh expired access tokens automatically": no request     *)
(* goes out with an expired token.                                         *)
RequestsCarryLiveToken ==
    [][(pc = "ready" /\ pc' = "responding") => age[credential] # "expired"]_loginVars
=============================================================================
