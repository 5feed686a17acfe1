---------------------------------- MODULE Acme ----------------------------------
(***************************************************************************)
(* acme.Account and acme.Issue (stdlib_acme.go) with the client's requests *)
(* (acme.go), the account's files (account.go) and the challenge record at *)
(* the DNS provider (dns_provider.go, dns_check.go).                       *)
(*                                                                         *)
(* A script calls them one after the other; the process may end at any     *)
(* moment and be started again.  What survives are the files, the accounts *)
(* at the servers and the records.  The ACME server, the provider and the  *)
(* network are external: any request may be refused, get lost, or be       *)
(* served and its answer get lost.                                         *)
(*                                                                         *)
(* An account is known by its key, and there is one per key and directory. *)
(* A nonce is what it is worth at the server: good, spent (used or too     *)
(* old), or none.                                                          *)
(***************************************************************************)
EXTENDS Naturals, FiniteSets, Functions

CONSTANTS
  Directories, Keys,
  None,       \* no file, no key
  Broken,     \* a file whose writing was interrupted
  MaxCalls, MaxCrashes,  \* bounds
  Features

(***************************************************************************)
(* no_replay_nonce   an answer "badNonce" carries no new nonce             *)
(***************************************************************************)
AllFeatures == {"no_replay_nonce"}

ASSUME AcmeAssumption ==
  /\ None \notin Keys /\ Broken \notin Keys /\ None # Broken
  /\ MaxCalls \in Nat /\ MaxCrashes \in Nat
  /\ Features \subseteq AllFeatures

VARIABLES
  keyFile, stateFile, certFile, \* keyPath, statePath, outputPath
  accounts,      \* the keys with an account, by directory
  order,         \* the latest order at the server: its number and status
  authz,         \* the status of its authorization
  records,       \* the orders whose TXT record exists
  call, dir,     \* the builtin that is executed, and its directory
  at,            \* where it is
  key, account,  \* client.AccountKey, client.AccountURL
  nonce, attempt, \* client.Nonce, the attempts postJWSWithPayload has made
  cleanup,       \* the deferred function has been registered and will clean up
  result,
  excused,       \* history: orders whose record is known to stay
  badNonce,      \* history: a request failed for its nonce
  used,          \* history: the keys ever generated
  calls, crashes \* counters

files   == <<keyFile, stateFile, certFile>>
server  == <<accounts, order, authz>>
client  == <<key, account>>
request == <<nonce, attempt>>
ghosts  == <<excused, badNonce, used>>
bounds  == <<calls, crashes>>
vars == <<files, server, records, call, dir, at, client, request, cleanup, result, ghosts, bounds>>

Init ==
  /\ keyFile = None /\ stateFile = None /\ certFile = None
  /\ accounts = [d \in Directories |-> {}]
  /\ order = [n |-> 0, status |-> "none"] /\ authz = "none"
  /\ records = {}
  /\ call = "Account" /\ dir \in Directories
  /\ at = "idle" /\ key = None /\ account = None
  /\ nonce = "none" /\ attempt = 0
  /\ cleanup = FALSE /\ result = "none"
  /\ excused = {} /\ badNonce = FALSE /\ used = {}
  /\ calls = 0 /\ crashes = 0

--------------------------------------------------------------------------------
(* Ways to go on.                                                           *)

GoTo(place) == at' = place /\ attempt' = 0 /\ UNCHANGED result

\* An early return runs the deferred function first.
Fail ==
  /\ attempt' = 0
  /\ IF cleanup
     THEN at' = "deferred" /\ UNCHANGED result
     ELSE at' = "idle" /\ result' = "error"

\* FindExistingAccount's errors are all taken for "no account".
FailRequest == IF at = "find" THEN GoTo("create") ELSE Fail

\* The script calls acme.Account or acme.Issue; NewACMEClient has no nonce.
Start ==
  /\ at = "idle" /\ calls < MaxCalls /\ calls' = calls + 1
  /\ call' \in {"Account", "Issue"} /\ dir' \in Directories
  /\ at' = "directory" /\ attempt' = 0 /\ result' = "none"
  /\ key' = None /\ account' = None /\ nonce' = "none" /\ cleanup' = FALSE
  /\ UNCHANGED <<files, server, records, ghosts, crashes>>

\* LoadDirectory, which ends with GetNonce.
LoadDirectory ==
  /\ at = "directory"
  /\ \/ nonce' = "good" /\ GoTo("loadKey")
     \/ Fail /\ UNCHANGED nonce
  /\ UNCHANGED <<files, server, records, call, dir, client, cleanup, ghosts, bounds>>

--------------------------------------------------------------------------------
(* The account: LoadOrCreateAccount.                                        *)

LoadAccountKey ==
  /\ at = "loadKey"
  /\ \/ keyFile \in Keys /\ key' = keyFile /\ GoTo("loadState") /\ UNCHANGED used
     \/ keyFile = Broken /\ Fail /\ UNCHANGED <<key, used>>
     \/ /\ keyFile = None
        /\ key' \in Keys \ used /\ used' = used \cup {key'}
        /\ GoTo("saveKey")
  /\ UNCHANGED <<files, server, records, call, dir, account, nonce, cleanup, excused, badNonce, bounds>>

\* A bug of the kind the order invites: the key is saved with the account's state.
SaveAccountKey_Later ==
  /\ at = "saveKey"
  /\ GoTo("loadState")
  /\ UNCHANGED <<files, server, records, call, dir, client, nonce, cleanup, ghosts, bounds>>

\* os.WriteFile; if it fails, what it has written stays.
SaveAccountKey ==
  /\ at = "saveKey"
  /\ \/ keyFile' = key /\ GoTo("loadState")
     \/ keyFile' \in {None, Broken} /\ Fail
  /\ UNCHANGED <<stateFile, certFile, server, records, call, dir, client, nonce, cleanup, ghosts, bounds>>

\* The state counts if it is for this directory, whichever key it was made with.
LoadAccountState ==
  /\ at = "loadState"
  /\ IF stateFile \notin {None, Broken} /\ stateFile.directory = dir
     THEN /\ account' = stateFile.account
          /\ GoTo(IF call = "Issue" THEN "order" ELSE "return")
     ELSE GoTo("find") /\ UNCHANGED account
  /\ UNCHANGED <<files, server, records, call, dir, key, nonce, cleanup, ghosts, bounds>>

SaveAccountState ==
  /\ at = "saveState"
  /\ \/ /\ stateFile' = [directory |-> dir, account |-> account]
        /\ GoTo(IF call = "Issue" THEN "order" ELSE "return")
     \/ stateFile' \in {stateFile, Broken} /\ Fail
  /\ UNCHANGED <<keyFile, certFile, server, records, call, dir, client, nonce, cleanup, ghosts, bounds>>

--------------------------------------------------------------------------------
(* A signed request: postJWSWithPayload.                                    *)

Requests == {"find", "create", "order", "authorization", "accept", "pollAuthorization",
             "finalize", "pollOrder", "fetch"}

\* What the server has against the request, besides its nonce.
Accepted ==
  CASE at = "find"     -> key \in accounts[dir]
    [] at = "create"   -> TRUE
    [] at = "order"    -> account = key /\ key \in accounts[dir]
    [] at = "finalize" -> authz = "valid"
    [] at = "fetch"    -> order.status = "valid"
    [] OTHER           -> TRUE

\* What it does.  A domain that was validated lately need not be validated again.
Serve ==
  /\ accounts' = IF at = "create" THEN [accounts EXCEPT ![dir] = @ \cup {key}] ELSE accounts
  /\ order' = CASE at = "order"    -> [n |-> order.n + 1, status |-> "pending"]
                [] at = "finalize" -> [order EXCEPT !.status = "processing"]
                [] OTHER           -> order
  /\ CASE at = "order"  -> authz' \in {"pending", "valid"}
       [] at = "accept" -> authz' = IF authz = "pending" THEN "processing" ELSE authz
       [] OTHER         -> UNCHANGED authz

\* Where the caller goes on with the answer.
Proceed ==
  CASE at \in {"find", "create"} -> GoTo("saveState")
    [] at = "order"              -> GoTo("authorization")
    [] at = "authorization"      -> GoTo("present")
    [] at = "accept"             -> GoTo("pollAuthorization")
    [] at = "pollAuthorization"  ->
         CASE authz = "valid"    -> GoTo("cleanup")
           [] authz = "invalid"  -> Fail
           [] OTHER              -> GoTo("pollAuthorization")
    [] at = "finalize"           -> GoTo("pollOrder")
    [] at = "pollOrder"          ->
         CASE order.status = "valid"   -> GoTo("fetch")
           [] order.status = "invalid" -> Fail
           [] OTHER                    -> GoTo("pollOrder")
    [] at = "fetch"              -> GoTo("write")

\* Without a Replay-Nonce in the answer, the client keeps the one it has used.
Answered ==
  /\ at \in Requests /\ nonce = "good" /\ Accepted
  /\ Serve
  /\ nonce' \in {"good", "spent"}
  /\ Proceed
  /\ account' = IF at \in {"find", "create"} THEN key ELSE account
  /\ UNCHANGED <<files, records, call, dir, key, cleanup, ghosts, bounds>>

\* HTTP 4xx or 5xx, but not badNonce.
Refused ==
  /\ at \in Requests /\ nonce = "good"
  /\ nonce' \in {"good", "spent"}
  /\ FailRequest
  /\ UNCHANGED <<files, server, records, call, dir, client, cleanup, ghosts, bounds>>

\* c.HTTPClient.Do reports an error: the request or its answer was lost.
Lost ==
  /\ at \in Requests
  /\ FailRequest
  /\ \/ UNCHANGED <<server, nonce>>
     \/ nonce = "good" /\ Accepted /\ Serve /\ nonce' = "spent"
  /\ UNCHANGED <<files, records, call, dir, client, cleanup, ghosts, bounds>>

\* A bug of the kind a retry invites: the attempts are not counted.
BadNonce_Always ==
  /\ at \in Requests /\ nonce = "spent"
  /\ nonce' \in {"good", "spent"} /\ UNCHANGED <<at, result, badNonce, attempt>>
  /\ UNCHANGED <<files, server, records, call, dir, client, cleanup, excused, used, bounds>>

\* HTTP 400 with badNonce: one more attempt with the nonce of this answer.  As
\* client.Nonce is not empty, GetNonce is not called if there is none.
BadNonce ==
  /\ at \in Requests /\ nonce = "spent"
  /\ nonce' \in {"good"} \cup (IF "no_replay_nonce" \in Features THEN {"spent"} ELSE {})
  /\ IF attempt = 0
     THEN attempt' = 1 /\ UNCHANGED <<at, result, badNonce>>
     ELSE FailRequest /\ badNonce' = TRUE
  /\ UNCHANGED <<files, server, records, call, dir, client, cleanup, excused, used, bounds>>

\* A nonce that was not used for long is forgotten by the server.
NonceExpires ==
  /\ at \in Requests /\ nonce = "good" /\ attempt = 0
  /\ nonce' = "spent"
  /\ UNCHANGED <<files, server, records, call, dir, at, client, attempt, cleanup, result, ghosts, bounds>>

--------------------------------------------------------------------------------
(* The challenge record and the certificate.                                *)

\* provider.Present; after an error nobody cleans up, although the record may be there.
Present ==
  /\ at = "present"
  /\ \/ /\ records' = records \cup {order.n} /\ cleanup' = TRUE
        /\ GoTo("waitTXT") /\ UNCHANGED excused
     \/ Fail /\ UNCHANGED <<records, cleanup, excused>>
     \/ /\ records' = records \cup {order.n} /\ excused' = excused \cup {order.n}
        /\ Fail /\ UNCHANGED cleanup
  /\ UNCHANGED <<files, server, call, dir, client, nonce, badNonce, used, bounds>>

\* WaitForTXT: one of the resolvers has it, or the 120 seconds are over.
WaitForTXT ==
  /\ at = "waitTXT"
  /\ \/ order.n \in records /\ GoTo("accept")
     \/ Fail
  /\ UNCHANGED <<files, server, records, call, dir, client, nonce, cleanup, ghosts, bounds>>

\* A bug of the kind a flag beside a deferred function invites: it is cleared first.
Cleanup_ClearsFirst ==
  /\ at = "cleanup"
  /\ cleanup' = FALSE
  /\ \/ records' = records \ {order.n} /\ GoTo("finalize")
     \/ at' = "idle" /\ attempt' = 0 /\ result' = "error" /\ UNCHANGED records
  /\ UNCHANGED <<files, server, call, dir, client, nonce, ghosts, bounds>>

\* A bug of the kind the deferred function has: the error is dropped.
Cleanup_IgnoresError ==
  /\ at = "cleanup"
  /\ records' \in {records, records \ {order.n}} /\ cleanup' = FALSE /\ GoTo("finalize")
  /\ UNCHANGED <<files, server, call, dir, client, nonce, ghosts, bounds>>

\* provider.Cleanup after the validation; after an error the deferred function tries
\* it again and Issue reports the error.
Cleanup ==
  /\ at = "cleanup"
  /\ \/ records' = records \ {order.n} /\ cleanup' = FALSE /\ GoTo("finalize")
     \/ records' \in {records, records \ {order.n}} /\ Fail /\ UNCHANGED cleanup
  /\ UNCHANGED <<files, server, call, dir, client, nonce, ghosts, bounds>>

\* The deferred function, on every early return until the record is gone.  It tries once and drops
\* the error (stdlib_acme.go:263), so that the script never learns of the record that stays.
DeferredCleanup ==
  /\ at = "deferred"
  /\ \/ records' = records \ {order.n} /\ UNCHANGED excused
     \/ UNCHANGED records /\ excused' = excused \cup {order.n}
  /\ cleanup' = FALSE /\ at' = "idle" /\ attempt' = 0 /\ result' = "error"
  /\ UNCHANGED <<files, server, call, dir, client, nonce, badNonce, used, bounds>>

WriteCertificate ==
  /\ at = "write"
  /\ \/ certFile' = order.n /\ GoTo("return")
     \/ certFile' \in {certFile, Broken} /\ Fail
  /\ UNCHANGED <<keyFile, stateFile, server, records, call, dir, client, nonce, cleanup, ghosts, bounds>>

Return ==
  /\ at = "return"
  /\ at' = "idle" /\ attempt' = 0 /\ result' = "ok"
  /\ UNCHANGED <<files, server, records, call, dir, client, nonce, cleanup, ghosts, bounds>>

--------------------------------------------------------------------------------
(* The server and the end of the process.                                   *)

\* The server looks for the record itself.
Validate ==
  /\ authz = "processing"
  /\ authz' \in {"invalid"} \cup (IF order.n \in records THEN {"valid"} ELSE {})
  /\ UNCHANGED <<files, accounts, order, records, call, dir, at, client, request, cleanup, result, ghosts, bounds>>

IssueCertificate ==
  /\ order.status = "processing"
  /\ \E s \in {"valid", "invalid"} : order' = [order EXCEPT !.status = s]
  /\ UNCHANGED <<files, accounts, authz, records, call, dir, at, client, request, cleanup, result, ghosts, bounds>>

\* A file that is being written is left empty or half written.
Crash ==
  /\ at # "idle" /\ crashes < MaxCrashes /\ crashes' = crashes + 1
  /\ at' = "idle" /\ attempt' = 0 /\ result' = "crashed" /\ cleanup' = FALSE
  /\ keyFile'   \in {keyFile}   \cup (IF at = "saveKey" THEN {Broken} ELSE {})
  /\ stateFile' \in {stateFile} \cup (IF at = "saveState" THEN {Broken} ELSE {})
  /\ certFile'  \in {certFile}  \cup (IF at = "write" THEN {Broken} ELSE {})
  /\ excused' = IF cleanup THEN excused \cup {order.n} ELSE excused
  /\ UNCHANGED <<server, records, call, dir, client, nonce, badNonce, used, calls>>

--------------------------------------------------------------------------------
Account == LoadDirectory \/ LoadAccountKey \/ SaveAccountKey \/ LoadAccountState \/ SaveAccountState

Request == Answered \/ Refused \/ Lost \/ BadNonce

Challenge == Present \/ WaitForTXT \/ Cleanup \/ DeferredCleanup \/ WriteCertificate \/ Return

Next ==
  \/ Start \/ Account \/ Request \/ NonceExpires \/ Challenge
  \/ Validate \/ IssueCertificate \/ Crash

\* The builtin goes on, and the server decides.
Fairness ==
  /\ WF_vars(Account) /\ WF_vars(Request) /\ WF_vars(Challenge)
  /\ WF_vars(Validate) /\ WF_vars(IssueCertificate)

Spec == Init /\ [][Next]_vars /\ Fairness

--------------------------------------------------------------------------------
(* Correctness.                                                             *)

Places == Requests \cup {"idle", "directory", "loadKey", "saveKey", "loadState", "saveState",
                         "present", "waitTXT", "cleanup", "deferred", "write", "return"}

\* The types, and: the deferred function is registered exactly while there is a
\* record it knows of.
TypeOK ==
  /\ keyFile \in Keys \cup {None, Broken}
  /\ stateFile \in {None, Broken} \cup [directory : Directories, account : Keys]
  /\ certFile \in 0 .. order.n \cup {None, Broken}
  /\ accounts \in [Directories -> SUBSET Keys]
  /\ order \in [n : Nat, status : {"none", "pending", "processing", "valid", "invalid"}]
  /\ authz \in {"none", "pending", "processing", "valid", "invalid"}
  /\ records \subseteq 1 .. order.n
  /\ call \in {"Account", "Issue"} /\ dir \in Directories /\ at \in Places
  /\ key \in Keys \cup {None} /\ account \in Keys \cup {None}
  /\ nonce \in {"none", "good", "spent"} /\ attempt \in 0 .. 1
  /\ cleanup \in BOOLEAN /\ result \in {"none", "ok", "error", "crashed"}
  /\ excused \subseteq 0 .. order.n /\ badNonce \in BOOLEAN /\ used \subseteq Keys
  /\ calls \in 0 .. MaxCalls /\ crashes \in 0 .. MaxCrashes
  /\ at \in {"waitTXT", "accept", "pollAuthorization", "cleanup", "deferred"} <=> cleanup

\* Whenever the process ends, an account at a server can be used again: its key
\* is in the key file (account.go:123 saves it before the account is made).
AccountsReachable == \A d \in Directories : accounts[d] \subseteq {keyFile}

\* Once Issue has returned, on whichever way, its TXT record is gone (md/acme.md:54 "löscht den
\* TXT-Eintrag anschließend wieder"), except after one of these: the process ended while the record
\* was there; Present failed half-way; the deletion by the deferred function failed.  On every early
\* return before the validation is over that deletion is the only one that is tried; after a
\* Cleanup that failed it is the second.
NoRecordLeft == at = "idle" => records \subseteq excused

SuccessIsIssued ==
  (at = "idle" /\ result = "ok") =>
     /\ account = keyFile /\ key = keyFile
     /\ call = "Issue" =>
          /\ certFile = order.n /\ order.status = "valid" /\ authz = "valid"
          /\ order.n \notin records

\* What a call returns has its reason: True means that the certificate of this order
\* is in the file, that the account is the key's own and that the record is gone; and no
\* call fails for its nonce, however many expire and however many answers come without one,
\* if the answer "badNonce" itself brings one (acme.go:753 "mit einer neuen Nonce
\* wiederholt"; with no_replay_nonce, :735, calls do fail for it).  That Issue returns True at
\* all (stdlib_acme.go:312) is the code's word against that of md/acme.md:56, which has it
\* unfinished and always return an error.
ResultsAreDeserved ==
  /\ SuccessIsIssued
  /\ ~badNonce

\* A call ends, however often it polls.
CallEnds == (at # "idle") ~> (at = "idle")
================================================================================
