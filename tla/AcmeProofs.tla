------------------------------ MODULE AcmeProofs ------------------------------
(***************************************************************************)
(* Proofs about Acme for every set of directories and keys and any number  *)
(* of calls and crashes: the key of every account is in the key file, no   *)
(* challenge record is forgotten, and what a call returns is deserved.     *)
(*                                                                         *)
(* The three properties speak of the moments when no call is executed.     *)
(* The inductive invariant says what they owe to the steps before: which   *)
(* key a call has in hand, what it knows of the order at the server, and   *)
(* which record the deferred function still answers for.                   *)
(***************************************************************************)
EXTENDS Acme, TLAPS

\* The places of a call that has loaded its key, and its account.
WithKey == Requests \cup {"loadState", "saveState", "present", "waitTXT", "cleanup", "write", "return"}
WithAccount == WithKey \ {"loadState", "find", "create"}

\* The key in use is the one in the file, or the file is yet to be made; and a saved
\* state is that key's.
KeyInHand ==
  /\ at \in WithKey => key = keyFile /\ key \in Keys
  /\ at = "saveKey" => keyFile = None /\ key \in Keys
  /\ stateFile \notin {None, Broken} => stateFile.account = keyFile

AccountInHand == at \in WithAccount => account = key

\* The records that exist are excused, or the deferred function knows of them.
RecordsRemembered == records \subseteq excused \cup (IF cleanup THEN {order.n} ELSE {})

\* The second attempt is made with the nonce the first one was answered with.
Retries == "no_replay_nonce" \notin Features => ~badNonce /\ (attempt = 1 => nonce = "good")

\* What the call knows of the order, by where it is.
Known ==
  /\ at \in {"authorization", "present"} => order.n > 0
  /\ at \in {"cleanup", "finalize", "pollOrder", "fetch", "write"} => authz = "valid"
  /\ at \in {"fetch", "write"} => order.status = "valid"
  /\ at \in {"finalize", "pollOrder", "fetch", "write"} => order.n \notin records

Issued == certFile = order.n /\ order.status = "valid" /\ authz = "valid" /\ order.n \notin records

Delivered == at = "return" /\ call = "Issue" => Issued

\* TypeOK in parts.
FilesOK ==
  /\ keyFile \in Keys \cup {None, Broken}
  /\ stateFile \in {None, Broken} \cup [directory : Directories, account : Keys]
  /\ certFile \in 0 .. order.n \cup {None, Broken}

ServerOK ==
  /\ accounts \in [Directories -> SUBSET Keys]
  /\ order \in [n : Nat, status : {"none", "pending", "processing", "valid", "invalid"}]
  /\ authz \in {"none", "pending", "processing", "valid", "invalid"}

RecordsOK == records \subseteq 1 .. order.n /\ excused \subseteq 0 .. order.n

PlaceOK ==
  /\ at \in Places
  /\ at \in {"waitTXT", "accept", "pollAuthorization", "cleanup", "deferred"} <=> cleanup

CallOK ==
  /\ call \in {"Account", "Issue"} /\ dir \in Directories
  /\ key \in Keys \cup {None} /\ account \in Keys \cup {None}
  /\ nonce \in {"none", "good", "spent"}
  /\ cleanup \in BOOLEAN /\ result \in {"none", "ok", "error", "crashed"}
  /\ badNonce \in BOOLEAN /\ used \subseteq Keys

CountersOK == attempt \in 0 .. 1 /\ calls \in 0 .. MaxCalls /\ crashes \in 0 .. MaxCrashes

IInv ==
  /\ FilesOK /\ ServerOK /\ RecordsOK /\ PlaceOK /\ CallOK /\ CountersOK
  /\ AccountsReachable
  /\ KeyInHand /\ AccountInHand /\ RecordsRemembered /\ Retries /\ Known /\ Delivered
  /\ SuccessIsIssued

--------------------------------------------------------------------------------
LEMMA StartStep == ASSUME IInv, Start PROVE IInv'
<1> USE DEF Start, vars, files, server, ghosts
<1>1. FilesOK' /\ ServerOK' /\ RecordsOK'
  BY DEF IInv, FilesOK, ServerOK, RecordsOK
<1>2. PlaceOK' /\ CallOK'
  BY DEF IInv, PlaceOK, CallOK, Places
<1>3. CountersOK'
  BY AcmeAssumption DEF IInv, CountersOK
<1>4. KeyInHand' /\ AccountInHand' /\ Known' /\ Delivered' /\ SuccessIsIssued'
  BY DEF IInv, PlaceOK, KeyInHand, AccountInHand, Known, Delivered, SuccessIsIssued,
     WithKey, WithAccount, Requests
<1>5. AccountsReachable' /\ RecordsRemembered' /\ Retries'
  BY DEF IInv, PlaceOK, AccountsReachable, RecordsRemembered, Retries
<1> QED  BY <1>1, <1>2, <1>3, <1>4, <1>5 DEF IInv

LEMMA LoadDirectoryStep == ASSUME IInv, LoadDirectory PROVE IInv'
<1> USE DEF LoadDirectory, Fail, GoTo, files, server, client, ghosts, bounds
<1>1. FilesOK' /\ ServerOK' /\ RecordsOK'
  BY DEF IInv, FilesOK, ServerOK, RecordsOK
<1>2. PlaceOK' /\ CallOK' /\ CountersOK'
  BY DEF IInv, PlaceOK, CallOK, CountersOK, Places
<1>3. AccountsReachable' /\ KeyInHand' /\ AccountInHand'
  BY DEF IInv, AccountsReachable, KeyInHand, AccountInHand, WithKey, WithAccount, Requests
<1>4. RecordsRemembered' /\ Retries' /\ Known'
  BY DEF IInv, RecordsRemembered, Retries, Known
<1>5. Delivered' /\ SuccessIsIssued'
  BY DEF Delivered, SuccessIsIssued
<1> QED  BY <1>1, <1>2, <1>3, <1>4, <1>5 DEF IInv

LEMMA LoadAccountKeyStep == ASSUME IInv, LoadAccountKey PROVE IInv'
<1> USE DEF LoadAccountKey, Fail, GoTo, files, server, bounds
<1>1. FilesOK' /\ ServerOK' /\ RecordsOK'
  BY DEF IInv, FilesOK, ServerOK, RecordsOK
<1>2. PlaceOK' /\ CallOK' /\ CountersOK'
  BY DEF IInv, PlaceOK, CallOK, CountersOK, Places
<1>3. AccountsReachable' /\ KeyInHand' /\ AccountInHand'
  BY DEF IInv, AccountsReachable, KeyInHand, AccountInHand, WithKey, WithAccount, Requests
<1>4. RecordsRemembered' /\ Retries' /\ Known'
  BY DEF IInv, RecordsRemembered, Retries, Known
<1>5. Delivered' /\ SuccessIsIssued'
  BY DEF Delivered, SuccessIsIssued
<1> QED  BY <1>1, <1>2, <1>3, <1>4, <1>5 DEF IInv

LEMMA SaveAccountKeyStep == ASSUME IInv, SaveAccountKey PROVE IInv'
<1> USE DEF SaveAccountKey, Fail, GoTo, server, client, ghosts, bounds
<1>1. FilesOK' /\ ServerOK' /\ RecordsOK'
  BY DEF IInv, FilesOK, ServerOK, RecordsOK, KeyInHand
<1>2. PlaceOK' /\ CallOK' /\ CountersOK'
  BY DEF IInv, PlaceOK, CallOK, CountersOK, Places
<1>3. AccountsReachable' /\ KeyInHand' /\ AccountInHand'
  BY AcmeAssumption DEF IInv, AccountsReachable, KeyInHand, AccountInHand, WithKey, WithAccount,
     Requests, FilesOK, ServerOK
<1>4. RecordsRemembered' /\ Retries' /\ Known'
  BY DEF IInv, RecordsRemembered, Retries, Known
<1>5. Delivered' /\ SuccessIsIssued'
  BY DEF Delivered, SuccessIsIssued
<1> QED  BY <1>1, <1>2, <1>3, <1>4, <1>5 DEF IInv

LEMMA LoadAccountStateStep == ASSUME IInv, LoadAccountState PROVE IInv'
<1> USE DEF LoadAccountState, GoTo, files, server, ghosts, bounds
<1>1. FilesOK' /\ ServerOK' /\ RecordsOK'
  BY DEF IInv, FilesOK, ServerOK, RecordsOK
<1>2. PlaceOK' /\ CallOK' /\ CountersOK'
  BY DEF IInv, PlaceOK, CallOK, CountersOK, Places, Requests, FilesOK
<1>3. AccountsReachable' /\ KeyInHand' /\ AccountInHand'
  BY DEF IInv, AccountsReachable, KeyInHand, AccountInHand, WithKey, WithAccount
<1>4. RecordsRemembered' /\ Retries' /\ Known'
  BY DEF IInv, RecordsRemembered, Retries, Known
<1>5. Delivered' /\ SuccessIsIssued'
  BY DEF Delivered, SuccessIsIssued
<1> QED  BY <1>1, <1>2, <1>3, <1>4, <1>5 DEF IInv

LEMMA SaveAccountStateStep == ASSUME IInv, SaveAccountState PROVE IInv'
<1> USE DEF SaveAccountState, Fail, GoTo, server, client, ghosts, bounds
<1>1. FilesOK' /\ ServerOK' /\ RecordsOK'
  BY DEF IInv, FilesOK, ServerOK, RecordsOK, KeyInHand, AccountInHand, CallOK, WithKey,
     WithAccount
<1>2. PlaceOK' /\ CallOK' /\ CountersOK'
  BY DEF IInv, PlaceOK, CallOK, CountersOK, Places, Requests
<1>3. AccountsReachable' /\ KeyInHand' /\ AccountInHand'
  BY DEF IInv, AccountsReachable, KeyInHand, AccountInHand, WithKey, WithAccount
<1>4. RecordsRemembered' /\ Retries' /\ Known'
  BY DEF IInv, RecordsRemembered, Retries, Known
<1>5. Delivered' /\ SuccessIsIssued'
  BY DEF Delivered, SuccessIsIssued
<1> QED  BY <1>1, <1>2, <1>3, <1>4, <1>5 DEF IInv

\* An answer, by the request it is for.
LEMMA AnsweredStep == ASSUME IInv, Answered PROVE IInv'
<1> USE AcmeAssumption DEF Answered, Accepted, Serve, Proceed, GoTo, Fail, files, bounds, ghosts,
       IInv, FilesOK, ServerOK, RecordsOK, PlaceOK, CallOK, CountersOK, AccountsReachable, KeyInHand,
       AccountInHand, RecordsRemembered, Retries, Known, Issued, Delivered, SuccessIsIssued,
       Places, Requests, WithKey, WithAccount
<1>0. cleanup <=> at \in {"accept", "pollAuthorization"}  OBVIOUS
<1>1. CASE at = "find"  BY <1>0, <1>1, SMTT(60)
<1>2. CASE at = "create"  BY <1>0, <1>2, SMTT(60)
<1>3. CASE at = "order"  BY <1>0, <1>3, SMTT(60)
<1>4. CASE at = "authorization"  BY <1>0, <1>4, SMTT(60)
<1>5. CASE at = "accept"  BY <1>0, <1>5, SMTT(60)
<1>6. CASE at = "pollAuthorization"  BY <1>0, <1>6, SMTT(60)
<1>7. CASE at = "finalize"  BY <1>0, <1>7, SMTT(60)
<1>8. CASE at = "pollOrder"  BY <1>0, <1>8, SMTT(60)
<1>9. CASE at = "fetch"  BY <1>0, <1>9, SMTT(60)
<1> QED  BY <1>1, <1>2, <1>3, <1>4, <1>5, <1>6, <1>7, <1>8, <1>9

LEMMA RefusedStep == ASSUME IInv, Refused PROVE IInv'
<1> USE DEF Refused, FailRequest, Fail, GoTo, files, server, client, ghosts, bounds
<1>1. FilesOK' /\ ServerOK' /\ RecordsOK'
  BY DEF IInv, FilesOK, ServerOK, RecordsOK
<1>2. PlaceOK' /\ CallOK' /\ CountersOK'
  BY DEF IInv, PlaceOK, CallOK, CountersOK, Places, Requests
<1>3. AccountsReachable' /\ KeyInHand' /\ AccountInHand'
  BY DEF IInv, AccountsReachable, KeyInHand, AccountInHand, WithKey, WithAccount, Requests
<1>4. RecordsRemembered' /\ Retries' /\ Known'
  BY DEF IInv, RecordsRemembered, Retries, Known
<1>5. Delivered' /\ SuccessIsIssued'
  BY DEF Delivered, SuccessIsIssued
<1> QED  BY <1>1, <1>2, <1>3, <1>4, <1>5 DEF IInv

LEMMA LostStep == ASSUME IInv, Lost PROVE IInv'
<1> USE DEF Lost, FailRequest, Fail, GoTo, Accepted, Serve, files, server, client, ghosts,
        bounds
<1>1. FilesOK' /\ ServerOK' /\ RecordsOK'
  BY DEF IInv, FilesOK, ServerOK, RecordsOK, KeyInHand, WithKey
<1>2. PlaceOK' /\ CallOK' /\ CountersOK'
  BY DEF IInv, PlaceOK, CallOK, CountersOK, Places, Requests
<1>3. AccountsReachable' /\ KeyInHand' /\ AccountInHand'
  BY DEF IInv, AccountsReachable, KeyInHand, AccountInHand, WithKey, WithAccount, Requests,
     ServerOK
<1>4. RecordsRemembered' /\ Retries' /\ Known'
  BY DEF IInv, RecordsRemembered, Retries, Known, PlaceOK
<1>5. Delivered' /\ SuccessIsIssued'
  BY DEF Delivered, SuccessIsIssued
<1> QED  BY <1>1, <1>2, <1>3, <1>4, <1>5 DEF IInv

LEMMA BadNonceStep == ASSUME IInv, BadNonce PROVE IInv'
<1> USE DEF BadNonce, FailRequest, Fail, GoTo, files, server, client, bounds
<1>1. FilesOK' /\ ServerOK' /\ RecordsOK'
  BY DEF IInv, FilesOK, ServerOK, RecordsOK
<1>2. PlaceOK'
  BY DEF IInv, PlaceOK, CallOK, Places, Requests
<1>3. CallOK'
  BY DEF IInv, CallOK
<1>4. CountersOK'
  BY DEF IInv, CountersOK
<1>5. KeyInHand' /\ AccountInHand' /\ Known' /\ Delivered' /\ SuccessIsIssued'
  BY DEF IInv, PlaceOK, KeyInHand, AccountInHand, Known, Delivered, SuccessIsIssued,
     WithKey, WithAccount, Requests
<1>6. AccountsReachable' /\ RecordsRemembered' /\ Retries'
  BY AcmeAssumption DEF IInv, CountersOK, AccountsReachable, RecordsRemembered, Retries
<1> QED  BY <1>1, <1>2, <1>3, <1>4, <1>5, <1>6 DEF IInv

LEMMA NonceExpiresStep == ASSUME IInv, NonceExpires PROVE IInv'
<1> USE DEF NonceExpires, files, server, client, ghosts, bounds
<1>1. FilesOK' /\ ServerOK' /\ RecordsOK'
  BY DEF IInv, FilesOK, ServerOK, RecordsOK
<1>2. PlaceOK' /\ CallOK' /\ CountersOK'
  BY DEF IInv, PlaceOK, CallOK, CountersOK
<1>3. AccountsReachable' /\ KeyInHand' /\ AccountInHand'
  BY DEF IInv, AccountsReachable, KeyInHand, AccountInHand
<1>4. RecordsRemembered' /\ Retries' /\ Known'
  BY DEF IInv, RecordsRemembered, Retries, Known
<1>5. Delivered' /\ SuccessIsIssued'
  BY DEF Delivered, SuccessIsIssued, Requests
<1> QED  BY <1>1, <1>2, <1>3, <1>4, <1>5 DEF IInv

LEMMA PresentStep == ASSUME IInv, Present PROVE IInv'
<1> USE DEF Present, Fail, GoTo, files, server, client, bounds
<1>1. order' = order /\ order.n \in 1 .. order.n /\ order.n \in 0 .. order.n
  BY DEF IInv, ServerOK, Known
<1>2. FilesOK' /\ ServerOK'
  BY DEF IInv, FilesOK, ServerOK
<1>3. RecordsOK'
  BY <1>1 DEF IInv, RecordsOK
<1>4. PlaceOK'
  BY DEF IInv, PlaceOK, Places, Requests
<1>5. CallOK'
  BY DEF IInv, CallOK
<1>6. CountersOK'
  BY DEF IInv, CountersOK
<1>7. KeyInHand' /\ AccountInHand' /\ Known' /\ Delivered' /\ SuccessIsIssued'
  BY DEF IInv, PlaceOK, KeyInHand, AccountInHand, Known, Delivered, SuccessIsIssued,
     WithKey, WithAccount, Requests
<1>8. AccountsReachable' /\ RecordsRemembered' /\ Retries'
  BY DEF IInv, PlaceOK, AccountsReachable, RecordsRemembered, Retries
<1> QED  BY <1>2, <1>3, <1>4, <1>5, <1>6, <1>7, <1>8 DEF IInv

LEMMA WaitForTXTStep == ASSUME IInv, WaitForTXT PROVE IInv'
<1> USE DEF WaitForTXT, Fail, GoTo, files, server, client, ghosts, bounds
<1>1. FilesOK' /\ ServerOK' /\ RecordsOK'
  BY DEF IInv, FilesOK, ServerOK, RecordsOK
<1>2. PlaceOK' /\ CallOK' /\ CountersOK'
  BY DEF IInv, PlaceOK, CallOK, CountersOK, Places, Requests
<1>3. AccountsReachable' /\ KeyInHand' /\ AccountInHand'
  BY DEF IInv, AccountsReachable, KeyInHand, AccountInHand, WithKey, WithAccount
<1>4. RecordsRemembered' /\ Retries' /\ Known'
  BY DEF IInv, RecordsRemembered, Retries, Known
<1>5. Delivered' /\ SuccessIsIssued'
  BY DEF Delivered, SuccessIsIssued
<1> QED  BY <1>1, <1>2, <1>3, <1>4, <1>5 DEF IInv

LEMMA CleanupStep == ASSUME IInv, Cleanup PROVE IInv'
<1> USE DEF Cleanup, Fail, GoTo, files, server, client, ghosts, bounds
<1>1. attempt' = 0 /\ cleanup
  BY DEF IInv, PlaceOK
<1>2. FilesOK' /\ ServerOK' /\ RecordsOK'
  BY DEF IInv, FilesOK, ServerOK, RecordsOK
<1>3. PlaceOK'
  BY <1>1 DEF IInv, PlaceOK, Places, Requests
<1>4. CallOK'
  BY <1>1 DEF IInv, CallOK
<1>5. CountersOK'
  BY <1>1 DEF IInv, CountersOK
<1>6. KeyInHand' /\ AccountInHand' /\ Known' /\ Delivered' /\ SuccessIsIssued'
  BY DEF IInv, PlaceOK, KeyInHand, AccountInHand, Known, Delivered, SuccessIsIssued,
     WithKey, WithAccount, Requests
<1>7. RecordsRemembered'
  BY <1>1 DEF IInv, RecordsRemembered
<1>8. AccountsReachable' /\ Retries'
  BY <1>1 DEF IInv, AccountsReachable, Retries
<1> QED  BY <1>2, <1>3, <1>4, <1>5, <1>6, <1>7, <1>8 DEF IInv

LEMMA DeferredCleanupStep == ASSUME IInv, DeferredCleanup PROVE IInv'
<1> USE DEF DeferredCleanup, files, server, client, bounds
<1>1. order' = order /\ order.n \in 0 .. order.n /\ cleanup
  BY DEF IInv, ServerOK, PlaceOK
<1>2. FilesOK' /\ ServerOK'
  BY DEF IInv, FilesOK, ServerOK
<1>3. RecordsOK'
  BY <1>1 DEF IInv, RecordsOK
<1>4. PlaceOK' /\ CallOK'
  BY DEF IInv, PlaceOK, CallOK, Places
<1>5. CountersOK'
  BY DEF IInv, CountersOK
<1>6. KeyInHand' /\ AccountInHand' /\ Known' /\ Delivered' /\ SuccessIsIssued'
  BY DEF IInv, PlaceOK, KeyInHand, AccountInHand, Known, Delivered, SuccessIsIssued,
     WithKey, WithAccount, Requests
<1>7. AccountsReachable' /\ RecordsRemembered' /\ Retries'
  BY <1>1 DEF IInv, AccountsReachable, RecordsRemembered, Retries
<1> QED  BY <1>2, <1>3, <1>4, <1>5, <1>6, <1>7 DEF IInv

LEMMA WriteCertificateStep == ASSUME IInv, WriteCertificate PROVE IInv'
<1> USE DEF WriteCertificate, Fail, GoTo, server, client, ghosts, bounds
<1>1. FilesOK' /\ ServerOK' /\ RecordsOK'
  BY DEF IInv, FilesOK, ServerOK, RecordsOK
<1>2. PlaceOK' /\ CallOK' /\ CountersOK'
  BY DEF IInv, PlaceOK, CallOK, CountersOK, Places
<1>3. AccountsReachable' /\ KeyInHand' /\ AccountInHand'
  BY DEF IInv, AccountsReachable, KeyInHand, AccountInHand, WithKey, WithAccount
<1>4. RecordsRemembered' /\ Retries' /\ Known'
  BY DEF IInv, RecordsRemembered, Retries, Known
<1>5. Delivered' /\ SuccessIsIssued'
  BY DEF IInv, Delivered, SuccessIsIssued, Issued, Known
<1> QED  BY <1>1, <1>2, <1>3, <1>4, <1>5 DEF IInv

LEMMA ReturnStep == ASSUME IInv, Return PROVE IInv'
<1> USE DEF Return, files, server, client, ghosts, bounds
<1>1. FilesOK' /\ ServerOK' /\ RecordsOK'
  BY DEF IInv, FilesOK, ServerOK, RecordsOK
<1>2. PlaceOK' /\ CallOK' /\ CountersOK'
  BY DEF IInv, PlaceOK, CallOK, CountersOK, Places
<1>3. AccountsReachable' /\ KeyInHand' /\ AccountInHand'
  BY DEF IInv, AccountsReachable, KeyInHand, AccountInHand, WithKey, WithAccount
<1>4. RecordsRemembered' /\ Retries' /\ Known'
  BY DEF IInv, RecordsRemembered, Retries, Known
<1>5. Delivered' /\ SuccessIsIssued'
  BY DEF IInv, Delivered, SuccessIsIssued, Issued, KeyInHand, AccountInHand, WithKey,
     WithAccount
<1> QED  BY <1>1, <1>2, <1>3, <1>4, <1>5 DEF IInv

LEMMA ValidateStep == ASSUME IInv, Validate PROVE IInv'
<1> USE DEF Validate, files, client, request, ghosts, bounds
<1>1. FilesOK' /\ ServerOK' /\ RecordsOK'
  BY DEF IInv, FilesOK, ServerOK, RecordsOK
<1>2. PlaceOK' /\ CallOK' /\ CountersOK'
  BY DEF IInv, PlaceOK, CallOK, CountersOK
<1>3. AccountsReachable' /\ KeyInHand' /\ AccountInHand'
  BY DEF IInv, AccountsReachable, KeyInHand, AccountInHand
<1>4. RecordsRemembered' /\ Retries' /\ Known'
  BY DEF IInv, RecordsRemembered, Retries, Known
<1>5. Delivered' /\ SuccessIsIssued'
  BY DEF IInv, Delivered, SuccessIsIssued, Issued
<1> QED  BY <1>1, <1>2, <1>3, <1>4, <1>5 DEF IInv

LEMMA IssueCertificateStep == ASSUME IInv, IssueCertificate PROVE IInv'
<1> USE DEF IssueCertificate, files, client, request, ghosts, bounds
<1>1. FilesOK' /\ ServerOK' /\ RecordsOK'
  BY DEF IInv, FilesOK, ServerOK, RecordsOK
<1>2. PlaceOK' /\ CallOK' /\ CountersOK'
  BY DEF IInv, PlaceOK, CallOK, CountersOK
<1>3. AccountsReachable' /\ KeyInHand' /\ AccountInHand'
  BY DEF IInv, AccountsReachable, KeyInHand, AccountInHand
<1>4. RecordsRemembered' /\ Retries' /\ Known'
  BY DEF IInv, RecordsRemembered, Retries, Known
<1>5. Delivered' /\ SuccessIsIssued'
  BY DEF IInv, Delivered, SuccessIsIssued, Issued
<1> QED  BY <1>1, <1>2, <1>3, <1>4, <1>5 DEF IInv

\* A crash while the key is written: there was no key, so no account and no state.
LEMMA CrashStep == ASSUME IInv, Crash PROVE IInv'
<1> USE DEF Crash, server, client
<1>1. order' = order /\ order.n \in 0 .. order.n
  BY DEF IInv, ServerOK
<1>2. keyFile' = keyFile \/ (keyFile = None /\ keyFile' = Broken)
  BY DEF IInv, KeyInHand
<1>3. stateFile' = stateFile \/ stateFile' = Broken
  OBVIOUS
<1>4. FilesOK'
  BY <1>2, <1>3 DEF IInv, FilesOK
<1>5. ServerOK'
  BY DEF IInv, ServerOK
<1>6. RecordsOK'
  BY <1>1 DEF IInv, RecordsOK
<1>7. PlaceOK' /\ CallOK'
  BY DEF IInv, PlaceOK, CallOK, Places
<1>8. CountersOK'
  BY AcmeAssumption DEF IInv, CountersOK
<1>9. AccountsReachable'
  BY <1>2, AcmeAssumption DEF IInv, ServerOK, AccountsReachable
<1>10. KeyInHand'
  BY <1>2, <1>3, AcmeAssumption DEF IInv, FilesOK, KeyInHand, WithKey, Requests
<1>11. AccountInHand' /\ Known' /\ Delivered' /\ SuccessIsIssued'
  BY DEF AccountInHand, Known, Delivered, SuccessIsIssued, WithKey, WithAccount, Requests
<1>12. RecordsRemembered' /\ Retries'
  BY DEF IInv, RecordsRemembered, Retries
<1> QED  BY <1>4, <1>5, <1>6, <1>7, <1>8, <1>9, <1>10, <1>11, <1>12 DEF IInv

LEMMA InitInv == Init => IInv
<1> SUFFICES ASSUME Init PROVE IInv  OBVIOUS
<1> USE DEF Init
<1>1. FilesOK /\ ServerOK /\ RecordsOK  BY DEF FilesOK, ServerOK, RecordsOK
<1>2. PlaceOK /\ CallOK  BY DEF PlaceOK, CallOK, Places
<1>3. CountersOK  BY AcmeAssumption DEF CountersOK
<1>4. AccountsReachable /\ RecordsRemembered /\ Retries
  BY DEF AccountsReachable, RecordsRemembered, Retries
<1>5. KeyInHand /\ AccountInHand /\ Known /\ Delivered /\ SuccessIsIssued
  BY DEF KeyInHand, AccountInHand, Known, Delivered, SuccessIsIssued, WithKey, WithAccount, Requests
<1> QED  BY <1>1, <1>2, <1>3, <1>4, <1>5 DEF IInv

LEMMA NextInv == ASSUME IInv, [Next]_vars PROVE IInv'
<1>1. CASE Next
  BY <1>1, StartStep, LoadDirectoryStep, LoadAccountKeyStep, SaveAccountKeyStep,
     LoadAccountStateStep, SaveAccountStateStep, AnsweredStep, RefusedStep, LostStep, BadNonceStep, NonceExpiresStep, PresentStep, WaitForTXTStep,
     CleanupStep, DeferredCleanupStep, WriteCertificateStep, ReturnStep, ValidateStep,
     IssueCertificateStep, CrashStep
     DEF Next, Account, Request, Challenge
<1>2. CASE UNCHANGED vars
  BY <1>2 DEF vars, files, server, client, request, ghosts, bounds, IInv, FilesOK, ServerOK,
     RecordsOK, PlaceOK, CallOK, CountersOK, AccountsReachable, KeyInHand, AccountInHand, RecordsRemembered, Retries, Known,
     Issued, Delivered, SuccessIsIssued
<1> QED  BY <1>1, <1>2

LEMMA InvHolds == Spec => []IInv
  BY InitInv, NextInv, PTL DEF Spec

\* Acme's TypeOK: the types, and the deferred clean-up is registered exactly while there is
\* a record it knows of.
THEOREM TypeCorrect == Spec => []TypeOK
<1>1. IInv => TypeOK
  BY DEF IInv, FilesOK, ServerOK, RecordsOK, PlaceOK, CallOK, CountersOK, TypeOK
<1> QED  BY <1>1, InvHolds, PTL

\* Wherever the process ends, the key of every account at a server is in the key file:
\* LoadOrCreateAccount saves the key before it makes the account.
THEOREM AccountsStayReachable == Spec => []AccountsReachable
<1>1. IInv => AccountsReachable  BY DEF IInv
<1> QED  BY <1>1, InvHolds, PTL

\* No call of Issue leaves a challenge record, but for the excused ones.
THEOREM RecordsAreRemoved == Spec => []NoRecordLeft
<1>1. IInv => NoRecordLeft
  BY DEF IInv, PlaceOK, RecordsRemembered, NoRecordLeft
<1> QED  BY <1>1, InvHolds, PTL

\* True means an issued certificate, and no call fails for its nonce where every answer
\* brings a new one.
THEOREM ResultsDeserved ==
  ASSUME "no_replay_nonce" \notin Features
  PROVE  Spec => []ResultsAreDeserved
<1>1. IInv => ResultsAreDeserved
  BY DEF IInv, Retries, ResultsAreDeserved
<1> QED  BY <1>1, InvHolds, PTL
================================================================================
