-------------------------------- MODULE Plugins --------------------------------
(***************************************************************************)
(* Modules and plugins: the modules a script names in #use (modules.go),   *)
(* the WASM plugins among them, the calls of their functions, and the      *)
(* bridge by which a plugin has the host run docker and ffmpeg, write a    *)
(* file and replace one (loadwasm.go).                                     *)
(*                                                                         *)
(* The guest is external.  It answers, traps or exits, may do with its     *)
(* memory what it likes, and asks the bridge for anything; after its exit  *)
(* no function of it can be called.  The files a replacement is about are  *)
(* the only state that survives the process, which may end at any step.    *)
(***************************************************************************)
EXTENDS Naturals, Sequences, FiniteSets, FiniteSetsExt, Functions

CONSTANTS
  Plugins, Optional, \* what #use can name: plugins, modules built in
  Builtins,          \* names of functions
  Registers,         \* the names a module or plugin registers; those of "core" are always there
  Uses,              \* the lists of modules scripts name in #use
  Nobody, NoFile,
  MaxUses, MaxCalls, MaxRequests, MaxCrashes, \* bounds
  Features

(***************************************************************************)
(* unwritable      the guest returns memory that cannot be written         *)
(* unreadable      the guest returns a result that cannot be read          *)
(* dealloc_fails   the guest refuses to take memory back                   *)
(* replace_missing a file is replaced that does not exist                  *)
(***************************************************************************)
AllFeatures == {"unwritable", "unreadable", "dealloc_fails", "replace_missing"}

ASSUME PluginsAssumption ==
  /\ Plugins \cap Optional = {} /\ "core" \notin Plugins \cup Optional
  /\ Registers \in [Plugins \cup Optional \cup {"core"} -> SUBSET Builtins]
  /\ Uses \subseteq Seq(Plugins \cup Optional)
  /\ Nobody \notin Plugins \cup Optional \cup {"core"}
  /\ NoFile \notin Nat
  /\ MaxUses \in Nat /\ MaxCalls \in Nat /\ MaxRequests \in Nat /\ MaxCrashes \in Nat
  /\ Features \subseteq AllFeatures

Modules  == Plugins \cup Optional
Owners   == Modules \cup {"core", Nobody}
Contents == 0 .. 2
Bridge   == {"docker_exec", "ffmpeg_exec", "write_file", "replace_file"}

\* The values a script can pass: a path is a string looksLikeHostPath accepts, an object
\* and nothing at all have no JSON, and what is plain is taken as it is.
Kinds    == {"plain", "path", "null", "error", "obj", "none"}
JSON     == {"plain", "guestpath", "null", "error", "empty", "unknown", "invalid"}

VARIABLES
  owner,      \* builtins: whose function a name is
  loaded,     \* loadedModules; loadedPlugins holds the plugins among them
  open,       \* the plugins with an open runtime
  exited,     \* the plugins whose guest has exited
  at,         \* what is executed: nothing yet, a script, a step of loading or of a call
  uses,       \* the modules LoadModules has still to load, the current one first
  plugin,     \* whose function is called
  blocks,     \* the memory in each guest that the host has to give back
  deferred,   \* the calls of freePluginMemory a call has deferred, the latest first
  argument, value, \* what the script passes and what the call returns
  answered,   \* what the guest did with the call
  request,    \* what the guest asks the bridge for
  outcome,    \* whether the host has done it
  reply,      \* what the guest is told
  windows,
  files,      \* the three files of a replacement, by their contents
  offered,    \* what the source held when the latest replacement began
  latest,     \* what the target held last
  used, called, requested, crashes  \* counters

registry == <<owner, loaded, open, exited, uses>>
calling  == <<plugin, deferred, argument, value, answered>>
bridge   == <<request, outcome, reply>>
disk     == <<windows, files, offered, latest>>
bounds   == <<used, called, requested, crashes>>
vars     == <<registry, at, calling, blocks, bridge, disk, bounds>>

Init ==
  /\ owner = [n \in Builtins |-> Nobody] /\ loaded = {} /\ open = {} /\ exited = {}
  /\ at = "start" /\ uses = <<>>
  /\ plugin = Nobody /\ deferred = <<>>
  /\ argument = "none" /\ value = "none" /\ answered = "nothing"
  /\ request = "none" /\ outcome = "none" /\ reply = "none" /\ requested = 0
  /\ blocks = [p \in Plugins |-> {}]
  /\ windows \in BOOLEAN
  /\ files = [source |-> NoFile, target |-> 0, backup |-> NoFile]
  /\ offered = NoFile /\ latest = 0
  /\ used = 0 /\ called = 0 /\ crashes = 0

\* What a call keeps is gone with it.
NoCall ==
  /\ plugin' = Nobody /\ deferred' = <<>>
  /\ argument' = "none" /\ value' = "none" /\ answered' = "nothing"
  /\ request' = "none" /\ outcome' = "none" /\ reply' = "none" /\ requested' = 0
  /\ offered' = NoFile

--------------------------------------------------------------------------------
(* LoadModules.                                                             *)

Register(m) == [n \in Builtins |-> IF n \in Registers[m] THEN m ELSE owner[n]]

\* At the start, for #use, and for a script that is checked by a running one: the
\* mandatory modules are registered anew each time.
LoadModules ==
  \E list \in Uses :
     /\ at \in {"start", "script"} /\ used < MaxUses
     /\ used' = used + 1
     /\ owner' = Register("core")
     /\ uses' = list
     /\ at' = "modules"
     /\ UNCHANGED <<loaded, open, exited, calling, blocks, bridge, disk, called, requested, crashes>>

\* LoadOptionalModule: what is built in, or loaded already.
LoadBuiltIn ==
  /\ at = "modules" /\ uses # <<>> /\ Head(uses) \in loaded \cup Optional
  /\ owner'  = IF Head(uses) \in loaded THEN owner ELSE Register(Head(uses))
  /\ loaded' = loaded \cup {Head(uses)}
  /\ uses'   = Tail(uses)
  /\ UNCHANGED <<open, exited, at, calling, blocks, bridge, disk, bounds>>

ModulesLoaded ==
  /\ at = "modules" /\ uses = <<>>
  /\ at' = "script"
  /\ UNCHANGED <<registry, calling, blocks, bridge, disk, bounds>>

Loading(now, then) ==
  /\ at = now /\ at' = then
  /\ UNCHANGED <<calling, blocks, bridge, disk, bounds>>

\* The directory, the file and the cache.
OpenPlugin ==
  /\ uses # <<>> /\ Head(uses) \notin loaded \cup Optional
  /\ Loading("modules", "runtime")
  /\ UNCHANGED registry

\* The runtime with WASI and the bridge in it.
CreateRuntime ==
  /\ Loading("runtime", "instantiate")
  /\ open' = open \cup {Head(uses)}
  /\ UNCHANGED <<owner, loaded, exited, uses>>

\* CompileModule, buildGuestFSConfig, InstantiateModule, _initialize.
Instantiate ==
  /\ Loading("instantiate", "abi")
  /\ UNCHANGED registry

\* The exports and the version of the interface.
CheckABI ==
  /\ Loading("abi", "describe")
  /\ UNCHANGED registry

\* The description is read, and every function in it registered.
Describe ==
  /\ Loading("describe", "modules")
  /\ owner' = Register(Head(uses))
  /\ loaded' = loaded \cup {Head(uses)}
  /\ uses' = Tail(uses)
  /\ UNCHANGED <<open, exited>>

\* An early return of LoadWasmPlugin: the deferred function closes the runtime, if there
\* is one.  LoadModules returns the error; none of its callers looks at it.
LoadFails ==
  /\ at \in {"runtime", "instantiate", "abi", "describe"}
  /\ Loading(at, "script")
  /\ open' = open \ {Head(uses)}
  /\ uses' = <<>>
  /\ UNCHANGED <<owner, loaded, exited>>

--------------------------------------------------------------------------------
(* callPluginFunction.                                                      *)

\* toJSONValue.
ToGuest(k) ==
  CASE k = "path" -> "guestpath" [] k = "obj" -> "error" [] k = "none" -> "empty" [] OTHER -> k

\* fromJSONValue: the guest's paths stay as they are.
FromGuest(j) ==
  CASE j = "guestpath" -> "path" [] j = "empty" -> "null" [] j = "invalid" -> "error"
    [] j = "unknown" -> "none" [] OTHER -> j

Call ==
  \E n \in Builtins, k \in Kinds :
     /\ at = "script" /\ called < MaxCalls /\ owner[n] \in Plugins
     /\ called' = called + 1
     /\ plugin' = owner[n] /\ argument' = k
     /\ at' = "args"
     /\ UNCHANGED <<registry, deferred, value, answered, blocks, bridge, disk, used, requested, crashes>>

Gone == plugin \in exited

GuestExits == exited' = exited \cup {plugin}

\* A return with an error: what has been deferred is still to be done.
ReturnError ==
  /\ at' = "return" /\ value' = "error"
  /\ UNCHANGED <<plugin, argument, deferred>>

\* writeToPluginMemory, and freePluginMemory deferred.
WriteToPlugin(block, then) ==
  \E result \in {"written", "fails", "exits"} \cup (Features \cap {"unwritable"}) :
     /\ Gone => result = "fails"
     /\ IF result = "exits" THEN GuestExits ELSE UNCHANGED exited
     /\ IF result \in {"written", "unwritable"}
          THEN blocks' = [blocks EXCEPT ![plugin] = @ \cup {block}]
          ELSE UNCHANGED blocks
     /\ IF result = "written"
          THEN /\ at' = then /\ deferred' = <<block>> \o deferred
               /\ UNCHANGED <<plugin, argument, value>>
          ELSE ReturnError
     /\ UNCHANGED <<owner, loaded, open, uses, answered, bridge, disk, bounds>>

WriteArgs == at = "args" /\ WriteToPlugin("args", "name")
WriteName == at = "name" /\ WriteToPlugin("name", "guest")

\* vbx_call ends: with an answer, with none, in a trap, or the guest exits.
GuestReturns ==
  \E json \in JSON \cup {"echo", "no result", "trap", "exit"}, readable \in BOOLEAN :
     LET answer == IF json = "echo" THEN ToGuest(argument) ELSE json IN
     /\ at = "guest"
     /\ readable \/ (json \in JSON /\ "unreadable" \in Features)
     /\ answered' = IF readable THEN answer ELSE "unreadable"
     /\ IF json = "exit" THEN GuestExits ELSE UNCHANGED exited
     /\ IF answer \in JSON
          THEN blocks' = [blocks EXCEPT ![plugin] = @ \cup {"result"}]
          ELSE UNCHANGED blocks
     /\ IF answer \in JSON /\ readable
          THEN /\ at' = "decode" /\ deferred' = <<"result">> \o deferred
               /\ UNCHANGED <<plugin, argument, value>>
          ELSE ReturnError
     /\ UNCHANGED <<owner, loaded, open, uses, bridge, disk, bounds>>

\* fromJSONValue reads the guest's memory, before anything deferred is done.
Decode ==
  /\ at = "decode"
  /\ value' = FromGuest(answered)
  /\ at' = "return"
  /\ UNCHANGED <<registry, plugin, deferred, argument, answered, blocks, bridge, disk, bounds>>

\* A bug of the kind cleanup code invites: one of the deferred calls is forgotten.
FreeDeferred_ForgetsName ==
  /\ at = "return" /\ deferred # <<>>
  /\ IF Head(deferred) = "name" THEN UNCHANGED blocks
                                ELSE blocks' = [blocks EXCEPT ![plugin] = @ \ {Head(deferred)}]
  /\ deferred' = Tail(deferred)
  /\ UNCHANGED <<registry, at, plugin, argument, value, answered, bridge, disk, bounds>>

\* freePluginMemory, whose error is ignored.
FreeDeferred ==
  /\ at = "return" /\ deferred # <<>>
  /\ \E result \in {"freed", "exits"} \cup (Features \cap {"dealloc_fails"}) :
       /\ Gone => result = "exits"
       /\ IF result = "exits" THEN GuestExits ELSE UNCHANGED exited
       /\ IF result = "freed" THEN blocks' = [blocks EXCEPT ![plugin] = @ \ {Head(deferred)}]
                              ELSE UNCHANGED blocks
  /\ deferred' = Tail(deferred)
  /\ UNCHANGED <<owner, loaded, open, uses, at, plugin, argument, value, answered,
                 bridge, disk, bounds>>

CallReturns ==
  /\ at = "return" /\ deferred = <<>>
  /\ at' = "script"
  /\ NoCall
  /\ UNCHANGED <<registry, blocks, windows, files, latest, used, called, crashes>>

--------------------------------------------------------------------------------
(* The bridge.                                                              *)

\* Called by the guest.  A request that cannot be read is refused.
HostFunction ==
  \E r \in Bridge :
     /\ at = "guest" /\ requested < MaxRequests
     /\ requested' = requested + 1
     /\ request' = r /\ outcome' = "none" /\ reply' = "none"
     /\ at' = "work"
     /\ UNCHANGED <<registry, calling, blocks, disk, used, called, crashes>>

Working(r, result) ==
  /\ at = "work" /\ request = r
  /\ outcome' = result /\ at' = "reply"
  /\ UNCHANGED <<registry, calling, blocks, request, reply, disk, bounds>>

Refuse == Working(request, "refused")

\* Denied arguments and a failing command are answered in the usual form: Code is not 0.
DockerExec == \E result \in {"done", "refused"} : Working("docker_exec", result)
FFmpegExec == \E result \in {"done", "refused"} : Working("ffmpeg_exec", result)

\* os.WriteFile, below the base directory only.
WriteFile == \E result \in {"done", "refused"} : Working("write_file", result)

\* The guest makes the file that is to be the new one.
PrepareSource ==
  /\ at = "guest" /\ files.source = NoFile
  /\ files' = [files EXCEPT !.source = Min(Contents \ Range(files))]
  /\ UNCHANGED <<registry, at, calling, blocks, bridge, windows, offered, latest, bounds>>

\* replaceFileHost up to the first change.
StartReplace ==
  /\ at = "work" /\ request = "replace_file"
  /\ files.source # NoFile
  /\ files.target = NoFile => "replace_missing" \in Features
  /\ offered' = files.source
  /\ at' = IF windows THEN "remove" ELSE "rename"
  /\ UNCHANGED <<registry, calling, blocks, bridge, windows, files, latest, bounds>>

Move(from, to) == [files EXCEPT ![to] = files[from], ![from] = NoFile]

\* A file operation of a replacement that succeeds; the target as it was is remembered.
Step(new, then) ==
  /\ files' = new /\ at' = then
  /\ latest' = IF new.target = NoFile THEN latest ELSE new.target
  /\ UNCHANGED <<registry, calling, blocks, request, reply, windows, offered, bounds>>

Finish(new, result) == Step(new, "reply") /\ outcome' = result

\* os.Rename replaces the target at once.
Rename ==
  /\ at = "rename"
  /\ Finish(Move("source", "target"), "done") \/ Finish(files, "refused")

\* A backup that an earlier replacement left is removed; an error is ignored.
RemoveOldBackup ==
  /\ at = "remove"
  /\ \E new \in {files, [files EXCEPT !.backup = NoFile]} : Step(new, "backup")
  /\ UNCHANGED outcome

\* A bug of the kind two renames invite: the target is removed, not kept.
BackUp_Removes ==
  /\ at = "backup" /\ files.target # NoFile
  /\ Step([files EXCEPT !.target = NoFile], "move") /\ UNCHANGED outcome

BackUp ==
  /\ at = "backup"
  /\ \/ files.target # NoFile /\ Step(Move("target", "backup"), "move") /\ UNCHANGED outcome
     \/ Finish(files, "refused")

MoveIn ==
  /\ at = "move"
  /\ \/ Step(Move("source", "target"), "cleanup")
     \/ Step(files, "rollback")
  /\ UNCHANGED outcome

RollBack ==
  /\ at = "rollback"
  /\ Finish(Move("backup", "target"), "refused") \/ Finish(files, "refused")

\* The replacement has been made also where the backup cannot be removed.
RemoveBackup ==
  /\ at = "cleanup"
  /\ Finish([files EXCEPT !.backup = NoFile], "done") \/ Finish(files, "refused")

\* hostBridgeError: the code -1 of a docker_exec, or nothing where that fails, too.
ErrorReplies == {"error", "zero"}

\* A bug of the kind copied handlers invite: the reply does not look at the result.
Reply_AlwaysOK ==
  /\ at = "reply" /\ at' = "guest" /\ reply' = "ok"
  /\ UNCHANGED <<registry, calling, blocks, request, outcome, disk, bounds>>

\* The reply is written to memory the guest allocates and owns, which may fail although
\* the work is done.
Reply ==
  \E told \in {"usual"} \cup ErrorReplies :
     /\ at = "reply" /\ at' = "guest"
     /\ reply' = IF told # "usual" THEN told ELSE IF outcome = "done" THEN "ok" ELSE "error"
     /\ UNCHANGED <<registry, calling, blocks, request, outcome, disk, bounds>>

--------------------------------------------------------------------------------

\* The process ends anywhere, and is started again.
Crash ==
  /\ at # "start" /\ crashes < MaxCrashes
  /\ crashes' = crashes + 1
  /\ owner' = [n \in Builtins |-> Nobody] /\ loaded' = {} /\ open' = {} /\ exited' = {}
  /\ at' = "start" /\ uses' = <<>>
  /\ NoCall /\ blocks' = [p \in Plugins |-> {}]
  /\ UNCHANGED <<windows, files, latest, used, called>>

Load    == LoadModules \/ LoadBuiltIn \/ ModulesLoaded \/ OpenPlugin \/ CreateRuntime
             \/ Instantiate \/ CheckABI \/ Describe \/ LoadFails
Invoke  == Call \/ WriteArgs \/ WriteName \/ GuestReturns \/ Decode \/ FreeDeferred \/ CallReturns
Replace == StartReplace \/ Rename \/ RemoveOldBackup \/ BackUp \/ MoveIn \/ RollBack \/ RemoveBackup
Host    == HostFunction \/ Refuse \/ DockerExec \/ FFmpegExec \/ WriteFile \/ PrepareSource
             \/ Replace \/ Reply

Next == Load \/ Invoke \/ Host \/ Crash

Spec == Init /\ [][Next]_vars

--------------------------------------------------------------------------------
(* Properties.                                                              *)

\* The types of the variables, and what ties them: a name is a plugin's only while its
\* runtime is open, no runtime is open but for a loaded plugin and the one being loaded,
\* so that a failed load leaves nothing behind.
TypeOK ==
  /\ owner \in [Builtins -> Owners] /\ loaded \subseteq Modules
  /\ open \subseteq Plugins /\ exited \subseteq loaded
  /\ uses \in Seq(Modules)
  /\ plugin \in Plugins \cup {Nobody} /\ blocks \in [Plugins -> SUBSET {"args", "name", "result"}]
  /\ deferred \in Seq({"args", "name", "result"})
  /\ argument \in Kinds /\ value \in Kinds
  /\ windows \in BOOLEAN /\ files \in [{"source", "target", "backup"} -> Contents \cup {NoFile}]
  /\ offered \in Contents \cup {NoFile} /\ latest \in Contents
  /\ Range(owner) \cap Plugins \subseteq loaded
  /\ loaded \cap Plugins \subseteq open
  /\ open \subseteq loaded \cup (IF at \in {"instantiate", "abi", "describe"} THEN {Head(uses)} ELSE {})

\* Whatever way a call ends, the memory it took in a guest that lives on is given back
\* (freePluginMemory), but for the cases named in Features.
MemoryReturned ==
  at = "script" => \A p \in Plugins \ exited : blocks[p] = {}

\* The error of a call reaches the script as an error, an answer as the value it stands
\* for; and what the guest is told to have been done has been done.
AnswersAreTrue ==
  /\ at = "return" => value = IF answered \in JSON THEN FromGuest(answered) ELSE "error"
  /\ reply = "ok" /\ at = "guest" => outcome = "done"
  /\ outcome = "done" /\ request = "replace_file" => files.target = offered

\* "damit keine Daten verloren gehen" (loadwasm.go:708): what the target held last is
\* there, or in the backup, whichever step fails and wherever the process ends.
TargetIsKept == latest \in {files.target, files.backup}

================================================================================
