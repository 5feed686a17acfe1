# VBX in TLA+

VBX runs scripts in a small VB-like language. It is one Go process: a lexer and
a parser build a syntax tree, an evaluator walks it, and some forty `stdlib_*.go`
files provide the builtins, several of which start goroutines or talk to a
network. This directory holds TLA+ models of the parts where the program's own
logic can go wrong, the TLC runs that check them, and TLAPS proofs about the most
important of them.

Line numbers below and in `PROJECT.json` are those of the Go files in `src/`.

    cd tla
    tlc -workers 2 -config Scopes.cfg MCScopes
    tlapm ScopesProofs.tla

## 1. The system

### Control flow of the process

`main.go` preloads modules and calls `RunFile` (`runfile.go`). That reads the
file, looks at `#requires` and `Use`, tokenizes and parses (an `Include` is
parsed in place), registers the functions and subs in process-wide tables,
rejects calls of unknown names, and evaluates the statements inside
`runWithShutdownHook`. The signal the statements end with becomes the outcome.
One goroutine runs the script. Others exist only inside builtins (file workers,
connection readers) and in the shutdown hook.

### Components

| Component (files) | State | Operations | What is hard | What makes it correct |
|---|---|---|---|---|
| Lexer and parser (`lexer.go`, `parser.go`, `walker.go`) | tokens, `loopDepth`, `loopStack`, `procStack` | statements, expressions, the walk that warns of unknown calls | stacks kept beside the recursion; lines counted twice, by characters and by tokens; four walks that must agree | the language is accepted and nothing else; warnings and lines are right |
| Include and validation (`parser.go` 57-93, 1199-1305, `runfile.go`) | `includeSeen`, `includeActive`, `includeCache`, function tables | RunFile, CanExecuteFile/String, INCLUDE | state that survives one run and is seen by the next | each file once, loops reported, nothing left marked by an error |
| Variables, scopes, calls (`evaluator.go` 170-660, 700-1105, 1930-1990) | `Environment`: `vars`, `consts`, `parent`; per node `cachedLookupEnv`, `cachedPtr`, `cachedConst` | Dim, Const, Public, assignment, compound assignment, loop and Catch variables, calls, returns | the tree, with its caches, is shared by all activations of a procedure | two scopes, looked up anew at every use; `a op= b` is `a = a op b` |
| Statements, signals, errors (`evaluator.go` 680-1740, `runfile.go` 200-260) | the Go call stack, one signal | loops, If, Select, Try, calls, Exit, Continue, Return, errors | a signal passes through many constructs, each of which may keep, change or consume it | Finally always runs; errors end at a handler or in the report |
| Values, operators, Select (`evaluator.go`, `helper.go`) | two dispatch tables in each Select node | conversions, comparison, arithmetic, Select | a cached dispatch beside a linear scan, two paths for `x op= y` | the same either way |
| Arrays (`stdlib_array.go`, `evaluator.go`) | slices that share blocks | index, append, insert, remove, sort, clone | functions that change a block in place and return a slice of another length | a statement changes the variables it names and their relatives only |
| Texts (`Global.go`, `stdlib_string.go`) | none | cutting, searching, lines, versions | positions from 0 or 1, in bytes or characters | the functions agree with each other |
| JSON (`stdlib_json.go`) | one document, its file | Load, Set, Delete, Save, searches | paths through lists, values and nothing; a save in two steps | all of a path is changed or nothing; the file is never half written |
| Files (`stdlib_file*.go`) | the files | reading, writing, rewriting, copying, moving, encoding, watching | a failing write, the end of the process between two steps; a log that is emptied or replaced while it is watched | what is reported has happened; what is moved is not lost; every line is reported once |
| Parallel work on files (`stdlib_folder.go`, `stdlib_file.go`) | channels of jobs and results, wait groups, semaphores | Copy, Move, FindInFiles, HashBatch | order of close, wait and receive; errors of single files | every result once; no file lost; the builtin returns |
| OBS connections and shutdown (`stdlib_websocket.go`, `runfile.go` 150-200) | registry of connections, `readMu`, bounded channel, `obsRecording`, `obsRequestNext` | OBSConnect, OBSGetRecordStatus, OBSStartRecord, OBSStopRecord, Receive, Close, StopAllOBSRecordings | three goroutines, deadlines against late answers, a signal at any moment | a recording of one's own is stopped; the process ends |
| Uptime Kuma client (`stdlib_kuma.go`) | pending acknowledgements, mutex, connection | login, maintenance, monitors | acknowledgement against timeout; two writers | the builtin returns, and what it returns has happened |
| Databases and table synchronisation (`stdlib_db.go`, `helper_sql.go`) | a transaction per call or batch | SyncTable(s), CopyTable, Exec, ExecFile, Insert, ... | two snapshots, batches, deletion of missing rows, commit and rollback on errors | all or nothing; a sync that stops leaves a safe mixture; the report is true |
| ACME certificates (`acme.go`, `stdlib_acme.go`, `account.go`, `dns_*.go`) | account, nonce, order, authorization, DNS record, files | Account, Issue | retries with nonces, polling, clean-up, a crash between two saves | the account stays reachable; the record is removed; True means a certificate |
| Plugin host and modules (`loadwasm.go`, `modules.go`) | function table, runtimes, guest memory, the files of a replacement | LoadModules, calls, the bridge | early returns between allocation and release; a replacement in six steps | what is allocated is released; the file that is replaced is kept |
| Everything else | handles or nothing | wrappers | outside this process | not modelled, see section 8 |

### How they interact

* Parser and evaluator share the tree. Everything the evaluator caches lives in
  its nodes, so two activations of a procedure, and two runs of the same tree,
  see each other's caches (`Scopes`, and the dispatch tables in `Values`).
* A builtin returns a value or an error value. The evaluator turns an error value
  into `SignalError` at the statement, and back into an error value at the end of
  a call (`ControlFlow`).
* A running script has other scripts read (`CanRun`). They share the parser's tables of
  includes and the tables of procedures with it (`Includes`), and the modules (`Plugins`).
* `runWithShutdownHook` joins the evaluator and the connections: the hook's
  goroutine runs `StopAllOBSRecordings` and ends the process while the script is
  still being executed (`ObsSession`).
* The file builtins use goroutines but return only when these are done; nothing
  of them remains in the evaluator's state (`FolderWorkers`).
* Slices make values of variables share memory (`Arrays`). All other builtins get and
  return copies, so that the modules about them need no state of the evaluator.

## 2. Modules

| Module | Content |
|---|---|
| `LexicalScope` | what the Readme promises about names: two scopes, no caches |
| `Scopes`, `MCScopes`, `ScopesProofs` | `Environment` and the nodes that cache, as the code implements them; `TypeCorrect`, `CachesAreCoherent`, `Implementation` |
| `StructuredControl` | what the Readme promises about Exit, Continue, Return, errors, Try |
| `ControlFlow` | signals handed from construct to construct |
| `Includes`, `IncludesProofs` | the parsers of a script and of what it includes, over several scripts in a process; `ActiveCorrect`, `CacheUnused`, `LoopsReported`, `FirstPassCorrect` |
| `Expressions`, `Lexer`, `Syntax`, `MCSyntax` | the parser: expressions, tokens with their lines, statements and the walker |
| `Values`, `Arrays`, `Strings`, `Text`, `JsonStore`, `JsonSearch`, `MCData` | the data of a script |
| `ScriptProofs` | `TypeCorrect`, `FinallyAlways`, `ErrorsPropagate`, `Implementation` of `ControlFlow`; `EitherWay` of `Values`; `ChangesKeepTheirPromise`, `DocumentIsNotLost` of `JsonStore`; `VersionsHaveAnOrder`, `PartsMakeUpTheText` of `Text` |
| `MemoryProofs` | `OthersStay`, `StatementsMean` of `Arrays`; `MemoryIsReturned`, `AnswersStayTrue`, `TargetStays` of `Plugins` |
| `Files`, `LogWatch`, `MCFiles` | the calls of `file.`, and the watching of a log |
| `FolderWorkers` | Copy, Move, FindInFiles and HashBatch with their workers |
| `FilesProofs` | `MoveLosesNothing` of `FolderWorkers`, `InputsSurvive`, `ReportsAreDeserved` of `Files` |
| `ObsSession`, `Kuma`, `MCSockets`, `SocketsProofs` | the OBS connection with the end of the process; the Uptime Kuma client |
| `Databases`, `MCDatabases`, `DatabasesProofs` | the builtins that write rows |
| `Acme`, `AcmeProofs` | account and certificate, over crashes and restarts |
| `Plugins`, `MCPlugins` | modules, plugins, their memory and the bridge |

Modules whose components share nothing are put together by an MC module with a
variable `part` (or `service`): a behaviour is about one of them, and the other parts rest
in a single state. This saves runs, not states.

Most detailed modules have a constant `Features` (with a prefix, such as `JsonFeatures`, where
modules are combined). It names what a script, a file
system, a server or a user may do that makes the code break a promise. A run that passes has
`Features = {}`: its theorem is "if nobody does any of these, then ...". The habits are
guards of the actions, next to the code's own guards, and named in the header of the
module. Section 4 lists what each of them breaks.

Definitions whose comment begins with "A bug of the kind" (names with an underscore,
like `LeaveTryBody_ReturnSkipsFinally`) are not part of the specifications. Each is a
plausible mistake in the definition after it, and `PROJECT.json` pairs it with the
property that notices it.

### Scopes and LexicalScope

| State | Code |
|---|---|
| `parent`, `ptr`, `consts` | fields of `Environment`; `ptr[e][x] = 0` when `x` is not in the map |
| `heap` | what the pointers refer to; it only grows, as nothing frees a `*Value` in use |
| `cache[n]` | `cachedLookupEnv`, `cachedPtr`, `cachedConst` of the node |
| `stack` | the Go calls of `evalFunctionCall`; `mode` is where an activation is suspended |

A step is one access to the variables, not one statement. A compound assignment
is `BeginCompound`, any number of steps and calls, `FinishCompound`; the calls
may reach the same node again. `WhileNode` and `ForNode` have a fast path for a
body of one compound assignment (`EnterLoop`, `ContinueLoop`, `CombineInLoop`)
which keeps its own pointer and reads the left operand after the right one.
Calls always hang off the root (`Call`), parameters are bound in the new
Environment one by one (`BindParam`) while defaults may already read.

A value is a member of `Values`, and `calculateBinaryOp` the function `Combine`.
Assignment to array elements changes a value and no binding; it is left out.
`Fresh` hands out every Environment once, like the allocator does as long as a
cache refers to the old one.

`LexicalScope` has no pointers and no caches. `RefinesLexicalScope` maps the value
behind a pointer to the variable, and says that the interpreter does nothing
that the language does not allow.

### ControlFlow and StructuredControl

`frames` is the nesting of `evalStatements` calls, `sig` the signal the innermost one
has just returned. Statements are free: any the parser accepts may come next.
Each construct has one action per part of its code: `LeaveLoopBody` is the switch of
the four loops, `LeaveTryBody` and `LeaveFinally` are `TryNode`, `ReturnFromCall` is the end of
`evalFunctionCall` together with the expression around the call (`ctx`), `EndScript` the
mapping in `runParsedInternal`. `Panic` is the recovered Go panic.

`StructuredControl` unwinds all frames up to the one a statement means in one step.
The refinement mapping replaces a signal on its way by the frames it will leave,
so every hop of the code is a stutter there.

### Includes

| State | Code |
|---|---|
| `includes`, `condition` | the files on disk; they do not change during a run |
| `stack` | the parsers at work: the script's, and one for each nested `INCLUDE`; `next` is where each is |
| `active`, `seen`, `cached` | `includeActive`, `includeSeen`, the keys of `includeCache` |
| `parsed` | the statements of the pass, as the order of the files they come from |
| `known` | the keys of `funcs` and `subs` |
| `phase`, `mode`, `root`, `verdict` | where the process is, and the latest `runFileInternal` with its result |

`Skip`, `LoopFound` and `Enter` are the branches of `INCLUDE`, `Leave` the return of a sub-parser,
`SyntaxError` a panic anywhere in the rest of a file. `Panic` unwinds all parsers at once:
nothing can be observed between their deferred functions. `EndPass` registers the
procedures and checks the calls, and `Begin` is `runFileInternal` for the command line, for
`--dryrun` and for a `CanRun` of the running script. A file calls the procedures of the
files it includes, so a call is unknown when the include was passed over. Left out
are `#requires`, `#use` (in `Plugins`), encrypted scripts and the checks of a file's bytes, which
refuse a script before it is parsed, and `CanRunString`, which differs in having no file.

`Reach`, `HasLoop`, `HasError`, `HasMissing` say what a script is by its files alone; they know
nothing of parsers and tables, and the properties compare the verdicts with them.

### Expressions, Lexer and Syntax

`Expressions` has the recursive descent as operators, one per level of precedence, on a
sequence of symbols; `Parsed` is what `parser.go` builds and `Meant` what the grammar of the
language says. `Lexer` turns a sequence of character classes into tokens with the line that
the lexer writes into them; `Syntax` adds the lines the parser counts by itself.

| State | Code |
|---|---|
| `stack` | the parser's active calls, one frame for a construct with the part that is read now, one for a file |
| `loopDepth`, `loopStack`, `procStack` | the fields beside the recursion, set and reset where `parseStatement` and its callees do |
| `verdict`, `warnings` | what `parseFile` returned, and what the walk over the tree has found |
| `read` | the tokens consumed, from which the properties derive what the text is |

A script grows by a token a step (`Token`), so that all prefixes are judged too; what a
token does is an operator for each kind of statement (`OpenBlock`, `NextPart`, `Close`, `OpenSub`, `Include`,
`Simple`, `Fail`). `Features` holds back four habits, of which section 4 speaks.

### Values, Arrays, Text, JsonStore, JsonSearch

These have no interaction but that all are values of a script; `MCData` runs each
by itself.

`Values` holds two values, `left` and `right`, and the `cases` of a Select, to which the parser adds one after the other (`AddCase`). The operators are those of `evaluator.go` (numbers before texts,
commas read as points, Null and truth values), `Dispatch` is the two tables of `SelectNode`, `Scan` the search that replaces
them, `CompoundAssign` the path of `x op= y`. The abstract side is the linear search and the
plain assignment.

`Arrays` models what Go's slices do: a variable holds a block and a length, `Appended` writes into the
block when there is room and takes a new one otherwise, and so on through `stdlib_array.go`. `kin`
is history: which variables were made from which. `last` is the last statement with
what it means for contents (`means`), computed without blocks.

`Text` has a text that grows, and operators for the functions; the three invariants are about
all positions and parts in it. `Strings` is what package `strings` does, shared with `Files`.

`JsonStore` is `JsonEngine`: `store` and `bound` are `Data` and `Path`, `disk` holds what each file and its
`.tmp` contain, `saving` the step of `json.Save` (write, rename), after each of which it may fail or the process
end. The walk along a path is a recursive function of how far it has come: `NodeAt` is what `getNested` returns, `Way` the nodes
`setNested` passes, making maps that are missing (`NodeFor`), and `Replaced` what becomes of them on the way back. What is not there is an empty set, so
that an error is a change without a result. `done` records the last call
with the document before it, against which `ChangesMeanWhatTheySay` compares. `JsonSearch` adds the functions that search a whole document.

### Files and LogWatch

A call of `Files` is a record `call`: the builtin, its operands, the step it is at, what it has read and what
it will return; `disk` is what each path holds. A step is a system call: open (which truncates), write of any
prefix, rename, remove. Any can fail and `Crash` may follow any. Builtins with the same steps share
actions (`Base64Encode` and `FindWords` differ in the conversion).

`LogWatch` has the writer (`WriteLine`, `Truncate`, `Rotate`, `Recreate`) and the watcher, whose handle refers to
an inode, not a path. `Poll` is one round of the loop: a `stat` of the path, then a read through the handle.

### ObsSession and Kuma

`at` is the program counter of the two goroutines that send requests, `main` and
`hook`; the reader has no state of its own but `done`. `obsRequest` is `Send` (lock,
number, send), `Drop` and `TakeAnswer` (the loop over the channel) and `GiveUp` (the
deadline or the end of the connection). `StopAllOBSRecordings` is `Swap`, `TryLock`
(which includes the unlock that follows, and the send without a lock), `RequestStop`.
OBS, the socket and the user are external. OBS answers in the order of the requests
and executes what was written before the process ended. `ours` and `abandoned` are history:
whether a request of VBX started the recording, and whether a `StartRecord` was given up
without an answer.

`Kuma` is a builtin with its connection. Its dial waits three times: for the answer of an HTTP request, for the packet
that opens the session and for the one that connects (`DialGoesOn`, `HandshakeEnds`, `DialFails`); none of the three has a timeout. Then
`caller` is where main is in `call` (register in `pending`, send, wait, unregister), `loop` where `readLoop` is, with the answer it has in hand
between the lock and the hand-over, `mu` the holder of the mutex.

### FolderWorkers

One builtin is executed, chosen in `Init` with the files, their matching lines and
what the target contains. The walk's order is free (`todo` is a set). The actions of
`main` are the places where it can block or branch. Workers take, send and finish.
`Remove` is `os.RemoveAll` file by file, so that the property also speaks about the
moments in between.

### Databases

| State | Code |
|---|---|
| `source`, `target` | committed rows, by id; a row is what its columns hold |
| `tx`, `writes` | the open transaction and what it wrote, `Untouched` where it did not |
| `call`, `at` | the builtin with its options, and where it is |
| `existing`, `todo`, `sinceCommit` | `existingSignatures`, the rows still to be compared, `rowsSinceCommit` |
| `report`, `result` | what the builtin returns |
| `before`, `goal` | history: the target at the begin, and as it should be after a success |

`ReadTarget` and `ReadSource` are its two snapshots, `CompareRow` writes a row into the open
transaction, `CommitBatch` ends that and begins another, `DeleteOrphans` comes last. Every statement and commit can fail; a
commit that reports an error may have taken effect. `OthersWrite` changes the source at any moment.
`Exec` and `ExecFile` run a script of statements, with its own COMMIT or without.

### Acme

`keyFile`, `stateFile`, `certFile` are the files, `accounts`, `order`, `authz`, `records` the state of the server and
the DNS provider, the rest the variables of the call: `at` is where it is, `nonce` and
`attempt` belong to `postJWSWithPayload`. A request is one action with four outcomes: refused, lost,
served, served with the answer lost. Each may or may not bring a nonce. `Crash` forgets
everything but files, server and records. `excused` (the records
`NoRecordLeft` excepts) and `badNonce` are history.

### Plugins

`LoadModules` goes through the list in `#use` step by step (`at` = "compile", "instantiate", "describe",
...), with the early return of the code after each. A call allocates for the function's name and its
arguments, runs the guest, reads the answer and releases (`blocks` and `deferred` are the memory
and the pending releases). The guest may ask the bridge; `replace_file` is the six steps of
`loadwasm.go:650-740` on `files` (target, temporary file, backup).

## 3. Runs that pass

| Run | Asks | Bounds | States |
|---|---|---|---|
| `scopes` | Are the caches invisible? | 1 name, top level + 2 procedures (one with a parameter of that name), 3 Environments, nodes of all four kinds, 2 values | 105 000 |
| `control` | Does handing signals on amount to unwinding? | nesting of 4: the script and three constructs or calls | 102 000 |
| `includes` | Is a script judged by its own files, whatever was read before? | 3 files, every graph of up to 2 INCLUDEs per file (repetitions and self-includes among them), each file fine, broken or absent, 3 scripts per process | 193 000 |
| `syntax` | Is exactly the language accepted, with the right trees, warnings and lines? | every script of 6 tokens in each of three vocabularies, every expression of 6 symbols that begins plausibly, every text of 6 characters | 1 201 000 |
| `data` | Do the functions on arrays, texts, values and the JSON document mean what they say? | 3 variables, arrays of 3 elements, 3 statements; texts of 5 characters; all pairs of 15 values, Selects of 3 cases; 2 calls and every save on a document of depth 2 | 404 500 |
| `files` | Does a call keep what it was given and do what it reports? Does a watched log lose a line? | 2 paths, contents of 3 characters, chunks of 3, any failure and crash; 3 lines, 2 cuts | 123 000 |
| `folder` | Is every file handled once, and does the builtin return? | 3 files, 2 workers, room for 1 job and 2 results, 2 matches per file | 26 000 |
| `sockets` | Is the recording stopped, and only one's own? Does the process end? Does a builtin of `kuma.` return, and tell the truth? | a channel for 1 message, 3 request numbers for the script (the exit may use one more), 1 event; 1 ping | 271 000 |
| `databases` | Is a copy or script all or nothing, a partial synchronisation safe, the report true? | 2 tables with 2 + 1 ids, 2 values, any contents, batches of 1, 2 and all, 2 statements in a script, 1 write of others, any failure | 516 000 |
| `acme` | Do account, record and result survive retries, failures and crashes? | 2 directories, 3 keys, 3 calls, 1 crash | 265 000 |
| `plugins` | Is memory given back, an answer true, a replaced file kept? | 2 plugins, 1 built-in module, 2 loads, 2 calls with 1 request to the bridge each, 1 crash | 2 969 000 |

The states of `databases`, `data` and `scopes` are counted up to symmetry. It is used where all properties are
invariants or action properties and the permuted values are treated alike.

Why these are enough to show what they are about:

* `scopes`. A stale cache needs a node, an activation that moved its cache and one that
  comes back: three Environments are root, outer and inner activation. Names do
  not interact, except through a node, which has one name. `f` shadows the name by its
  parameter and `g` does not, so both a local and a top-level variable are behind
  the same name. Two values distinguish a lost write from a write; `MCCombine` depends
  on both operands.
* `control`. A construct reacts to the signal of its body and passes on a signal; what
  matters is the pair of neighbours and what is around them. Three levels inside the
  script are a call, a construct in it and a construct in that one.
* `includes`. Three files are enough for a file included twice on different ways, and for loops
  of length 1 to 3 that contain the script or not. Three passes are a script, a
  check that leaves something behind and a check that meets it.
* `syntax`. The parser's stacks differ from the recursion when a construct is opened in
  another one, left, and something follows that looks at the stacks: `FOR`, `SUB`, `END SUB`,
  `EXIT FOR`, `NEXT` and the end of the file are six tokens. Every pair of operators of different and equal
  precedence is in an expression of five. The run passes with seven of each, too, in twice the time.
* `data`. Two variables share a block, one of them is changed beyond the length of the other, a third was made from
  either: three statements. Five characters hold a separator of two letters and
  parts on both sides. All pairs of values are tried. Two calls on the document are one that
  makes a state no fresh document has, and one that meets it.
* `files`. Three characters are a line, its end and the begin of another. Two cuts let a new log be replaced
  before it is read.
* `folder`. More files than workers and than jobs fit in the channel: the walk blocks.
  Three files with two matches are more than the two results that fit.
* `sockets`. A channel for one message makes the reader block, which 64 would do after 64
  messages. With three requests a script starts a recording (two requests) and
  begins one more; a late answer of the first can meet the second and the third. A builtin of
  Kuma makes at most three calls, so nothing is cut there but pings, which only matter one at a time.
* `databases`. A batch of one or two is smaller than the first table, so a synchronisation stops between
  batches, between the rows and the deletion, and between tables. One write of others suffices to change
  a row between the reading of the source and any other step.
* `acme`. A first call makes an account, is interrupted or not; a second meets what is left, at the
  same server or the other; a third meets what the second made of it.
* `plugins`. A name belongs to a builtin, to a plugin and to the plugin loaded after it. A second call
  meets the memory the first one left; a second replacement the files of the first.

### What each property says

* `scopes`: `CacheCoherent` - a cache in an activation that can continue is what a
  fresh search would give. `RefinesLexicalScope` - no program can tell the difference: constants keep their value,
  activations do not touch each other's locals, `a op= b` is `a = a op b`.
  `TypeOK` says that whatever refers to the heap refers to something there.
* `control`: `FinallyBeforeLeaving` - a Try is left through its Finally, by whatever signal.
  `ErrorsAreNotLost` - an error ends at a handler, in IsError or in the report.
  `RefinesStructuredControl` - hop by hop is the same as unwinding at once.
* `includes`: `ActiveIsPending` - exactly the files being read are marked as being read, also
  after panics. `LoopIsReal` - a reported loop is a path of INCLUDEs from the file to itself.
  `FirstPassIsRight` - the first script of a process is refused if and only if its files
  deserve it, and is read with all of them, each once.
* `syntax`: `AcceptedIffWellFormed` compares the verdict with the language, a set of texts built by concatenation from
  the grammar without any stack; a text is refused at its first token no script goes on with.
  `WarningsAreRight` - a call is warned of if and only if nothing in the text
  answers it. `ExpressionsParseRight` - the tree is that of the grammar. `LinesAreRight` - the
  line of the parser, counted by tokens, and the line of the lexer, counted by characters, are the line in the text.
* `data`: `ArrayCallsMean` - what a statement assigns is what it says of its operands' contents, although all happens in
  shared blocks. `OnlyRelativesChange` - it changes no variable that has nothing to do with
  those it names. `FunctionsAgree` relates functions on a text, and the searches of a document (in any spelling of a condition), to one another;
  `SameEitherWay` the table of Select to the search and a compound assignment to the plain one; `ChangesMeanWhatTheySay` the document
  after a call to the one before, at the path of the call and at all others. `JsonIsNotLost` - no file is ever half written, and after a save
  that succeeded it holds what was saved.
* `files`: `CallsDoWhatTheySay` - success means the documented result. `ReadersAgree` - Head, Tail, the counts and
  searches agree with the lines of the file. `SourcesSurvive` - no failure and no end of the process loses the input of
  a call. `LinesAreReported` - a watch reports every matching line that is logged, if it goes on polling.
* `folder`: `NothingLost` - a file is in the source or complete in the target at every
  moment. `ReturnsComplete` - every builtin returns, with every result once.
* `sockets`: `OwnRecordingIsFlagged` - no order of timeouts and late answers
  loses a recording of one's own. `ShutdownEnds` - a signal, or the end of the script,
  ends the process. `RecordingIsStopped` - either stops the recording. `KumaResultsMean` - what a builtin returns has
  happened at the server, and nothing waits in `pending` for nobody. `KumaReturns` - it returns and its reader ends, if Kuma
  does not leave its dial waiting.
* `databases`: `AllOrNothing` - copies and scripts; and no builtin leaves a transaction open. `PartialSyncIsSafe` - wherever
  a synchronisation stops, rows are old or new, deletions come last, earlier tables are done. `ReportIsTrue` - a
  success is one, and the numbers SyncTable and SyncTables return are those of the rows that differed, in all the tables of the call and
  over however many batches (the deletions of an empty source excepted, section 4).
* `acme`: `AccountsReachable` - the key of every account is in the key file, wherever the process ends. `NoRecordLeft` - a call leaves its
  challenge record only when the process ends, when Present fails half-way, or when the deferred deletion fails, which is tried once.
  `ResultsAreDeserved` - True means a certificate, and no call fails for its nonce, unless the server refuses one without giving another.
  `CallEnds`.
* `plugins`: `MemoryReturned`, `AnswersAreTrue`, `TargetIsKept` (what the target held last is in the target or the backup
  after every step of a replacement).

Type invariants are checked where nothing else of the run implies them; the proofs of section 5 contain one for
each of their modules.

### Deadlock and fairness

All runs but `folder` set `CHECK_DEADLOCK FALSE`: a script may end, and
with the bounds it does. `FolderWorkers` checks deadlock, and its `Returned` step is the
builtin that has returned.

Fairness is stated where a liveness property needs it:

* `ObsSession`: every goroutine that can go on does (`Request_`, `Ending`, `Handshake`, `Change`, `Store`, `EndReceive`,
  `HookWakes`, `ReadMessage`, `ReadError`): the Go scheduler is fair, and `GiveUp` is a deadline that passes.
  OBS executes what it received (`Serve`), which `RecordingIsStopped` cannot do without. Nothing is assumed of the
  script, of events, of a user, of the network or of the arrival of a signal.
* `Kuma`: main and the reader go on. Kuma answers the three waits of the dial, or ends the connection (`HandshakeEnds`), unless
  `silent` is in `KumaFeatures`: the code waits there without a timeout, and `KumaReturns` rests on that promise. After
  the dial Kuma promises nothing, since each call has a timeout.
* `FolderWorkers`: main, the workers and the goroutine that closes the results go on; nobody has to refuse, fail or skip.
* `LogWatch`: the watch goes on polling (`Watcher`), and a program that renamed its log opens the new one (`Recreate`).
* `Acme`: the steps of a call go on (each request has a timeout in the HTTP client), and the server
  decides on an authorization and an order in the end. Without the last, `CallEnds` fails: the
  polling has no deadline of its own.

All are weak fairness. The other modules have safety properties only.

## 4. Where the code and its words differ

One run expects a violation:

| Run | The code | The words |
|---|---|---|
| `files_encode_errors` | `Base64Encode` ignores the errors of `io.Copy` and `enc.Close` and returns a success for an output that was written in part (`stdlib_file.go:366`) | `md/file.md:615`: errors are reported and not swallowed |

The features that a passing run leaves out are the other places. Each can be added to the `Features` of its cfg; the
property that then fails is named.

Language (`Scopes`, `ControlFlow`, `Includes`, `Syntax`, `Values`, `Arrays`):

* `recursive_compound`: `x += f()` writes through the node's cache after `f()` returned; if `f` reached the same
  statement in another activation, that activation's variable is written (`evaluator.go:889`; `Readme.md:304` says that
  `a += b` is `a = a + b`). `RefinesLexicalScope`.
* `late_const`: a node that assigned to a name before it became `Const` goes on assigning
  (`evaluator.go:793`; `Readme.md:377` says the script ends with an error). `RefinesLexicalScope`.
* `late_shadow`: the comment at `evaluator.go:1940` names the limit itself. `const_overwrite`: Public, Dim of an array, loop
  variables and Catch do not look at `consts`. `rhs_changes_left`: the fast path of a loop and the plain statement evaluate
  in a different order; nothing is promised about it.
* `empty_catch`: an empty Catch block is nil for `TryNode`, and the error leaves the Try (`evaluator.go:1682`,
  `parser.go:237`; `Readme.md:532`: Try/Catch catches every error). `RefinesStructuredControl`.
* `exit_outer_loop`: `Exit For` inside a `Do` inside a `For` leaves the `Do`. `RefinesStructuredControl`.
  `not_of_error`: `Not f()` is True when `f` fails. `ErrorsAreNotLost`.
* `includeSeen` is never reset (`parser.go:1234`): the second `CanRun` of a script with a broken include passes over the
  include and answers True, although `Global.go:1255` promises an error. `FirstPassIsRight` is about the first script for that reason.
* `nested_procedure`: a SUB inside IF or FOR parses, but the walker looks for procedures on the top level only
  (`walker.go:232`). `nested_include`: likewise, for what an INCLUDE in a block declares. `nested_public`: a `Public` inside a procedure counts for
  the walker as a name of that procedure (`walker.go:155`), so that a right call elsewhere is warned of; `Readme.md:365` says that it is visible in the whole script.
  `WarningsAreRight`.
  `multiline_braces`: a line that ends inside `{}` of a `$"..."` is not counted. `LinesAreRight`.
* `mixed_cases`, `odd_numerals`: Select's table prefers the kind of the value to the order of the cases. `infinity`: `x - "inf"` is a
  number and `x -= "inf"` an error. `SameEitherWay`.
* `ragged`: reading `m(i, j)` asks row 0 for the number of columns (`evaluator.go:485`). `ArrayCallsMean`.
* `array.Insert(a, ...)`, `array.RemoveAt(a, ...)` and the like without an assignment do move the cells of the block `a` looks at; only its length stays
  (`stdlib_array.go`; `md/array.md:6`: no effect on the variable). `OnlyRelativesChange` therefore counts `a` among what the call names.

Data and files (`Text`, `JsonStore`, `Files`, `LogWatch`):

* `umlauts`: IndexOf counts bytes and Substring characters; PadLeft mixes both. `old_mac`: a lone carriage return is a line end for some
  functions only. `mixed`: RemoveLine takes `\r\n` for the style of a text that has one anywhere (`stdlib_string.go:199`), where `md/string.md:395` says
  that the style found first wins. `digits`: ExtractMax compares versions as text. `FunctionsAgree`.
* `element`: json.Delete of an element of a list leaves null in its place. `nil`: a file that holds null leaves a map that was never made, and
  json.Set panics. `ChangesMeanWhatTheySay`. `null`: a null in a document makes
  functions disagree whether something is there. `numbers`, `million`: conditions of searches compare printed numbers, large ones with an exponent.
  `capitals`: json.SearchDeepWhereGetContains takes keys that differ only in case for one (`stdlib_json.go:696`, `:730`), the other searches do not.
  `FunctionsAgree`. The values of a condition have no case in the Where searches (`:63`, `:81`; `md/json.md:239`), but have one in json.Query
  (`:446`): the property says so.
* json.RenameKey of a key that is missing changes nothing and returns a success (`stdlib_json.go:851`), where `md/json.md:96` promises an error
  value. `ChangesMeanWhatTheySay` takes the code's side: it asks that nothing changes, and not for an error.
* `same`: input and output are one file, which is emptied before it is read. `in_place`: the rewriting functions empty the file first; an error or a
  crash loses its content. `SourcesSurvive`. `encode`: see above; it holds for FindWords, too.
* `chunk`: Tail of a file longer than 4096 bytes whose lines cross a chunk. `open_end`, `blank_end`: a last line without an end, and
  empty lines at the end, are counted by some readers. `open_cr`: of a file that ends with a lone carriage return, Head, Search and the other functions with
  a scanner drop it (`stdlib_file.go:1552`), ReadAllLines keeps it (`:1329`). `ReadersAgree`. Beyond the properties: ReadAllLines of an empty file gives one line while LineCount is 0;
  file.Replace returns Null where `md/file.md` says Bool.
* `parts`: a line written in two parts is searched in two parts. `late`, `regrow`: lines that were not read before the log was emptied, or a new log as
  long as the old one. `LinesAreReported`.

Connections (`ObsSession`, `Kuma`):

* `script_goes_on`: hook and main both run `StopAllOBSRecordings`; the one that finds the flag cleared ends the process before the other has sent
  `StopRecord` (`stdlib_websocket.go:184`; `md/websocket.md:130`: the recording is stopped on Ctrl+C or SIGTERM). `RecordingIsStopped`.
* `signal_at_exit`: after `signal.Stop` a second Ctrl+C ends the process while the recording is being stopped. `by_hand`: if somebody stops the
  recording in OBS and starts another, the end of the script stops that one.
* `refused`: the answers to the calls after login and addMaintenance are not looked at; a refused one is reported as OK
  (`stdlib_kuma.go:375`, `:410`). `KumaResultsMean`. `ping_race`: the reader answers a ping while main writes; two writers break the connection
  or the process (`:170`). `silent`: a server that takes the connection and does not answer keeps the dial for ever, as the HTTP request has no timeout
  (`:72`) and the two reads of the handshake no deadline (`:137`, `:151`). `KumaReturns`.

Everything that changes more than one thing (`FolderWorkers`, `Databases`, `Acme`, `Plugins`):

* `copy_fails`: `Move` removes the source although files were not copied: `Copy` drops all errors (`stdlib_folder.go:353`; `md/folder.md:126`, `:133`). `NothingLost`.
  `many_matches`: `FindInFiles` hands over all files before it receives a result; with more matches than the channel holds and more files than slots, it
  waits for ever. `ReturnsComplete`.
* `target_writer`: what others write to the target between the two reads and the end is overwritten or deleted. `exec_commit_fails`: `db.Exec` does not
  report a failed commit. `manual_dry_run`: a dry run of a script with its own COMMIT commits. `left_open`: such a script that stops in between leaves the transaction open.
  `AllOrNothing`, `ReportIsTrue`. Also, with the columns of the two tables in another order (`MCAB`, `MCBA`) all rows count as different
  (`helper_sql.go:443`, `:587`; `md/db.md:180`), and an id that is NULL (`NullKey` in `Keys`) makes the DELETE match nothing; an empty source
  deletes all rows and reports none.
* `no_replay_nonce`: a badNonce answer without a new nonce makes the one retry use the refused one (`acme.go:735`, `:753`). `ResultsAreDeserved`.
* `acme.Issue` goes the whole way and returns True (`stdlib_acme.go:312`), where `md/acme.md:56` says that it is unfinished and always
  returns an error. `ResultsAreDeserved` is about the code: it says what that True means.
* `acme.Issue` deletes its TXT record afterwards (`md/acme.md:54`), but on every early return before the validation is over by one deferred attempt whose
  error is dropped (`stdlib_acme.go:263`): when that fails, the record stays and nobody is told. `NoRecordLeft` excepts it.
* `unwritable`, `unreadable`, `dealloc_fails`: memory of the guest that is not given back. `MemoryReturned`. `replace_missing`: an interrupted replacement has left the only copy in the
  backup, and the next one removes the backup first (`loadwasm.go:656`). `TargetIsKept`.
* `LoadModules` stops at the first module it cannot load (`modules.go:92`), and its callers (`main.go:100`, `runfile.go:173`, `parser.go:1250`, `:1271`) ignore that: the script runs without it and those after it.

## 5. Proofs

All proofs hold for every value of the constants that satisfies the named
assumption of the module, any depth of recursion or nesting and any length of the run. Where a theorem assumes that a
feature is not in `Features`, it says so in its statement.

`ScopesProofs`

* `TypeCorrect == Spec => []TypeOK`. `TypeOK` is inductive as it stands because it includes
  `Resumable`: a suspended activation has a node and a pointer inside the heap. `TypeStep`
  has a step per action; the lemmas before it treat the ways the stack can change
  (`SetTopType`, `PushType`, `PopType`), writes (`WriteType`), declarations (`PutType`) and caches
  (`RememberType`).
* `CachesAreCoherent == Spec => []CacheCoherent`, if neither `late_shadow` nor `late_const` is in
  `Features`. `CacheCoherent` speaks about activations that can continue, which is not
  inductive: what keeps a cache from becoming stale must hold of all caches,
  those of finished activations included, and it needs the shape of the scope chain
  (every Environment's parent is the root or it has not been used; an unused one has
  no variables and no cache). `StepKinds` classifies the actions into uses,
  declarations, calls and returns; `ChainStep` and `CacheStep` go through the kinds.
* `Implementation == Spec => RefinesLexicalScope`, if nobody does anything `Features` names: every step of the interpreter is a step of the
  language or none. Caches and pointers must agree with names at every moment (`RefInv`): besides `CacheCoherent`, different names of an
  Environment have different cells (`Distinct`), a cell nobody refers to is blank (`Blank`), each activation has an Environment of
  its own (`OwnScopes`), and a suspended compound assignment holds the cell of its own variable (`Pending`, for each frame of
  the stack). A step is mapped kind by kind: a write through a pointer is the write of one name, a declaration adds one, and what only fills a cache is a stutter.

`ScriptProofs`, statements

* `TypeCorrect == Spec => []TypeOK`, with an invariant `IInv` that adds what is known of the
  expression around a call. Every action returns a signal, enters, leaves or changes
  the frame at the top: `ReturnStep`, `EnterStep`, `PopStep`, `BecomeStep`.
* `FinallyAlways == Spec => FinallyBeforeLeaving`. A Try is popped only by `LeaveTryBody` without
  a Finally and by `LeaveFinally`; `EndScript` has a single frame, the script's.
* `ErrorsPropagate`: `Spec => ErrorsAreNotLost`, if `not_of_error` is not in `Features`. It needs the
  invariant: only a Try is in its Finally, and a call's context is known.
* `Implementation == Spec => RefinesStructuredControl`, if nobody does anything `Features` names. The language leaves a construct
  at once, to the one that is meant; the interpreter hands a signal from construct to construct. While a signal is on its way, the
  language is still before its jump (`OnItsWay`: what is between the top and the target lets the signal pass; `Nested`: Exit and
  Continue have a target). That the innermost target exists, and stays the same when one frame is popped (`SameUnwinding`), is shown with the largest
  element of a set of positions (`LastIndex`, by well-foundedness), as an induction is not available.

`ScriptProofs`, values

* `EitherWay == ValueSpec => []SameEitherWay`, if `ValueFeatures = {}`, for a Select of any number of cases. The tables of the first execution are
  functions of the cases: a number is found at the first case with it (`dispatchNumCache`), a text at the first case that is written so.
  `DispatchIsScan` shows that the answer of the tables is the first match of the search. The entries of both for a value are the cases that match it
  (`TablesAgree`), since outside the odd pairs a number and a text are equal exactly when they are written alike (`TextReadings`); and only one of the tables has any,
  since a number and a text that are equal are not both among the cases (`InBothTables`). For the assignments, the ways in which an operand is read as a number differ on infinity only (`NumbersAgree`, `PlainIsCompound`).

`ScriptProofs`, the JSON document

* `ChangesKeepTheirPromise == JsonSpec => []ChangesMeanWhatTheySay`, if neither `element` nor `nil` is in `JsonFeatures`; for paths of any length, any number
  of calls, and documents as deep as these make them. Both are needed: with either the property is false (section 4). What a path leads to is a recursive function, and
  no induction over paths is available; the lemmas about all paths take a path of least length at which they fail (`LeastOf`). That the recursions define
  something (`WalkExists`, `WayExists`, `RenewedExists`) is shown the same way. Then `getNested` goes from the head of a path or to its last key
  (`FromHead`, `ToLast`), `setNested` is one step at the first key and `setNested` of the tail below (`ReplacedHead`, `ReplacedStep`), and so a change
  at a path puts its value there, leaves every path that leads elsewhere as it was, and is possible unless the path leads through a value.
  json.Append, RenameKey and Delete are changes of that kind, at a path or at the one above it.
* The invariant, `DocumentInv`: the document, and each in a file, is a map in which every list a path leads to has a sequence of elements (`Sound`; without it a list
  that is read, lengthened and stored would not be one), and the last call has kept its promise (`Promised`). Calls keep soundness, as what they put into a document was sound.
* `DocumentIsNotLost == JsonSpec => []JsonIsNotLost`, with every feature. `SaveInv` says what stands in the temporary file and the file at each step
  of json.Save, and that only the temporary file is ever torn.

`ScriptProofs`, texts

* `VersionsHaveAnOrder` and `PartsMakeUpTheText` are about the operators, for versions and texts of any length: parts of what `FunctionsAgree` checks for short ones.
  Compare decides by the first part in which two versions differ (`CompareIs`, with the least element of the set of these parts), and InStr is the least
  place of those at which the text stands.

`IncludesProofs`

* `IInv` adds to `TypeOK` and `ActiveIsPending`: each parser but the last waits at the `INCLUDE` of the
  file above it (`Chain`), a file being read is one that was seen, and so is a file in the
  cache (`CacheNeverHit`). The last two need each other: what `Leave` caches was being read.
  `MovedKeeps`, `PushKeeps` and `PopKeeps` treat the changes of the stack.
* `TypeCorrect`, `ActiveCorrect == Spec => []ActiveIsPending`, and `CacheUnused`: INCLUDE asks `includeSeen`
  first, so the cache is never read with success.
* `LoopsReported == Spec => LoopIsReal`: only `LoopFound` gives that verdict, its file is pending,
  and `Chain` is the path.
* `FirstPassCorrect == Spec => []FirstPassIsRight`, without an assumption on `Features`: the first script of a process is accepted exactly if what it reaches
  parses and has no loop, and its tables then hold what it reaches. `Reach` is the smallest set of files closed under INCLUDE (`ReachIs`, `ReachTransitive`). The
  parsers finish the files in an order (`ReadInOrder`): a finished file parses, and each file it includes was finished before it. Such an order has no loop
  (`NoLoopInOrder`), and everything reachable from a file in it is in it; a verdict of a loop or an error names a file that the script reaches (`LoopJudged`, `ErrorJudged`).

`SocketsProofs`

* `OwnRecordingIsKnown == Spec => []OwnRecordingIsFlagged`, whatever is in `Features`. A number is new when it is given (`Fresh`). While
  nobody has given up a start or begun the end (`Calm`; once false it stays false), the one `StartRecord` that
  can be under way waits at OBS, or its answer is on the way back, or main has it in hand (`StartIsHeard`; and once a `StopRecord` is
  answered, no recording of VBX runs: `StopIsHeard`), and main awaits it with the number it was sent with (`StartIsAwaited`, `NumberIsOwn`). The lemmas
  are about kinds of steps: `MovesKeep`, `TakeAnswerKeeps`, `GiveUpKeeps`, `StoreKeeps`, `ServeKeeps` and so on.
* `KumaTellsTheTruth == KumaSpec => []KumaResultsMean`, if `refused` is not in `KumaFeatures`. A number is given once, and an acknowledgement
  tells what Kuma did with the request of its number wherever it is: at Kuma, on the way, in the table of pending calls or in main's hand. A deadline that
  passes removes the entry, so that a late acknowledgement finds nobody.

`DatabasesProofs`

All theorems assume that nobody else writes to the target, and that scripts with a COMMIT of their own end what they begin and are not run dry;
`ReportsAreTrue` assumes in addition that the commits of `db.Exec` do not fail (`Features = {}`).

* `CopiesAndScriptsAreWhole == Spec => []AllOrNothing`. `Transactions` says which transaction is open at which place, `Copying` that
  the open transaction of a copy holds what has been copied so far, `Whole` that the target is the one of the begin until the commit.
* `StoppedSyncsAreSafe == Spec => []PartialSyncIsSafe`, for tables that are named once each, have their columns in the same order and no NULL as an id.
  No moment of a synchronisation is its only commit. `Syncs` therefore speaks of each id: its table is done (`Done`), is still to come (`Ahead`), or
  is at work, and then its row is as it was or has been compared and is right in the open transaction (`Compared`); after the deletion all are right (`Final`).
  There is a lemma per action.
* `ReportedSyncsHappened`: by the same invariant, a synchronisation that reports a success has made the target what the source was.
* `ReportsAreTrue == Spec => []ReportIsTrue`: the numbers of inserted, updated and deleted rows that SyncTable and SyncTables return are those of the differences
  between the target before and after in the tables they were called for, and
  what reports a success has done all of it. `Counts` says that each number is the cardinality of the set of rows that were changed so far, and the comparison goes on with the
  rows that are left; `Told` and `SoFar` what the other calls and scripts have done when they report (`SuccessStep`).

`FilesProofs`

* `MoveLosesNothing == Spec => []NothingLost`, if `copy_fails` is not in `Features`. `NothingLost` is not inductive: `RemoveAll` looks at
  no file. What makes it true is that main reaches it only after every worker has ended with its copy
  complete. `Progress` says where a file is that is not complete yet: still on the walk's list, in the channel
  or with a worker; `RemovedLast` that the source is whole until nothing is left in those three places.
* `InputsSurvive == FileSpec => []SourcesSurvive`, if neither `same` nor `in_place` is in `FileFeatures`. A call that has an input leaves it where it was with what it held
  (`InputKept`) until the whole of it stands in the output; the only step that removes it comes after that, and nothing the call does afterwards writes the output (`OutputKept`).
* `ReportsAreDeserved == FileSpec => [](call.op \in Transfers \/ call.result = "nothing" => CallsDoWhatTheySay)`, if neither `same` nor `encode` is in
  `FileFeatures`. `CallsDoWhatTheySay` is about the moment of the report. `Faithful` is what leads there: what the output holds together with what is still to be
  written makes the `Meaning` of the call true, and what `Move` has copied does so already. That `file.Compare` then finds no difference between a
  copy and its source needs `InputKept`: the source has not been touched. `Encoded` and `Decoded` say for every content that `Base64` and `Unbase64` undo each other. `Transfers` are the functions that do not look into lines;
  for the others the theorem says that they change nothing when they report `nothing`.

`AcmeProofs`

* `AccountsStayReachable == Spec => []AccountsReachable`: an account is created with the key in hand, which was read from the key
  file or written to it before (`KeyInHand`), and a key file is only written when it is missing, when no account exists
  (`KeyInHand`, `AccountInHand`).
* `RecordsAreRemoved == Spec => []NoRecordLeft`: a record that exists belongs to the call at work, which has
  `cleanup` pending or is about to remove it, or is excused (`RecordsRemembered`).
* `ResultsDeserved == Spec => []ResultsAreDeserved`, if `no_replay_nonce` is not in `Features`. From the place of a call follow
  the status of order and authorization at the server (`Known`) and the content of the file (`Delivered`); a
  second attempt has a good nonce (`Retries`).

`MemoryProofs`, arrays

* `OthersStay == ArraySpec => OnlyRelativesChange`, rows of different lengths included, and
  `StatementsMean == ArraySpec => []ArrayCallsMean`, if `ragged` is not in `ArrayFeatures`; for finitely many variables, arrays of at
  most 256 elements and any number of statements. Neither property is inductive alone: what a statement means depends on where its operand's cells are
  when they are moved. `MemoryInv` says that every slice ends inside its block, that block 0 has no cells, and that a block is in two variables only when one was made from the other.
* Two blocks are always unused (`TwoUnused`), as variables have at most two rows and there are `2 * Cardinality(Names) + 2` blocks beside block 0.
  Every statement is a change of the heap that touches unused blocks and those of its operands (`Touches`, `WriteTouches`), followed by an assignment
  (`BecomesKeeps`) or none (`StaysKeeps`), which also clear the blocks nobody sees (`Collected`). A lemma per function compares the cells it leaves with
  what it means: `InsertKeeps`, for example, that the cells moved to the right are those `InsertAt` has there.

`MemoryProofs`, plugins

* `TypeCorrect` includes that a name is registered for a plugin only while its runtime is open, on all early returns of loading.
* `MemoryIsReturned == Spec => []MemoryReturned`, without `unwritable`, `unreadable`, `dealloc_fails`. The memory held is the block the call is
  at and those whose release is deferred (`MemoryHeld`, `DeferredAt`).
* `AnswersStayTrue == Spec => []AnswersAreTrue` (`Answers`: what the reply says was done).
* `TargetStays == Spec => []TargetIsKept`, without `replace_missing`. `Replacing` says for each of the six steps what the
  three files hold.

Model-checked only:

* `AcceptedIffWellFormed`, `WarningsAreRight`, `ExpressionsParseRight`, `LinesAreRight` of `Syntax`: they are about
  trees and are written with recursive operators, which the prover does not support;
* `FunctionsAgree` beyond the two theorems on texts, `ReadersAgree`, and `CallsDoWhatTheySay` for the functions that look into lines (`line`, `replace`, `replaceall`, `update`, `unique`, `insert`, `findwords`): what a search, a split or a count computes from a document, a text or a file by recursion or by a fold is an
  induction over data;
* liveness: `ReturnsComplete`, `ShutdownEnds`, `RecordingIsStopped`, `KumaReturns`, `CallEnds`, `LinesAreReported` need fairness and `ENABLED`, which
  are beyond the prover.

## 6. What a reader should not conclude

* Expressions and values are treated by modules of their own. `Scopes` has opaque values, `ControlFlow` has no variables.
* Numbers are a few values, texts a few letters: precision, overflow of floating point numbers, encodings and patterns are not modelled.
* `ObsSession` has one connection. `StopAllOBSRecordings` treats several one after the other. The last answer of a request can be
  given up by its deadline only; the network does not reorder within a connection.
* Go's memory model is not modelled; shared state is accessed under a lock, by
  atomics or through channels in the modelled parts, but for `ping_race`.
* A database is one that keeps what it commits. Isolation below read committed and locks between transactions are not modelled.
* `Acme` takes a signature as the key that made it; a request nobody could have signed is not enumerated.
* A file system in `Files` and `Plugins` renames in one step. What a machine that loses power keeps of
  what was not synchronised is not modelled.

## 7. Plan

In this order:

1. `CheckHash`, the parallel scan and `WorkerPool` as further builtins of `FolderWorkers`.
2. Two scripts whose files declare procedures of the same name in `Includes`: a `CanRun` replaces procedures of the running script
   (`runfile.go:185`).
3. The prompts of `ExecInteractive` (`stdlib_proc.go:582`), against a program that writes a prompt without a line end: what it is for
   depends on the timing of the program's output, so that a property needs a promise the documentation does not make yet.

## 8. Not modelled

Wrappers around external programs and formats (Git, 7z, MakeMKV, pictures, export),
network protocols implemented by libraries (SSH, SFTP, SMTP, DNS), operating system
queries (services, registry, Active Directory, computer), certificates and keystore
formats, the start of processes, pure functions (dates, mathematics, maps, templates, geo), debug
output. They keep no state that several calls share, or only a table of handles,
and what they compute is data. `PROJECT.json` lists each with its reason.

Of modelled components these parts are left out:

* scripts: `#requires`, `.vbc` files, the checks of a file's bytes, `CanRunString`;
* arrays and texts: functions that search, join or format without changing anything, patterns, hashes, number formats;
* files: hashes, statistics, times, names, symbolic links (`createSymlinkInternal` receives `replaceExisting` in the place of `expectDir`), the refreshing
  of Tail;
* databases: queries and lists, blobs that are read, backups, the table of connections;
* ACME: signatures, encodings, a key file that is exchanged while the state file stays;
* parallel work: `CheckHash`, `parallelFolderScan`, `WorkerPool`.
