--------------------------- MODULE AutomationSave ---------------------------
(***************************************************************************)
(* How an edited automation reaches the file, the running logic and the    *)
(* dashboard (web_automation.rs, web_blocks.rs, host_requests.rs and the   *)
(* document part of diagnostics_store.rs).                                 *)
(*                                                                         *)
(* A request handler saves the file under `automation_lock`, releases the  *)
(* lock, queues an activation for the session and waits; the session owns  *)
(* the runtime and copies what it activated into the diagnostic store; the *)
(* handler then writes the store a second time, or restores the file.      *)
(* Handlers run on several Tokio threads, so every step of one interleaves *)
(* with every step of another.                                             *)
(*                                                                         *)
(* A document gives every block a revision, a source, the enabled flag and *)
(* a shape: its inputs, outputs, KNX and signal bindings and schedules.    *)
(* HTTP and webhook bindings, which merge_block_revisions does not         *)
(* compare, are left out. A PUT may also leave blocks out or bring new     *)
(* ones, with a revision of the client's choosing.                         *)
(* A request that is refused (stale, invalid, unknown block, failed write) *)
(* changes nothing and is a stuttering step.                               *)
(***************************************************************************)
EXTENDS Naturals, Sequences, FiniteSets

CONSTANTS
    Blocks,            \* ids a logic block of the document may have
    Sources,           \* Lua sources every validation of the web server accepts
    RejectedSources,   \* those too large for the profile the runtime runs under
    Shapes,            \* inputs, outputs, bindings and schedules of a block
    NewEntries,        \* what a client may write into a block it adds
    Clients,           \* browser tabs
    ActivationQueue,   \* capacity of the activation lane
    MaxSaves,          \* bound: accepted saves
    MaxRestarts,       \* bound: restarts of the process
    InitialFile        \* the document on disk at the first start

Nobody == "nobody"     \* the receiver of this reply is gone

None == "none"         \* source and shape of a block that is not there

Entry == [revision: Nat \ {0}, source: Sources, enabled: BOOLEAN, shape: Shapes]
Absent == [revision |-> 0, source |-> None, enabled |-> FALSE, shape |-> None]
Document == [Blocks -> Entry \cup {Absent}]

BlocksOf(document) == {b \in Blocks : document[b] # Absent}

ASSUME DocumentAssumption ==
    /\ RejectedSources \subseteq Sources
    /\ None \notin Sources \cup Shapes
    /\ NewEntries \subseteq Entry
    /\ ActivationQueue \in Nat \ {0}
    /\ MaxSaves \in Nat
    /\ MaxRestarts \in Nat
    /\ InitialFile \in Document
    /\ Nobody \notin Clients

VARIABLES
    file,            \* automation.toml
    runtime,         \* source and enabled flag each block runs with
    structure,       \* structural revision this process was started with
    lane,            \* queued ActivationRequests
    open,            \* the session is alive and holds the receiver of the lane
    fatal,           \* HostHealth: a failure was reported that ends the session
    active,          \* store: active_document
    activeRevision,  \* store: active_logic_revision of every block
    restartRequired, \* store: restart_required
    handler,         \* the request each client is waiting for
    seen,            \* the document each client last fetched
    saves, restarts, \* counters for the bounds
    lives,           \* history: saves that removed a block
    ledger,          \* history: every (life, revision, logic) a block was saved with
    lost,            \* history: blocks removed since a client last fetched the document
    acked,           \* history: highest revision of a block answered with 200
    overlapped,      \* history: a save was accepted while another request was open
    rolledBack,      \* history: a handler restored an earlier file
    mislabelled      \* history: a simulation of a sound session named a revision it did not run

store == <<active, activeRevision, restartRequired>>
history == <<lives, ledger, lost, acked, overlapped, rolledBack, mislabelled>>
vars == <<file, runtime, structure, lane, open, fatal, store, handler, seen, saves,
          restarts, history>>

-----------------------------------------------------------------------------
(* Documents *)

\* What merge_block_revisions compares of a block.
Logic ==
    [source: Sources \cup {None}, enabled: BOOLEAN, shape: Shapes \cup {None}]

LogicOf(entry) ==
    [source |-> entry.source, enabled |-> entry.enabled, shape |-> entry.shape]

structural_revision(document) == [b \in Blocks |-> document[b].shape]

\* What a runtime built from a document runs.
Running(document) ==
    [b \in Blocks |-> [source |-> document[b].source, enabled |-> document[b].enabled]]

ChangedBlocks(current, candidate) ==
    {b \in Blocks : LogicOf(candidate[b]) # LogicOf(current[b])}

MutantMergeAccepts(current, candidate) == TRUE

\* merge_block_revisions refuses a change based on another revision. It looks only at
\* blocks both documents have: a block of the file that the candidate lacks is removed
\* whatever happened to it, and a new block keeps the revision it comes with.
MergeAccepts(current, candidate) ==
    \A b \in ChangedBlocks(current, candidate) \cap BlocksOf(current) \cap BlocksOf(candidate) :
        candidate[b].revision = current[b].revision

MutantMerged(current, candidate) ==
    [b \in Blocks |->
        IF b \in BlocksOf(current) \cap BlocksOf(candidate)
        THEN [candidate[b] EXCEPT !.revision = current[b].revision] ELSE candidate[b]]

Merged(current, candidate) ==
    [b \in Blocks |->
        IF b \in BlocksOf(current) \cap BlocksOf(candidate)
        THEN [candidate[b] EXCEPT !.revision =
                 IF b \in ChangedBlocks(current, candidate)
                 THEN current[b].revision + 1 ELSE current[b].revision]
        ELSE candidate[b]]

\* load_config builds the automation under the limits of the profile.
Loadable(document) == \A b \in Blocks : document[b].source \notin RejectedSources

-----------------------------------------------------------------------------
(* Handlers and the store *)

\* Blocks whose source and whose enabled flag a BlockActivation batch sets.
Updates == [sources: SUBSET Blocks, flags: SUBSET Blocks]
NoUpdates == [sources |-> {}, flags |-> {}]

IdleHandler == [pc |-> "idle"]

Handler ==
    {IdleHandler} \cup
    [pc: {"saved", "waiting"}, kind: {"put", "mutation", "resume"}, document: Document,
     previous: Document, updates: Updates, reply: {"none", "ok", "error"}]

Idle(c) == handler[c].pc = "idle"
Answer(c) == handler' = [handler EXCEPT ![c] = IdleHandler]

\* The revisions the store shows after it learned of a document: it has the blocks the
\* process was started with (their revision is not 0) and gets no others.
Shown(document, blocks) ==
    [b \in Blocks |->
        IF activeRevision[b] > 0 /\ b \in BlocksOf(document) \cap blocks
        THEN document[b].revision ELSE activeRevision[b]]

MutantSetSavedDocumentState(document, restart) ==
    /\ restartRequired' = FALSE
    /\ active' = IF restart THEN active ELSE document
    /\ activeRevision' = IF restart THEN activeRevision ELSE Shown(document, Blocks)

\* DiagnosticStore::set_saved_document_state; what it keeps of the saved document is
\* only displayed.
SetSavedDocumentState(document, restart) ==
    /\ restartRequired' = restart
    /\ active' = IF restart THEN active ELSE document
    /\ activeRevision' = IF restart THEN activeRevision ELSE Shown(document, Blocks)

\* The 200 response names the revisions of the saved document.
Acknowledge(document) ==
    acked' = [b \in Blocks |->
                 IF document[b].revision > acked[b] THEN document[b].revision ELSE acked[b]]

\* What the saves so far tell of the blocks, and what each client has not heard of.
RecordSave(document) ==
    LET removed == BlocksOf(file) \ BlocksOf(document)
    IN /\ lives' = [b \in Blocks |-> IF b \in removed THEN lives[b] + 1 ELSE lives[b]]
       /\ ledger' = [b \in Blocks |->
             IF b \in BlocksOf(document)
             THEN ledger[b] \cup {<<lives[b], document[b].revision, LogicOf(document[b])>>}
             ELSE ledger[b]]
       /\ lost' = [d \in Clients |-> lost[d] \cup removed]
       /\ acked' = [b \in Blocks |-> IF b \in removed THEN 0 ELSE acked[b]]

\* atomic_save under automation_lock, and the handler that continues after it.
Save(c, kind, document, updates) ==
    /\ saves < MaxSaves
    /\ saves' = saves + 1
    /\ file' = document
    /\ handler' = [handler EXCEPT ![c] =
          [pc |-> "saved", kind |-> kind, document |-> document,
           previous |-> file, updates |-> updates, reply |-> "none"]]
    /\ RecordSave(document)
    /\ overlapped' = (overlapped \/ \E d \in Clients \ {c} : ~Idle(d))
    /\ UNCHANGED <<runtime, structure, lane, open, fatal, store, seen, restarts, rolledBack,
                   mislabelled>>

MutantRestore(c) ==
    /\ file' = seen[c]
    /\ rolledBack' = TRUE
    /\ Answer(c)
    /\ UNCHANGED <<runtime, structure, store, seen, saves, restarts, lives, ledger, lost,
                   acked, overlapped, mislabelled>>

\* restore_document: the whole previous document, without the lock.
Restore(c) ==
    /\ file' = handler[c].previous
    /\ rolledBack' = TRUE
    /\ Answer(c)
    /\ UNCHANGED <<runtime, structure, store, seen, saves, restarts, lives, ledger, lost,
                   acked, overlapped, mislabelled>>

-----------------------------------------------------------------------------
(* Requests *)

\* GET /api/automation
GetAutomation(c) ==
    /\ Idle(c)
    /\ seen' = [seen EXCEPT ![c] = file]
    /\ lost' = [lost EXCEPT ![c] = {}]
    /\ UNCHANGED <<file, runtime, structure, lane, open, fatal, store, handler, saves,
                   restarts, lives, ledger, acked, overlapped, rolledBack, mislabelled>>

\* One field of one entry edited in the browser.
Edits(entry) ==
    {[entry EXCEPT !.source = s] : s \in Sources}
        \cup {[entry EXCEPT !.enabled = ~@]}
        \cup {[entry EXCEPT !.shape = s] : s \in Shapes}

\* What the browser may make of a block: add it, or edit or remove it.
Drafts(entry) == IF entry = Absent THEN NewEntries ELSE Edits(entry) \cup {Absent}

\* PUT /api/automation: the client changes one block of the document it fetched;
\* build_automation refuses a document without blocks.
PutAutomation(c) ==
    /\ Idle(c)
    /\ \E b \in Blocks : \E entry \in Drafts(seen[c][b]) :
        LET candidate == [seen[c] EXCEPT ![b] = entry]
        IN /\ BlocksOf(candidate) # {}
           /\ MergeAccepts(file, candidate)
           /\ Save(c, "put", Merged(file, candidate),
                   [sources |-> BlocksOf(candidate), flags |-> BlocksOf(candidate)])

\* check_block_cas: what the client expects against what the store shows of a block.
CheckBlockCas(c, b) ==
    /\ activeRevision[b] > 0
    /\ activeRevision[b] = seen[c][b].revision
    /\ structural_revision(seen[c]) = structure
    /\ ~restartRequired

\* prepare_mutation repeats the check on the file.
CheckFile(c, b) ==
    /\ b \in BlocksOf(file)
    /\ file[b].revision = seen[c][b].revision
    /\ structural_revision(file) = structure

\* The file with one block edited, under the next revision of that block.
Revised(b, entry) == [file EXCEPT ![b] = [entry EXCEPT !.revision = @ + 1]]

\* POST source or enabled of one block: prepare_mutation.
PrepareMutation(c) ==
    /\ Idle(c)
    /\ \E b \in Blocks :
        /\ CheckBlockCas(c, b)
        /\ CheckFile(c, b)
        /\ \/ \E source \in Sources \ {file[b].source} :
                Save(c, "mutation", Revised(b, [file[b] EXCEPT !.source = source]),
                     [NoUpdates EXCEPT !.sources = {b}])
           \/ Save(c, "mutation", Revised(b, [file[b] EXCEPT !.enabled = ~@]),
                   [NoUpdates EXCEPT !.flags = {b}])

\* HostHealth::fail: the session ends as soon as its select takes the notice.
HealthFail == fatal' = TRUE

\* POST resume: queued at once with the active document, no block updates, nothing
\* saved. A closed lane refuses it.
ResumeBlock(c) ==
    /\ Idle(c)
    /\ \E b \in Blocks : CheckBlockCas(c, b)
    /\ open /\ Len(lane) < ActivationQueue
    /\ lane' = Append(lane, [client |-> c, document |-> active, updates |-> NoUpdates])
    /\ handler' = [handler EXCEPT ![c] =
          [pc |-> "waiting", kind |-> "resume", document |-> active,
           previous |-> file, updates |-> NoUpdates, reply |-> "none"]]
    /\ UNCHANGED <<file, runtime, structure, open, fatal, store, seen, saves, restarts, history>>

\* A full lane refuses a resume and reports an overload.
ResumeOverloaded(c) ==
    /\ Idle(c)
    /\ \E b \in Blocks : CheckBlockCas(c, b)
    /\ open /\ Len(lane) = ActivationQueue
    /\ HealthFail
    /\ UNCHANGED <<file, runtime, structure, lane, open, store, handler, seen, saves,
                   restarts, history>>

ResumeAnswered(c) ==
    /\ handler[c].pc = "waiting"
    /\ handler[c].kind = "resume"
    /\ handler[c].reply # "none"
    /\ Answer(c)
    /\ UNCHANGED <<file, runtime, structure, lane, open, fatal, store, seen, saves, restarts,
                   history>>

\* The lane accepts the activation of handler c.
Send(c) ==
    /\ handler[c].pc = "saved"
    /\ open
    /\ Len(lane) < ActivationQueue
    /\ lane' = Append(lane, [client |-> c, document |-> handler[c].document,
                             updates |-> handler[c].updates])
    /\ handler' = [handler EXCEPT ![c].pc = "waiting"]

NeedsRestart(c) == structural_revision(handler[c].document) # structure

\* PUT: try_send after the lock was released.
PutSends(c) ==
    /\ Send(c)
    /\ handler[c].kind = "put"
    /\ ~NeedsRestart(c)
    /\ UNCHANGED <<file, runtime, structure, open, fatal, store, seen, saves, restarts, history>>

\* PUT: a structural change, or no session to activate it.
PutWithoutActivation(c) ==
    /\ handler[c].pc = "saved"
    /\ handler[c].kind = "put"
    /\ NeedsRestart(c) \/ ~open
    /\ SetSavedDocumentState(handler[c].document, TRUE)
    /\ Acknowledge(handler[c].document)
    /\ Answer(c)
    /\ UNCHANGED <<file, runtime, structure, lane, open, fatal, seen, saves, restarts, lives,
                   ledger, lost, overlapped, rolledBack, mislabelled>>

\* PUT: the lane is full, 503; the file stays, the store is not told.
PutOverloaded(c) ==
    /\ handler[c].pc = "saved"
    /\ handler[c].kind = "put"
    /\ open /\ Len(lane) = ActivationQueue /\ ~NeedsRestart(c)
    /\ HealthFail
    /\ Answer(c)
    /\ UNCHANGED <<file, runtime, structure, lane, open, store, seen, saves, restarts,
                   history>>

\* PUT: the reply, or two seconds without one; a missing activation is a restart.
PutAnswered(c) ==
    /\ handler[c].pc = "waiting"
    /\ handler[c].kind = "put"
    /\ SetSavedDocumentState(handler[c].document, handler[c].reply # "ok")
    /\ Acknowledge(handler[c].document)
    /\ lane' = [i \in DOMAIN lane |->
                   [lane[i] EXCEPT !.client = IF @ = c THEN Nobody ELSE @]]
    /\ Answer(c)
    /\ UNCHANGED <<file, runtime, structure, open, fatal, seen, saves, restarts, lives,
                   ledger, lost, overlapped, rolledBack, mislabelled>>

MutationSends(c) ==
    /\ Send(c)
    /\ handler[c].kind = "mutation"
    /\ UNCHANGED <<file, runtime, structure, open, fatal, store, seen, saves, restarts, history>>

\* The lane is full or closed.
MutationNotSent(c) ==
    /\ handler[c].pc = "saved"
    /\ handler[c].kind = "mutation"
    /\ \/ open /\ Len(lane) = ActivationQueue /\ HealthFail
       \/ ~open /\ UNCHANGED fatal
    /\ Restore(c)
    /\ UNCHANGED <<lane, open>>

MutationActivated(c) ==
    /\ handler[c].pc = "waiting"
    /\ handler[c].kind = "mutation"
    /\ handler[c].reply = "ok"
    /\ SetSavedDocumentState(handler[c].document, FALSE)
    /\ Acknowledge(handler[c].document)
    /\ Answer(c)
    /\ UNCHANGED <<file, runtime, structure, lane, open, fatal, seen, saves, restarts, lives,
                   ledger, lost, overlapped, rolledBack, mislabelled>>

MutationFailed(c) ==
    /\ handler[c].pc = "waiting"
    /\ handler[c].kind = "mutation"
    /\ handler[c].reply = "error"
    /\ Restore(c)
    /\ UNCHANGED <<lane, open, fatal>>

-----------------------------------------------------------------------------
(* The session *)

MutantReplyTo(h, client, reply) == h

\* reply.send: nobody may be listening any more.
ReplyTo(h, client, reply) ==
    IF client = Nobody THEN h ELSE [h EXCEPT ![client].reply = reply]

\* apply_activation: the whole batch, or none of it (Runtime::activate refuses a source
\* it cannot load and a block it does not run); a resume has no batch and leaves
\* the documents alone.
ApplyActivation ==
    /\ open
    /\ lane # <<>>
    /\ lane' = Tail(lane)
    /\ LET request == Head(lane)
           sources == request.updates.sources
           flags == request.updates.flags
           fails == \/ \E b \in sources : request.document[b].source \in RejectedSources
                    \/ \E b \in sources \cup flags : runtime[b].source = None
       IN IF fails
          THEN /\ handler' = ReplyTo(handler, request.client, "error")
               /\ UNCHANGED <<runtime, active, activeRevision>>
          ELSE /\ runtime' = [b \in Blocks |->
                      [source  |-> (IF b \in sources THEN request.document ELSE runtime)[b].source,
                       enabled |-> (IF b \in flags THEN request.document ELSE runtime)[b].enabled]]
               /\ active' = IF request.updates = NoUpdates THEN active ELSE request.document
               /\ activeRevision' = Shown(request.document, sources \cup flags)
               /\ handler' = ReplyTo(handler, request.client, "ok")
    /\ UNCHANGED <<file, structure, open, fatal, restartRequired, seen, saves, restarts,
                   history>>

\* record_block_execution: the block shows the revision of the active document.
RecordExecution(b) ==
    /\ open
    /\ b \in BlocksOf(active)
    /\ activeRevision' = [activeRevision EXCEPT ![b] = active[b].revision]
    /\ UNCHANGED <<file, runtime, structure, lane, open, fatal, active, restartRequired,
                   handler, seen, saves, restarts, history>>

MutantSimulationAccepts(b, expected) == expected <= active[b].revision

\* apply_simulation without a draft: runs the source of the runtime and answers with
\* the revision of the store, after comparing that with the one the client expects.
SimulationAccepts(b, expected) == expected = active[b].revision

ApplySimulation(b, expected) ==
    /\ open
    /\ b \in BlocksOf(active)
    /\ SimulationAccepts(b, expected)
    /\ mislabelled' = (mislabelled \/
           /\ ~fatal
           /\ ~\E saving \in ledger[b] :
                 saving[2] = expected /\ saving[3].source = runtime[b].source)
    /\ UNCHANGED <<file, runtime, structure, lane, open, fatal, store, handler, seen, saves,
                   restarts, lives, ledger, lost, acked, overlapped, rolledBack>>

\* The session ends for any reason; the requests in the lane are dropped.
SessionEnds ==
    /\ open
    /\ open' = FALSE
    /\ UNCHANGED fatal
    /\ lane' = <<>>
    /\ handler' = [c \in Clients |->
           IF \E i \in DOMAIN lane : lane[i].client = c
           THEN [handler[c] EXCEPT !.reply = "error"] ELSE handler[c]]
    /\ UNCHANGED <<file, runtime, structure, store, seen, saves, restarts, history>>

\* The process is started again, after a failure, a crash or by its operator.
Restart ==
    /\ restarts < MaxRestarts
    /\ restarts' = restarts + 1
    /\ Loadable(file)
    /\ runtime' = Running(file)
    /\ structure' = structural_revision(file)
    /\ active' = file
    /\ activeRevision' = [b \in Blocks |-> file[b].revision]
    /\ restartRequired' = FALSE
    /\ lane' = <<>>
    /\ open' = TRUE /\ fatal' = FALSE
    /\ handler' = [c \in Clients |-> IdleHandler]
    /\ UNCHANGED <<file, seen, saves, history>>

-----------------------------------------------------------------------------
Init ==
    /\ file = InitialFile
    /\ runtime = Running(InitialFile)
    /\ structure = structural_revision(InitialFile)
    /\ lane = <<>>
    /\ open = TRUE /\ fatal = FALSE
    /\ active = InitialFile
    /\ activeRevision = [b \in Blocks |-> InitialFile[b].revision]
    /\ restartRequired = FALSE
    /\ handler = [c \in Clients |-> IdleHandler]
    /\ seen = [c \in Clients |-> InitialFile]
    /\ saves = 0
    /\ restarts = 0
    /\ lives = [b \in Blocks |-> 0]
    /\ ledger = [b \in Blocks |->
          IF b \in BlocksOf(InitialFile)
          THEN {<<0, InitialFile[b].revision, LogicOf(InitialFile[b])>>} ELSE {}]
    /\ lost = [c \in Clients |-> {}]
    /\ acked = [b \in Blocks |-> 0]
    /\ overlapped = FALSE
    /\ rolledBack = FALSE
    /\ mislabelled = FALSE

HandlerStep(c) ==
    \/ PutSends(c) \/ PutWithoutActivation(c) \/ PutOverloaded(c) \/ PutAnswered(c)
    \/ MutationSends(c) \/ MutationNotSent(c) \/ MutationActivated(c) \/ MutationFailed(c)
    \/ ResumeAnswered(c)

Next ==
    \/ \E c \in Clients : GetAutomation(c) \/ PutAutomation(c) \/ PrepareMutation(c)
    \/ \E c \in Clients : ResumeBlock(c) \/ ResumeOverloaded(c)
    \/ \E c \in Clients : HandlerStep(c)
    \/ ApplyActivation
    \/ \E b \in Blocks : RecordExecution(b)
    \/ \E b \in Blocks, expected \in 1..(MaxSaves + 1) : ApplySimulation(b, expected)
    \/ SessionEnds
    \/ Restart

\* Tokio runs a handler that can run; the session takes what is in its lane or ends.
Fairness ==
    /\ \A c \in Clients : WF_vars(HandlerStep(c))
    /\ WF_vars(ApplyActivation)

Spec == Init /\ [][Next]_vars /\ Fairness

-----------------------------------------------------------------------------
TypeOK ==
    /\ file \in Document
    /\ runtime \in [Blocks -> [source: Sources \cup {None}, enabled: BOOLEAN]]
    /\ structure \in [Blocks -> Shapes \cup {None}]
    /\ lane \in Seq([client: Clients \cup {Nobody}, document: Document,
                     updates: Updates])
    /\ Len(lane) <= ActivationQueue
    /\ open \in BOOLEAN /\ fatal \in BOOLEAN
    /\ active \in Document
    /\ activeRevision \in [Blocks -> Nat]
    /\ restartRequired \in BOOLEAN
    /\ handler \in [Clients -> Handler]
    /\ seen \in [Clients -> Document]
    /\ saves \in 0..MaxSaves /\ restarts \in 0..MaxRestarts
    /\ lives \in [Blocks -> Nat]
    /\ ledger \in [Blocks -> SUBSET (Nat \X (Nat \ {0}) \X Logic)]
    /\ lost \in [Clients -> SUBSET Blocks]
    /\ acked \in [Blocks -> Nat]
    /\ overlapped \in BOOLEAN /\ rolledBack \in BOOLEAN /\ mislabelled \in BOOLEAN

\* Until it is removed, every accepted save of a block gets a revision of its own: two
\* documents that show the same revision of a block show the same logic
\* (merge_block_revisions, prepare_mutation), however requests interleave. A block that
\* is added again may take any revision, and a restored file ends this, because the next
\* save takes the withdrawn revision again.
RevisionNamesOneLogic ==
    ~rolledBack =>
        \A b \in Blocks : \A x, y \in ledger[b] :
            (x[1] = y[1] /\ x[2] = y[2]) => x[3] = y[3]

\* An accepted save that keeps a block gives it no other logic unless its client has
\* seen the block in its present form (the compare-and-set of PUT and of the block
\* routes). Not so where merge_block_revisions compares nothing: a save that removes
\* the block, a block that was not there or was removed since the client fetched the
\* document; nor after a file was restored.
NoUnseenOverwrite ==
    [][\A c \in Clients :
          (Idle(c) /\ handler'[c].pc = "saved" /\ ~rolledBack) =>
              \A b \in (BlocksOf(seen[c]) \ lost[c]) \cap BlocksOf(file') :
                  LogicOf(file'[b]) # LogicOf(file[b])
                      => LogicOf(file[b]) = LogicOf(seen[c][b])]_vars

\* The session runs, is not about to end, and nothing is in flight.
Settled == open /\ ~fatal /\ lane = <<>> /\ \A c \in Clients : Idle(c)

\* When nothing is in flight and the dashboard does not ask for a restart, the running
\* logic is the saved one (restart_required of put_automation), also after an answer
\* that came too late. Requests that overlap can break it: their handlers write the
\* store in any order.
NoRestartMeansRunning ==
    (~overlapped /\ Settled /\ ~restartRequired)
        => runtime = Running(file) /\ structure = structural_revision(file)

\* What a client was told is saved stays in the file until a save removes the block,
\* through failed activations, ended sessions and restarts, as long as requests do not
\* overlap.
AcknowledgedSaveStays ==
    ~overlapped => \A b \in Blocks : file[b].revision >= acked[b]

\* A simulation that answers for a revision ran the source saved under it: the check in
\* apply_simulation is made again when the session takes the request, so an activation
\* between the two cannot mix them up. Overlapping saves, and a session that an overload
\* is about to end, excepted.
SimulationRunsNamedRevision == ~overlapped => ~mislabelled

\* A request is answered, unless the process dies under it: every reply channel
\* is used or dropped.
EveryRequestAnswered ==
    \A c \in Clients : ~Idle(c) ~> Idle(c)

=============================================================================
