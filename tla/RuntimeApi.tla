------------------------------ MODULE RuntimeApi ------------------------------
(***************************************************************************)
(* The shared runtime adapter of logiksmith-runtime-api: a core runtime,   *)
(* the automation document it was built from, and the revisions that       *)
(* guard edits.  Clients read the document and its revisions, edit one     *)
(* block with the revisions they read (compare and swap), feed inputs and  *)
(* timers, and ask for dry runs of what a projection shows.                *)
(*                                                                         *)
(* Calls are made one at a time (&mut self); clients keep what they read   *)
(* while others call.  Times and revisions are u64: a document revision    *)
(* is chosen by the client and saturates, scaled here to MaxRevision.      *)
(* The structural revision does not change while an instance lives.        *)
(*                                                                         *)
(* An operator named Mutant... is a plausible mistake in the definition    *)
(* that follows it; no specification uses it.                              *)
(***************************************************************************)
EXTENDS BlockEngine

CONSTANTS
    Blocks,             \* ids of the document's logic blocks
    StoredRevision,     \* for each block, the revision in the document; 0 is accepted
    FirstSource,        \* for each block, the source in the document
    Clients,
    MaxRevision,        \* u64::MAX, scaled
    MaxTime             \* bound: the times of calls

ASSUME ApiAssumption ==
    /\ MaxRevision \in Nat \ {0}
    /\ StoredRevision \in [Blocks -> 0..MaxRevision]
    /\ FirstSource \in [Blocks -> Sources \ Unloadable]
    /\ MaxTime \in Nat

VARIABLES
    blocks,             \* runtime.blocks: the engine of each block, its flag and its health
    last,               \* runtime.last_accepted_at
    document,           \* the source, flag and revision of each block of the document
    document_revision,
    block_revisions,
    seen                \* what each client has read: revisions, and the blocks they stood for

vars == <<blocks, last, document, document_revision, block_revisions, seen>>

Revision  == 0..MaxRevision
Content   == [source : Sources \ Unloadable, enabled : BOOLEAN]

View ==
    [document_revision : Revision, revisions : [Blocks -> Revision],
     blocks : [Blocks -> Content]]

TypeOK ==
    /\ blocks \in [Blocks -> LogicBlock]
    /\ last \in Nat
    /\ document \in [Blocks -> [source : Sources \ Unloadable, enabled : BOOLEAN,
                                revision : Revision]]
    /\ document_revision \in Revision
    /\ block_revisions \in [Blocks -> Revision]
    /\ seen \in [Clients -> View]

AtLeast(n, least) == IF n < least THEN least ELSE n
SaturatingNext(n) == IF n < MaxRevision THEN n + 1 ELSE MaxRevision

ContentOf(b) == [source |-> document[b].source, enabled |-> document[b].enabled]
CurrentView ==
    [document_revision |-> document_revision, revisions |-> block_revisions,
     blocks |-> [b \in Blocks |-> ContentOf(b)]]

\* from_document: the document revision starts at 0 and is not stored.
Init ==
    \E on \in [Blocks -> BOOLEAN] :
        /\ blocks = [b \in Blocks |-> NewBlock(FirstSource[b], on[b])]
        /\ last = 0
        /\ document = [b \in Blocks |->
                          [source |-> FirstSource[b], enabled |-> on[b],
                           revision |-> StoredRevision[b]]]
        /\ document_revision = 0
        /\ block_revisions = [b \in Blocks |-> AtLeast(StoredRevision[b], 1)]
        /\ seen = [c \in Clients |-> CurrentView]

-----------------------------------------------------------------------------
(* Inputs and timers: one block runs, and no signal is propagated *)

editVars == <<document, document_revision, block_revisions, seen>>

\* ensure_time refuses a call whose time is before last; it changes nothing.
DeliverInput(b, i, value, now) ==
    /\ now >= last
    /\ last' = now
    /\ \E k \in AfterInput(blocks[b], i, value, now, Unavailable) :
          blocks' = [blocks EXCEPT ![b] = k]
    /\ UNCHANGED editVars

ObserveInput(b, i, value, now) ==
    /\ now >= last
    /\ last' = now
    /\ blocks' = [blocks EXCEPT
                     ![b].engine = InputHeld(@, i, [kind |-> "observe", value |-> value], now)]
    /\ UNCHANGED editVars

DueBlocks(now) == {b \in Blocks : Runnable(blocks[b]) /\ DueNames(blocks[b].engine, now) # {}}
NextDueAt(b, now) ==
    LET e == blocks[b].engine IN e.timers[NextDue(e, now)].due_at

\* process_next_due_timer: of blocks with equally early timers, either may be first.
ProcessDueTimer(now) ==
    /\ now >= last
    /\ last' = now
    /\ \/ DueBlocks(now) = {} /\ UNCHANGED blocks
       \/ \E b \in DueBlocks(now) :
             /\ \A d \in DueBlocks(now) : NextDueAt(b, now) <= NextDueAt(d, now)
             /\ \E k \in AfterTimer(blocks[b], now, Unavailable) :
                   blocks' = [blocks EXCEPT ![b] = k]
    /\ UNCHANGED editVars

-----------------------------------------------------------------------------
(* Edits *)

Read(c) ==
    /\ seen' = [seen EXCEPT ![c] = CurrentView]
    /\ UNCHANGED <<blocks, last, document, document_revision, block_revisions>>

check_cas(c, b) ==
    /\ seen[c].document_revision = document_revision
    /\ seen[c].revisions[b] = block_revisions[b]

MutantEdited(d, source, on) ==
    [source |-> source, enabled |-> d.enabled, revision |-> AtLeast(SaturatingNext(d.revision), 1)]
Edited(d, source, on) ==
    [source |-> source, enabled |-> on, revision |-> AtLeast(SaturatingNext(d.revision), 1)]

MutantNewRevision(requested) == AtLeast(requested, document_revision)
NewRevision(requested) == AtLeast(requested, SaturatingNext(document_revision))

\* activate, and set_enabled, which gives no source: an update with neither source nor
\* flag, and one whose source does not load, change nothing.
Activate(c, b, source, on, requested) ==
    LET k      == blocks[b]
        wanted == IF source = None THEN k.engine.source ELSE source
        flag   == IF on = None THEN k.enabled ELSE on = "on"
        edited == Edited(document[b],
                         IF source = None THEN document[b].source ELSE source,
                         IF on = None THEN document[b].enabled ELSE on = "on")
    IN /\ check_cas(c, b)
       /\ source # None \/ on # None
       /\ source \notin Unloadable
       /\ blocks' = [blocks EXCEPT ![b] = Activated(k, wanted, flag)]
       /\ document' = [document EXCEPT ![b] = edited]
       /\ document_revision' = NewRevision(requested)
       /\ block_revisions' = [block_revisions EXCEPT ![b] = edited.revision]
       /\ seen' = [seen EXCEPT
                      ![c].document_revision = document_revision',
                      ![c].revisions[b] = edited.revision,
                      ![c].blocks[b] = [source |-> edited.source, enabled |-> edited.enabled]]
       /\ UNCHANGED last

Resume(c, b) ==
    /\ check_cas(c, b)
    /\ blocks' = [blocks EXCEPT ![b] = Resumed(@)]
    /\ UNCHANGED <<last, editVars>>

Next ==
    \/ \E b \in Blocks, i \in Inputs, now \in 0..MaxTime : \E value \in Dpt[i] :
          DeliverInput(b, i, value, now) \/ ObserveInput(b, i, value, now)
    \/ \E now \in 0..MaxTime : ProcessDueTimer(now)
    \/ \E c \in Clients : Read(c)
    \/ \E c \in Clients, b \in Blocks :
          \/ \E source \in Sources \cup {None}, on \in {None, "on", "off"}, requested \in Revision :
                Activate(c, b, source, on, requested)
          \/ Resume(c, b)

Spec == Init /\ [][Next]_vars

-----------------------------------------------------------------------------
(* Dry runs of what a projection shows *)

\* simulation_inputs: the value of an input that is not valid is left out.
simulation_inputs(list) ==
    [p \in DOMAIN list |-> [list[p] EXCEPT !.value = IF list[p].valid THEN @ ELSE None]]

SimulateInput(e, r, draw) ==
    LET scenario == [trigger |-> r.trigger, inputs |-> simulation_inputs(r.inputs)]
    IN IF r.source = None
       THEN simulate_input_with_state(e, scenario, r.state, r.pending_timers, r.now, draw)
       ELSE simulate_input_with_source(e, r.source, scenario, r.state, r.pending_timers, r.now,
                                       draw)

SimulateTimer(e, r, draw) ==
    LET scenario == [timer |-> r.timer, fired_at |-> r.fired_at, state |-> r.state,
                     inputs |-> simulation_inputs(r.inputs), pending_timers |-> r.pending_timers]
    IN IF r.source = None THEN simulate_timer(e, scenario, draw)
       ELSE simulate_timer_with_source(e, r.source, scenario, draw)

\* A client's request: what the projection of time now shows, with an input just changed.
InputRequest(e, i, value, now) ==
    [source |-> None,
     trigger |-> [endpoint |-> i, value |-> value, previous |-> e.inputs[i].value],
     inputs |-> WithInput(e, i, value, now),
     state |-> e.state, pending_timers |-> ProjectedTimers(e), now |-> now]

TimerRequest(e, n, now) ==
    [source |-> None, timer |-> n, fired_at |-> now, inputs |-> ProjectedInputs(e, now),
     state |-> e.state, pending_timers |-> ProjectedTimers(e)]

Times == last..MaxTime

-----------------------------------------------------------------------------
(* Properties *)

\* A client whose document and block revisions are both current has seen the block as it
\* is, so that its edit overwrites nothing unseen.  The exception is a document revision
\* driven to u64::MAX (a client names it): then the block's own revision must tell edits
\* apart, which it does not for the first edit of a block stored with revision 0, nor at
\* u64::MAX.
Distinct(b) ==
    block_revisions[b] < MaxRevision /\ (StoredRevision[b] = 0 => block_revisions[b] > 1)
TokensNameContent ==
    \A c \in Clients, b \in Blocks :
        check_cas(c, b) /\ (document_revision < MaxRevision \/ Distinct(b)) =>
            seen[c].blocks[b] = ContentOf(b)

\* activate changes the runtime first and the document after it: the two agree, and the
\* revision check_cas compares is the document's (from 1 on).
DocumentMatchesRuntime ==
    \A b \in Blocks :
        /\ document[b].source = blocks[b].engine.source
        /\ document[b].enabled = blocks[b].enabled
        /\ block_revisions[b] = AtLeast(document[b].revision, 1)

\* The projection of any time, sent back as a dry run, is accepted, and if the two draw the
\* same numbers it is the execution the live event would be at that time: the same handler
\* call, state and timers.  So the outcomes a dry run can have are those the event can have.
ProjectionReplays ==
    \A b \in Blocks, now \in Times, draw \in Draws :
        LET e == blocks[b].engine IN
        /\ \A i \in Inputs : \A value \in Dpt[i] :
              SimulateInput(e, InputRequest(e, i, value, now), draw)
                  = InputExecution(e, i, value, now, Unavailable, draw)
        /\ \A n \in Armed(e.timers) :
              SimulateTimer(e, TimerRequest(e, n, now), draw)
                  = TimerExecution(e, n, now, Unavailable, draw)

\* A dry run of a draft without timers is what the next live event will do once the draft
\* is activated, if that event draws the same numbers.
DraftPredictsActivation ==
    \A b \in Blocks, now \in Times, i \in Inputs, source \in Sources \ Unloadable :
        LET e == blocks[b].engine IN
        source # e.source =>
            \A value \in Dpt[i], draw \in Draws :
                SimulateInput(e, [InputRequest(e, i, value, now) EXCEPT
                                     !.source = source, !.pending_timers = <<>>], draw)
                    = InputExecution(Activated(blocks[b], source, TRUE).engine, i, value, now,
                                     Unavailable, draw)

\* docs/design-brief.md: "Captured executions should replay from the event, inputs, state,
\* and persistent values."  A dry run of all that the event starts from has the outcome of
\* the event.  A handler that calls math.random breaks it: nothing captures what it drew.
CapturedExecutionsReplay ==
    \A b \in Blocks, now \in Times, i \in Inputs, drawn, draw \in Draws :
        LET e == blocks[b].engine IN
        Runnable(blocks[b]) =>
            \A value \in Dpt[i] :
                SimulateInput(e, InputRequest(e, i, value, now), draw)
                    = InputExecution(e, i, value, now, Unavailable, drawn)
=============================================================================
