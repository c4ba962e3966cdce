------------------------ MODULE AutomationSaveProofs ------------------------
(***************************************************************************)
(* Proofs about AutomationSave, for any number of blocks, browser tabs and *)
(* queued activations, blocks added and removed at any time: what a        *)
(* revision names, what a save may overwrite,                              *)
(* what an acknowledgement is worth, and when the running logic is the     *)
(* saved one.                                                              *)
(***************************************************************************)
EXTENDS AutomationSave, TLAPS

-----------------------------------------------------------------------------
(* The inductive invariant *)

\* What the ledger keeps of a block of a document saved in life n of the block.
Saving(n, entry) == <<n, entry.revision, LogicOf(entry)>>

\* Every block of the document was saved under its revision with its logic.
InLedger(document) ==
  \A b \in BlocksOf(document) : \E n \in Nat : Saving(n, document[b]) \in ledger[b]

\* Every document in use was once saved.
AllSaved ==
  /\ InLedger(file) /\ InLedger(active)
  /\ \A c \in Clients : ~Idle(c) => InLedger(handler[c].document) /\ InLedger(handler[c].previous)
  /\ \A i \in DOMAIN lane : InLedger(lane[i].document)

\* A block of the ledger's present life is in the file, in its last revision.
Newest(b) ==
  \A x \in ledger[b] :
    /\ x[1] <= lives[b]
    /\ x[1] = lives[b] => /\ b \in BlocksOf(file) /\ x[2] <= file[b].revision
                          /\ x[2] = file[b].revision => x[3] = LogicOf(file[b])

\* Until a file is restored, the file holds the last revision of every block it has, and
\* what a client knows of a block that was not removed since belongs to its present life.
FileIsNewest ==
  ~rolledBack =>
    /\ \A b \in Blocks : Newest(b)
    /\ \A b \in BlocksOf(file) : Saving(lives[b], file[b]) \in ledger[b]
    /\ \A c \in Clients : \A b \in BlocksOf(seen[c]) \ lost[c] :
         Saving(lives[b], seen[c][b]) \in ledger[b]

AllUpdates(document) == [sources |-> BlocksOf(document), flags |-> BlocksOf(document)]

\* The updates of a PUT: every block of its document, and it has one.
FullUpdate(document, updates) == updates = AllUpdates(document) /\ updates # NoUpdates

\* The document differs from the previous one only where the updates say so.
UpdatesCover(document, previous, updates) ==
  \A b \in Blocks :
    /\ document[b].shape = previous[b].shape
    /\ b \in updates.sources \/ document[b].source = previous[b].source
    /\ b \in updates.flags \/ document[b].enabled = previous[b].enabled

\* What kind of request a handler waits for decides its updates.
HandlerOK(h) ==
  /\ h.pc = "saved" => h.reply = "none" /\ h.kind # "resume"
  /\ h.kind = "put" => FullUpdate(h.document, h.updates)
  /\ h.kind = "resume" => h.updates = NoUpdates
  /\ h.kind = "mutation" => /\ h.updates # NoUpdates
                            /\ UpdatesCover(h.document, h.previous, h.updates)

HandlersOK == \A c \in Clients : ~Idle(c) => HandlerOK(handler[c])

\* A queued activation belongs to one waiting handler, or to a PUT that has given up.
LaneOK ==
  /\ \A i \in DOMAIN lane :
       IF lane[i].client = Nobody THEN FullUpdate(lane[i].document, lane[i].updates)
       ELSE LET h == handler[lane[i].client]
            IN /\ h.pc = "waiting" /\ h.reply = "none"
               /\ h.document = lane[i].document /\ h.updates = lane[i].updates
  /\ \A i, j \in DOMAIN lane :
       lane[i].client = lane[j].client /\ lane[i].client # Nobody => i = j

\* A handler that has saved a document.
Saver(c) == ~Idle(c) /\ handler[c].kind # "resume"

\* Without overlap one handler has the file to itself, and what it would restore still
\* holds every acknowledged revision.
OneSaver ==
  /\ \A c, d \in Clients : Saver(c) /\ Saver(d) => c = d
  /\ \A c \in Clients : Saver(c) =>
       /\ file = handler[c].document
       /\ \A b \in Blocks : handler[c].previous[b].revision >= acked[b]
  /\ \A b \in Blocks : file[b].revision >= acked[b]

\* An activation nobody waits for is ahead of the one of the handler that saves.
Abandoned(i) == lane[i].client = Nobody

LaneInOrder ==
  /\ \A i, j \in DOMAIN lane :
       Abandoned(j) /\ ~Abandoned(i) /\ handler[lane[i].client].kind # "resume" => j < i
  /\ \A c \in Clients : Saver(c) /\ handler[c].reply # "none" =>
       \A j \in DOMAIN lane : ~Abandoned(j)
  /\ \A j \in DOMAIN lane : Abandoned(j) => restartRequired

\* The runtime runs the sources and flags of a document.
Runs(document) ==
  \A b \in Blocks : /\ runtime[b].source = document[b].source
                    /\ runtime[b].enabled = document[b].enabled

\* The process was started with the structure of a document.
Fits(document) == \A b \in Blocks : structure[b] = document[b].shape

\* What runs, before and after the activation of the handler that saves.
SessionRuns ==
  /\ Runs(active) /\ Fits(active)
  /\ \A j \in DOMAIN lane : Abandoned(j) => Fits(lane[j].document)
  /\ (\A c \in Clients : ~Saver(c)) /\ ~restartRequired => Runs(file) /\ Fits(file)
  /\ \A c \in Clients : Saver(c) /\ handler[c].kind = "put" /\ handler[c].pc = "waiting" =>
       /\ Fits(handler[c].document)
       /\ handler[c].reply = "ok" => Runs(handler[c].document)
  /\ \A c \in Clients : Saver(c) /\ handler[c].kind = "mutation" =>
       /\ ~restartRequired /\ Fits(handler[c].previous)
       /\ Runs(IF handler[c].reply = "ok" THEN handler[c].document ELSE handler[c].previous)

IInv ==
  /\ TypeOK /\ AllSaved /\ FileIsNewest /\ RevisionNamesOneLogic
  /\ HandlersOK /\ LaneOK
  /\ ~overlapped => /\ OneSaver
                    /\ open /\ ~fatal => LaneInOrder /\ SessionRuns
  /\ SimulationRunsNamedRevision

-----------------------------------------------------------------------------
(* Facts about documents and handlers *)

\* A handler that is not idle.
Busy == [pc : {"saved", "waiting"}, kind : {"put", "mutation", "resume"}, document : Document,
         previous : Document, updates : Updates, reply : {"none", "ok", "error"}]

\* The fields of a block of a document, whether it is there or not.
LEMMA EntryFields ==
  ASSUME NEW e \in Entry \cup {Absent}
  PROVE  /\ e.revision \in Nat /\ e.source \in Sources \cup {None} /\ e.enabled \in BOOLEAN
         /\ e.shape \in Shapes \cup {None}
<1>1. CASE e \in Entry
  BY <1>1 DEF Entry
<1>2. CASE e = Absent
  BY <1>2 DEF Absent
<1> QED
  BY <1>1, <1>2

\* A handler is idle or a request with all its fields.
LEMMA HandlerCases ==
  ASSUME TypeOK, NEW c \in Clients
  PROVE  /\ Idle(c) => handler[c] = IdleHandler
         /\ ~Idle(c) => handler[c] \in Busy
BY DEF TypeOK, Handler, Busy, Idle, IdleHandler

\* Writing one handler.
LEMMA HandlerWrite ==
  ASSUME TypeOK, NEW c \in Clients, NEW h \in Busy \cup {IdleHandler},
         handler' = [handler EXCEPT ![c] = h]
  PROVE  /\ handler' \in [Clients -> Handler] /\ handler'[c] = h
         /\ \A d \in Clients \ {c} : handler'[d] = handler[d] /\ Idle(d)' = Idle(d)
         /\ Idle(c)' = (h.pc = "idle")
BY DEF TypeOK, Handler, Busy, Idle

\* The queued activations, index by index.
LEMMA LaneEntries ==
  ASSUME TypeOK
  PROVE  /\ Len(lane) \in Nat /\ DOMAIN lane = 1 .. Len(lane)
         /\ \A i \in DOMAIN lane :
              /\ lane[i] \in [client: Clients \cup {Nobody}, document: Document, updates: Updates]
              /\ ~Abandoned(i) => lane[i].client \in Clients
<1> DEFINE S == [client: Clients \cup {Nobody}, document: Document, updates: Updates]
<1>1. lane \in Seq(S)
  BY DEF TypeOK
<1>2. \A e \in S : e.client # Nobody => e.client \in Clients
  OBVIOUS
<1> HIDE DEF S
<1>3. Len(lane) \in Nat /\ DOMAIN lane = 1 .. Len(lane) /\ \A i \in DOMAIN lane : lane[i] \in S
  BY <1>1
<1> QED
  BY <1>2, <1>3, Zenon DEF Abandoned, S

\* The handler of a queued activation waits for it.
LEMMA LaneWaits ==
  ASSUME TypeOK, LaneOK, NEW i \in DOMAIN lane, ~Abandoned(i)
  PROVE  /\ lane[i].client \in Clients /\ lane[i].client # Nobody /\ ~Idle(lane[i].client)
         /\ handler[lane[i].client].pc = "waiting" /\ handler[lane[i].client].reply = "none"
         /\ handler[lane[i].client].document = lane[i].document
         /\ handler[lane[i].client].updates = lane[i].updates
<1>1. lane[i].client \in Clients /\ lane[i].client # Nobody
  BY LaneEntries DEF Abandoned
<1>2. /\ handler[lane[i].client].pc = "waiting" /\ handler[lane[i].client].reply = "none"
      /\ handler[lane[i].client].document = lane[i].document
      /\ handler[lane[i].client].updates = lane[i].updates
  BY <1>1, Zenon DEF LaneOK
<1> QED
  BY <1>1, <1>2 DEF Idle

-----------------------------------------------------------------------------
(* Steps that leave the file and the handlers alone *)

\* The process starts on the initial file: every part of the invariant holds of it.
LEMMA InitIInv == Init => IInv
<1> SUFFICES ASSUME Init PROVE IInv
  OBVIOUS
<1> USE DocumentAssumption
<1>1. /\ InitialFile \in Document /\ \A b \in Blocks : InitialFile[b] \in Entry \cup {Absent}
      /\ BlocksOf(InitialFile) \subseteq Blocks
      /\ \A b \in BlocksOf(InitialFile) : InitialFile[b] \in Entry
  BY DEF Document, BlocksOf
<1>2. \A c \in Clients : Idle(c) /\ handler[c] = IdleHandler
  BY DEF Init, Idle, IdleHandler
<1>3. TypeOK
  <2>1. /\ ledger \in [Blocks -> SUBSET (Nat \X (Nat \ {0}) \X Logic)]
        /\ lives \in [Blocks -> Nat] /\ lost \in [Clients -> SUBSET Blocks]
        /\ acked \in [Blocks -> Nat]
    <3>1. \A b \in BlocksOf(InitialFile) :
            Saving(0, InitialFile[b]) \in Nat \X (Nat \ {0}) \X Logic
      BY <1>1 DEF Saving, Entry, LogicOf, Logic
    <3> QED
      BY <3>1 DEF Init, Saving
  <2>2. handler \in [Clients -> Handler] /\ seen \in [Clients -> Document]
    BY <1>1 DEF Init, Handler
  <2>3. /\ lane \in Seq([client: Clients \cup {Nobody}, document: Document, updates: Updates])
        /\ Len(lane) <= ActivationQueue
    BY DEF Init
  <2>4. /\ runtime \in [Blocks -> [source: Sources \cup {None}, enabled: BOOLEAN]]
        /\ structure \in [Blocks -> Shapes \cup {None}] /\ activeRevision \in [Blocks -> Nat]
    BY <1>1, EntryFields DEF Init, Running, structural_revision
  <2>5. saves \in 0..MaxSaves /\ restarts \in 0..MaxRestarts
    BY DEF Init
  <2> QED
    BY <1>1, <2>1, <2>2, <2>3, <2>4, <2>5, Zenon DEF Init, TypeOK
<1>4. AllSaved /\ FileIsNewest /\ RevisionNamesOneLogic
  <2>1. \A b \in BlocksOf(InitialFile) : ledger[b] = {Saving(0, InitialFile[b])}
    BY <1>1 DEF Init, Saving
  <2>2. \A b \in Blocks \ BlocksOf(InitialFile) : ledger[b] = {}
    BY DEF Init
  <2>7. InLedger(InitialFile)
    <3>1. 0 \in Nat
      OBVIOUS
    <3> QED
      BY <2>1, <3>1 DEF InLedger
  <2>3. AllSaved
    BY <1>2, <2>7 DEF Init, AllSaved
  <2>4. \A b \in Blocks : Newest(b)
    BY <1>1, <2>1, <2>2 DEF Init, Newest, Saving, Entry
  <2>5. FileIsNewest
    BY <1>1, <2>1, <2>4 DEF Init, FileIsNewest
  <2>6. RevisionNamesOneLogic
    BY <2>1, <2>2 DEF RevisionNamesOneLogic
  <2> QED
    BY <2>3, <2>5, <2>6
<1>5. HandlersOK /\ LaneOK /\ LaneInOrder
  BY <1>2 DEF Init, HandlersOK, LaneOK, LaneInOrder, Saver
<1>6. OneSaver
  BY <1>1, <1>2 DEF Init, OneSaver, Saver, Entry, Absent
<1>7. SessionRuns
  BY <1>1, <1>2 DEF Init, SessionRuns, Saver, Runs, Fits, Running, structural_revision
<1> QED
  BY <1>3, <1>4, <1>5, <1>6, <1>7 DEF IInv, SimulationRunsNamedRevision, Init

\* A fetched document is one that was saved.
LEMMA GetAutomationIInv == ASSUME IInv, NEW c \in Clients, GetAutomation(c) PROVE IInv'
<1>1. /\ seen' = [seen EXCEPT ![c] = file] /\ lost' = [lost EXCEPT ![c] = {}]
      /\ UNCHANGED <<file, runtime, structure, lane, open, fatal, active, activeRevision,
                     restartRequired, handler, saves, restarts, lives, ledger, acked, overlapped,
                     rolledBack, mislabelled>>
  BY DEF GetAutomation, store
<1>2. TypeOK'
  BY <1>1 DEF IInv, TypeOK
<1>3. AllSaved'
  BY <1>1 DEF IInv, AllSaved, InLedger, Idle
<1>5. FileIsNewest'
  <2>1. ~rolledBack => /\ \A b \in Blocks : Newest(b)'
                       /\ \A b \in BlocksOf(file) : Saving(lives[b], file[b]) \in ledger[b]
    BY <1>1 DEF IInv, FileIsNewest, Newest
  <2>2. \A d \in Clients : IF d = c THEN seen'[d] = file /\ lost'[d] = {}
                            ELSE seen'[d] = seen[d] /\ lost'[d] = lost[d]
    BY <1>1 DEF IInv, TypeOK
  <2> QED
    BY <1>1, <2>1, <2>2 DEF IInv, FileIsNewest
<1>4. RevisionNamesOneLogic' /\ HandlersOK' /\ LaneOK' /\ OneSaver' = OneSaver
      /\ LaneInOrder' = LaneInOrder /\ SessionRuns' = SessionRuns /\ SimulationRunsNamedRevision'
  BY <1>1 DEF IInv, RevisionNamesOneLogic, HandlersOK, LaneOK, OneSaver, LaneInOrder, SessionRuns,
     SimulationRunsNamedRevision, Idle, Saver, Abandoned, Runs, Fits
<1> QED
  BY <1>1, <1>2, <1>3, <1>4, <1>5 DEF IInv

\* An execution only refreshes the revision the store shows.
LEMMA RecordExecutionIInv == ASSUME IInv, NEW b \in Blocks, RecordExecution(b) PROVE IInv'
<1>1. /\ activeRevision' = [activeRevision EXCEPT ![b] = active[b].revision]
      /\ UNCHANGED <<file, runtime, structure, lane, open, fatal, active, restartRequired,
                     handler, seen, saves, restarts, lives, ledger, lost, acked, overlapped,
                     rolledBack, mislabelled>>
  BY DEF RecordExecution, history
<1>2. TypeOK'
  BY <1>1 DEF IInv, TypeOK, Document, Entry, Absent
<1>3. AllSaved' /\ FileIsNewest' /\ RevisionNamesOneLogic' /\ HandlersOK' /\ LaneOK'
      /\ OneSaver' = OneSaver /\ LaneInOrder' = LaneInOrder /\ SessionRuns' = SessionRuns
      /\ SimulationRunsNamedRevision'
  BY <1>1 DEF IInv, AllSaved, InLedger, FileIsNewest, Newest, RevisionNamesOneLogic, HandlersOK,
     LaneOK, OneSaver, LaneInOrder, SessionRuns, SimulationRunsNamedRevision, Idle, Saver, Abandoned,
     Runs, Fits
<1> QED
  BY <1>1, <1>2, <1>3 DEF IInv

\* The store names the document the runtime runs, so the answer names what ran.
LEMMA ApplySimulationIInv ==
  ASSUME IInv, NEW b \in Blocks, NEW expected, ApplySimulation(b, expected) PROVE IInv'
<1>1. /\ open /\ expected = active[b].revision /\ b \in BlocksOf(active)
      /\ mislabelled' = (mislabelled \/ /\ ~fatal
                                        /\ ~\E saving \in ledger[b] :
                                             /\ saving[2] = expected
                                             /\ saving[3].source = runtime[b].source)
      /\ UNCHANGED <<file, runtime, structure, lane, open, fatal, active, activeRevision,
                     restartRequired, handler, seen, saves, restarts, lives, ledger, lost, acked,
                     overlapped,
                     rolledBack>>
  BY DEF ApplySimulation, SimulationAccepts, store
<1>2. TypeOK'
  BY <1>1 DEF IInv, TypeOK
<1>3. AllSaved' /\ FileIsNewest' /\ RevisionNamesOneLogic' /\ HandlersOK' /\ LaneOK'
      /\ OneSaver' = OneSaver /\ LaneInOrder' = LaneInOrder /\ SessionRuns' = SessionRuns
  BY <1>1 DEF IInv, AllSaved, InLedger, FileIsNewest, Newest, RevisionNamesOneLogic, HandlersOK,
     LaneOK, OneSaver, LaneInOrder, SessionRuns, Idle, Saver, Abandoned, Runs, Fits
<1>4. SimulationRunsNamedRevision'
  <2> SUFFICES ASSUME ~overlapped, ~fatal
               PROVE  \E saving \in ledger[b] : /\ saving[2] = expected
                                                /\ saving[3].source = runtime[b].source
    BY <1>1 DEF IInv, SimulationRunsNamedRevision
  <2>1. PICK n \in Nat : Saving(n, active[b]) \in ledger[b]
    BY <1>1 DEF IInv, AllSaved, InLedger
  <2>2. runtime[b].source = active[b].source
    BY <1>1 DEF IInv, SessionRuns, Runs
  <2>3. Saving(n, active[b])[2] = expected /\ Saving(n, active[b])[3].source = runtime[b].source
    BY <1>1, <2>2 DEF LogicOf, Saving
  <2> QED
    BY <2>1, <2>3
<1> QED
  BY <1>1, <1>2, <1>3, <1>4 DEF IInv

\* A refused resume only reports the overload.
LEMMA ResumeOverloadedIInv == ASSUME IInv, NEW c \in Clients, ResumeOverloaded(c) PROVE IInv'
<1>1. /\ fatal' = TRUE
      /\ UNCHANGED <<file, runtime, structure, lane, open, active, activeRevision, restartRequired,
                     handler, seen, saves, restarts, lives, ledger, lost, acked, overlapped,
                     rolledBack, mislabelled>>
  BY DEF ResumeOverloaded, HealthFail, store, history
<1>2. TypeOK'
  BY <1>1 DEF IInv, TypeOK
<1>3. AllSaved' /\ FileIsNewest' /\ RevisionNamesOneLogic' /\ HandlersOK' /\ LaneOK'
      /\ OneSaver' = OneSaver /\ SimulationRunsNamedRevision'
  BY <1>1 DEF IInv, AllSaved, InLedger, FileIsNewest, Newest, RevisionNamesOneLogic, HandlersOK,
     LaneOK, OneSaver, SimulationRunsNamedRevision, Idle, Saver
<1> QED
  BY <1>1, <1>2, <1>3 DEF IInv

-----------------------------------------------------------------------------
(* Saves *)

\* A document that may follow the file: a block of both that differs has the next revision.
Follows(document) ==
  \A b \in BlocksOf(file) \cap BlocksOf(document) :
    \/ document[b].revision = file[b].revision + 1
    \/ document[b].revision = file[b].revision /\ LogicOf(document[b]) = LogicOf(file[b])

\* The blocks of a document are entries; the others have revision 0.
LEMMA BlocksAreEntries ==
  ASSUME NEW document \in Document
  PROVE  /\ BlocksOf(document) \subseteq Blocks
         /\ \A b \in BlocksOf(document) : /\ document[b] \in Entry
                                          /\ document[b].revision \in Nat \ {0}
                                          /\ LogicOf(document[b]) \in Logic
         /\ \A b \in Blocks \ BlocksOf(document) : document[b] = Absent /\ document[b].revision = 0
         /\ \A b \in Blocks : document[b].revision \in Nat
BY DEF BlocksOf, Document, Entry, Absent, LogicOf, Logic

\* An accepted save, of a document that follows the file.
LEMMA SaveIInv ==
  ASSUME IInv, NEW c \in Clients, Idle(c), NEW kind \in {"put", "mutation"},
         NEW document \in Document, NEW updates \in Updates, Save(c, kind, document, updates),
         Follows(document), kind = "put" => FullUpdate(document, updates),
         kind = "mutation" => /\ updates # NoUpdates /\ UpdatesCover(document, file, updates)
                              /\ ~restartRequired
  PROVE  IInv'
<1> DEFINE h == [pc |-> "saved", kind |-> kind, document |-> document,
                 previous |-> file, updates |-> updates, reply |-> "none"]
           removed == BlocksOf(file) \ BlocksOf(document)
<1>1. /\ saves < MaxSaves /\ saves' = saves + 1 /\ file' = document
      /\ handler' = [handler EXCEPT ![c] = h]
      /\ lives' = [b \in Blocks |-> IF b \in removed THEN lives[b] + 1 ELSE lives[b]]
      /\ ledger' = [b \in Blocks |-> IF b \in BlocksOf(document)
                                     THEN ledger[b] \cup {Saving(lives[b], document[b])}
                                     ELSE ledger[b]]
      /\ lost' = [d \in Clients |-> lost[d] \cup removed]
      /\ acked' = [b \in Blocks |-> IF b \in removed THEN 0 ELSE acked[b]]
      /\ overlapped' = (overlapped \/ \E d \in Clients \ {c} : ~Idle(d))
      /\ UNCHANGED <<runtime, structure, lane, open, fatal, active, activeRevision,
                     restartRequired, seen, restarts, rolledBack, mislabelled>>
  BY DEF Save, RecordSave, Saving, store
<1>2. /\ TypeOK /\ file \in Document /\ BlocksOf(document) \subseteq Blocks
      /\ BlocksOf(file) \subseteq Blocks /\ removed \subseteq Blocks
      /\ \A d \in Clients : BlocksOf(seen[d]) \subseteq Blocks
  BY DEF IInv, TypeOK, BlocksOf
<1>3. /\ h \in Busy /\ h.pc = "saved" /\ h.kind = kind /\ h.document = document
      /\ h.previous = file /\ h.updates = updates /\ h.reply = "none"
  BY <1>2 DEF Busy
<1> HIDE DEF h
<1>4. /\ handler' \in [Clients -> Handler] /\ handler'[c] = h /\ ~Idle(c)'
      /\ \A d \in Clients \ {c} : handler'[d] = handler[d] /\ Idle(d)' = Idle(d)
  BY <1>1, <1>2, <1>3, HandlerWrite
<1>5. /\ \A b \in Blocks : document[b].revision \in Nat /\ file[b].revision \in Nat
      /\ \A b \in BlocksOf(document) : document[b].revision \in Nat \ {0}
                                       /\ LogicOf(document[b]) \in Logic
      /\ \A b \in BlocksOf(file) : file[b].revision \in Nat \ {0}
      /\ \A b \in Blocks \ BlocksOf(file) : file[b].revision = 0
  BY <1>2, BlocksAreEntries
<1>18. /\ \A b \in removed : /\ lives'[b] = lives[b] + 1 /\ acked'[b] = 0
                             /\ ledger'[b] = ledger[b]
       /\ \A b \in Blocks \ removed : lives'[b] = lives[b] /\ acked'[b] = acked[b]
       /\ \A b \in BlocksOf(document) :
            ledger'[b] = ledger[b] \cup {Saving(lives[b], document[b])}
       /\ \A b \in Blocks \ BlocksOf(document) : ledger'[b] = ledger[b]
       /\ \A b \in Blocks : lives[b] \in Nat /\ acked[b] \in Nat
  BY <1>1, <1>2 DEF TypeOK
<1>6. TypeOK'
  <2>1. ledger' \in [Blocks -> SUBSET (Nat \X (Nat \ {0}) \X Logic)]
    <3>1. \A b \in BlocksOf(document) :
            Saving(lives[b], document[b]) \in Nat \X (Nat \ {0}) \X Logic
      BY <1>2, <1>5, <1>18 DEF Saving
    <3> QED
      BY <1>1, <1>2, <3>1 DEF TypeOK
  <2>2. saves' \in 0..MaxSaves
    BY <1>1, <1>2, DocumentAssumption DEF TypeOK
  <2>3. overlapped' \in BOOLEAN
    BY <1>1, <1>2 DEF TypeOK
  <2>4. lives' \in [Blocks -> Nat] /\ acked' \in [Blocks -> Nat]
    BY <1>1, <1>18
  <2>5. lost' \in [Clients -> SUBSET Blocks]
    BY <1>1, <1>2 DEF TypeOK
  <2> QED
    BY <1>1, <1>2, <1>4, <2>1, <2>2, <2>3, <2>4, <2>5 DEF TypeOK
<1>7. /\ \A b \in Blocks : ledger[b] \subseteq ledger'[b]
      /\ \A b \in BlocksOf(document) : Saving(lives'[b], document[b]) \in ledger'[b]
  BY <1>2, <1>18
<1>19. \A x \in Document : InLedger(x) => InLedger(x)'
  BY <1>7 DEF InLedger, BlocksOf
<1>8. AllSaved'
  <2>1. AllSaved
    BY DEF IInv
  <2>2. InLedger(document)'
    BY <1>2, <1>7, <1>18 DEF InLedger
  <2>3. InLedger(active)' /\ InLedger(file)'
    BY <1>1, <1>2, <1>19, <2>1, <2>2 DEF AllSaved, InLedger, TypeOK
  <2>4. \A i \in DOMAIN lane' : InLedger(lane[i].document)'
    BY <1>1, <1>2, <1>19, <2>1, LaneEntries DEF AllSaved, InLedger
  <2>5. ASSUME NEW d \in Clients, ~Idle(d)'
        PROVE  InLedger(handler[d].document)' /\ InLedger(handler[d].previous)'
    <3>1. CASE d = c
      BY <1>2, <1>3, <1>4, <1>19, <2>1, <2>2, <3>1 DEF AllSaved, InLedger
    <3>2. CASE d # c
      <4>1. /\ handler'[d] = handler[d] /\ handler[d].document \in Document
            /\ handler[d].previous \in Document
            /\ InLedger(handler[d].document) /\ InLedger(handler[d].previous)
        BY <1>2, <1>4, <2>1, <2>5, <3>2, HandlerCases DEF Busy, AllSaved
      <4> QED
        BY <1>19, <4>1 DEF InLedger
    <3> QED
      BY <3>1, <3>2
  <2> QED
    BY <2>3, <2>4, <2>5 DEF AllSaved
<1>9. ASSUME ~rolledBack, NEW b \in Blocks, NEW x \in ledger'[b]
      PROVE  /\ x[1] <= lives'[b]
             /\ x[1] = lives'[b] => /\ b \in BlocksOf(document) /\ x[2] <= document[b].revision
                                    /\ x[2] = document[b].revision => x[3] = LogicOf(document[b])
  <2>1. CASE b \in BlocksOf(document) /\ x = Saving(lives[b], document[b])
    BY <1>2, <1>5, <1>18, <2>1 DEF Saving
  <2>2. CASE x \in ledger[b]
    <3>1. x[1] \in Nat /\ x[2] \in Nat
      <4>1. x \in Nat \X (Nat \ {0}) \X Logic
        BY <1>2, <2>2 DEF TypeOK
      <4> QED
        BY <4>1
    <3>2. /\ x[1] <= lives[b]
          /\ x[1] = lives[b] => /\ b \in BlocksOf(file) /\ x[2] <= file[b].revision
                                /\ x[2] = file[b].revision => x[3] = LogicOf(file[b])
      BY <1>9, <2>2 DEF IInv, FileIsNewest, Newest
    <3>3. CASE b \in removed
      BY <1>18, <3>1, <3>2, <3>3
    <3>4. CASE b \notin removed
      <4>1. lives'[b] = lives[b] /\ x[1] <= lives'[b]
        BY <1>18, <3>2, <3>4
      <4>2. ASSUME x[1] = lives[b]
            PROVE  /\ b \in BlocksOf(document) /\ x[2] <= document[b].revision
                   /\ x[2] = document[b].revision => x[3] = LogicOf(document[b])
        <5>1. b \in BlocksOf(file) \cap BlocksOf(document)
          BY <3>2, <3>4, <4>2
        <5> QED
          BY <1>5, <3>1, <3>2, <4>2, <5>1 DEF Follows
      <4> QED
        BY <4>1, <4>2
    <3> QED
      BY <3>3, <3>4
  <2> QED
    BY <1>18, <2>1, <2>2
<1>10. FileIsNewest'
  <2> SUFFICES ASSUME ~rolledBack
               PROVE  /\ \A b \in Blocks : Newest(b)'
                      /\ \A b \in BlocksOf(document) : Saving(lives'[b], document[b]) \in ledger'[b]
                      /\ \A d \in Clients : \A b \in BlocksOf(seen[d]) \ lost'[d] :
                           Saving(lives'[b], seen[d][b]) \in ledger'[b]
    BY <1>1 DEF FileIsNewest, Saving
  <2>1. \A b \in Blocks : Newest(b)'
    BY <1>1, <1>9 DEF Newest
  <2>2. ASSUME NEW d \in Clients, NEW b \in BlocksOf(seen[d]) \ lost'[d]
        PROVE  Saving(lives'[b], seen[d][b]) \in ledger'[b]
    <3>1. b \in Blocks \ removed /\ b \in BlocksOf(seen[d]) \ lost[d]
      BY <1>1, <1>2, <2>2
    <3>2. Saving(lives[b], seen[d][b]) \in ledger[b]
      BY <3>1 DEF IInv, FileIsNewest
    <3> QED
      BY <1>7, <1>18, <3>1, <3>2
  <2> QED
    BY <1>7, <2>1, <2>2
<1>11. RevisionNamesOneLogic'
  <2> SUFFICES ASSUME ~rolledBack, NEW b \in Blocks, NEW x \in ledger'[b], NEW y \in ledger'[b],
                      x[1] = y[1], x[2] = y[2]
               PROVE  x[3] = y[3]
    BY <1>1 DEF RevisionNamesOneLogic
  <2>1. CASE x \in ledger[b] /\ y \in ledger[b]
    BY <2>1 DEF IInv, RevisionNamesOneLogic
  <2>2. ASSUME NEW z \in {x, y}, b \in BlocksOf(document), z = Saving(lives[b], document[b])
        PROVE  x[3] = y[3]
    <3>1. z[1] = lives'[b] /\ z[2] = document[b].revision
      BY <1>18, <2>2 DEF Saving
    <3> QED
      BY <1>9, <2>2, <3>1
  <2> QED
    BY <1>18, <2>1, <2>2
<1>12. HandlersOK'
  <2>1. HandlerOK(h)
    BY <1>3 DEF HandlerOK
  <2> QED
    BY <1>4, <2>1 DEF IInv, HandlersOK
<1>13. LaneOK'
  <2>1. \A i \in DOMAIN lane : lane[i].client # Nobody => lane[i].client \in Clients \ {c}
    BY <1>2, LaneWaits DEF IInv, Abandoned
  <2> QED
    BY <1>1, <1>4, <2>1 DEF IInv, LaneOK
<1>14. ASSUME ~overlapped' PROVE ~overlapped /\ \A d \in Clients : Saver(d)' => d = c
  BY <1>1, <1>4, <1>14 DEF Saver
<1>15. ASSUME ~overlapped' PROVE OneSaver'
  <2>1. ~overlapped /\ OneSaver
    BY <1>14, <1>15 DEF IInv
  <2>2. ASSUME NEW b \in Blocks
        PROVE  document[b].revision >= acked'[b] /\ file[b].revision >= acked'[b]
    <3>1. file[b].revision >= acked[b] /\ acked[b] \in Nat
      BY <1>18, <2>1 DEF OneSaver
    <3>2. CASE b \in removed
      BY <1>5, <1>18, <3>2
    <3>3. CASE b \in BlocksOf(file) /\ b \in BlocksOf(document)
      BY <1>5, <1>18, <3>1, <3>3 DEF Follows
    <3>4. CASE b \notin BlocksOf(file)
      BY <1>5, <1>18, <3>1, <3>4
    <3> QED
      BY <3>2, <3>3, <3>4
  <2> QED
    BY <1>1, <1>3, <1>4, <1>14, <1>15, <2>2 DEF OneSaver
<1>16. ASSUME ~overlapped', open', ~fatal' PROVE LaneInOrder' /\ SessionRuns'
  <2>1. ~overlapped /\ LaneInOrder /\ SessionRuns /\ \A d \in Clients : Saver(d)' => d = c
    BY <1>1, <1>14, <1>16 DEF IInv
  <2>2. \A d \in Clients : Idle(d)
    BY <1>1, <1>16
  <2>3. \A i \in DOMAIN lane : Abandoned(i)
    BY <1>2, <2>2, LaneWaits DEF IInv
  <2>4. LaneInOrder'
    BY <1>1, <1>3, <1>4, <2>1, <2>3 DEF LaneInOrder, Abandoned
  <2>5. ASSUME kind = "mutation" PROVE ~restartRequired /\ Runs(file) /\ Fits(file)
    BY <2>1, <2>2, <2>5 DEF SessionRuns, Saver
  <2>6. SessionRuns'
    <3>1. /\ Runs(active)' /\ Fits(active)'
          /\ \A j \in DOMAIN lane' : Abandoned(j)' => Fits(lane[j].document)'
      BY <1>1, <2>1 DEF SessionRuns, Runs, Fits, Abandoned
    <3>2. Saver(c)'
      BY <1>3, <1>4 DEF Saver
    <3>3. kind = "mutation" => /\ ~restartRequired' /\ Fits(handler[c].previous)'
                              /\ Runs(handler[c].previous)'
      BY <1>1, <1>3, <1>4, <2>5 DEF Runs, Fits
    <3> QED
      BY <1>3, <1>4, <2>1, <3>1, <3>2, <3>3 DEF SessionRuns
  <2> QED
    BY <2>4, <2>6
<1>17. SimulationRunsNamedRevision'
  BY <1>1, <1>14 DEF IInv, SimulationRunsNamedRevision
<1> QED
  BY <1>6, <1>8, <1>10, <1>11, <1>12, <1>13, <1>15, <1>16, <1>17 DEF IInv

\* A draft of a block is an entry or its removal; an edit keeps the revision the client
\* has seen.
LEMMA DraftsOK ==
  ASSUME NEW e \in Entry \cup {Absent}, NEW f \in Drafts(e)
  PROVE  /\ f \in Entry \cup {Absent}
         /\ e # Absent /\ f # Absent => f.revision = e.revision
<1>1. CASE e = Absent
  BY <1>1, DocumentAssumption DEF Drafts
<1>2. CASE e # Absent /\ f # Absent
  <2>1. e \in Entry /\ f \in Edits(e)
    BY <1>2 DEF Drafts
  <2>2. f \in Entry /\ f.revision = e.revision
    BY <2>1 DEF Edits, Entry
  <2> QED
    BY <2>2
<1> QED
  BY <1>1, <1>2

\* What merge_block_revisions makes of a candidate.
LEMMA MergedOK ==
  ASSUME NEW current \in Document, NEW candidate \in Document
  PROVE  /\ Merged(current, candidate) \in Document
         /\ BlocksOf(Merged(current, candidate)) = BlocksOf(candidate)
         /\ \A b \in BlocksOf(current) \cap BlocksOf(candidate) :
              /\ LogicOf(Merged(current, candidate)[b]) = LogicOf(candidate[b])
              /\ b \in ChangedBlocks(current, candidate) =>
                   Merged(current, candidate)[b].revision = current[b].revision + 1
              /\ b \notin ChangedBlocks(current, candidate) =>
                   /\ Merged(current, candidate)[b].revision = current[b].revision
                   /\ LogicOf(candidate[b]) = LogicOf(current[b])
<1> DEFINE new(b) == IF b \in ChangedBlocks(current, candidate)
                     THEN current[b].revision + 1 ELSE current[b].revision
           both   == BlocksOf(current) \cap BlocksOf(candidate)
           merged == Merged(current, candidate)
<1>1. /\ \A b \in both : candidate[b] \in Entry /\ current[b] \in Entry /\ b \in Blocks
      /\ BlocksOf(candidate) \subseteq Blocks
      /\ \A b \in Blocks : candidate[b] \in Entry \cup {Absent}
  BY BlocksAreEntries DEF Document
<1>2. \A b \in both : new(b) \in Nat \ {0}
  BY <1>1 DEF Entry
<1>3. /\ \A b \in both : merged[b] = [candidate[b] EXCEPT !.revision = new(b)]
      /\ \A b \in Blocks \ both : merged[b] = candidate[b]
  BY <1>1 DEF Merged
<1>4. \A b \in both : b \notin ChangedBlocks(current, candidate) =>
                        LogicOf(candidate[b]) = LogicOf(current[b])
  BY <1>1 DEF ChangedBlocks
<1>5. \A e \in Entry : \A n \in Nat \ {0} :
        /\ [e EXCEPT !.revision = n] \in Entry /\ [e EXCEPT !.revision = n].revision = n
        /\ LogicOf([e EXCEPT !.revision = n]) = LogicOf(e)
  BY DEF Entry, LogicOf
<1>6. ASSUME NEW b \in both
      PROVE  /\ merged[b] \in Entry /\ merged[b].revision = new(b)
             /\ LogicOf(merged[b]) = LogicOf(candidate[b])
  <2>1. merged[b] = [candidate[b] EXCEPT !.revision = new(b)]
        /\ candidate[b] \in Entry /\ new(b) \in Nat \ {0}
    BY <1>1, <1>2, <1>3
  <2> HIDE DEF new, both, merged
  <2>2. /\ [candidate[b] EXCEPT !.revision = new(b)] \in Entry
        /\ [candidate[b] EXCEPT !.revision = new(b)].revision = new(b)
        /\ LogicOf([candidate[b] EXCEPT !.revision = new(b)]) = LogicOf(candidate[b])
    BY <1>5, <2>1
  <2> QED
    BY <2>1, <2>2, Zenon
<1>7. \A b \in Blocks : /\ merged[b] \in Entry \cup {Absent}
                        /\ merged[b] # Absent <=> candidate[b] # Absent
  <2>1. \A e \in Entry : e # Absent
    BY DEF Entry, Absent
  <2> HIDE DEF merged
  <2> QED
    BY <1>1, <1>3, <1>6, <2>1
<1>8. merged \in Document /\ BlocksOf(merged) = BlocksOf(candidate)
  <2>1. merged = [b \in Blocks |-> merged[b]]
    BY DEF Merged
  <2> HIDE DEF merged
  <2> QED
    BY <1>7, <2>1 DEF Document, BlocksOf
<1> QED
  BY <1>4, <1>6, <1>8

\* A client that edits what it has seen under the present revision has seen the present
\* logic, as long as the block was not removed since and no file was restored.
LEMMA SeenIsPresent ==
  ASSUME IInv, ~rolledBack, NEW c \in Clients, NEW b \in BlocksOf(seen[c]) \ lost[c]
  PROVE  /\ b \in BlocksOf(file)
         /\ seen[c][b].revision = file[b].revision => LogicOf(file[b]) = LogicOf(seen[c][b])
<1> DEFINE x == Saving(lives[b], seen[c][b])
<1>1. b \in Blocks /\ x \in ledger[b] /\ Newest(b)
  BY DEF IInv, FileIsNewest, BlocksOf
<1>2. x[1] = lives[b] /\ x[2] = seen[c][b].revision /\ x[3] = LogicOf(seen[c][b])
  BY DEF Saving
<1> HIDE DEF x
<1> QED
  BY <1>1, <1>2 DEF Newest

\* What an accepted save overwrites, its client has seen.
Seen(c, document) ==
  ~rolledBack => \A b \in (BlocksOf(seen[c]) \ lost[c]) \cap BlocksOf(document) :
                    LogicOf(document[b]) # LogicOf(file[b])
                        => LogicOf(file[b]) = LogicOf(seen[c][b])

\* An accepted PUT saves a document that follows the file, over logic its client has seen.
LEMMA PutAutomationIInv ==
  ASSUME IInv, NEW c \in Clients, PutAutomation(c)
  PROVE  IInv' /\ Seen(c, file')
<1>1. PICK b \in Blocks : \E entry \in Drafts(seen[c][b]) :
         LET candidate == [seen[c] EXCEPT ![b] = entry]
         IN /\ BlocksOf(candidate) # {}
            /\ MergeAccepts(file, candidate)
            /\ Save(c, "put", Merged(file, candidate),
                    [sources |-> BlocksOf(candidate), flags |-> BlocksOf(candidate)])
  BY DEF PutAutomation
<1>2. PICK entry \in Drafts(seen[c][b]) :
         LET candidate == [seen[c] EXCEPT ![b] = entry]
         IN /\ BlocksOf(candidate) # {}
            /\ MergeAccepts(file, candidate)
            /\ Save(c, "put", Merged(file, candidate),
                    [sources |-> BlocksOf(candidate), flags |-> BlocksOf(candidate)])
  BY <1>1
<1> DEFINE candidate == [seen[c] EXCEPT ![b] = entry]
           document  == Merged(file, candidate)
<1>3. /\ seen[c] \in Document /\ file \in Document
      /\ \A d \in Blocks : seen[c][d] \in Entry \cup {Absent}
  BY DEF IInv, TypeOK, Document
<1>4. /\ entry \in Entry \cup {Absent}
      /\ seen[c][b] # Absent /\ entry # Absent => entry.revision = seen[c][b].revision
  BY <1>3, DraftsOK
<1>5. /\ candidate \in Document
      /\ \A d \in BlocksOf(seen[c]) \cap BlocksOf(candidate) :
           d \in Blocks /\ candidate[d].revision = seen[c][d].revision
  BY <1>3, <1>4 DEF Document, BlocksOf
<1>6. /\ MergeAccepts(file, candidate) /\ BlocksOf(candidate) # {}
      /\ Save(c, "put", document, AllUpdates(candidate))
  BY <1>2 DEF AllUpdates
<1> HIDE DEF candidate
<1>7. /\ document \in Document /\ BlocksOf(document) = BlocksOf(candidate)
      /\ \A d \in BlocksOf(file) \cap BlocksOf(candidate) :
           /\ LogicOf(document[d]) = LogicOf(candidate[d])
           /\ d \in ChangedBlocks(file, candidate) => document[d].revision = file[d].revision + 1
           /\ d \notin ChangedBlocks(file, candidate) =>
                /\ document[d].revision = file[d].revision
                /\ LogicOf(candidate[d]) = LogicOf(file[d])
  BY <1>3, <1>5, MergedOK
<1> HIDE DEF document
<1>8. Follows(document)
  BY <1>7 DEF Follows
<1>9. /\ Idle(c) /\ AllUpdates(candidate) \in Updates
      /\ FullUpdate(document, AllUpdates(candidate))
  <2>1. BlocksOf(candidate) \subseteq Blocks
    BY DEF BlocksOf
  <2> QED
    BY <1>6, <1>7, <2>1 DEF PutAutomation, AllUpdates, Updates, FullUpdate, NoUpdates
<1>10. IInv'
  BY <1>6, <1>7, <1>8, <1>9, SaveIInv
<1>12. Seen(c, document)
  <2> SUFFICES ASSUME ~rolledBack, NEW d \in (BlocksOf(seen[c]) \ lost[c]) \cap BlocksOf(document),
                      LogicOf(document[d]) # LogicOf(file[d])
               PROVE  LogicOf(file[d]) = LogicOf(seen[c][d])
    BY DEF Seen
  <2>1. d \in BlocksOf(file) \cap BlocksOf(candidate) /\ d \in ChangedBlocks(file, candidate)
    BY <1>7, SeenIsPresent
  <2>2. candidate[d].revision = file[d].revision /\ candidate[d].revision = seen[c][d].revision
    BY <1>5, <1>6, <2>1 DEF MergeAccepts
  <2> QED
    BY <2>2, SeenIsPresent
<1>13. file' = document
  BY <1>6 DEF Save
<1> QED
  BY <1>10, <1>12, <1>13

\* One block with one field changed and the next revision.
LEMMA MutationOK ==
  ASSUME IInv, NEW b \in BlocksOf(file), NEW e \in Entry, e.revision = file[b].revision + 1,
         e.shape = file[b].shape, NEW document, document = [file EXCEPT ![b] = e]
  PROVE  /\ document \in Document /\ Follows(document)
         /\ \A d \in Blocks \ {b} : document[d] = file[d]
         /\ \A u \in Updates : /\ b \in u.sources \/ e.source = file[b].source
                               /\ b \in u.flags \/ e.enabled = file[b].enabled
                               => UpdatesCover(document, file, u)
<1>1. /\ document \in Document /\ document[b] = e /\ b \in Blocks
      /\ \A d \in Blocks \ {b} : document[d] = file[d]
  BY DEF IInv, TypeOK, Document, BlocksOf
<1>2. Follows(document)
  BY <1>1 DEF Follows, BlocksOf
<1>3. ASSUME NEW u \in Updates, b \in u.sources \/ e.source = file[b].source,
             b \in u.flags \/ e.enabled = file[b].enabled
      PROVE  UpdatesCover(document, file, u)
  BY <1>1, <1>3 DEF UpdatesCover
<1> QED
  BY <1>1, <1>2, <1>3

\* One field of an entry edited, then the next revision.
LEMMA NextEntry ==
  ASSUME NEW x \in Entry, NEW source \in Sources
  PROVE  LET s == [x EXCEPT !.source = source]
             f == [x EXCEPT !.enabled = ~@]
         IN /\ s \in Entry /\ s.revision = x.revision /\ s.shape = x.shape /\ s.enabled = x.enabled
            /\ f \in Entry /\ f.revision = x.revision /\ f.shape = x.shape /\ f.source = x.source
BY DEF Entry

\* The next revision changes nothing else.
LEMMA RevisedEntry ==
  ASSUME NEW x \in Entry, NEW e, e = [x EXCEPT !.revision = @ + 1]
  PROVE  /\ e \in Entry /\ e.revision = x.revision + 1
         /\ e.shape = x.shape /\ e.source = x.source /\ e.enabled = x.enabled
<1> DEFINE n == x.revision + 1
<1>1. n \in Nat \ {0} /\ e = [x EXCEPT !.revision = n]
  BY DEF Entry
<1> HIDE DEF n
<1>2. /\ e \in Entry /\ e.revision = n
      /\ e.shape = x.shape /\ e.source = x.source /\ e.enabled = x.enabled
  BY <1>1 DEF Entry
<1> QED
  BY <1>2 DEF n

\* An accepted mutation saves one edited block, which its client has seen.
LEMMA PrepareMutationIInv ==
  ASSUME IInv, NEW c \in Clients, PrepareMutation(c)
  PROVE  IInv' /\ Seen(c, file')
<1>1. PICK b \in Blocks :
        /\ CheckBlockCas(c, b) /\ CheckFile(c, b)
        /\ \/ \E source \in Sources \ {file[b].source} :
                Save(c, "mutation", Revised(b, [file[b] EXCEPT !.source = source]),
                     [NoUpdates EXCEPT !.sources = {b}])
           \/ Save(c, "mutation", Revised(b, [file[b] EXCEPT !.enabled = ~@]),
                   [NoUpdates EXCEPT !.flags = {b}])
  BY DEF PrepareMutation
<1>2. /\ Idle(c) /\ ~restartRequired /\ b \in BlocksOf(file)
      /\ file[b].revision = seen[c][b].revision
  BY <1>1 DEF PrepareMutation, CheckBlockCas, CheckFile
<1>3. file \in Document /\ file[b] \in Entry /\ file[b].revision \in Nat \ {0}
  BY <1>2, BlocksAreEntries DEF IInv, TypeOK
<1>4. ASSUME NEW x \in Entry, x.revision = file[b].revision, x.shape = file[b].shape,
             NEW u \in Updates, u # NoUpdates, b \in u.sources \/ x.source = file[b].source,
             b \in u.flags \/ x.enabled = file[b].enabled,
             Save(c, "mutation", Revised(b, x), u)
      PROVE  IInv' /\ Seen(c, file')
  <2> DEFINE e        == [x EXCEPT !.revision = @ + 1]
             document == [file EXCEPT ![b] = e]
  <2>1. /\ e \in Entry /\ e.revision = file[b].revision + 1
        /\ e.shape = file[b].shape /\ e.source = x.source /\ e.enabled = x.enabled
    BY <1>4, RevisedEntry
  <2>2. Save(c, "mutation", document, u)
    BY <1>4 DEF Revised
  <2> HIDE DEF e
  <2>3. /\ document \in Document /\ Follows(document)
        /\ \A d \in Blocks \ {b} : document[d] = file[d]
        /\ UpdatesCover(document, file, u)
    BY <1>2, <1>4, <2>1, MutationOK
  <2> HIDE DEF document
  <2>4. IInv'
    BY <1>2, <1>4, <2>2, <2>3, SaveIInv
  <2>5. Seen(c, document)
    <3> SUFFICES ASSUME ~rolledBack, NEW d \in BlocksOf(seen[c]) \ lost[c],
                        LogicOf(document[d]) # LogicOf(file[d])
                 PROVE  LogicOf(file[d]) = LogicOf(seen[c][d])
      BY DEF Seen
    <3>1. d = b
      BY <2>3 DEF BlocksOf
    <3> QED
      BY <1>2, <3>1, SeenIsPresent
  <2>6. file' = document
    BY <2>2 DEF Save
  <2> QED
    BY <2>4, <2>5, <2>6
<1>5. ASSUME NEW source \in Sources,
             Save(c, "mutation", Revised(b, [file[b] EXCEPT !.source = source]),
                  [NoUpdates EXCEPT !.sources = {b}])
      PROVE  IInv' /\ Seen(c, file')
  <2> DEFINE x == [file[b] EXCEPT !.source = source]
             u == [NoUpdates EXCEPT !.sources = {b}]
  <2>1. x \in Entry /\ x.revision = file[b].revision /\ x.shape = file[b].shape
        /\ x.enabled = file[b].enabled
    BY <1>3, NextEntry
  <2>2. u \in Updates /\ u # NoUpdates /\ b \in u.sources
    BY DEF NoUpdates, Updates
  <2>3. Save(c, "mutation", Revised(b, x), u)
    BY <1>5
  <2> HIDE DEF x, u
  <2> QED
    BY <1>4, <2>1, <2>2, <2>3
<1>6. ASSUME Save(c, "mutation", Revised(b, [file[b] EXCEPT !.enabled = ~@]),
                  [NoUpdates EXCEPT !.flags = {b}])
      PROVE  IInv' /\ Seen(c, file')
  <2> DEFINE x == [file[b] EXCEPT !.enabled = ~@]
             u == [NoUpdates EXCEPT !.flags = {b}]
  <2>1. x \in Entry /\ x.revision = file[b].revision /\ x.shape = file[b].shape
        /\ x.source = file[b].source
    <3>1. file[b].source \in Sources
      BY <1>3 DEF Entry
    <3> QED
      BY <1>3, <3>1, NextEntry
  <2>2. u \in Updates /\ u # NoUpdates /\ b \in u.flags
    BY DEF NoUpdates, Updates
  <2>3. Save(c, "mutation", Revised(b, x), u)
    BY <1>6
  <2> HIDE DEF x, u
  <2> QED
    BY <1>4, <2>1, <2>2, <2>3
<1> QED
  BY <1>1, <1>5, <1>6

-----------------------------------------------------------------------------
(* A handler that answers *)

LaneEntry == [client: Clients \cup {Nobody}, document: Document, updates: Updates]

\* The queued activation of c, if there is one, is left to nobody.
LeavesLane(c) ==
  /\ lane' \in Seq(LaneEntry) /\ Len(lane') = Len(lane) /\ DOMAIN lane' = DOMAIN lane
  /\ \A i \in DOMAIN lane :
       /\ lane'[i].document = lane[i].document /\ lane'[i].updates = lane[i].updates
       /\ lane'[i].client = IF lane[i].client = c THEN Nobody ELSE lane[i].client
  /\ \A i \in DOMAIN lane : lane[i].client = c => handler[c].kind = "put"

\* A handler whose activation was taken, or never queued, has no entry in the lane.
LEMMA NotInLane ==
  ASSUME IInv, NEW c \in Clients, handler[c].pc = "saved" \/ handler[c].reply # "none",
         lane' = lane
  PROVE  LeavesLane(c)
<1>1. TypeOK /\ LaneOK /\ lane \in Seq(LaneEntry)
  BY DEF IInv, TypeOK, LaneEntry
<1>2. \A i \in DOMAIN lane : lane[i].client # c
  BY <1>1, LaneWaits, DocumentAssumption DEF Abandoned
<1> QED
  BY <1>1, <1>2 DEF LeavesLane

\* A handler that answers: the other handlers and their queued activations stay as they are.
LEMMA FinishOK ==
  ASSUME IInv, NEW c \in Clients, ~Idle(c), Answer(c), LeavesLane(c),
         UNCHANGED <<ledger, seen>>, InLedger(file)', InLedger(active)'
  PROVE  /\ handler' \in [Clients -> Handler] /\ lane' \in Seq(LaneEntry)
         /\ Len(lane') <= ActivationQueue
         /\ AllSaved' /\ HandlersOK' /\ LaneOK'
         /\ \A d \in Clients : Saver(d)' <=> Saver(d) /\ d # c
         /\ \A d \in Clients \ {c} : handler'[d] = handler[d]
<1>1. TypeOK /\ LaneOK /\ handler' = [handler EXCEPT ![c] = IdleHandler]
  BY DEF IInv, Answer
<1>2. /\ handler' \in [Clients -> Handler] /\ handler'[c] = IdleHandler /\ Idle(c)'
      /\ \A d \in Clients \ {c} : handler'[d] = handler[d] /\ Idle(d)' = Idle(d)
  <2>1. IdleHandler.pc = "idle"
    BY DEF IdleHandler
  <2> HIDE DEF IdleHandler
  <2> QED
    BY <1>1, <2>1, HandlerWrite
<1>3. AllSaved'
  <2>1. \A i \in DOMAIN lane' : InLedger(lane[i].document)'
    BY DEF IInv, AllSaved, InLedger, LeavesLane
  <2>3. \A d \in Clients : (~Idle(d))' => InLedger(handler[d].document)' /\ InLedger(handler[d].previous)'
    BY <1>2 DEF IInv, AllSaved, InLedger
  <2> QED
    BY <2>1, <2>3 DEF AllSaved
<1>4. HandlersOK'
  BY <1>2 DEF IInv, HandlersOK
<1>5. \A d \in Clients : Saver(d)' <=> Saver(d) /\ d # c
  BY <1>2 DEF Saver
<1>6. LaneOK'
  <2>1. ASSUME NEW i \in DOMAIN lane', lane'[i].client = Nobody
        PROVE  FullUpdate(lane'[i].document, lane'[i].updates)
    <3>1. i \in DOMAIN lane /\ (lane[i].client = c \/ lane[i].client = Nobody)
      BY <2>1 DEF LeavesLane
    <3>2. CASE lane[i].client = Nobody
      BY <1>1, <3>1, <3>2, Zenon DEF LaneOK, LeavesLane
    <3>3. CASE lane[i].client = c
      <4>1. handler[c].kind = "put" /\ handler[c].updates = lane[i].updates
        BY <1>1, <3>1, <3>3, LaneWaits, DocumentAssumption DEF LeavesLane, Abandoned
      <4>2. FullUpdate(handler[c].document, handler[c].updates)
            /\ handler[c].document = lane[i].document
        BY <1>1, <3>1, <3>3, <4>1, LaneWaits, DocumentAssumption DEF IInv, Abandoned, HandlersOK,
           HandlerOK
      <4> QED
        BY <3>1, <4>1, <4>2 DEF LeavesLane
    <3> QED
      BY <3>1, <3>2, <3>3
  <2>2. ASSUME NEW i \in DOMAIN lane', lane'[i].client # Nobody
        PROVE  /\ handler'[lane'[i].client].pc = "waiting"
               /\ handler'[lane'[i].client].reply = "none"
               /\ handler'[lane'[i].client].document = lane'[i].document
               /\ handler'[lane'[i].client].updates = lane'[i].updates
               /\ lane'[i].client = lane[i].client
    <3>1. i \in DOMAIN lane /\ lane[i].client = lane'[i].client /\ lane[i].client # c
          /\ lane'[i].document = lane[i].document /\ lane'[i].updates = lane[i].updates
      BY <2>2 DEF LeavesLane
    <3> QED
      BY <1>1, <1>2, <2>2, <3>1, LaneWaits DEF Abandoned
  <2>3. \A i, j \in DOMAIN lane' : lane'[i].client = lane'[j].client /\ lane'[i].client # Nobody => i = j
    BY <1>1, <2>2 DEF LaneOK, LeavesLane
  <2> QED
    BY <2>1, <2>2, <2>3, Zenon DEF LaneOK
<1>7. lane' \in Seq(LaneEntry) /\ Len(lane') <= ActivationQueue
  BY <1>1 DEF LeavesLane, TypeOK
<1> QED
  BY <1>2, <1>3, <1>4, <1>5, <1>6, <1>7

\* After the only handler that saves has answered, nobody has the file.
LEMMA FinishQuiet ==
  ASSUME IInv, NEW c \in Clients, Saver(c), Answer(c), LeavesLane(c), UNCHANGED <<ledger, seen>>,
         InLedger(file)', InLedger(active)', ~overlapped,
         \A b \in Blocks : file'[b].revision >= acked'[b]
  PROVE  /\ OneSaver' /\ \A d \in Clients : ~Saver(d)'
         /\ (\A j \in DOMAIN lane' : Abandoned(j)' => restartRequired') => LaneInOrder'
         /\ /\ Runs(active)' /\ Fits(active)'
            /\ \A j \in DOMAIN lane' : Abandoned(j)' => Fits(lane[j].document)'
            /\ ~restartRequired' => Runs(file)' /\ Fits(file)'
            => SessionRuns'
<1>1. /\ \A d \in Clients : Saver(d)' <=> Saver(d) /\ d # c
      /\ LaneOK' /\ lane' \in Seq(LaneEntry)
  BY FinishOK DEF Saver
<1>2. \A d \in Clients : ~Saver(d)'
  BY <1>1 DEF IInv, OneSaver
<1>3. OneSaver'
  BY <1>2 DEF OneSaver
<1>4. ASSUME NEW i \in DOMAIN lane', ~Abandoned(i)' PROVE handler'[lane'[i].client].kind = "resume"
  <2>1. handler'[lane'[i].client].pc = "waiting"
    BY <1>1, <1>4, Zenon DEF LaneOK, Abandoned
  <2>2. lane'[i].client \in Clients
    <3>1. lane'[i] \in LaneEntry
      BY <1>1
    <3> QED
      BY <1>4, <3>1 DEF LaneEntry, Abandoned
  <2> QED
    BY <1>2, <2>1, <2>2 DEF Saver, Idle
<1>5. ASSUME \A j \in DOMAIN lane' : Abandoned(j)' => restartRequired' PROVE LaneInOrder'
  BY <1>2, <1>4, <1>5 DEF LaneInOrder
<1>6. ASSUME Runs(active)' /\ Fits(active)',
             \A j \in DOMAIN lane' : Abandoned(j)' => Fits(lane[j].document)',
             ~restartRequired' => Runs(file)' /\ Fits(file)'
      PROVE  SessionRuns'
  BY <1>2, <1>6 DEF SessionRuns
<1> QED
  BY <1>2, <1>3, <1>5, <1>6

\* A resume answers without touching a document.
LEMMA ResumeAnsweredIInv == ASSUME IInv, NEW c \in Clients, ResumeAnswered(c) PROVE IInv'
<1>1. /\ handler[c].pc = "waiting" /\ handler[c].kind = "resume" /\ handler[c].reply # "none"
      /\ Answer(c) /\ ~Idle(c)
      /\ UNCHANGED <<file, runtime, structure, lane, open, fatal, active, activeRevision,
                     restartRequired, seen, saves, restarts, lives, ledger, lost, acked, overlapped,
                     rolledBack, mislabelled>>
  BY DEF ResumeAnswered, store, history, Idle
<1>2. LeavesLane(c) /\ InLedger(file)' /\ InLedger(active)'
  BY <1>1, NotInLane DEF IInv, AllSaved, InLedger
<1>3. /\ handler' \in [Clients -> Handler] /\ AllSaved' /\ HandlersOK' /\ LaneOK'
      /\ \A d \in Clients : Saver(d)' <=> Saver(d) /\ d # c
      /\ \A d \in Clients \ {c} : handler'[d] = handler[d]
  BY <1>1, <1>2, FinishOK
<1>4. TypeOK'
  BY <1>1, <1>3 DEF IInv, TypeOK
<1>5. FileIsNewest' /\ RevisionNamesOneLogic' /\ SimulationRunsNamedRevision'
  BY <1>1 DEF IInv, FileIsNewest, Newest, RevisionNamesOneLogic, SimulationRunsNamedRevision
<1>6. \A d \in Clients : /\ Saver(d)' <=> Saver(d)
                         /\ Saver(d) => d # c /\ handler'[d] = handler[d]
  BY <1>1, <1>3 DEF Saver
<1>7. \A i \in DOMAIN lane : ~Abandoned(i) =>
         lane[i].client \in Clients \ {c} /\ handler'[lane[i].client] = handler[lane[i].client]
  BY <1>1, <1>3, LaneWaits DEF IInv
<1>8. OneSaver => OneSaver'
  BY <1>1, <1>6 DEF OneSaver
<1>9. LaneInOrder => LaneInOrder'
  BY <1>1, <1>6, <1>7 DEF LaneInOrder, Abandoned
<1>10. SessionRuns => SessionRuns'
  BY <1>1, <1>6 DEF SessionRuns, Runs, Fits, Abandoned
<1> QED
  BY <1>1, <1>3, <1>4, <1>5, <1>8, <1>9, <1>10 DEF IInv

\* What a 200 response acknowledges, the file holds.
LEMMA AcknowledgeOK ==
  ASSUME IInv, NEW document \in Document, Acknowledge(document)
  PROVE  /\ acked' \in [Blocks -> Nat]
         /\ \A b \in Blocks : /\ document[b].revision >= acked[b] => document[b].revision >= acked'[b]
                              /\ document[b].revision <= acked[b] => acked'[b] = acked[b]
<1>1. acked \in [Blocks -> Nat] /\ \A b \in Blocks : document[b].revision \in Nat
  BY BlocksAreEntries DEF IInv, TypeOK
<1> QED
  BY <1>1 DEF Acknowledge

\* The store shows a revision for every block, 0 for one it does not have.
LEMMA ShownOK ==
  ASSUME TypeOK, NEW document \in Document, NEW blocks
  PROVE  Shown(document, blocks) \in [Blocks -> Nat]
BY BlocksAreEntries DEF Shown, TypeOK

\* A PUT that asks for a restart leaves the running logic and the active document alone.
LEMMA PutWithoutActivationIInv ==
  ASSUME IInv, NEW c \in Clients, PutWithoutActivation(c) PROVE IInv'
<1>1. /\ handler[c].pc = "saved" /\ handler[c].kind = "put" /\ Saver(c) /\ ~Idle(c)
      /\ SetSavedDocumentState(handler[c].document, TRUE) /\ Acknowledge(handler[c].document)
      /\ Answer(c)
      /\ UNCHANGED <<file, runtime, structure, lane, open, fatal, seen, saves, restarts, lives,
                     ledger, lost,
                     overlapped, rolledBack, mislabelled>>
  BY DEF PutWithoutActivation, Idle, Saver
<1>2. restartRequired' = TRUE /\ active' = active /\ activeRevision' = activeRevision
  BY <1>1 DEF SetSavedDocumentState
<1>3. handler[c].document \in Document
  BY <1>1, HandlerCases DEF IInv, Busy
<1>4. LeavesLane(c) /\ InLedger(file)' /\ InLedger(active)'
  BY <1>1, <1>2, NotInLane DEF IInv, AllSaved, InLedger
<1>5. handler' \in [Clients -> Handler] /\ AllSaved' /\ HandlersOK' /\ LaneOK'
  BY <1>1, <1>4, FinishOK
<1>6. TypeOK'
  <2>1. acked' \in [Blocks -> Nat]
    BY <1>1, <1>3, AcknowledgeOK
  <2> QED
    BY <1>1, <1>2, <1>5, <2>1 DEF IInv, TypeOK
<1>7. FileIsNewest' /\ RevisionNamesOneLogic' /\ SimulationRunsNamedRevision'
  BY <1>1 DEF IInv, FileIsNewest, Newest, RevisionNamesOneLogic, SimulationRunsNamedRevision
<1>8. ASSUME ~overlapped
      PROVE  OneSaver' /\ (LaneInOrder /\ SessionRuns => LaneInOrder' /\ SessionRuns')
  <2>1. file = handler[c].document /\ \A b \in Blocks : file[b].revision >= acked[b]
    BY <1>1, <1>8 DEF IInv, OneSaver
  <2>2. \A b \in Blocks : file'[b].revision >= acked'[b]
    BY <1>1, <1>3, <2>1, AcknowledgeOK
  <2>3. /\ OneSaver' /\ \A d \in Clients : ~Saver(d)'
        /\ (\A j \in DOMAIN lane' : Abandoned(j)' => restartRequired') => LaneInOrder'
        /\ /\ Runs(active)' /\ Fits(active)'
           /\ \A j \in DOMAIN lane' : Abandoned(j)' => Fits(lane[j].document)'
           /\ ~restartRequired' => Runs(file)' /\ Fits(file)'
           => SessionRuns'
    BY <1>1, <1>4, <1>8, <2>2, FinishQuiet
  <2>4. SessionRuns =>
          /\ Runs(active)' /\ Fits(active)'
          /\ \A j \in DOMAIN lane' : Abandoned(j)' => Fits(lane[j].document)'
    BY <1>1, <1>2 DEF SessionRuns, Runs, Fits, Abandoned
  <2> QED
    BY <1>2, <2>3, <2>4
<1> QED
  BY <1>1, <1>5, <1>6, <1>7, <1>8 DEF IInv

\* A PUT the lane refuses leaves the file saved; the session is about to end.
LEMMA PutOverloadedIInv == ASSUME IInv, NEW c \in Clients, PutOverloaded(c) PROVE IInv'
<1>1. /\ handler[c].pc = "saved" /\ handler[c].kind = "put" /\ Saver(c) /\ ~Idle(c)
      /\ Answer(c) /\ fatal' = TRUE
      /\ UNCHANGED <<file, runtime, structure, lane, open, active, activeRevision,
                     restartRequired, seen, saves, restarts, lives, ledger, lost, acked, overlapped,
                     rolledBack, mislabelled>>
  BY DEF PutOverloaded, HealthFail, store, history, Idle, Saver
<1>2. LeavesLane(c) /\ InLedger(file)' /\ InLedger(active)'
  BY <1>1, NotInLane DEF IInv, AllSaved, InLedger
<1>3. handler' \in [Clients -> Handler] /\ AllSaved' /\ HandlersOK' /\ LaneOK'
  BY <1>1, <1>2, FinishOK
<1>4. TypeOK'
  BY <1>1, <1>3 DEF IInv, TypeOK
<1>5. FileIsNewest' /\ RevisionNamesOneLogic' /\ SimulationRunsNamedRevision'
  BY <1>1 DEF IInv, FileIsNewest, Newest, RevisionNamesOneLogic, SimulationRunsNamedRevision
<1>6. ASSUME ~overlapped PROVE OneSaver'
  <2>1. \A b \in Blocks : file'[b].revision >= acked'[b]
    BY <1>1, <1>6 DEF IInv, OneSaver
  <2> QED
    BY <1>1, <1>2, <1>6, <2>1, FinishQuiet
<1> QED
  BY <1>1, <1>3, <1>4, <1>5, <1>6 DEF IInv

\* A restored file: the one before the save of c.
LEMMA RestoreIInv ==
  ASSUME IInv, NEW c \in Clients, Saver(c), handler[c].kind = "mutation",
         handler[c].pc = "saved" \/ handler[c].reply = "error", Restore(c), UNCHANGED <<lane,
                                                                                        open>>,
         fatal' \in BOOLEAN, fatal => fatal', open /\ ~fatal' => handler[c].reply = "error"
  PROVE  IInv'
<1>1. /\ file' = handler[c].previous /\ rolledBack' = TRUE /\ Answer(c) /\ ~Idle(c)
      /\ UNCHANGED <<runtime, structure, active, activeRevision, restartRequired, seen, saves,
                     restarts, lives, ledger, lost, acked, overlapped, mislabelled>>
  BY DEF Restore, store, Saver
<1>2. handler[c].previous \in Document
  BY <1>1, HandlerCases DEF IInv, Busy
<1>3. LeavesLane(c) /\ InLedger(file)' /\ InLedger(active)'
  BY <1>1, NotInLane DEF IInv, AllSaved, InLedger
<1>4. handler' \in [Clients -> Handler] /\ AllSaved' /\ HandlersOK' /\ LaneOK'
  BY <1>1, <1>3, FinishOK
<1>5. TypeOK'
  BY <1>1, <1>2, <1>4 DEF IInv, TypeOK
<1>6. FileIsNewest' /\ RevisionNamesOneLogic' /\ SimulationRunsNamedRevision'
  BY <1>1 DEF IInv, FileIsNewest, Newest, RevisionNamesOneLogic, SimulationRunsNamedRevision
<1>7. ASSUME ~overlapped
      PROVE  OneSaver' /\ (open' /\ ~fatal' => LaneInOrder' /\ SessionRuns')
  <2>1. \A b \in Blocks : file'[b].revision >= acked'[b]
    BY <1>1, <1>7 DEF IInv, OneSaver
  <2>2. /\ OneSaver' /\ \A d \in Clients : ~Saver(d)'
        /\ (\A j \in DOMAIN lane' : Abandoned(j)' => restartRequired') => LaneInOrder'
        /\ /\ Runs(active)' /\ Fits(active)'
           /\ \A j \in DOMAIN lane' : Abandoned(j)' => Fits(lane[j].document)'
           /\ ~restartRequired' => Runs(file)' /\ Fits(file)'
           => SessionRuns'
    BY <1>1, <1>3, <1>7, <2>1, FinishQuiet
  <2>3. ASSUME open', ~fatal' PROVE LaneInOrder' /\ SessionRuns'
    <3>1. LaneInOrder /\ SessionRuns /\ handler[c].reply = "error"
      BY <1>7, <2>3 DEF IInv
    <3>2. \A j \in DOMAIN lane' : Abandoned(j)' => restartRequired'
      BY <1>1, <3>1 DEF LaneInOrder, Abandoned
    <3>3. /\ Runs(active)' /\ Fits(active)'
          /\ \A j \in DOMAIN lane' : Abandoned(j)' => Fits(lane[j].document)'
      BY <1>1, <3>1 DEF SessionRuns, Runs, Fits, Abandoned
    <3>4. Runs(handler[c].previous) /\ Fits(handler[c].previous)
      BY <3>1 DEF SessionRuns
    <3>5. Runs(file)' /\ Fits(file)'
      BY <1>1, <3>4 DEF Runs, Fits
    <3> QED
      BY <2>2, <3>2, <3>3, <3>5
  <2> QED
    BY <2>2, <2>3
<1> QED
  BY <1>1, <1>4, <1>5, <1>6, <1>7 DEF IInv

\* A mutation the lane refuses restores what still runs.
LEMMA MutationNotSentIInv == ASSUME IInv, NEW c \in Clients, MutationNotSent(c) PROVE IInv'
<1>1. /\ handler[c].pc = "saved" /\ handler[c].kind = "mutation" /\ Saver(c)
      /\ Restore(c) /\ UNCHANGED <<lane, open>>
      /\ (open /\ fatal' = TRUE) \/ (~open /\ fatal' = fatal)
  BY DEF MutationNotSent, HealthFail, Saver, Idle
<1>2. fatal \in BOOLEAN
  BY DEF IInv, TypeOK
<1>3. fatal' \in BOOLEAN /\ (fatal => fatal') /\ (open /\ ~fatal' => handler[c].reply = "error")
  <2>1. CASE open /\ fatal' = TRUE
    BY <2>1
  <2>2. CASE ~open /\ fatal' = fatal
    BY <1>2, <2>2
  <2> QED
    BY <1>1, <2>1, <2>2
<1> QED
  BY <1>1, <1>3, RestoreIInv

\* A mutation the session refused restores what still runs.
LEMMA MutationFailedIInv == ASSUME IInv, NEW c \in Clients, MutationFailed(c) PROVE IInv'
<1>1. /\ handler[c].kind = "mutation" /\ handler[c].reply = "error" /\ Saver(c)
      /\ Restore(c) /\ UNCHANGED <<lane, open, fatal>> /\ fatal' \in BOOLEAN
  BY DEF MutationFailed, Saver, Idle, IInv, TypeOK
<1> QED
  BY <1>1, RestoreIInv

-----------------------------------------------------------------------------
(* A handler that queues its activation *)

\* A handler that queues its activation.
LEMMA QueueOK ==
  ASSUME IInv, NEW c \in Clients, NEW h \in Busy, h.pc = "waiting", h.reply = "none", HandlerOK(h),
         InLedger(h.document), InLedger(h.previous), handler' = [handler EXCEPT ![c] = h],
         lane' = Append(lane, [client |-> c, document |-> h.document, updates |-> h.updates]),
         \A i \in DOMAIN lane : lane[i].client # c, Len(lane) < ActivationQueue,
         UNCHANGED <<file, active, seen, ledger>>
  PROVE  /\ handler' \in [Clients -> Handler] /\ handler'[c] = h
         /\ \A d \in Clients \ {c} : handler'[d] = handler[d] /\ Idle(d)' = Idle(d)
         /\ lane' \in Seq(LaneEntry) /\ Len(lane') <= ActivationQueue
         /\ AllSaved' /\ HandlersOK' /\ LaneOK'
         /\ Len(lane) \in Nat /\ DOMAIN lane = 1 .. Len(lane) /\ DOMAIN lane' = 1 .. Len(lane) + 1
         /\ \A i \in DOMAIN lane : lane'[i] = lane[i]
         /\ lane'[Len(lane) + 1].client = c
<1> DEFINE e == [client |-> c, document |-> h.document, updates |-> h.updates]
           n == Len(lane)
<1>1. TypeOK /\ LaneOK /\ lane \in Seq(LaneEntry)
  BY DEF IInv, TypeOK, LaneEntry
<1>2. /\ e \in LaneEntry /\ e.client = c /\ e.document = h.document /\ e.updates = h.updates
      /\ c # Nobody
  BY DocumentAssumption DEF LaneEntry, Busy
<1> HIDE DEF e
<1>3. lane' = Append(lane, e)
  BY DEF e
<1>4. /\ lane' \in Seq(LaneEntry) /\ Len(lane') = n + 1 /\ n \in Nat
      /\ DOMAIN lane = 1 .. n /\ DOMAIN lane' = 1 .. n + 1
      /\ \A i \in 1 .. n : lane'[i] = lane[i] /\ lane[i] \in LaneEntry
      /\ lane'[n + 1] = e
  BY <1>1, <1>2, <1>3
<1>5. /\ handler' \in [Clients -> Handler] /\ handler'[c] = h /\ Idle(c)' = FALSE
      /\ \A d \in Clients \ {c} : handler'[d] = handler[d] /\ Idle(d)' = Idle(d)
  BY <1>1, HandlerWrite
<1>6. Len(lane') <= ActivationQueue
  BY <1>4, DocumentAssumption
<1>7. AllSaved'
  <2>1. InLedger(file)' /\ InLedger(active)'
    BY DEF IInv, AllSaved, InLedger
  <2>2. \A d \in Clients : (~Idle(d))' => InLedger(handler[d].document)' /\ InLedger(handler[d].previous)'
    BY <1>5 DEF IInv, AllSaved, InLedger
  <2>3. ASSUME NEW i \in DOMAIN lane' PROVE InLedger(lane[i].document)'
    <3>1. CASE i \in 1 .. n
      BY <1>4, <3>1 DEF IInv, AllSaved, InLedger
    <3>2. CASE i = n + 1
      BY <1>2, <1>4, <3>2 DEF InLedger
    <3> QED
      BY <1>4, <2>3, <3>1, <3>2
  <2> QED
    BY <2>1, <2>2, <2>3 DEF AllSaved
<1>8. HandlersOK'
  BY <1>5 DEF IInv, HandlersOK
<1>9. LaneOK'
  <2>1. ASSUME NEW i \in DOMAIN lane', lane'[i].client = Nobody
        PROVE  FullUpdate(lane'[i].document, lane'[i].updates)
    <3>1. i \in DOMAIN lane /\ lane'[i] = lane[i]
      BY <1>2, <1>4, <2>1
    <3> QED
      BY <1>1, <2>1, <3>1, Zenon DEF LaneOK
  <2>2. ASSUME NEW i \in DOMAIN lane', lane'[i].client # Nobody
        PROVE  /\ handler'[lane'[i].client].pc = "waiting"
               /\ handler'[lane'[i].client].reply = "none"
               /\ handler'[lane'[i].client].document = lane'[i].document
               /\ handler'[lane'[i].client].updates = lane'[i].updates
    <3>1. CASE i = n + 1
      BY <1>2, <1>4, <1>5, <3>1
    <3>2. CASE i \in 1 .. n
      <4>1. i \in DOMAIN lane /\ lane'[i] = lane[i] /\ lane[i].client # c /\ ~Abandoned(i)
        BY <1>4, <2>2, <3>2 DEF Abandoned
      <4> QED
        BY <1>1, <1>5, <4>1, LaneWaits
    <3> QED
      BY <1>4, <2>2, <3>1, <3>2
  <2>3. ASSUME NEW i \in DOMAIN lane', NEW j \in DOMAIN lane',
               lane'[i].client = lane'[j].client, lane'[i].client # Nobody
        PROVE  i = j
    <3>1. CASE i \in 1 .. n /\ j \in 1 .. n
      BY <1>1, <1>4, <2>3, <3>1 DEF LaneOK
    <3>2. CASE i = n + 1 \/ j = n + 1
      BY <1>2, <1>4, <2>3, <3>2
    <3> QED
      BY <1>4, <3>1, <3>2
  <2> QED
    BY <2>1, <2>2, <2>3, Zenon DEF LaneOK
<1> QED
  BY <1>2, <1>4, <1>5, <1>6, <1>7, <1>8, <1>9

\* A handler that saves puts its activation behind all others.
LEMMA SendIInv ==
  ASSUME IInv, NEW c \in Clients, Send(c), Saver(c), handler[c].kind = "put" => ~NeedsRestart(c),
         UNCHANGED <<file, runtime, structure, open, fatal, active, activeRevision,
                     restartRequired, seen, saves, restarts, lives, ledger, lost, acked, overlapped,
                     rolledBack, mislabelled>>
  PROVE  IInv'
<1> DEFINE h == [handler[c] EXCEPT !.pc = "waiting"]
           n == Len(lane)
<1>1. /\ handler[c].pc = "saved" /\ Len(lane) < ActivationQueue
      /\ handler' = [handler EXCEPT ![c] = h]
      /\ lane' = Append(lane, [client |-> c, document |-> handler[c].document,
                               updates |-> handler[c].updates])
      /\ TypeOK /\ LaneOK /\ ~Idle(c)
  BY DEF Send, IInv, Saver
<1>2. handler[c] \in Busy /\ HandlerOK(handler[c])
  BY <1>1, HandlerCases DEF IInv, HandlersOK
<1>3. /\ h \in Busy /\ h.pc = "waiting" /\ h.kind = handler[c].kind /\ h.reply = handler[c].reply
      /\ h.document = handler[c].document /\ h.previous = handler[c].previous
      /\ h.updates = handler[c].updates
  BY <1>2 DEF Busy
<1> HIDE DEF h
<1>4. h.reply = "none" /\ h.kind # "resume" /\ HandlerOK(h)
  BY <1>1, <1>2, <1>3 DEF HandlerOK
<1>5. InLedger(h.document) /\ InLedger(h.previous)
  BY <1>1, <1>3 DEF IInv, AllSaved
<1>6. \A i \in DOMAIN lane : lane[i].client # c
  BY <1>1, LaneWaits, DocumentAssumption DEF Abandoned
<1>7. /\ handler' \in [Clients -> Handler] /\ handler'[c] = h
      /\ \A d \in Clients \ {c} : handler'[d] = handler[d] /\ Idle(d)' = Idle(d)
      /\ lane' \in Seq(LaneEntry) /\ Len(lane') <= ActivationQueue
      /\ AllSaved' /\ HandlersOK' /\ LaneOK'
      /\ n \in Nat /\ DOMAIN lane = 1 .. n /\ DOMAIN lane' = 1 .. n + 1
      /\ \A i \in DOMAIN lane : lane'[i] = lane[i]
      /\ lane'[n + 1].client = c
  BY <1>1, <1>3, <1>4, <1>5, <1>6, QueueOK
<1> HIDE DEF n
<1>8. TypeOK'
  BY <1>1, <1>7 DEF TypeOK, LaneEntry
<1>9. FileIsNewest' /\ RevisionNamesOneLogic' /\ SimulationRunsNamedRevision'
  BY DEF IInv, FileIsNewest, Newest, RevisionNamesOneLogic, SimulationRunsNamedRevision
<1>10. \A d \in Clients :
         /\ Saver(d)' <=> Saver(d)
         /\ Saver(d) => /\ handler'[d].kind = handler[d].kind /\ handler'[d].reply = handler[d].reply
                        /\ handler'[d].document = handler[d].document
                        /\ handler'[d].previous = handler[d].previous
                        /\ d # c => handler'[d].pc = handler[d].pc
  BY <1>1, <1>3, <1>4, <1>7 DEF Saver, Idle
<1>11. OneSaver => OneSaver'
  BY <1>10 DEF OneSaver
<1>12. \A j \in DOMAIN lane' : Abandoned(j)' => j \in DOMAIN lane /\ Abandoned(j)
  BY <1>7, DocumentAssumption DEF Abandoned
<1>13. LaneInOrder => LaneInOrder'
  <2> SUFFICES ASSUME LaneInOrder PROVE LaneInOrder'
    OBVIOUS
  <2>1. ASSUME NEW i \in DOMAIN lane', NEW j \in DOMAIN lane', Abandoned(j)', ~Abandoned(i)',
               handler'[lane'[i].client].kind # "resume"
        PROVE  j < i
    <3>1. j \in 1 .. n /\ Abandoned(j)
      BY <1>7, <1>12, <2>1
    <3>2. CASE i = n + 1
      BY <1>7, <3>1, <3>2
    <3>3. CASE i \in 1 .. n
      <4>1. i \in DOMAIN lane /\ ~Abandoned(i) /\ lane[i].client = lane'[i].client
        BY <1>7, <2>1, <3>3 DEF Abandoned
      <4>2. lane[i].client \in Clients \ {c}
        BY <1>1, <1>6, <4>1, LaneWaits
      <4>3. handler[lane[i].client].kind # "resume"
        BY <1>7, <2>1, <4>1, <4>2
      <4> QED
        BY <1>7, <3>1, <4>1, <4>3 DEF LaneInOrder
    <3> QED
      BY <1>7, <2>1, <3>2, <3>3
  <2>2. ASSUME NEW d \in Clients, Saver(d)', handler'[d].reply # "none", NEW j \in DOMAIN lane'
        PROVE  ~Abandoned(j)'
    BY <1>10, <1>12, <2>2 DEF LaneInOrder
  <2>3. \A j \in DOMAIN lane' : Abandoned(j)' => restartRequired'
    BY <1>12 DEF LaneInOrder
  <2> QED
    BY <2>1, <2>2, <2>3 DEF LaneInOrder
<1>14. SessionRuns => SessionRuns'
  <2> SUFFICES ASSUME SessionRuns PROVE SessionRuns'
    OBVIOUS
  <2>1. /\ Runs(active)' /\ Fits(active)'
        /\ \A j \in DOMAIN lane' : Abandoned(j)' => Fits(lane[j].document)'
    BY <1>7, <1>12 DEF SessionRuns, Runs, Fits
  <2>2. (\A d \in Clients : ~Saver(d)') /\ ~restartRequired' => Runs(file)' /\ Fits(file)'
    BY <1>10 DEF SessionRuns, Runs, Fits
  <2>3. ASSUME NEW d \in Clients, Saver(d)', handler'[d].kind = "put", handler'[d].pc = "waiting"
        PROVE  Fits(handler[d].document)' /\ (handler'[d].reply = "ok" => Runs(handler[d].document)')
    <3>1. CASE d = c
      BY <1>3, <1>4, <1>7, <2>3, <3>1 DEF NeedsRestart, structural_revision, Fits
    <3>2. CASE d # c
      BY <1>10, <2>3, <3>2 DEF SessionRuns, Runs, Fits
    <3> QED
      BY <3>1, <3>2
  <2>4. ASSUME NEW d \in Clients, Saver(d)', handler'[d].kind = "mutation"
        PROVE  /\ ~restartRequired' /\ Fits(handler[d].previous)'
               /\ Runs(IF handler[d].reply = "ok" THEN handler[d].document ELSE handler[d].previous)'
    BY <1>10, <2>4 DEF SessionRuns, Runs, Fits
  <2> QED
    BY <2>1, <2>2, <2>3, <2>4 DEF SessionRuns
<1> QED
  BY <1>7, <1>8, <1>9, <1>11, <1>13, <1>14 DEF IInv

\* A PUT is queued only when it fits the structure of the process.
LEMMA PutSendsIInv == ASSUME IInv, NEW c \in Clients, PutSends(c) PROVE IInv'
<1>1. Send(c) /\ Saver(c) /\ ~NeedsRestart(c)
      /\ UNCHANGED <<file, runtime, structure, open, fatal, active, activeRevision,
                     restartRequired, seen, saves, restarts, lives, ledger, lost, acked, overlapped,
                     rolledBack, mislabelled>>
  BY DEF PutSends, Send, Saver, Idle, store, history
<1> QED
  BY <1>1, SendIInv

\* A mutation is queued with the block it edited.
LEMMA MutationSendsIInv == ASSUME IInv, NEW c \in Clients, MutationSends(c) PROVE IInv'
<1>1. Send(c) /\ Saver(c) /\ handler[c].kind = "mutation"
      /\ UNCHANGED <<file, runtime, structure, open, fatal, active, activeRevision,
                     restartRequired, seen, saves, restarts, lives, ledger, lost, acked, overlapped,
                     rolledBack, mislabelled>>
  BY DEF MutationSends, Send, Saver, Idle, store, history
<1> QED
  BY <1>1, SendIInv

\* A resume is queued behind every activation and carries no update.
LEMMA ResumeBlockIInv == ASSUME IInv, NEW c \in Clients, ResumeBlock(c) PROVE IInv'
<1> DEFINE h == [pc |-> "waiting", kind |-> "resume", document |-> active,
                 previous |-> file, updates |-> NoUpdates, reply |-> "none"]
           n == Len(lane)
<1>1. /\ Idle(c) /\ Len(lane) < ActivationQueue /\ TypeOK /\ LaneOK
      /\ lane' = Append(lane, [client |-> c, document |-> active, updates |-> NoUpdates])
      /\ handler' = [handler EXCEPT ![c] = h]
      /\ UNCHANGED <<file, runtime, structure, open, fatal, active, activeRevision,
                     restartRequired, seen, saves, restarts, lives, ledger, lost, acked, overlapped,
                     rolledBack, mislabelled>>
  BY DEF ResumeBlock, store, history, IInv
<1>2. /\ h \in Busy /\ h.pc = "waiting" /\ h.kind = "resume" /\ h.reply = "none"
      /\ h.document = active /\ h.previous = file /\ h.updates = NoUpdates
  BY <1>1 DEF Busy, TypeOK, NoUpdates, Updates
<1> HIDE DEF h
<1>3. HandlerOK(h) /\ InLedger(h.document) /\ InLedger(h.previous)
  BY <1>2 DEF HandlerOK, IInv, AllSaved
<1>4. \A i \in DOMAIN lane : lane[i].client # c
  BY <1>1, LaneWaits, DocumentAssumption DEF Abandoned
<1>5. lane' = Append(lane, [client |-> c, document |-> h.document, updates |-> h.updates])
  BY <1>1, <1>2
<1>6. /\ handler' \in [Clients -> Handler] /\ handler'[c] = h
      /\ \A d \in Clients \ {c} : handler'[d] = handler[d] /\ Idle(d)' = Idle(d)
      /\ lane' \in Seq(LaneEntry) /\ Len(lane') <= ActivationQueue
      /\ AllSaved' /\ HandlersOK' /\ LaneOK'
      /\ n \in Nat /\ DOMAIN lane = 1 .. n /\ DOMAIN lane' = 1 .. n + 1
      /\ \A i \in DOMAIN lane : lane'[i] = lane[i]
      /\ lane'[n + 1].client = c
  BY <1>1, <1>2, <1>3, <1>4, <1>5, QueueOK
<1> HIDE DEF n
<1>7. TypeOK'
  BY <1>1, <1>6 DEF TypeOK, LaneEntry
<1>8. FileIsNewest' /\ RevisionNamesOneLogic' /\ SimulationRunsNamedRevision'
  BY <1>1 DEF IInv, FileIsNewest, Newest, RevisionNamesOneLogic, SimulationRunsNamedRevision
<1>9. \A d \in Clients : /\ Saver(d)' <=> Saver(d)
                         /\ Saver(d) => d # c /\ handler'[d] = handler[d]
  BY <1>1, <1>2, <1>6 DEF Saver
<1>10. OneSaver => OneSaver'
  BY <1>1, <1>9 DEF OneSaver
<1>11. \A j \in DOMAIN lane' : Abandoned(j)' => j \in DOMAIN lane /\ Abandoned(j)
  BY <1>6, DocumentAssumption DEF Abandoned
<1>12. LaneInOrder => LaneInOrder'
  <2> SUFFICES ASSUME LaneInOrder PROVE LaneInOrder'
    OBVIOUS
  <2>1. ASSUME NEW i \in DOMAIN lane', NEW j \in DOMAIN lane', Abandoned(j)', ~Abandoned(i)',
               handler'[lane'[i].client].kind # "resume"
        PROVE  j < i
    <3>1. i \in 1 .. n
      BY <1>2, <1>6, <2>1
    <3>2. i \in DOMAIN lane /\ ~Abandoned(i) /\ lane[i].client = lane'[i].client
      BY <1>6, <2>1, <3>1 DEF Abandoned
    <3>3. lane[i].client \in Clients \ {c}
      BY <1>1, <1>4, <3>2, LaneWaits
    <3>4. handler[lane[i].client].kind # "resume"
      BY <1>6, <2>1, <3>2, <3>3
    <3> QED
      BY <1>11, <2>1, <3>2, <3>4 DEF LaneInOrder
  <2>2. ASSUME NEW d \in Clients, Saver(d)', handler'[d].reply # "none", NEW j \in DOMAIN lane'
        PROVE  ~Abandoned(j)'
    BY <1>9, <1>11, <2>2 DEF LaneInOrder
  <2>3. \A j \in DOMAIN lane' : Abandoned(j)' => restartRequired'
    BY <1>1, <1>11 DEF LaneInOrder
  <2> QED
    BY <2>1, <2>2, <2>3 DEF LaneInOrder
<1>13. SessionRuns => SessionRuns'
  <2>1. SessionRuns =>
          /\ Runs(active)' /\ Fits(active)'
          /\ \A j \in DOMAIN lane' : Abandoned(j)' => Fits(lane[j].document)'
    BY <1>1, <1>6, <1>11 DEF SessionRuns, Runs, Fits
  <2> QED
    BY <1>1, <1>9, <2>1 DEF SessionRuns, Runs, Fits
<1> QED
  BY <1>1, <1>6, <1>7, <1>8, <1>10, <1>12, <1>13 DEF IInv

-----------------------------------------------------------------------------
(* The answer to a PUT and to a mutation *)

\* A function on 1 .. n is a sequence of length n.
LEMMA FunctionIsSeq ==
  ASSUME NEW S, NEW n \in Nat, NEW f, f = [i \in 1 .. n |-> f[i]], \A i \in 1 .. n : f[i] \in S
  PROVE  f \in Seq(S) /\ Len(f) = n
<1>1. f \in [1 .. n -> S]
  OBVIOUS
<1>2. f \in Seq(S)
  BY <1>1
<1> QED
  BY <1>1, <1>2

\* The reply to a PUT, or its timeout: a request still queued is left to nobody.
LEMMA PutAnsweredIInv == ASSUME IInv, NEW c \in Clients, PutAnswered(c) PROVE IInv'
<1> DEFINE document == handler[c].document
           late     == handler[c].reply # "ok"
<1>1. /\ handler[c].pc = "waiting" /\ handler[c].kind = "put" /\ Saver(c) /\ ~Idle(c)
      /\ SetSavedDocumentState(document, late) /\ Acknowledge(document) /\ Answer(c)
      /\ lane' = [i \in DOMAIN lane |->
                    [lane[i] EXCEPT !.client = IF @ = c THEN Nobody ELSE @]]
      /\ UNCHANGED <<file, runtime, structure, open, fatal, seen, saves, restarts, lives, ledger,
                     lost,
                     overlapped, rolledBack, mislabelled>>
  BY DEF PutAnswered, Saver, Idle
<1>2. /\ restartRequired' = late /\ active' = IF late THEN active ELSE document
      /\ activeRevision' = IF late THEN activeRevision ELSE Shown(document, Blocks)
  BY <1>1 DEF SetSavedDocumentState
<1>3. document \in Document /\ InLedger(document) /\ TypeOK /\ late \in BOOLEAN
  BY <1>1, HandlerCases DEF IInv, Busy, AllSaved
<1>4. LeavesLane(c)
  <2>1. Len(lane) \in Nat /\ DOMAIN lane = 1 .. Len(lane) /\ \A i \in DOMAIN lane : lane[i] \in LaneEntry
    BY <1>3, LaneEntries DEF LaneEntry
  <2>2. \A i \in DOMAIN lane : lane'[i] = [lane[i] EXCEPT !.client = IF @ = c THEN Nobody ELSE @]
    BY <1>1
  <2>3. \A i \in DOMAIN lane :
          /\ lane'[i] \in LaneEntry
          /\ lane'[i].document = lane[i].document /\ lane'[i].updates = lane[i].updates
          /\ lane'[i].client = IF lane[i].client = c THEN Nobody ELSE lane[i].client
    BY <2>1, <2>2 DEF LaneEntry
  <2>4. DOMAIN lane' = DOMAIN lane /\ lane' = [i \in 1 .. Len(lane) |-> lane'[i]]
    BY <1>1, <2>1
  <2>5. lane' \in Seq(LaneEntry) /\ Len(lane') = Len(lane)
    BY <2>1, <2>3, <2>4, FunctionIsSeq
  <2> QED
    BY <1>1, <2>3, <2>4, <2>5 DEF LeavesLane
<1>5. InLedger(file)' /\ InLedger(active)'
  BY <1>1, <1>2, <1>3 DEF IInv, AllSaved, InLedger
<1>6. /\ handler' \in [Clients -> Handler] /\ lane' \in Seq(LaneEntry)
      /\ Len(lane') <= ActivationQueue /\ AllSaved' /\ HandlersOK' /\ LaneOK'
  BY <1>1, <1>4, <1>5, FinishOK
<1>7. TypeOK'
  <2>1. acked' \in [Blocks -> Nat]
    BY <1>1, <1>3, AcknowledgeOK
  <2>2. Shown(document, Blocks) \in [Blocks -> Nat]
    BY <1>3, ShownOK
  <2> HIDE DEF document, late
  <2>3. /\ active' \in Document /\ activeRevision' \in [Blocks -> Nat]
        /\ restartRequired' \in BOOLEAN
    BY <1>2, <1>3, <2>2 DEF TypeOK
  <2> QED
    BY <1>1, <1>3, <1>6, <2>1, <2>3 DEF TypeOK, LaneEntry
<1>8. FileIsNewest' /\ RevisionNamesOneLogic' /\ SimulationRunsNamedRevision'
  BY <1>1 DEF IInv, FileIsNewest, Newest, RevisionNamesOneLogic, SimulationRunsNamedRevision
<1>9. ASSUME ~overlapped
      PROVE  OneSaver' /\ (LaneInOrder /\ SessionRuns => LaneInOrder' /\ SessionRuns')
  <2>1. file = document /\ \A b \in Blocks : file[b].revision >= acked[b]
    BY <1>1, <1>9 DEF IInv, OneSaver
  <2>2. \A b \in Blocks : file'[b].revision >= acked'[b]
    BY <1>1, <1>3, <2>1, AcknowledgeOK
  <2>3. /\ OneSaver' /\ \A d \in Clients : ~Saver(d)'
        /\ (\A j \in DOMAIN lane' : Abandoned(j)' => restartRequired') => LaneInOrder'
        /\ /\ Runs(active)' /\ Fits(active)'
           /\ \A j \in DOMAIN lane' : Abandoned(j)' => Fits(lane[j].document)'
           /\ ~restartRequired' => Runs(file)' /\ Fits(file)'
           => SessionRuns'
    BY <1>1, <1>4, <1>5, <1>9, <2>2, FinishQuiet
  <2>4. ASSUME LaneInOrder, SessionRuns PROVE LaneInOrder' /\ SessionRuns'
    <3>1. Fits(document) /\ (~late => Runs(document))
      BY <1>1, <2>4 DEF SessionRuns
    <3>2. ASSUME NEW j \in DOMAIN lane', Abandoned(j)' PROVE late /\ Fits(lane[j].document)'
      <4>1. j \in DOMAIN lane /\ (lane[j].client = c \/ Abandoned(j))
            /\ lane'[j].document = lane[j].document
        BY <1>4, <3>2 DEF LeavesLane, Abandoned
      <4>2. CASE Abandoned(j)
        <5>1. late
          BY <1>1, <2>4, <4>1, <4>2 DEF LaneInOrder
        <5>2. Fits(lane[j].document)
          BY <2>4, <4>1, <4>2 DEF SessionRuns
        <5> QED
          BY <1>1, <4>1, <5>1, <5>2 DEF Fits
      <4>3. CASE lane[j].client = c
        <5>1. handler[c].reply = "none" /\ document = lane[j].document
          BY <1>3, <4>1, <4>3, LaneWaits, DocumentAssumption DEF IInv, Abandoned
        <5> QED
          BY <1>1, <3>1, <4>1, <5>1 DEF Fits
      <4> QED
        BY <4>1, <4>2, <4>3
    <3>3. Runs(active)' /\ Fits(active)'
      BY <1>1, <1>2, <2>4, <3>1 DEF SessionRuns, Runs, Fits
    <3>4. ~restartRequired' => Runs(file)' /\ Fits(file)'
      BY <1>1, <1>2, <2>1, <3>1 DEF Runs, Fits
    <3>5. \A j \in DOMAIN lane' : Abandoned(j)' => restartRequired'
      BY <1>2, <3>2
    <3> QED
      BY <2>3, <3>2, <3>3, <3>4, <3>5
  <2> QED
    BY <2>3, <2>4
<1> QED
  BY <1>1, <1>6, <1>7, <1>8, <1>9 DEF IInv

\* The reply to a mutation names the document that now runs.
LEMMA MutationActivatedIInv == ASSUME IInv, NEW c \in Clients, MutationActivated(c) PROVE IInv'
<1> DEFINE document == handler[c].document
<1>1. /\ handler[c].pc = "waiting" /\ handler[c].kind = "mutation" /\ handler[c].reply = "ok"
      /\ Saver(c) /\ ~Idle(c)
      /\ SetSavedDocumentState(document, FALSE) /\ Acknowledge(document) /\ Answer(c)
      /\ UNCHANGED <<file, runtime, structure, lane, open, fatal, seen, saves, restarts, lives,
                     ledger, lost,
                     overlapped, rolledBack, mislabelled>>
  BY DEF MutationActivated, Saver, Idle
<1>2. /\ restartRequired' = FALSE /\ active' = document
      /\ activeRevision' = Shown(document, Blocks)
  BY <1>1 DEF SetSavedDocumentState
<1>3. document \in Document /\ InLedger(document) /\ TypeOK
  BY <1>1, HandlerCases DEF IInv, Busy, AllSaved
<1>4. LeavesLane(c)
  BY <1>1, NotInLane
<1>5. InLedger(file)' /\ InLedger(active)'
  BY <1>1, <1>2, <1>3 DEF IInv, AllSaved, InLedger
<1>6. handler' \in [Clients -> Handler] /\ AllSaved' /\ HandlersOK' /\ LaneOK'
  BY <1>1, <1>4, <1>5, FinishOK
<1>7. TypeOK'
  <2>1. acked' \in [Blocks -> Nat]
    BY <1>1, <1>3, AcknowledgeOK
  <2>2. activeRevision' \in [Blocks -> Nat]
    BY <1>2, <1>3, ShownOK
  <2> HIDE DEF document
  <2> QED
    BY <1>1, <1>2, <1>3, <1>6, <2>1, <2>2 DEF TypeOK
<1>8. FileIsNewest' /\ RevisionNamesOneLogic' /\ SimulationRunsNamedRevision'
  BY <1>1 DEF IInv, FileIsNewest, Newest, RevisionNamesOneLogic, SimulationRunsNamedRevision
<1>9. ASSUME ~overlapped
      PROVE  OneSaver' /\ (LaneInOrder /\ SessionRuns => LaneInOrder' /\ SessionRuns')
  <2>1. file = document /\ \A b \in Blocks : file[b].revision >= acked[b]
    BY <1>1, <1>9 DEF IInv, OneSaver
  <2>2. \A b \in Blocks : file'[b].revision >= acked'[b]
    BY <1>1, <1>3, <2>1, AcknowledgeOK
  <2>3. /\ OneSaver' /\ \A d \in Clients : ~Saver(d)'
        /\ (\A j \in DOMAIN lane' : Abandoned(j)' => restartRequired') => LaneInOrder'
        /\ /\ Runs(active)' /\ Fits(active)'
           /\ \A j \in DOMAIN lane' : Abandoned(j)' => Fits(lane[j].document)'
           /\ ~restartRequired' => Runs(file)' /\ Fits(file)'
           => SessionRuns'
    BY <1>1, <1>4, <1>5, <1>9, <2>2, FinishQuiet
  <2>4. ASSUME LaneInOrder, SessionRuns PROVE LaneInOrder' /\ SessionRuns'
    <3>1. Runs(document) /\ Fits(handler[c].previous)
      BY <1>1, <2>4 DEF SessionRuns
    <3>2. Fits(document)
      BY <1>1, <3>1 DEF IInv, HandlersOK, HandlerOK, UpdatesCover, Fits
    <3>3. \A j \in DOMAIN lane' : ~Abandoned(j)'
      BY <1>1, <2>4 DEF LaneInOrder, Abandoned
    <3>4. Runs(active)' /\ Fits(active)' /\ Runs(file)' /\ Fits(file)'
      BY <1>1, <1>2, <2>1, <3>1, <3>2 DEF Runs, Fits
    <3> QED
      BY <2>3, <3>3, <3>4
  <2> QED
    BY <2>3, <2>4
<1> QED
  BY <1>1, <1>6, <1>7, <1>8, <1>9 DEF IInv

-----------------------------------------------------------------------------
(* The session takes an activation *)

\* The head and the tail of a sequence that is not empty, index by index.
LEMMA TailEntries ==
  ASSUME NEW S, NEW q \in Seq(S), q # <<>>
  PROVE  /\ Tail(q) \in Seq(S) /\ Len(Tail(q)) = Len(q) - 1 /\ Len(q) \in Nat \ {0}
         /\ DOMAIN q = 1 .. Len(q) /\ DOMAIN Tail(q) = 1 .. Len(q) - 1
         /\ Head(q) = q[1] /\ q[1] \in S
         /\ \A i \in DOMAIN Tail(q) : i + 1 \in DOMAIN q /\ Tail(q)[i] = q[i + 1]
OBVIOUS

\* What a reply changes of the handlers.
LEMMA ReplyOK ==
  ASSUME TypeOK, LaneOK, lane # <<>>, NEW r \in {"ok", "error"},
         handler' = ReplyTo(handler, lane[1].client, r)
  PROVE  /\ handler' \in [Clients -> Handler]
         /\ \A d \in Clients : d # lane[1].client => handler'[d] = handler[d]
         /\ \A d \in Clients : Idle(d)' = Idle(d)
         /\ \A d \in Clients : ~Idle(d) =>
              /\ handler'[d].pc = handler[d].pc /\ handler'[d].kind = handler[d].kind
              /\ handler'[d].document = handler[d].document
              /\ handler'[d].previous = handler[d].previous
              /\ handler'[d].updates = handler[d].updates
         /\ ~Abandoned(1) => handler'[lane[1].client].reply = r
<1>0. 1 \in DOMAIN lane
  BY TailEntries DEF TypeOK
<1>1. CASE Abandoned(1)
  <2>1. handler' = handler
    BY <1>1 DEF ReplyTo, Abandoned
  <2> QED
    BY <1>1, <2>1 DEF TypeOK, Idle
<1>2. CASE ~Abandoned(1)
  <2>0. PICK cl \in Clients : cl = lane[1].client
    BY <1>0, <1>2, LaneWaits
  <2> DEFINE h  == [handler[cl] EXCEPT !.reply = r]
  <2>1. cl \in Clients /\ ~Idle(cl) /\ cl # Nobody
    BY <1>0, <1>2, <2>0, LaneWaits
  <2>2. handler[cl] \in Busy
    BY <2>1, HandlerCases
  <2>3. handler' = [handler EXCEPT ![cl] = [handler[cl] EXCEPT !.reply = r]]
    <3>1. handler' = [handler EXCEPT ![cl].reply = r]
      BY <2>0, <2>1, Zenon DEF ReplyTo
    <3> QED
      BY <3>1
  <2>4. /\ h \in Busy /\ h.pc = handler[cl].pc /\ h.kind = handler[cl].kind
        /\ h.document = handler[cl].document /\ h.previous = handler[cl].previous
        /\ h.updates = handler[cl].updates /\ h.reply = r
    BY <2>2 DEF Busy
  <2>7. handler' = [handler EXCEPT ![cl] = h]
    BY <2>3
  <2> HIDE DEF h
  <2>5. /\ handler' \in [Clients -> Handler] /\ handler'[cl] = h
        /\ \A d \in Clients \ {cl} : handler'[d] = handler[d] /\ Idle(d)' = Idle(d)
        /\ Idle(cl)' = (h.pc = "idle")
    BY <2>1, <2>4, <2>7, HandlerWrite
  <2>6. Idle(cl)' = Idle(cl)
    BY <2>4, <2>5 DEF Idle
  <2> QED
    BY <2>0, <2>1, <2>4, <2>5, <2>6
<1> QED
  BY <1>1, <1>2

\* A batch is applied as a whole, or refused as a whole.
Refused ==
  /\ handler' = ReplyTo(handler, lane[1].client, "error")
  /\ UNCHANGED <<runtime, active, activeRevision>>

Applied ==
  /\ handler' = ReplyTo(handler, lane[1].client, "ok")
  /\ runtime' \in [Blocks -> [source: Sources \cup {None}, enabled: BOOLEAN]]
  /\ activeRevision' \in [Blocks -> Nat]
  /\ \A b \in Blocks :
       /\ b \in lane[1].updates.sources => runtime'[b].source = lane[1].document[b].source
       /\ b \notin lane[1].updates.sources => runtime'[b].source = runtime[b].source
       /\ b \in lane[1].updates.flags => runtime'[b].enabled = lane[1].document[b].enabled
       /\ b \notin lane[1].updates.flags => runtime'[b].enabled = runtime[b].enabled
  /\ lane[1].updates = NoUpdates => active' = active
  /\ lane[1].updates # NoUpdates => active' = lane[1].document

\* The two outcomes of apply_activation.
LEMMA ActivationOutcome ==
  ASSUME TypeOK, ApplyActivation
  PROVE  Refused \/ Applied
<1> DEFINE request == lane[1]
           sources == request.updates.sources
           flags   == request.updates.flags
           fails   == \/ \E b \in sources : request.document[b].source \in RejectedSources
                      \/ \E b \in sources \cup flags : runtime[b].source = None
<1>1. lane[1] = Head(lane) /\ lane[1] \in LaneEntry
  BY TailEntries DEF TypeOK, LaneEntry, ApplyActivation
<1>2. request.document \in Document /\ request.updates \in Updates
  BY <1>1 DEF LaneEntry
<1>3. CASE fails
  <2>1. /\ handler' = ReplyTo(handler, request.client, "error")
        /\ UNCHANGED <<runtime, active, activeRevision>>
    BY <1>1, <1>3, Zenon DEF ApplyActivation
  <2> QED
    BY <2>1 DEF Refused
<1>4. CASE ~fails
  <2>1. /\ runtime' = [b \in Blocks |->
              [source  |-> (IF b \in sources THEN request.document ELSE runtime)[b].source,
               enabled |-> (IF b \in flags THEN request.document ELSE runtime)[b].enabled]]
        /\ active' = IF request.updates = NoUpdates THEN active ELSE request.document
        /\ activeRevision' = Shown(request.document, sources \cup flags)
        /\ handler' = ReplyTo(handler, request.client, "ok")
    BY <1>1, <1>4, Zenon DEF ApplyActivation
  <2> HIDE DEF request, fails
  <2>2. \A b \in Blocks : request.document[b] \in Entry \cup {Absent}
    BY <1>2 DEF Document
  <2>3. activeRevision' \in [Blocks -> Nat]
    BY <1>2, <2>1, ShownOK
  <2> HIDE DEF sources, flags
  <2>4. \A b \in Blocks :
          /\ b \in sources => runtime'[b].source = request.document[b].source
          /\ b \notin sources => runtime'[b].source = runtime[b].source
          /\ b \in flags => runtime'[b].enabled = request.document[b].enabled
          /\ b \notin flags => runtime'[b].enabled = runtime[b].enabled
    BY <2>1
  <2>5. runtime' \in [Blocks -> [source: Sources \cup {None}, enabled: BOOLEAN]]
    <3>1. ASSUME NEW b \in Blocks
          PROVE  /\ (IF b \in sources THEN request.document ELSE runtime)[b].source \in Sources \cup {None}
                 /\ (IF b \in flags THEN request.document ELSE runtime)[b].enabled \in BOOLEAN
      <4>1. request.document[b] \in Entry \cup {Absent}
        BY <2>2
      <4>2. /\ request.document[b].source \in Sources \cup {None}
            /\ request.document[b].enabled \in BOOLEAN
        BY <4>1, EntryFields
      <4> QED
        BY <4>2 DEF TypeOK
    <3> QED
      BY <2>1, <3>1
  <2> USE DEF sources, flags, request
  <2> QED
    BY <2>1, <2>3, <2>4, <2>5, Zenon DEF Applied
<1> QED
  BY <1>3, <1>4

\* The lane, the handlers and the documents after an activation was taken.
LEMMA TakenOK ==
  ASSUME IInv, lane # <<>>, lane' = Tail(lane), NEW r \in {"ok", "error"},
         handler' = ReplyTo(handler, lane[1].client, r),
         active' = active \/ active' = lane[1].document,
         UNCHANGED <<file, seen, lives, ledger, lost, acked, restartRequired>>
  PROVE  /\ handler' \in [Clients -> Handler] /\ lane' \in Seq(LaneEntry)
         /\ Len(lane') <= ActivationQueue /\ active' \in Document
         /\ AllSaved' /\ HandlersOK' /\ LaneOK'
         /\ \A d \in Clients : Saver(d)' <=> Saver(d)
         /\ OneSaver => OneSaver'
         /\ OneSaver /\ LaneInOrder => LaneInOrder'
<1>1. TypeOK /\ LaneOK /\ lane \in Seq(LaneEntry) /\ Len(lane) <= ActivationQueue
  BY DEF IInv, TypeOK, LaneEntry
<1>2. /\ lane' \in Seq(LaneEntry) /\ Len(lane') = Len(lane) - 1 /\ Len(lane) \in Nat
      /\ 1 \in DOMAIN lane /\ lane[1] \in LaneEntry
      /\ \A i \in DOMAIN lane' : i \in Nat \ {0} /\ i + 1 \in DOMAIN lane /\ lane'[i] = lane[i + 1]
  BY <1>1, TailEntries
<1>3. /\ handler' \in [Clients -> Handler]
      /\ \A d \in Clients : d # lane[1].client => handler'[d] = handler[d]
      /\ \A d \in Clients : Idle(d)' = Idle(d)
      /\ \A d \in Clients : ~Idle(d) =>
           /\ handler'[d].pc = handler[d].pc /\ handler'[d].kind = handler[d].kind
           /\ handler'[d].document = handler[d].document
           /\ handler'[d].previous = handler[d].previous
           /\ handler'[d].updates = handler[d].updates
      /\ ~Abandoned(1) => handler'[lane[1].client].reply = r
  BY <1>1, ReplyOK
<1>4. Len(lane') <= ActivationQueue
  BY <1>1, <1>2, DocumentAssumption
<1>5. active' \in Document
  BY <1>1, <1>2 DEF TypeOK, LaneEntry
<1>6. AllSaved'
  <2>1. InLedger(active)' /\ InLedger(file)'
    BY <1>2 DEF IInv, AllSaved, InLedger
  <2>2. \A i \in DOMAIN lane' : InLedger(lane[i].document)'
    BY <1>2 DEF IInv, AllSaved, InLedger
  <2>3. \A d \in Clients : (~Idle(d))' => InLedger(handler[d].document)' /\ InLedger(handler[d].previous)'
    BY <1>3 DEF IInv, AllSaved, InLedger
  <2> QED
    BY <2>1, <2>2, <2>3 DEF AllSaved
<1>7. ASSUME NEW i \in DOMAIN lane', ~Abandoned(i)'
      PROVE  /\ i + 1 \in DOMAIN lane /\ ~Abandoned(i + 1) /\ lane[i + 1].client = lane'[i].client
             /\ lane'[i].client \in Clients /\ lane'[i].client # lane[1].client
             /\ handler'[lane'[i].client] = handler[lane'[i].client]
  <2>1. i + 1 \in DOMAIN lane /\ ~Abandoned(i + 1) /\ lane[i + 1].client = lane'[i].client /\ i # 0
    BY <1>2, <1>7 DEF Abandoned
  <2>2. lane[i + 1].client \in Clients
    BY <1>1, <2>1, LaneWaits
  <2>3. lane[i + 1].client # lane[1].client
    <3>1. i + 1 # 1
      BY <1>2, <2>1
    <3> QED
      BY <1>1, <1>2, <2>1, <3>1 DEF LaneOK, Abandoned
  <2> QED
    BY <1>3, <2>1, <2>2, <2>3
<1>8. LaneOK'
  <2>1. ASSUME NEW i \in DOMAIN lane', lane'[i].client = Nobody
        PROVE  FullUpdate(lane'[i].document, lane'[i].updates)
    <3>1. i + 1 \in DOMAIN lane /\ lane'[i] = lane[i + 1] /\ lane[i + 1].client = Nobody
      BY <1>2, <2>1
    <3>2. FullUpdate(lane[i + 1].document, lane[i + 1].updates)
      BY <1>1, <3>1, Zenon DEF LaneOK
    <3> QED
      BY <3>1, <3>2
  <2>2. ASSUME NEW i \in DOMAIN lane', lane'[i].client # Nobody
        PROVE  /\ handler'[lane'[i].client].pc = "waiting"
               /\ handler'[lane'[i].client].reply = "none"
               /\ handler'[lane'[i].client].document = lane'[i].document
               /\ handler'[lane'[i].client].updates = lane'[i].updates
    BY <1>1, <1>2, <1>7, <2>2, LaneWaits DEF Abandoned
  <2>3. ASSUME NEW i \in DOMAIN lane', NEW j \in DOMAIN lane', lane'[i].client = lane'[j].client,
               lane'[i].client # Nobody
        PROVE  i = j
    <3>1. i + 1 = j + 1
      BY <1>1, <1>2, <2>3 DEF LaneOK
    <3> QED
      BY <1>2, <3>1
  <2> QED
    BY <2>1, <2>2, <2>3, Zenon DEF LaneOK
<1>9. HandlersOK'
  <2> SUFFICES ASSUME NEW d \in Clients, ~Idle(d) PROVE HandlerOK(handler'[d])
    BY <1>3 DEF HandlersOK
  <2>1. HandlerOK(handler[d])
    BY DEF IInv, HandlersOK
  <2>2. handler'[d].pc = "saved" => handler'[d].reply = "none" /\ handler'[d].kind # "resume"
    <3>1. CASE d = lane[1].client
      <4>1. handler[d].pc = "waiting"
        BY <1>1, <1>2, <3>1, LaneWaits, DocumentAssumption DEF Abandoned
      <4> QED
        BY <1>3, <4>1
    <3>2. CASE d # lane[1].client
      BY <1>3, <2>1, <3>2 DEF HandlerOK
    <3> QED
      BY <3>1, <3>2
  <2> QED
    BY <1>3, <2>1, <2>2 DEF HandlerOK
<1>10. \A d \in Clients : Saver(d)' <=> Saver(d)
  BY <1>3 DEF Saver
<1>11. OneSaver => OneSaver'
  BY <1>3, <1>10 DEF OneSaver, Saver
<1>12. ASSUME OneSaver, LaneInOrder PROVE LaneInOrder'
  <2>1. ASSUME NEW i \in DOMAIN lane', NEW j \in DOMAIN lane', Abandoned(j)', ~Abandoned(i)',
               handler'[lane'[i].client].kind # "resume"
        PROVE  j < i
    <3>1. j + 1 \in DOMAIN lane /\ Abandoned(j + 1)
      BY <1>2, <2>1 DEF Abandoned
    <3>2. j + 1 < i + 1
      BY <1>7, <1>12, <2>1, <3>1 DEF LaneInOrder
    <3> QED
      BY <1>2, <3>2
  <2>2. ASSUME NEW d \in Clients, Saver(d)', handler'[d].reply # "none", NEW j \in DOMAIN lane'
        PROVE  ~Abandoned(j)'
    <3>1. j + 1 \in DOMAIN lane /\ (Abandoned(j)' => Abandoned(j + 1)) /\ j \in Nat \ {0}
      BY <1>2 DEF Abandoned
    <3>2. CASE d = lane[1].client
      <4>1. ~Abandoned(1) /\ handler[lane[1].client].kind # "resume"
        BY <1>10, <2>2, <3>2, DocumentAssumption DEF Abandoned, Saver
      <4>2. Abandoned(j + 1) => j + 1 < 1
        BY <1>2, <1>12, <3>1, <4>1 DEF LaneInOrder
      <4> QED
        BY <3>1, <4>2
    <3>3. CASE d # lane[1].client
      BY <1>3, <1>10, <1>12, <2>2, <3>1, <3>3 DEF LaneInOrder
    <3> QED
      BY <3>2, <3>3
  <2>3. \A j \in DOMAIN lane' : Abandoned(j)' => restartRequired'
    BY <1>2, <1>12 DEF LaneInOrder, Abandoned
  <2> QED
    BY <2>1, <2>2, <2>3 DEF LaneInOrder
<1> QED
  BY <1>2, <1>3, <1>4, <1>5, <1>6, <1>8, <1>9, <1>10, <1>11, <1>12

\* A refused batch leaves the runtime alone: a mutation will restore what still runs.
LEMMA RefusedRuns ==
  ASSUME IInv, lane # <<>>, lane' = Tail(lane), Refused, SessionRuns, OneSaver, LaneInOrder,
         UNCHANGED <<file, structure, restartRequired>>
  PROVE  SessionRuns'
<1>1. TypeOK /\ LaneOK /\ lane \in Seq(LaneEntry)
  BY DEF IInv, TypeOK, LaneEntry
<1>2. \A i \in DOMAIN lane' : i + 1 \in DOMAIN lane /\ lane'[i] = lane[i + 1]
  BY <1>1, TailEntries
<1>3. /\ \A d \in Clients : d # lane[1].client => handler'[d] = handler[d]
      /\ \A d \in Clients : Idle(d)' = Idle(d)
      /\ \A d \in Clients : ~Idle(d) =>
           /\ handler'[d].pc = handler[d].pc /\ handler'[d].kind = handler[d].kind
           /\ handler'[d].document = handler[d].document
           /\ handler'[d].previous = handler[d].previous
      /\ ~Abandoned(1) => handler'[lane[1].client].reply = "error"
  BY <1>1, ReplyOK DEF Refused
<1>4. \A d \in Clients : Saver(d)' <=> Saver(d)
  BY <1>3 DEF Saver
<1>5. /\ Runs(active)' /\ Fits(active)'
      /\ \A j \in DOMAIN lane' : Abandoned(j)' => Fits(lane[j].document)'
  BY <1>2 DEF SessionRuns, Refused, Runs, Fits, Abandoned
<1>6. (\A d \in Clients : ~Saver(d)') /\ ~restartRequired' => Runs(file)' /\ Fits(file)'
  BY <1>4 DEF SessionRuns, Refused, Runs, Fits
<1>7. ASSUME NEW d \in Clients, Saver(d)
      PROVE  /\ handler'[d].reply = "ok" => handler[d].reply = "ok"
             /\ handler[d].reply = "ok" => handler'[d].reply = "ok"
  <2>1. CASE d = lane[1].client
    <3>1. handler[d].reply = "none" /\ ~Abandoned(1)
      BY <1>1, <2>1, LaneWaits, TailEntries, DocumentAssumption DEF Abandoned
    <3> QED
      BY <1>3, <2>1, <3>1
  <2>2. CASE d # lane[1].client
    BY <1>3, <2>2
  <2> QED
    BY <2>1, <2>2
<1>8. ASSUME NEW d \in Clients, Saver(d)', handler'[d].kind = "put", handler'[d].pc = "waiting"
      PROVE  Fits(handler[d].document)' /\ (handler'[d].reply = "ok" => Runs(handler[d].document)')
  <2>1. Saver(d) /\ ~Idle(d) /\ handler[d].kind = "put" /\ handler[d].pc = "waiting"
    BY <1>3, <1>4, <1>8 DEF Saver
  <2>2. Fits(handler[d].document) /\ (handler[d].reply = "ok" => Runs(handler[d].document))
    BY <2>1 DEF SessionRuns
  <2> QED
    BY <1>3, <1>7, <2>1, <2>2 DEF Refused, Runs, Fits
<1>9. ASSUME NEW d \in Clients, Saver(d)', handler'[d].kind = "mutation"
      PROVE  /\ ~restartRequired' /\ Fits(handler[d].previous)'
             /\ Runs(IF handler[d].reply = "ok" THEN handler[d].document ELSE handler[d].previous)'
  <2>1. Saver(d) /\ ~Idle(d) /\ handler[d].kind = "mutation"
    BY <1>3, <1>4, <1>9 DEF Saver
  <2>2. /\ ~restartRequired /\ Fits(handler[d].previous)
        /\ handler[d].reply = "ok" => Runs(handler[d].document)
        /\ handler[d].reply # "ok" => Runs(handler[d].previous)
    BY <2>1 DEF SessionRuns
  <2> QED
    BY <1>3, <1>7, <2>1, <2>2 DEF Refused, Runs, Fits
<1> QED
  BY <1>5, <1>6, <1>8, <1>9 DEF SessionRuns

\* Where a document that fits has no block, nothing runs.
LEMMA EmptySlot ==
  ASSUME TypeOK, Runs(active), Fits(active), NEW document \in Document, Fits(document),
         NEW b \in Blocks, b \notin BlocksOf(document)
  PROVE  runtime[b].source = document[b].source /\ runtime[b].enabled = document[b].enabled
<1>1. document[b] = Absent /\ active[b] \in Entry \cup {Absent}
  BY DEF BlocksOf, TypeOK, Document
<1>2. active[b].shape = None
  BY <1>1 DEF Fits, Absent
<1>3. active[b] = Absent
  BY <1>1, <1>2, DocumentAssumption DEF Entry
<1> QED
  BY <1>1, <1>3 DEF Runs

\* An applied batch: the runtime runs the document of the handler that waits for it.
LEMMA AppliedRuns ==
  ASSUME IInv, lane # <<>>, lane' = Tail(lane), Applied, SessionRuns, OneSaver, LaneInOrder,
         UNCHANGED <<file, structure, restartRequired>>
  PROVE  SessionRuns'
<1>1. TypeOK /\ LaneOK /\ lane \in Seq(LaneEntry)
  BY DEF IInv, TypeOK, LaneEntry
<1>2. 1 \in DOMAIN lane /\ \A i \in DOMAIN lane' : i + 1 \in DOMAIN lane /\ lane'[i] = lane[i + 1]
  BY <1>1, TailEntries
<1>3. /\ \A d \in Clients : d # lane[1].client => handler'[d] = handler[d]
      /\ \A d \in Clients : Idle(d)' = Idle(d)
      /\ \A d \in Clients : ~Idle(d) =>
           /\ handler'[d].pc = handler[d].pc /\ handler'[d].kind = handler[d].kind
           /\ handler'[d].document = handler[d].document
           /\ handler'[d].previous = handler[d].previous
      /\ ~Abandoned(1) => handler'[lane[1].client].reply = "ok"
  BY <1>1, ReplyOK DEF Applied
<1>4. \A d \in Clients : Saver(d)' <=> Saver(d)
  BY <1>3 DEF Saver
<1>5. \A j \in DOMAIN lane' : Abandoned(j)' => Fits(lane[j].document)'
  BY <1>2 DEF SessionRuns, Fits, Abandoned
<1>6. ASSUME ~Abandoned(1)
      PROVE  /\ lane[1].client \in Clients /\ ~Idle(lane[1].client)
             /\ handler[lane[1].client].reply = "none"
             /\ handler[lane[1].client].document = lane[1].document
             /\ handler[lane[1].client].updates = lane[1].updates
             /\ HandlerOK(handler[lane[1].client])
  BY <1>1, <1>2, <1>6, LaneWaits DEF IInv, HandlersOK
<1>7. ASSUME ~Abandoned(1), ~Saver(lane[1].client)
      PROVE  /\ \A b \in Blocks : /\ runtime'[b].source = runtime[b].source
                                  /\ runtime'[b].enabled = runtime[b].enabled
             /\ active' = active
  <2>1. lane[1].updates = NoUpdates
    BY <1>6, <1>7 DEF Saver, HandlerOK
  <2> QED
    BY <2>1 DEF Applied, NoUpdates
<1>8. ASSUME FullUpdate(lane[1].document, lane[1].updates), Fits(lane[1].document)
      PROVE  /\ Runs(active)' /\ Fits(active)'
             /\ \A b \in Blocks : /\ runtime'[b].source = lane[1].document[b].source
                                  /\ runtime'[b].enabled = lane[1].document[b].enabled
  <2>1. lane[1].document \in Document
    <3>1. lane[1] \in LaneEntry
      BY <1>1, TailEntries
    <3> QED
      BY <3>1 DEF LaneEntry
  <2>2. ASSUME NEW b \in Blocks
        PROVE  /\ runtime'[b].source = lane[1].document[b].source
               /\ runtime'[b].enabled = lane[1].document[b].enabled
    <3>1. CASE b \in BlocksOf(lane[1].document)
      BY <1>8, <3>1 DEF Applied, FullUpdate, AllUpdates
    <3>2. CASE b \notin BlocksOf(lane[1].document)
      <4>1. /\ runtime'[b].source = runtime[b].source
            /\ runtime'[b].enabled = runtime[b].enabled
        BY <1>8, <3>2 DEF Applied, FullUpdate, AllUpdates
      <4> QED
        BY <1>1, <1>8, <2>1, <3>2, <4>1, EmptySlot DEF SessionRuns
    <3> QED
      BY <3>1, <3>2
  <2>3. active' = lane[1].document
    BY <1>8 DEF Applied, FullUpdate
  <2> QED
    BY <1>8, <2>2, <2>3 DEF Runs, Fits
<1>9. ASSUME ~Abandoned(1), Saver(lane[1].client), handler[lane[1].client].kind # "put"
      PROVE  /\ active' = lane[1].document /\ Fits(lane[1].document)
             /\ \A b \in Blocks : /\ runtime'[b].source = lane[1].document[b].source
                                  /\ runtime'[b].enabled = lane[1].document[b].enabled
  <2> DEFINE h == handler[lane[1].client]
  <2>1. h.kind = "mutation"
    <3>1. h \in Busy
      BY <1>1, <1>6, <1>9, HandlerCases
    <3> HIDE DEF h
    <3>2. h.kind \in {"put", "mutation", "resume"}
      BY <3>1 DEF Busy
    <3> QED
      BY <1>9, <3>2 DEF Saver, h
  <2>2. h.updates # NoUpdates /\ UpdatesCover(h.document, h.previous, h.updates)
    BY <1>6, <1>9, <2>1 DEF HandlerOK
  <2>3. Runs(h.previous) /\ Fits(h.previous)
    BY <1>6, <1>9, <2>1 DEF SessionRuns
  <2>4. h.document = lane[1].document /\ h.updates = lane[1].updates
    BY <1>6, <1>9
  <2> HIDE DEF h
  <2> QED
    BY <2>2, <2>3, <2>4 DEF Applied, UpdatesCover, Runs, Fits
<1>10. Abandoned(1) => /\ FullUpdate(lane[1].document, lane[1].updates)
                       /\ Fits(lane[1].document)
  BY <1>1, <1>2, Zenon DEF LaneOK, Abandoned, SessionRuns
<1>11. ASSUME ~Abandoned(1), Saver(lane[1].client), handler[lane[1].client].kind = "put"
       PROVE  FullUpdate(lane[1].document, lane[1].updates) /\ Fits(lane[1].document)
  <2>1. handler[lane[1].client].pc = "waiting"
    BY <1>1, <1>2, <1>11, LaneWaits
  <2> QED
    BY <1>6, <1>11, <2>1 DEF HandlerOK, SessionRuns
<1>12. Runs(active)' /\ Fits(active)'
  <2>1. CASE ~Abandoned(1) /\ ~Saver(lane[1].client)
    BY <1>7, <2>1 DEF SessionRuns, Runs, Fits
  <2>2. CASE ~Abandoned(1) /\ Saver(lane[1].client) /\ handler[lane[1].client].kind # "put"
    BY <1>9, <2>2 DEF Runs, Fits
  <2> QED
    BY <1>8, <1>10, <1>11, <2>1, <2>2
<1>13. ASSUME \A d \in Clients : ~Saver(d)', ~restartRequired' PROVE Runs(file)' /\ Fits(file)'
  <2>1. ~Abandoned(1) /\ ~Saver(lane[1].client)
    BY <1>2, <1>4, <1>6, <1>13 DEF LaneInOrder
  <2> QED
    BY <1>4, <1>7, <1>13, <2>1 DEF SessionRuns, Runs, Fits
<1>14. ASSUME NEW d \in Clients, Saver(d), d # lane[1].client, ~Abandoned(1)
       PROVE  \A b \in Blocks : /\ runtime'[b].source = runtime[b].source
                                /\ runtime'[b].enabled = runtime[b].enabled
  <2>1. ~Saver(lane[1].client)
    BY <1>6, <1>14 DEF OneSaver
  <2> QED
    BY <1>7, <1>14, <2>1
<1>15. ASSUME NEW d \in Clients, Saver(d)', handler'[d].kind = "put", handler'[d].pc = "waiting"
       PROVE  Fits(handler[d].document)' /\ (handler'[d].reply = "ok" => Runs(handler[d].document)')
  <2>1. /\ Saver(d) /\ ~Idle(d) /\ handler[d].kind = "put" /\ handler[d].pc = "waiting"
        /\ handler'[d].document = handler[d].document
    BY <1>3, <1>4, <1>15 DEF Saver
  <2>2. Fits(handler[d].document)'
    BY <2>1 DEF SessionRuns, Fits
  <2>3. CASE d = lane[1].client
    <3>1. ~Abandoned(1)
      BY <2>3, DocumentAssumption DEF Abandoned
    <3> QED
      BY <1>6, <1>8, <1>11, <2>1, <2>2, <2>3, <3>1 DEF Runs
  <2>4. CASE d # lane[1].client
    <3> SUFFICES ASSUME handler'[d].reply = "ok" PROVE Runs(handler[d].document)'
      BY <2>2
    <3>1. handler[d].reply = "ok"
      BY <1>3, <2>4
    <3>2. ~Abandoned(1) /\ Runs(handler[d].document)
      BY <1>2, <2>1, <3>1 DEF LaneInOrder, SessionRuns
    <3> QED
      BY <1>14, <2>1, <2>4, <3>2 DEF Runs
  <2> QED
    BY <2>3, <2>4
<1>16. ASSUME NEW d \in Clients, Saver(d)', handler'[d].kind = "mutation"
       PROVE  /\ ~restartRequired' /\ Fits(handler[d].previous)'
              /\ Runs(IF handler[d].reply = "ok" THEN handler[d].document ELSE handler[d].previous)'
  <2>1. /\ Saver(d) /\ ~Idle(d) /\ handler[d].kind = "mutation"
        /\ handler'[d].document = handler[d].document
        /\ handler'[d].previous = handler[d].previous
    BY <1>3, <1>4, <1>16 DEF Saver
  <2>2. ~restartRequired' /\ Fits(handler[d].previous)' /\ ~Abandoned(1)
    BY <1>2, <2>1 DEF SessionRuns, Fits, LaneInOrder
  <2>3. CASE d = lane[1].client
    <3>1. handler'[d].reply = "ok" /\ handler[d].document = lane[1].document
      BY <1>3, <1>6, <2>2, <2>3
    <3>2. Runs(handler[d].document)'
      BY <1>9, <2>1, <2>2, <2>3, <3>1 DEF Runs
    <3> QED
      BY <2>2, <3>1, <3>2
  <2>4. CASE d # lane[1].client
    <3>1. /\ handler'[d].reply = handler[d].reply
          /\ handler[d].reply = "ok" => Runs(handler[d].document)
          /\ handler[d].reply # "ok" => Runs(handler[d].previous)
      BY <1>3, <2>1, <2>4 DEF SessionRuns
    <3> QED
      BY <1>14, <2>1, <2>2, <2>4, <3>1 DEF Runs
  <2> QED
    BY <2>3, <2>4
<1> QED
  BY <1>5, <1>12, <1>13, <1>15, <1>16 DEF SessionRuns

\* The session takes the oldest activation and replies to its handler, if it still waits.
LEMMA ApplyActivationIInv == ASSUME IInv, ApplyActivation PROVE IInv'
<1>1. /\ lane # <<>> /\ lane' = Tail(lane)
      /\ UNCHANGED <<file, structure, open, fatal, restartRequired, seen, saves, restarts,
                     lives, ledger, lost, acked, overlapped, rolledBack, mislabelled>>
  BY DEF ApplyActivation, history
<1>2. Refused \/ Applied
  BY ActivationOutcome DEF IInv
<1>3. PICK r \in {"ok", "error"} : handler' = ReplyTo(handler, lane[1].client, r)
  BY <1>2 DEF Refused, Applied
<1>4. active' = active \/ active' = lane[1].document
  BY <1>2 DEF Refused, Applied
<1>5. /\ handler' \in [Clients -> Handler] /\ lane' \in Seq(LaneEntry)
      /\ Len(lane') <= ActivationQueue /\ active' \in Document
      /\ AllSaved' /\ HandlersOK' /\ LaneOK'
      /\ OneSaver => OneSaver'
      /\ OneSaver /\ LaneInOrder => LaneInOrder'
  BY <1>1, <1>3, <1>4, TakenOK
<1>6. TypeOK'
  <2>1. /\ runtime' \in [Blocks -> [source: Sources \cup {None}, enabled: BOOLEAN]]
        /\ activeRevision' \in [Blocks -> Nat]
    BY <1>2 DEF Refused, Applied, IInv, TypeOK
  <2> QED
    BY <1>1, <1>5, <2>1 DEF IInv, TypeOK, LaneEntry
<1>7. FileIsNewest' /\ RevisionNamesOneLogic' /\ SimulationRunsNamedRevision'
  BY <1>1 DEF IInv, FileIsNewest, Newest, RevisionNamesOneLogic, SimulationRunsNamedRevision
<1>8. OneSaver /\ LaneInOrder /\ SessionRuns => SessionRuns'
  BY <1>1, <1>2, RefusedRuns, AppliedRuns
<1> QED
  BY <1>1, <1>5, <1>6, <1>7, <1>8 DEF IInv

-----------------------------------------------------------------------------
(* The end of the session and a restart *)

\* An empty lane is a lane.
LEMMA EmptyLane ==
  /\ <<>> \in Seq([client: Clients \cup {Nobody}, document: Document, updates: Updates])
  /\ Len(<<>>) <= ActivationQueue
BY DocumentAssumption

\* The end of a session answers every queued request with an error.
LEMMA SessionEndsIInv ==
  ASSUME IInv, SessionEnds PROVE IInv' /\ \A c \in Clients : Idle(c)' <=> Idle(c)
<1>1. /\ open' = FALSE /\ lane' = <<>>
      /\ handler' = [c \in Clients |->
             IF \E i \in DOMAIN lane : lane[i].client = c
             THEN [handler[c] EXCEPT !.reply = "error"] ELSE handler[c]]
      /\ UNCHANGED <<file, runtime, structure, fatal, active, activeRevision, restartRequired,
                     seen, saves, restarts, lives, ledger, lost, acked, overlapped, rolledBack, mislabelled>>
  BY DEF SessionEnds, store, history
<1>2. TypeOK /\ LaneOK
  BY DEF IInv
<1>3. ASSUME NEW c \in Clients, NEW i \in DOMAIN lane, lane[i].client = c
      PROVE  /\ handler'[c] \in Busy /\ handler'[c].pc = "waiting" /\ handler[c].pc = "waiting"
             /\ handler'[c].kind = handler[c].kind /\ handler'[c].document = handler[c].document
             /\ handler'[c].previous = handler[c].previous
             /\ handler'[c].updates = handler[c].updates
  <2> DEFINE h == handler[c]
  <2>1. h \in Busy /\ h.pc = "waiting"
    BY <1>2, <1>3, LaneWaits, HandlerCases, DocumentAssumption DEF Abandoned
  <2>2. handler'[c] = [h EXCEPT !.reply = "error"]
    BY <1>1, <1>3
  <2> HIDE DEF h
  <2>3. /\ handler'[c] \in Busy /\ handler'[c].pc = "waiting" /\ handler'[c].kind = h.kind
        /\ handler'[c].document = h.document /\ handler'[c].previous = h.previous
        /\ handler'[c].updates = h.updates
    BY <2>1, <2>2 DEF Busy
  <2> QED
    BY <2>1, <2>3 DEF h
<1>4. ASSUME NEW c \in Clients, ~\E i \in DOMAIN lane : lane[i].client = c
      PROVE  handler'[c] = handler[c]
  BY <1>1, <1>4
<1>5. \A c \in Clients : Idle(c)' <=> Idle(c)
  BY <1>3, <1>4 DEF Idle
<1>6. \A c \in Clients : ~Idle(c) =>
        /\ handler'[c].kind = handler[c].kind /\ handler'[c].document = handler[c].document
        /\ handler'[c].previous = handler[c].previous
        /\ HandlerOK(handler[c]) => HandlerOK(handler'[c])
  BY <1>3, <1>4 DEF HandlerOK
<1>7. handler' \in [Clients -> Handler]
  <2>1. \A c \in Clients : handler'[c] \in Handler
    BY <1>2, <1>3, <1>4 DEF Handler, Busy, TypeOK
  <2> QED
    BY <1>1, <2>1
<1>8. TypeOK'
  BY <1>1, <1>2, <1>7, EmptyLane DEF TypeOK
<1>9. AllSaved' /\ HandlersOK' /\ LaneOK'
  <2>1. AllSaved'
    BY <1>1, <1>5, <1>6 DEF IInv, AllSaved, InLedger
  <2>2. HandlersOK'
    BY <1>1, <1>5, <1>6 DEF IInv, HandlersOK
  <2>3. LaneOK'
    BY <1>1 DEF LaneOK
  <2> QED
    BY <2>1, <2>2, <2>3
<1>10. FileIsNewest' /\ RevisionNamesOneLogic' /\ SimulationRunsNamedRevision'
  BY <1>1 DEF IInv, FileIsNewest, Newest, RevisionNamesOneLogic, SimulationRunsNamedRevision
<1>11. OneSaver => OneSaver'
  BY <1>1, <1>5, <1>6 DEF OneSaver, Saver
<1> QED
  BY <1>1, <1>5, <1>8, <1>9, <1>10, <1>11 DEF IInv

\* A restart runs the file, with no request open.
LEMMA RestartIInv == ASSUME IInv, Restart PROVE IInv'
<1>1. /\ restarts < MaxRestarts /\ restarts' = restarts + 1
      /\ runtime' = Running(file) /\ structure' = structural_revision(file)
      /\ active' = file /\ activeRevision' = [b \in Blocks |-> file[b].revision]
      /\ restartRequired' = FALSE /\ lane' = <<>> /\ open' = TRUE /\ fatal' = FALSE
      /\ handler' = [c \in Clients |-> IdleHandler]
      /\ UNCHANGED <<file, seen, saves, lives, ledger, lost, acked, overlapped, rolledBack, mislabelled>>
  BY DEF Restart, history
<1>2. TypeOK /\ \A b \in Blocks : file[b] \in Entry \cup {Absent}
  BY DEF IInv, TypeOK, Document
<1>3. \A c \in Clients : Idle(c)' /\ ~Saver(c)'
  BY <1>1 DEF Idle, IdleHandler, Saver
<1>4. TypeOK'
  <2>1. handler' \in [Clients -> Handler]
    BY <1>1 DEF Handler
  <2>2. /\ runtime' \in [Blocks -> [source: Sources \cup {None}, enabled: BOOLEAN]]
        /\ structure' \in [Blocks -> Shapes \cup {None}] /\ activeRevision' \in [Blocks -> Nat]
    BY <1>1, <1>2, EntryFields DEF Running, structural_revision
  <2>3. restarts' \in 0 .. MaxRestarts
    BY <1>1, <1>2, DocumentAssumption DEF TypeOK
  <2> QED
    BY <1>1, <1>2, <2>1, <2>2, <2>3, EmptyLane DEF TypeOK
<1>5. AllSaved' /\ HandlersOK' /\ LaneOK' /\ LaneInOrder'
  BY <1>1, <1>3 DEF IInv, AllSaved, InLedger, HandlersOK, LaneOK, LaneInOrder
<1>6. FileIsNewest' /\ RevisionNamesOneLogic' /\ SimulationRunsNamedRevision'
  BY <1>1 DEF IInv, FileIsNewest, Newest, RevisionNamesOneLogic, SimulationRunsNamedRevision
<1>7. OneSaver => OneSaver'
  BY <1>1, <1>3 DEF OneSaver
<1>8. SessionRuns'
  BY <1>1, <1>3 DEF SessionRuns, Runs, Fits, Running, structural_revision
<1> QED
  BY <1>1, <1>4, <1>5, <1>6, <1>7, <1>8 DEF IInv

-----------------------------------------------------------------------------
(* The theorems *)

\* Every step of the system preserves the invariant.
LEMMA NextIInv == IInv /\ [Next]_vars => IInv'
<1> SUFFICES ASSUME IInv, [Next]_vars PROVE IInv'
  OBVIOUS
<1>1. CASE \E c \in Clients : GetAutomation(c) \/ PutAutomation(c) \/ PrepareMutation(c)
  BY <1>1, GetAutomationIInv, PutAutomationIInv, PrepareMutationIInv
<1>2. CASE \E c \in Clients : ResumeBlock(c) \/ ResumeOverloaded(c)
  BY <1>2, ResumeBlockIInv, ResumeOverloadedIInv
<1>3. CASE \E c \in Clients : HandlerStep(c)
  BY <1>3, PutSendsIInv, PutWithoutActivationIInv, PutOverloadedIInv, PutAnsweredIInv,
     MutationSendsIInv, MutationNotSentIInv, MutationActivatedIInv, MutationFailedIInv,
     ResumeAnsweredIInv DEF HandlerStep
<1>4. CASE ApplyActivation
  BY <1>4, ApplyActivationIInv
<1>5. CASE \E b \in Blocks : RecordExecution(b)
  BY <1>5, RecordExecutionIInv
<1>6. CASE \E b \in Blocks, expected \in 1..(MaxSaves + 1) : ApplySimulation(b, expected)
  BY <1>6, ApplySimulationIInv
<1>7. CASE SessionEnds
  BY <1>7, SessionEndsIInv
<1>8. CASE Restart
  BY <1>8, RestartIInv
<1>9. CASE UNCHANGED vars
  BY <1>9 DEF vars, store, history, IInv, TypeOK, AllSaved, InLedger, FileIsNewest, Newest,
     RevisionNamesOneLogic, HandlersOK, LaneOK, OneSaver, LaneInOrder, SessionRuns,
     SimulationRunsNamedRevision, Idle, Saver, Abandoned, Runs, Fits
<1> QED
  BY <1>1, <1>2, <1>3, <1>4, <1>5, <1>6, <1>7, <1>8, <1>9 DEF Next

\* The inductive invariant holds of every reachable state of the save and activation
\* protocol.
THEOREM Invariance == Spec => []IInv
BY InitIInv, NextIInv, PTL DEF Spec

\* Every state is well typed: the lane never holds more than its capacity, a handler that
\* waits has the document it saved and the one it would restore.
THEOREM TypeCorrect == Spec => []TypeOK
<1>1. IInv => TypeOK
  BY DEF IInv
<1> QED
  BY <1>1, Invariance, PTL

\* merge_block_revisions and prepare_mutation give every saved logic of a block a revision
\* of its own between its addition and its removal, however the handlers interleave, until
\* restore_document puts a file back.
THEOREM RevisionNamesOneLogicTheorem == Spec => []RevisionNamesOneLogic
<1>1. IInv => RevisionNamesOneLogic
  BY DEF IInv
<1> QED
  BY <1>1, Invariance, PTL

\* When put_automation and the block routes have left the session alone and no restart is
\* asked for, the session runs exactly the saved document.
THEOREM NoRestartMeansRunningTheorem == Spec => []NoRestartMeansRunning
<1>1. ASSUME IInv, ~overlapped, Settled, ~restartRequired
      PROVE  runtime = Running(file) /\ structure = structural_revision(file)
  <2>1. TypeOK /\ SessionRuns
    BY <1>1 DEF IInv, Settled
  <2>2. Runs(file) /\ Fits(file)
    BY <1>1, <2>1 DEF SessionRuns, Settled, Saver
  <2>3. structure = structural_revision(file)
    BY <2>1, <2>2 DEF Fits, structural_revision, TypeOK
  <2>4. runtime = Running(file)
    <3>1. \A b \in Blocks :
            runtime[b] = [source |-> file[b].source, enabled |-> file[b].enabled]
      BY <2>1, <2>2 DEF TypeOK, Runs
    <3> QED
      BY <2>1, <3>1 DEF TypeOK, Running
  <2> QED
    BY <2>3, <2>4
<1>2. IInv => NoRestartMeansRunning
  BY <1>1 DEF NoRestartMeansRunning
<1> QED
  BY <1>2, Invariance, PTL

\* A revision answered with 200 is never lost from the file by a failed activation, a
\* restored document, the end of a session or a restart, unless saves overlap.
THEOREM AcknowledgedSaveStaysTheorem == Spec => []AcknowledgedSaveStays
<1>1. IInv => AcknowledgedSaveStays
  BY DEF IInv, OneSaver, AcknowledgedSaveStays
<1> QED
  BY <1>1, Invariance, PTL

\* apply_simulation answers with the revision whose source it ran.
THEOREM SimulationRunsNamedRevisionTheorem == Spec => []SimulationRunsNamedRevision
<1>1. IInv => SimulationRunsNamedRevision
  BY DEF IInv
<1> QED
  BY <1>1, Invariance, PTL

\* Only a save of its own takes the request of an idle client to the activation.
LEMMA OnlySaves ==
  ASSUME IInv, [Next]_vars, NEW c \in Clients, Idle(c), handler'[c].pc = "saved"
  PROVE  PutAutomation(c) \/ PrepareMutation(c)
<1>0. handler[c].pc = "idle" /\ TypeOK /\ LaneOK /\ DOMAIN handler = Clients
  BY DEF Idle, IInv, TypeOK
<1>1. handler' # handler
  BY <1>0
<1>2. ASSUME NEW d \in Clients, NEW h, handler' = [handler EXCEPT ![d] = h]
      PROVE  d = c /\ h.pc = "saved"
  BY <1>0, <1>2
<1>3. CASE \E d \in Clients : GetAutomation(d) \/ PutAutomation(d) \/ PrepareMutation(d)
  <2>1. PICK d \in Clients : GetAutomation(d) \/ PutAutomation(d) \/ PrepareMutation(d)
    BY <1>3
  <2>2. ~GetAutomation(d)
    BY <1>1 DEF GetAutomation
  <2>3. (\E k, x, u : Save(d, k, x, u)) => d = c
    <3> SUFFICES ASSUME NEW k, NEW x, NEW u, Save(d, k, x, u) PROVE d = c
      OBVIOUS
    <3>1. handler' = [handler EXCEPT ![d] =
              [pc |-> "saved", kind |-> k, document |-> x, previous |-> file, updates |-> u,
               reply |-> "none"]]
      BY DEF Save
    <3> QED
      BY <1>2, <3>1, Zenon
  <2>4. PutAutomation(d) \/ PrepareMutation(d) => \E k, x, u : Save(d, k, x, u)
    BY Zenon DEF PutAutomation, PrepareMutation
  <2> QED
    BY <2>1, <2>2, <2>3, <2>4
<1>4. ~\E d \in Clients : ResumeBlock(d) \/ ResumeOverloaded(d)
  <2> SUFFICES ASSUME NEW d \in Clients, ResumeBlock(d) \/ ResumeOverloaded(d) PROVE FALSE
    OBVIOUS
  <2>1. ResumeBlock(d)
    BY <1>1 DEF ResumeOverloaded
  <2> DEFINE h == [pc |-> "waiting", kind |-> "resume", document |-> active,
                   previous |-> file, updates |-> NoUpdates, reply |-> "none"]
  <2>2. handler' = [handler EXCEPT ![d] = h] /\ h.pc = "waiting"
    BY <2>1 DEF ResumeBlock
  <2> HIDE DEF h
  <2> QED
    BY <1>2, <2>2
<1>5. ~\E d \in Clients : HandlerStep(d)
  <2> SUFFICES ASSUME NEW d \in Clients, HandlerStep(d) PROVE FALSE
    OBVIOUS
  <2>1. ~Idle(d)
    BY DEF HandlerStep, PutSends, PutWithoutActivation, PutOverloaded, PutAnswered, MutationSends,
       MutationNotSent, MutationActivated, MutationFailed, ResumeAnswered, Send, Idle
  <2>2. d # c
    BY <2>1
  <2>3. Answer(d) \/ handler' = [handler EXCEPT ![d].pc = "waiting"]
    BY DEF HandlerStep, PutSends, PutWithoutActivation, PutOverloaded, PutAnswered, MutationSends,
       MutationNotSent, MutationActivated, MutationFailed, ResumeAnswered, Send, Restore
  <2>4. handler'[c] = handler[c]
    BY <1>0, <2>2, <2>3 DEF Answer
  <2> QED
    BY <1>0, <2>4
<1>6. ~ApplyActivation
  <2> SUFFICES ASSUME ApplyActivation PROVE FALSE
    OBVIOUS
  <2>1. PICK r \in {"ok", "error"} : handler' = ReplyTo(handler, lane[1].client, r)
    BY <1>0, ActivationOutcome DEF Refused, Applied
  <2>2. Idle(c)' = Idle(c)
    BY <1>0, <2>1, ReplyOK DEF ApplyActivation
  <2> QED
    BY <2>2 DEF Idle
<1>7. ~SessionEnds
  BY SessionEndsIInv DEF Idle
<1>8. ~Restart
  BY DEF Restart, IdleHandler
<1>9. ~(\E b \in Blocks : RecordExecution(b)) /\ ~UNCHANGED vars
  BY <1>1 DEF RecordExecution, vars
<1>10. ~\E b \in Blocks, expected \in 1..(MaxSaves + 1) : ApplySimulation(b, expected)
  BY <1>1 DEF ApplySimulation
<1> QED
  BY <1>3, <1>4, <1>5, <1>6, <1>7, <1>8, <1>9, <1>10 DEF Next

\* The compare-and-set of PUT /api/automation and of the block routes: a save overwrites,
\* of the blocks its client knows and nobody removed since, only logic the client has seen,
\* for any number of clients, until a file is restored.
THEOREM NoUnseenOverwriteTheorem == Spec => NoUnseenOverwrite
<1>1. IInv /\ [Next]_vars =>
        [\A c \in Clients :
           (Idle(c) /\ handler'[c].pc = "saved" /\ ~rolledBack) =>
              \A b \in (BlocksOf(seen[c]) \ lost[c]) \cap BlocksOf(file') :
                  LogicOf(file'[b]) # LogicOf(file[b])
                      => LogicOf(file[b]) = LogicOf(seen[c][b])]_vars
  <2> SUFFICES ASSUME IInv, [Next]_vars, NEW c \in Clients, Idle(c), handler'[c].pc = "saved",
                      ~rolledBack
               PROVE  \A b \in (BlocksOf(seen[c]) \ lost[c]) \cap BlocksOf(file') :
                        LogicOf(file'[b]) # LogicOf(file[b])
                            => LogicOf(file[b]) = LogicOf(seen[c][b])
    OBVIOUS
  <2>1. PutAutomation(c) \/ PrepareMutation(c)
    BY OnlySaves
  <2>2. Seen(c, file')
    BY <2>1, PutAutomationIInv, PrepareMutationIInv
  <2> QED
    BY <2>2 DEF Seen
<1> QED
  BY <1>1, Invariance, PTL DEF Spec, NoUnseenOverwrite
====
