----------------------------- MODULE MCRuntimeApi -----------------------------
(***************************************************************************)
(* One block whose handlers look at all they are shown, and two clients    *)
(* whose edits of it race.  The block is stored with revision 0.           *)
(***************************************************************************)
EXTENDS RuntimeApi, TLC

Switch == "switch"
Dimmer == "dimmer"
MCDpt  == [i \in Inputs |-> IF i = Switch THEN {"off", "on"} ELSE {"dim"}]

Result(patch, timers) == [patch |-> patch, timers |-> timers, outputs |-> "lamp"]
Set(k, v)  == [NoState EXCEPT ![k] = v]
Quiet      == [n \in Timers |-> Never]
For(n, ms) == [Quiet EXCEPT ![n] = ms]

\* "follow" arms a timer for a random delay when an input rises, cancels it when one falls,
\* and looks at the ages of its inputs when a timer fires.
MCDraws == {1, 2}
Follow(event, draw) ==
    CASE event.trigger.type = "timer" ->
            Result(Set("mode", IF \E i \in Inputs : event.inputs[i].age > 1 THEN "old" ELSE "new"),
                   Quiet)
      [] event.trigger.type = "input" /\ event.trigger.rising ->
            Result(Set("mode", "up"), For("delay", draw))
      [] event.trigger.type = "input" /\ event.trigger.falling ->
            Result(NoState, For("delay", Cancel))
      [] OTHER -> Result(Set("mode", "same"), Quiet)

\* "strict" fails unless every input is valid, and asks for more state and more timers
\* than its block may have.
Strict(event) ==
    CASE \E i \in Inputs : ~event.inputs[i].valid -> [error |-> "raised"]
      [] event.trigger.type = "timer" -> Result(Set("extra", "new"), Quiet)
      [] event.trigger.type = "input" /\ event.trigger.value = "on" ->
            Result(NoState, [n \in Timers |-> 1])
      [] OTHER -> Result(NoState, For("other", 2))

MCHandler(source, event, draw) ==
    IF source = "follow" THEN Follow(event, draw) ELSE Strict(event)

\* Nothing tells the clients apart.
ClientSymmetry == Permutations(Clients)

MCFirst  == [b \in Blocks |-> "follow"]
MCStored == [b \in Blocks |-> 0]
=============================================================================
