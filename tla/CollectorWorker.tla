--------------------------- MODULE CollectorWorker ---------------------------
(***************************************************************************)
(* The collector worker, its two bounded channels and the tasks around it  *)
(* (zimascoped/src/collector/mod.rs, main.rs, api/mod.rs): main starts the *)
(* worker, hands the command channel to the API, sends two commands of its *)
(* own and only then drains the batches; handlers send commands and wait;  *)
(* the worker polls and sends a batch after every command and every tick.  *)
(* What a command does to the maps is in PolicyApply and PolicyControl.    *)
(***************************************************************************)
EXTENDS Naturals, Sequences

CONSTANTS
  Client,          \* connections with a request in progress, and main
  Main,            \* the main task
  None,            \* the sender of a command whose handler is gone
  QueueCapacity,   \* POLICY_CHANNEL_CAPACITY (4)
  BatchCapacity,   \* BATCH_CHANNEL_CAPACITY (4)
  SeqBound,        \* bound: batch sequence numbers (2^64) before they wrap
  MaxRequests,     \* bound: requests over a behaviour
  MaxStartupTicks, \* bound: timer ticks (one at once, then one a second) while main starts
  MaxHangups       \* bound: connections closed with a request in progress

ASSUME WorkerAssumption ==
  /\ Main \in Client /\ None \notin Client
  /\ QueueCapacity \in Nat \ {0} /\ BatchCapacity \in Nat \ {0}
  /\ SeqBound \in Nat /\ SeqBound > BatchCapacity + 1
  /\ MaxRequests \in Nat /\ MaxHangups \in Nat
  /\ MaxStartupTicks \in Nat \ {0}

VARIABLES
  main,       \* where the main task stands
  worker,     \* "off", "select", "poll", "sending" or "detached"
  hooks,      \* the eBPF programs are attached
  cancelled,  \* the shutdown token
  pc,         \* each client's request: "idle", "send" or "await"
  left,       \* commands each client has yet to see answered
  commands,   \* the command channel: the senders
  batches,    \* the batch channel: sequence numbers
  sequence,   \* CollectorCore::sequence: the last batch polled
  ingested,   \* the last batch main took
  requests, hangups, ticks   \* counters for the bounds

mainVars == <<main, cancelled, ingested>>
clientVars == <<pc, left, commands>>
workerVars == <<worker, hooks, batches, sequence>>
counters == <<requests, hangups, ticks>>
vars == <<mainVars, clientVars, workerVars, counters>>

Init ==
  /\ main = "opening"
  /\ worker = "off"
  /\ hooks = FALSE
  /\ cancelled = FALSE
  /\ pc = [c \in Client |-> "idle"]
  /\ left = [c \in Client |-> 0]
  /\ commands = <<>>
  /\ batches = <<>>
  /\ sequence = 0
  /\ ingested = 0
  /\ requests = 0 /\ hangups = 0 /\ ticks = 0

After(n) == (n + 1) % SeqBound

-----------------------------------------------------------------------------
\* main.  Opening the eBPF objects may fail: the API then stays up without a
\* collector until the signal.
Open ==
  /\ main = "opening"
  /\ main' = "opened"
  /\ worker' = "select"
  /\ hooks' = TRUE
  /\ UNCHANGED <<cancelled, ingested, clientVars, batches, sequence, counters>>

OpenFails ==
  /\ main = "opening"
  /\ main' = "unavailable"
  /\ UNCHANGED <<cancelled, ingested, clientVars, workerVars, counters>>

\* set_policy_handle, then apply_policy and refresh_boundary: two commands.
Attach ==
  /\ main = "opened"
  /\ main' = "starting"
  /\ pc' = [pc EXCEPT ![Main] = "send"]
  /\ left' = [left EXCEPT ![Main] = 2]
  /\ UNCHANGED <<cancelled, ingested, commands, workerVars, counters>>

Ready ==
  /\ main = "starting"
  /\ left[Main] = 0
  /\ main' = "draining"
  /\ UNCHANGED <<cancelled, ingested, clientVars, workerVars, counters>>

Drain ==
  /\ main = "draining"
  /\ batches # <<>>
  /\ ingested' = Head(batches)
  /\ batches' = Tail(batches)
  /\ UNCHANGED <<main, cancelled, clientVars, worker, hooks, sequence, counters>>

\* The signal is heard only where main waits for it.
Signal ==
  /\ \/ main = "draining" /\ main' = "stopping" /\ cancelled' = TRUE
     \/ main = "unavailable" /\ main' = "stopped" /\ UNCHANGED cancelled
  /\ UNCHANGED <<ingested, clientVars, workerVars, counters>>

\* Variant: shutdown cancels and does not wait.
JoinAtOnce ==
  /\ main = "stopping"
  /\ main' = "stopped"
  /\ UNCHANGED <<cancelled, ingested, clientVars, workerVars, counters>>

\* Collector::shutdown waits for the worker; the servers are aborted last.
Join ==
  /\ main = "stopping"
  /\ worker = "detached"
  /\ main' = "stopped"
  /\ UNCHANGED <<cancelled, ingested, clientVars, workerVars, counters>>

-----------------------------------------------------------------------------
\* Handlers.  A settings change sends two commands, every other request one.
\* Before the handle is there a request ends without a command.
Begin(c, n) ==
  /\ c # Main
  /\ pc[c] = "idle"
  /\ main \notin {"opening", "opened", "unavailable", "stopped"}
  /\ requests < MaxRequests
  /\ requests' = requests + 1
  /\ pc' = [pc EXCEPT ![c] = "send"]
  /\ left' = [left EXCEPT ![c] = n]
  /\ UNCHANGED <<mainVars, commands, workerVars, hangups, ticks>>

\* A request that has been answered, or refused: on to the next command.
Answered(c) == /\ left' = [left EXCEPT ![c] = @ - 1]
               /\ pc' = [pc EXCEPT ![c] = IF left[c] = 1 THEN "idle" ELSE "send"]

Send(c) ==
  /\ pc[c] = "send"
  /\ \/ /\ worker # "detached"
        /\ Len(commands) < QueueCapacity
        /\ commands' = Append(commands, c)
        /\ pc' = [pc EXCEPT ![c] = "await"]
        /\ UNCHANGED left
     \/ /\ worker = "detached"
        /\ Answered(c)
        /\ UNCHANGED commands
  /\ UNCHANGED <<mainVars, workerVars, counters>>

\* The reply channel of a command that was dropped is closed.
Dropped(c) ==
  /\ pc[c] = "await"
  /\ worker = "detached"
  /\ Answered(c)
  /\ UNCHANGED <<mainVars, commands, workerVars, counters>>

HangUp(c) ==
  /\ c # Main
  /\ pc[c] # "idle"
  /\ hangups < MaxHangups
  /\ hangups' = hangups + 1
  /\ pc' = [pc EXCEPT ![c] = "idle"]
  /\ left' = [left EXCEPT ![c] = 0]
  /\ commands' = [i \in DOMAIN commands |-> IF commands[i] = c THEN None ELSE commands[i]]
  /\ UNCHANGED <<mainVars, workerVars, requests, ticks>>

-----------------------------------------------------------------------------
\* The worker.  Both selects look at the shutdown token first, and the first
\* one prefers a command to the tick.
Serve ==
  /\ worker = "select"
  /\ ~cancelled
  /\ commands # <<>>
  /\ commands' = Tail(commands)
  /\ IF Head(commands) = None THEN UNCHANGED <<pc, left>> ELSE Answered(Head(commands))
  /\ worker' = "poll"
  /\ UNCHANGED <<mainVars, hooks, batches, sequence, counters>>

\* Variant: the select takes a tick that is due before a command.
TickFirst ==
  /\ worker = "select"
  /\ ~cancelled
  /\ worker' = "poll"
  /\ IF main \in {"opened", "starting"}
       THEN ticks < MaxStartupTicks /\ ticks' = ticks + 1
       ELSE UNCHANGED ticks
  /\ UNCHANGED <<mainVars, clientVars, hooks, batches, sequence, requests, hangups>>

Tick ==
  /\ worker = "select"
  /\ ~cancelled
  /\ commands = <<>>
  /\ worker' = "poll"
  /\ IF main \in {"opened", "starting"}
       THEN ticks < MaxStartupTicks /\ ticks' = ticks + 1
       ELSE UNCHANGED ticks
  /\ UNCHANGED <<mainVars, clientVars, hooks, batches, sequence, requests, hangups>>

Poll ==
  /\ worker = "poll"
  /\ sequence' = After(sequence)
  /\ worker' = "sending"
  /\ UNCHANGED <<mainVars, clientVars, hooks, batches, counters>>

\* Variant: a full channel drops the batch (try_send).
SendBatchOrDrop ==
  /\ worker = "sending"
  /\ ~cancelled
  /\ batches' = IF Len(batches) < BatchCapacity THEN Append(batches, sequence) ELSE batches
  /\ worker' = "select"
  /\ UNCHANGED <<mainVars, clientVars, hooks, sequence, counters>>

SendBatch ==
  /\ worker = "sending"
  /\ ~cancelled
  /\ Len(batches) < BatchCapacity
  /\ batches' = Append(batches, sequence)
  /\ worker' = "select"
  /\ UNCHANGED <<mainVars, clientVars, hooks, sequence, counters>>

\* Variant: only the first select looks at the shutdown token.
DetachFromSelect ==
  /\ worker = "select"
  /\ cancelled
  /\ worker' = "detached"
  /\ hooks' = FALSE
  /\ commands' = <<>>
  /\ UNCHANGED <<mainVars, pc, left, batches, sequence, counters>>

\* CollectorCore::shutdown; the commands in the channel are dropped with it.
Detach ==
  /\ worker \in {"select", "sending"}
  /\ cancelled
  /\ worker' = "detached"
  /\ hooks' = FALSE
  /\ commands' = <<>>
  /\ UNCHANGED <<mainVars, pc, left, batches, sequence, counters>>

-----------------------------------------------------------------------------
MainStep == Attach \/ Ready \/ Drain \/ Join
WorkerStep == Serve \/ Tick \/ Poll \/ SendBatch \/ Detach
Handler(c) == Send(c) \/ Dropped(c)

Next ==
  \/ Open \/ OpenFails \/ MainStep \/ Signal
  \/ WorkerStep
  \/ \E c \in Client : \/ Handler(c) \/ HangUp(c)
                       \/ \E n \in 1 .. 2 : Begin(c, n)

Spec == Init /\ [][Next]_vars

\* The runtime polls every task that can go on, and a place in a channel goes to
\* the waiters in turn.  Opening, requests and the signal are the outside's.
FairSpec == /\ Spec
            /\ WF_vars(MainStep) /\ WF_vars(WorkerStep)
            /\ \A c \in Client : WF_vars(Dropped(c)) /\ SF_vars(Send(c))

-----------------------------------------------------------------------------
\* Every variable holds a value of its type; the channels keep their bounds; and
\* a client waits exactly when its command is in the channel.
TypeOK ==
  /\ main \in {"opening", "opened", "unavailable", "starting", "draining",
               "stopping", "stopped"}
  /\ worker \in {"off", "select", "poll", "sending", "detached"}
  /\ {hooks, cancelled} \subseteq BOOLEAN
  /\ pc \in [Client -> {"idle", "send", "await"}]
  /\ left \in [Client -> 0 .. 2]
  /\ commands \in Seq(Client \cup {None}) /\ Len(commands) <= QueueCapacity
  /\ batches \in Seq(0 .. SeqBound - 1) /\ Len(batches) <= BatchCapacity
  /\ {sequence, ingested} \subseteq 0 .. SeqBound - 1
  /\ requests \in 0 .. MaxRequests /\ hangups \in 0 .. MaxHangups
  /\ ticks \in 0 .. MaxStartupTicks
  /\ \A c \in Client : /\ pc[c] = "idle" <=> left[c] = 0
                       /\ pc[c] = "await" /\ worker # "detached" => \E i \in DOMAIN commands : commands[i] = c

\* Backpressure delays polling and drops nothing: the batches main has yet to
\* take, with the one in the worker's hands, are all those polled since the last
\* one taken, in order (the await on batch_tx.send in run_worker; a batch holds
\* the only copy of its flow deltas).
NoBatchLost ==
  worker # "detached" =>
    LET inHand == IF worker = "sending" THEN 1 ELSE 0
    IN  /\ \A i \in DOMAIN batches : batches[i] = (ingested + i) % SeqBound
        /\ sequence = (ingested + Len(batches) + inHand) % SeqBound

\* The process never ends with its hooks attached by a clean stop: shutdown
\* waits for the worker to detach them (Collector::shutdown).
StopsDetached == main = "stopped" => ~hooks

\* A stop comes to an end wherever the worker stands, even when it waits for
\* room in a channel nobody drains any more (the shutdown arm of both selects).
StopEnds == main = "stopping" ~> main = "stopped"

\* Once main drains the batches, every request comes to an end, be it with an
\* error (PolicyHandle::request has no timeout, and the reply is sent, or
\* dropped, by the worker alone).
RequestsEnd ==
  \A c \in Client : (main = "draining" /\ pc[c] # "idle") ~> pc[c] = "idle"

\* "At startup, main starts the Collector, hands the PolicyHandle to ApiState,
\* then loads and applies the persisted rules" (docs/design/traffic-rules.md:280),
\* and commands are processed "within one round trip" (:288): main, once it has
\* handed the channel out, comes to drain the batches.
StartupEnds == main = "starting" ~> main = "draining"
=============================================================================
