---------------------------- MODULE PolicyControl ----------------------------
(***************************************************************************)
(* Traffic Rules from the API to the kernel: the stored rules and the      *)
(* request handlers (zimascoped/src/api/mod.rs, api/db.rs), the bounded    *)
(* command channel to the collector worker, and the worker of PolicyApply. *)
(*                                                                         *)
(* A handler writes under the state lock, compiles under it a second time, *)
(* and awaits the worker outside it; other handlers run in the gaps.  main *)
(* is one more client: the API serves before the collector runs, and main  *)
(* applies the stored rules once it does.  A crash loses everything but    *)
(* the database; the hooks and maps go with the process.                   *)
(***************************************************************************)
EXTENDS PolicyApply, Sequences, FiniteSetsExt

CONSTANTS
  Client,          \* connections with a request in progress, and main
  Main,            \* the startup code
  Selector,
  Evidence,        \* selector -> the target sets it may resolve to ({}: unresolved)
  Draft,           \* the rules clients create
  Patch,           \* the changes clients ask for
  Stored,          \* the rule tables found at startup
  MaxRules,        \* MAX_TRAFFIC_RULES (64)
  QueueCapacity,   \* POLICY_CHANNEL_CAPACITY (4)
  MaxRequests,     \* bound: requests over a behaviour
  MaxBreaks        \* bound: crashes and closed connections over a behaviour

Rule == [action : {"limit", "block"}, rate : Rate \cup {NoRate},
         dirs : SUBSET Direction, sel : Selector, enabled : BOOLEAN]

\* A patch sets some fields of the rule it updates.
Merge(rule, patch) == [f \in DOMAIN rule |-> IF f \in DOMAIN patch THEN patch[f] ELSE rule[f]]

\* An Apply command: the handler that waits for the reply (None when it is gone),
\* the program, and what the handler needs to record the result.
Command == [client : Client \cup {None}, program : Program,
            unresolved : SUBSET RuleId, stamp : Nat]

ASSUME ControlAssumption ==
  /\ IsFiniteSet(RuleId)
  /\ Main \in Client
  /\ None \notin Client /\ None \notin Rule /\ None \notin Command
  /\ Draft \subseteq Rule
  /\ \A rule \in Rule, patch \in Patch : Merge(rule, patch) \in Rule
  /\ Evidence \in [Selector -> SUBSET SUBSET Target]
  /\ \A s \in Selector : Evidence[s] # {}
  /\ Stored \subseteq [RuleId -> Rule \cup {None}]
  /\ MaxRules \in Nat /\ QueueCapacity \in Nat
  /\ MaxRequests \in Nat /\ MaxBreaks \in Nat

VARIABLES
  rules,      \* table traffic_rules
  master,     \* settings.traffic_rules.enabled, persisted with the settings
  revision,   \* Db::rules_revision: mutations since the daemon started
  evidence,   \* what each selector resolves to at the moment
  attached,   \* the API has the handle of a running collector
  pc,         \* where each client's handler stands
  held,       \* the draft, or the compiled program, of each handler
  queue,      \* the command channel: [client, program, unresolved, stamp]
  serving,    \* the command the worker applies, or None
  view,       \* PolicyView, what /v1/status shows: revision, unresolved, error
  stamp,      \* history: apply attempts since the daemon started
  installed,  \* history: the attempt whose program was applied last
  shown,      \* history: the attempt whose result is in view
  requests, crashes, hangups   \* counters for the bounds

storeVars == <<rules, master, revision>>
counters == <<requests, crashes, hangups>>
history == <<stamp, installed, shown>>
vars == <<applyVars, storeVars, evidence, attached, pc, held, queue, serving, view, history, counters>>

-----------------------------------------------------------------------------
\* compile: enabled rules whose selector resolves; the others are unresolved.
\* A table that does not fit a match map yields no program at all.
Resolved(r) == rules[r] # None /\ rules[r].enabled /\ evidence[rules[r].sel] # {}
Unresolved == {r \in RuleId : rules[r] # None /\ rules[r].enabled} \ {r \in RuleId : Resolved(r)}

CompileRule(rule) == [action |-> rule.action, rate |-> rule.rate,
                      targets |-> evidence[rule.sel], dirs |-> rule.dirs]
Compiled == [revision |-> revision, enabled |-> master,
             rules |-> [r \in RuleId |-> IF Resolved(r) THEN CompileRule(rules[r]) ELSE None]]

Fits(p) ==
  /\ Cardinality({r \in RuleId : p.rules[r] # None}) <= MaxRules
  /\ \A e \in MatchEntry :
       Cardinality({f \in MapOf(e) : \E r \in RuleId : Owns(p.rules[r], f)}) <= MatchCapacity

-----------------------------------------------------------------------------
\* The process at startup: nothing in the kernel, main about to apply.
Boot ==
  /\ revision' = 0
  /\ attached' = FALSE
  /\ pc' = [c \in Client |-> IF c = Main THEN "start" ELSE "idle"]
  /\ held' = [c \in Client |-> None]
  /\ queue' = <<>>
  /\ serving' = None
  /\ view' = [revision |-> 0, unresolved |-> {}, error |-> FALSE]
  /\ stamp' = 0 /\ installed' = 0 /\ shown' = 0

Init ==
  /\ ApplyInit
  /\ rules \in Stored
  /\ master \in BOOLEAN
  /\ evidence \in {f \in [Selector -> SUBSET Target] : \A s \in Selector : f[s] \in Evidence[s]}
  /\ revision = 0
  /\ attached = FALSE
  /\ pc = [c \in Client |-> IF c = Main THEN "start" ELSE "idle"]
  /\ held = [c \in Client |-> None]
  /\ queue = <<>>
  /\ serving = None
  /\ view = [revision |-> 0, unresolved |-> {}, error |-> FALSE]
  /\ stamp = 0 /\ installed = 0 /\ shown = 0
  /\ requests = 0 /\ crashes = 0 /\ hangups = 0

-----------------------------------------------------------------------------
\* Handlers.  A request counts against the bound when it starts.
Start(c) == /\ c # Main
            /\ pc[c] = "idle"
            /\ requests < MaxRequests
            /\ requests' = requests + 1
            /\ UNCHANGED <<crashes, hangups>>

Goto(c, label) == pc' = [pc EXCEPT ![c] = label]

\* Where an attempt leaves its handler: main goes on to refresh the boundary.
End(c) == Goto(c, IF c = Main THEN "refresh" ELSE "idle")

\* An INTEGER PRIMARY KEY takes the largest id plus one: the id of the rule
\* deleted last may come back.
NextId == 1 + Max({0} \cup {r \in RuleId : rules[r] # None})

\* The count and the insert share one lock; over the bound is a conflict.
Create(c, draft) ==
  /\ Start(c)
  /\ Cardinality({r \in RuleId : rules[r] # None}) < MaxRules
  /\ NextId \in RuleId
  /\ rules' = [rules EXCEPT ![NextId] = draft]
  /\ revision' = revision + 1
  /\ Goto(c, "compile")
  /\ UNCHANGED <<applyVars, master, evidence, attached, held, queue, serving, view, history>>

Delete(c, r) ==
  /\ Start(c)
  /\ rules[r] # None
  /\ rules' = [rules EXCEPT ![r] = None]
  /\ revision' = revision + 1
  /\ Goto(c, "compile")
  /\ UNCHANGED <<applyVars, master, evidence, attached, held, queue, serving, view, history>>

\* update reads the rule under one lock and writes the merged draft under the
\* next: what another handler wrote in between is overwritten.
ReadForUpdate(c, r, patch) ==
  /\ Start(c)
  /\ rules[r] # None
  /\ held' = [held EXCEPT ![c] = [id |-> r, draft |-> Merge(rules[r], patch)]]
  /\ Goto(c, "drafted")
  /\ UNCHANGED <<applyVars, storeVars, evidence, attached, queue, serving, view, history>>

WriteUpdate(c) ==
  /\ pc[c] = "drafted"
  /\ held' = [held EXCEPT ![c] = None]
  /\ IF rules[held[c].id] # None
       THEN /\ rules' = [rules EXCEPT ![held[c].id] = held[c].draft]
            /\ revision' = revision + 1
            /\ Goto(c, "compile")
       ELSE /\ UNCHANGED <<rules, revision>>
            /\ Goto(c, "idle")
  /\ UNCHANGED <<applyVars, master, evidence, attached, queue, serving, view, history, counters>>

\* put_settings and patch_settings: no rule changes, so no new revision.
SetMaster(c, on) ==
  /\ Start(c)
  /\ master' = on
  /\ Goto(c, "compile")
  /\ UNCHANGED <<applyVars, rules, revision, evidence, attached, held, queue, serving, view, history>>

\* The collector runs: main hands its PolicyHandle to the API.
Attach ==
  /\ pc[Main] = "start"
  /\ attached' = TRUE
  /\ Goto(Main, "compile")
  /\ UNCHANGED <<applyVars, storeVars, evidence, held, queue, serving, view, history, counters>>

\* ApiState::apply_policy, the part under the lock.  Without a collector the
\* attempt is an error on record; the error of compile leaves through `?` before
\* anything is recorded.
Compile(c) ==
  /\ pc[c] = "compile"
  /\ stamp' = stamp + 1
  /\ view' = IF attached THEN view ELSE [view EXCEPT !.error = TRUE]
  /\ IF attached /\ Fits(Compiled)
       THEN /\ held' = [held EXCEPT ![c] = [client |-> c, program |-> Compiled,
                                            unresolved |-> Unresolved, stamp |-> stamp']]
            /\ Goto(c, "send")
       ELSE /\ UNCHANGED held
            /\ End(c)
  /\ UNCHANGED <<applyVars, storeVars, evidence, attached, queue, serving, installed, shown, counters>>

\* PolicyHandle::request: wait for a place in the channel, then for the reply.
Send(c) ==
  /\ pc[c] = "send"
  /\ Len(queue) < QueueCapacity
  /\ queue' = Append(queue, held[c])
  /\ held' = [held EXCEPT ![c] = None]
  /\ Goto(c, "await")
  /\ UNCHANGED <<applyVars, storeVars, evidence, attached, serving, view, history, counters>>

\* The worker takes the next command between two polls.
Take ==
  /\ queue # <<>>
  /\ Begin(Head(queue).program)
  /\ serving' = Head(queue)
  /\ queue' = Tail(queue)
  /\ UNCHANGED <<storeVars, evidence, attached, pc, held, view, history, counters>>

MapStep ==
  /\ (\E op \in todo : ApplyOp(op)) \/ ApplyConfig
  /\ UNCHANGED <<storeVars, evidence, attached, pc, held, queue, serving, view, history, counters>>

\* Variant: an apply that fails leaves before it replies.
ReplyOnSuccess ==
  /\ Commit \/ Refuse \/ Fault
  /\ installed' = IF outcome' = "ok" THEN serving.stamp ELSE installed
  /\ IF serving.client = None \/ outcome' = "failed"
       THEN UNCHANGED <<pc, held>>
       ELSE /\ held' = [held EXCEPT ![serving.client] =
                          [serving EXCEPT !.client = outcome']]
            /\ Goto(serving.client, "reply")
  /\ serving' = None
  /\ UNCHANGED <<storeVars, evidence, attached, queue, view, stamp, shown, counters>>

\* The worker replies.  A handler that is gone gets nothing.
Reply ==
  /\ Commit \/ Refuse \/ Fault
  /\ installed' = IF outcome' = "ok" THEN serving.stamp ELSE installed
  /\ IF serving.client = None
       THEN UNCHANGED <<pc, held>>
       ELSE /\ held' = [held EXCEPT ![serving.client] =
                          [serving EXCEPT !.client = outcome']]
            /\ Goto(serving.client, "reply")
  /\ serving' = None
  /\ UNCHANGED <<storeVars, evidence, attached, queue, view, stamp, shown, counters>>

\* Variant: the unresolved rules of an earlier program stay on record.
RecordRevisionOnly(c) ==
  /\ pc[c] = "reply"
  /\ view' = IF held[c].client = "ok"
               THEN [view EXCEPT !.revision = held[c].program.revision, !.error = FALSE]
               ELSE [view EXCEPT !.error = TRUE]
  /\ shown' = held[c].stamp
  /\ held' = [held EXCEPT ![c] = None]
  /\ End(c)
  /\ UNCHANGED <<applyVars, storeVars, evidence, attached, queue, serving, stamp, installed, counters>>

\* The handler records the result under a lock of its own.
Record(c) ==
  /\ pc[c] = "reply"
  /\ view' = IF held[c].client = "ok"
               THEN [revision |-> held[c].program.revision,
                     unresolved |-> held[c].unresolved, error |-> FALSE]
               ELSE [view EXCEPT !.error = TRUE]
  /\ shown' = held[c].stamp
  /\ held' = [held EXCEPT ![c] = None]
  /\ End(c)
  /\ UNCHANGED <<applyVars, storeVars, evidence, attached, queue, serving, stamp, installed, counters>>

\* The worker answers main's boundary refresh, and main turns to its loop, which
\* drains the batches; it may also wait for that answer for ever.
Drain ==
  /\ pc[Main] = "refresh"
  /\ Goto(Main, "idle")
  /\ UNCHANGED <<applyVars, storeVars, evidence, attached, held, queue, serving, view, history, counters>>

\* The server drops the handler of a closed connection at its await points;
\* its command stays in the channel.
Orphaned(cmd, c) == IF cmd.client = c THEN [cmd EXCEPT !.client = None] ELSE cmd

HangUp(c) ==
  /\ c # Main
  /\ pc[c] \in {"send", "await"}
  /\ crashes + hangups < MaxBreaks
  /\ hangups' = hangups + 1
  /\ queue' = [i \in DOMAIN queue |-> Orphaned(queue[i], c)]
  /\ serving' = IF serving = None THEN None ELSE Orphaned(serving, c)
  /\ held' = [held EXCEPT ![c] = None]
  /\ Goto(c, "idle")
  /\ UNCHANGED <<applyVars, storeVars, evidence, attached, view, history, requests, crashes>>

\* Containers come and go; nothing recompiles the rules that name them.
EvidenceChange(s) ==
  /\ requests < MaxRequests
  /\ requests' = requests + 1
  /\ \E targets \in Evidence[s] \ {evidence[s]} :
       evidence' = [evidence EXCEPT ![s] = targets]
  /\ UNCHANGED <<applyVars, storeVars, attached, pc, held, queue, serving, view, history, crashes, hangups>>

Crash ==
  /\ crashes + hangups < MaxBreaks
  /\ crashes' = crashes + 1
  /\ ApplyReset
  /\ Boot
  /\ UNCHANGED <<rules, master, evidence, requests, hangups>>

-----------------------------------------------------------------------------
Handler(c) == WriteUpdate(c) \/ Compile(c) \/ Send(c) \/ Record(c)

Request(c) ==
  \/ \E draft \in Draft : Create(c, draft)
  \/ \E r \in RuleId : Delete(c, r) \/ \E patch \in Patch : ReadForUpdate(c, r, patch)
  \/ \E on \in BOOLEAN : SetMaster(c, on)

Worker == Take \/ MapStep \/ Reply

Next ==
  \/ \E c \in Client : Request(c) \/ Handler(c) \/ HangUp(c)
  \/ Attach
  \/ Drain
  \/ Worker
  \/ \E s \in Selector : EvidenceChange(s)
  \/ Crash

Spec == Init /\ [][Next]_vars

\* Main takes what the worker sends.
Draining == attached /\ pc[Main] = "idle"

\* The runtime polls every task that can go on; a place in the channel goes to
\* the waiters in turn.  The worker can go on only while main drains: after each
\* command it waits for room in the batch channel.  Nothing makes main drain.
FairSpec == /\ Spec
            /\ WF_vars(Draining /\ Worker)
            /\ \A c \in Client : WF_vars(Handler(c)) /\ SF_vars(Send(c))

-----------------------------------------------------------------------------
Answer == [client : {"ok", "failed"}, program : Program,
           unresolved : SUBSET RuleId, stamp : Nat]

HeldOK(c) ==
  /\ pc[c] = "drafted" => held[c] \in [id : RuleId, draft : Rule]
  /\ pc[c] = "send" => held[c] \in Command
  /\ pc[c] = "reply" => held[c] \in Answer
  /\ pc[c] \in {"start", "refresh", "idle", "compile", "await"} => held[c] = None

\* Every variable holds a value of its type, and what a handler holds fits the
\* point it has reached.
ControlTypeOK ==
  /\ ApplyTypeOK
  /\ rules \in [RuleId -> Rule \cup {None}]
  /\ master \in BOOLEAN
  /\ revision \in Nat
  /\ evidence \in [Selector -> SUBSET Target]
  /\ attached \in BOOLEAN
  /\ pc \in [Client -> {"start", "refresh", "idle", "drafted", "compile", "send", "await", "reply"}]
  /\ \A c \in Client : HeldOK(c)
  /\ held \in [Client -> {None} \cup [id : RuleId, draft : Rule] \cup Command \cup Answer]
  /\ queue \in Seq(Command)
  /\ serving \in Command \cup {None}
  /\ serving = None <=> worker = "idle"
  /\ view \in [revision : Nat, unresolved : SUBSET RuleId, error : BOOLEAN]
  /\ stamp \in Nat /\ installed \in Nat /\ shown \in Nat
  /\ requests \in Nat /\ crashes \in Nat /\ hangups \in Nat

-----------------------------------------------------------------------------
\* The state /v1/traffic-rules derives for a stored rule (traffic_rule_state).
ShownState(r) ==
  CASE ~attached -> "unavailable"
    [] attached /\ ~(master /\ rules[r].enabled) -> "bypassed"
    [] attached /\ master /\ rules[r].enabled ->
         IF r \in view.unresolved THEN "unresolved" ELSE "active"

Quiet == worker = "idle" /\ queue = <<>> /\ \A c \in Client : pc[c] \in {"refresh", "idle"}

\* The worker applied, and the status shows, the program compiled last.
Settled == Quiet /\ installed = stamp /\ shown = stamp /\ stamp # 0

\* Rule r is in force as it is stored.
InForce(r) ==
  /\ applied.rules[r] # None
  /\ applied.rules[r].targets # {}
  /\ \A e \in MatchEntry : Owns(applied.rules[r], e) =>
       /\ Enforcing(e)
       /\ kmatch[e] = [id |-> r, action |-> rules[r].action]
       /\ kstate[r][e.dir] = rules[r].rate
  /\ applied.rules[r].dirs = rules[r].dirs

\* Once the last change has settled, and no apply before it failed, the states the API shows
\* are the ones packets meet: an active rule is in force with the stored
\* parameters, and whatever is enforced belongs to an active rule
\* (traffic_rule_state reads the settings, the table and PolicyView, none of
\* which is the kernel's).
StatusHonest ==
  Settled /\ ~tainted =>
    /\ ~view.error
    /\ \A r \in RuleId : rules[r] # None /\ ShownState(r) = "active" => InForce(r)
    /\ \A e \in MatchEntry : Enforcing(e) =>
         rules[kmatch[e].id] # None /\ ShownState(kmatch[e].id) = "active"

\* Once main drains, a request in progress comes to its end, whatever else is
\* queued and whatever fails: a stored change gets its attempt, and
\* PolicyHandle::request, which waits without a timeout, gets its answer.
HandlersEnd ==
  \A c \in Client \ {Main} : (pc[c] # "idle" /\ Draining) ~> pc[c] = "idle"

-----------------------------------------------------------------------------
(* What the design documents say and the code does not do. *)

\* A failed operation aborts the remaining difference, and "the worst case is
\* less enforcement, never more" (docs/design/traffic-rules.md:276-278): with
\* nothing in progress and the newest program applied or refused, what is
\* enforced is what an enabled stored rule asks for.
NeverMore ==
  Quiet /\ (installed = stamp \/ outcome = "failed") =>
    \A e \in MatchEntry : Enforcing(e) =>
      \E r \in RuleId : /\ rules[r] # None /\ rules[r].enabled
                        /\ e.target \in UNION Evidence[rules[r].sel]
                        /\ e.dir \in rules[r].dirs

=============================================================================
