-------------------------------- MODULE Boundary --------------------------------
(***************************************************************************)
(* The Device Boundary: from the settings (api/mod.rs, api/settings.rs)    *)
(* over the command channel to the hooks on the interfaces that exist      *)
(* (collector/interfaces.rs, aya.rs), and back as attachment health, gaps  *)
(* and drop counters (health.rs, collector/mod.rs, ingest_batch).          *)
(*                                                                         *)
(* Interfaces come, go, are renamed and lose programs while all of this    *)
(* runs; kernels with TCX are modelled, where a link is checked by name.   *)
(***************************************************************************)
EXTENDS Integers, Sequences, FiniteSets, SequencesExt, FiniteSetsExt, Functions, TLC

CONSTANTS
  Name,         \* interface names
  Facts,        \* what /sys/class/net says of each: a set of facts
  Metric,       \* the metric of a default route over each
  Choice,       \* boundary.interfaces values that clients send
  Client,       \* clients that change settings
  None,
  MaxIndex,     \* bound: interface indexes handed out
  MaxPuts, MaxChanges, MaxFaults, MaxDrops   \* bounds of the model

ASSUME BoundaryAssumption ==
  /\ Facts \in [Name -> SUBSET {"loopback", "bridge", "container", "bonding", "wireguard",
                                "tun_flags", "lower", "dotted", "device", "iflink"}]
  /\ None \notin Name
  /\ \A c \in Choice : c \in Seq(Name)

VARIABLES
  net,       \* the index of every interface, 0 when there is none; default routes
  hooks,     \* programs the kernel runs, by interface index
  settings,  \* the boundary in memory and in the database
  refresh,   \* refresh_boundary calls: what each has read
  mailbox,   \* SetBoundary commands on their way to the worker
  main,      \* how far the daemon has started
  core,      \* CollectorCore: selectors, attached interfaces, open gaps
  report,    \* the health of the last batch
  counts,    \* policy drops: the kernel's, the last ones read, and the total
  spent      \* bounds: puts, changes of the network, faults; history: how the last call ended

vars == <<net, hooks, settings, refresh, mailbox, main, core, report, counts, spent>>

Hook == {"ingress", "egress"}
Index == 1..MaxIndex
Main == "main"
Caller == Client \cup {Main}

------------------------------------------------------------------------------
\* interfaces.rs

\* classify: the first class whose facts all hold.
Class(facts, kind) == [facts |-> facts, kind |-> kind]
Classes ==
  <<Class({"loopback"}, "loopback"), Class({"bridge", "container"}, "docker_bridge"),
    Class({"bridge"}, "bridge"), Class({"bonding"}, "bond"), Class({"wireguard"}, "wireguard"),
    Class({"tun_flags"}, "tun_tap"), Class({"lower", "dotted"}, "vlan"), Class({"lower"}, "virtual"),
    Class({"device"}, "physical"), Class({"iflink"}, "veth"), Class({}, "other")>>
Kind ==
  [n \in Name |-> Classes[Min({k \in DOMAIN Classes : Classes[k].facts \subseteq Facts[n]})].kind]

Present(n) == net.index[n] # 0

\* A route over a name that is not enumerated counts as virtual.
KindOf(n) == IF Present(n) THEN Kind[n] ELSE "other"

\* select_default_route: the best physical candidate, or else the best one.
DefaultRoute ==
  LET able == {n \in net.routes : KindOf(n) # "loopback"}
      physical == {n \in able : KindOf(n) = "physical"}
      Best(S) == CHOOSE n \in S : \A m \in S : Metric[n] <= Metric[m]
  IN IF able = {} THEN None ELSE IF physical # {} THEN Best(physical) ELSE Best(able)

\* InterfaceSelector::from_names and resolve_selectors: those that exist now, or
\* an error when one of them is there twice.
Selected(names) ==
  SelectSeq(IF names = <<>> THEN <<DefaultRoute>> ELSE names, LAMBDA n : n # None /\ Present(n))
Resolvable(names) == IsInjective(Selected(names))
Wanted(names) ==
  LET chosen == ToSet(Selected(names))
  IN [i \in {net.index[n] : n \in chosen} |-> CHOOSE n \in chosen : net.index[n] = i]

------------------------------------------------------------------------------
\* The kernel source (aya.rs)

\* Entries of attached, by index.
Entry(n, ok) == [name |-> n, linked |-> ok]

\* Variants of reconcile: entries that are no longer wanted keep their hooks, and
\* an entry whose attachment failed is not tried again.
ReconciledLeaking(attached, names, failing) ==
  LET wanted == Wanted(names)
      kept == {i \in DOMAIN wanted \cap DOMAIN attached : attached[i].linked}
      fresh == DOMAIN wanted \ kept
  IN IF ~Resolvable(names) THEN [attached |-> attached, hooks |-> hooks]
     ELSE [attached |-> [i \in fresh |-> Entry(wanted[i], i \notin failing)]
                           @@ Restrict(attached, kept),
           hooks |-> [i \in fresh |-> IF i \in failing THEN {} ELSE Hook] @@ hooks]
ReconciledOnce(attached, names, failing) ==
  LET wanted == Wanted(names)
      kept == DOMAIN wanted \cap DOMAIN attached
      fresh == DOMAIN wanted \ kept
  IN IF ~Resolvable(names) THEN [attached |-> attached, hooks |-> hooks]
     ELSE [attached |-> [i \in fresh |-> Entry(wanted[i], i \notin failing)]
                           @@ Restrict(attached, kept),
           hooks |-> [i \in Index \ kept |-> IF i \in fresh \ failing THEN Hook ELSE {}] @@ hooks]

\* reconcile: what is not wanted is detached, what has both links is left alone,
\* the rest is attached anew; attach_one leaves both hooks or none.
Reconciled(attached, names, failing) ==
  LET wanted == Wanted(names)
      kept == {i \in DOMAIN wanted \cap DOMAIN attached : attached[i].linked}
      fresh == DOMAIN wanted \ kept
  IN IF ~Resolvable(names) THEN [attached |-> attached, hooks |-> hooks]
     ELSE [attached |-> [i \in DOMAIN wanted |->
                           IF i \in kept THEN attached[i] ELSE Entry(wanted[i], i \notin failing)],
           hooks |-> [i \in Index |->
                        IF i \in kept THEN hooks[i] ELSE IF i \in fresh \ failing THEN Hook ELSE {}]]

\* Variant: a stored link is believed.
WatchedByLink(attached, running) == {i \in DOMAIN attached : attached[i].linked}

\* attachment_health: a linked entry is looked up by its name.
Watched(attached, running) ==
  {i \in DOMAIN attached :
     attached[i].linked /\ Present(attached[i].name) /\ running[net.index[attached[i].name]] = Hook}

------------------------------------------------------------------------------
\* States

NoCore == [boundary |-> <<>>, attached |-> <<>>, gaps |-> {}]
NoReport == [state |-> "none", missed |-> {}]

Init ==
  /\ \E there \in SUBSET Name :
       net = [index |-> [n \in Name |-> IF n \in there
                                        THEN 1 + Cardinality({m \in there : Metric[m] < Metric[n]})
                                        ELSE 0],
              routes |-> there, next |-> Cardinality(there) + 1]
  /\ hooks = [i \in Index |-> {}]
  /\ settings = [memory |-> <<>>, stored |-> <<>>]
  /\ refresh = [c \in Caller |-> [at |-> "idle", names |-> <<>>, late |-> FALSE]]
  /\ mailbox = <<>>
  /\ main = [at |-> "booting", names |-> <<>>]
  /\ core = NoCore
  /\ report = NoReport
  /\ counts = [kernel |-> 0, last |-> 0, delta |-> 0, total |-> 0]
  /\ spent = [puts |-> 0, changes |-> 0, faults |-> 0, astray |-> FALSE]

Running == main.at \in {"opened", "serving"}
Fault == spent.faults < MaxFaults /\ spent' = [spent EXCEPT !.faults = @ + 1]

------------------------------------------------------------------------------
\* The network

Change == spent.changes < MaxChanges /\ spent' = [spent EXCEPT !.changes = @ + 1]

Appear ==
  /\ Change
  /\ \E n \in Name :
       /\ ~Present(n) /\ net.next <= MaxIndex
       /\ net' = [net EXCEPT !.index[n] = net.next, !.routes = @ \cup {n}, !.next = @ + 1]
  /\ UNCHANGED <<hooks, settings, refresh, mailbox, main, core, report, counts>>

Vanish ==
  /\ Change
  /\ \E n \in Name :
       /\ Present(n)
       /\ net' = [net EXCEPT !.index[n] = 0, !.routes = @ \ {n}]
       /\ hooks' = [hooks EXCEPT ![net.index[n]] = {}]
  /\ UNCHANGED <<settings, refresh, mailbox, main, core, report, counts>>

\* The index and the hooks stay with a renamed interface.
Rename ==
  /\ Change
  /\ \E n, to \in Name :
       /\ Present(n) /\ ~Present(to)
       /\ net' = [net EXCEPT !.index = [@ EXCEPT ![to] = net.index[n], ![n] = 0],
                             !.routes = IF n \in @ THEN (@ \ {n}) \cup {to} ELSE @]
  /\ UNCHANGED <<hooks, settings, refresh, mailbox, main, core, report, counts>>

RouteLost ==
  /\ Change
  /\ \E n \in net.routes : net' = [net EXCEPT !.routes = @ \ {n}]
  /\ UNCHANGED <<hooks, settings, refresh, mailbox, main, core, report, counts>>

\* Another program of the host takes a hook away.
Displace ==
  /\ Change
  /\ \E i \in Index : \E h \in hooks[i] : hooks' = [hooks EXCEPT ![i] = @ \ {h}]
  /\ UNCHANGED <<net, settings, refresh, mailbox, main, core, report, counts>>

Drop ==
  /\ counts.kernel < MaxDrops /\ \E i \in Index : hooks[i] # {}
  /\ counts' = [counts EXCEPT !.kernel = @ + 1]
  /\ UNCHANGED <<net, hooks, settings, refresh, mailbox, main, core, report, spent>>

------------------------------------------------------------------------------
\* The API

\* normalize: dedup drops a name that is the same as the one before it.
Normal(names) ==
  LET keep == {i \in DOMAIN names : i = 1 \/ names[i] # names[i - 1]}
  IN [k \in 1..Cardinality(keep) |-> names[SetToSortSeq(keep, <)[k]]]

\* put_settings and patch_settings: memory and database, then the handler awaits
\* apply_policy.  An error of save_settings leaves both, or comes after the row
\* was written.
Put(c) ==
  /\ refresh[c].at = "idle" /\ spent.puts < MaxPuts
  /\ \E names \in Choice :
       \/ /\ settings' = [memory |-> Normal(names), stored |-> Normal(names)]
          /\ refresh' = [d \in Caller |-> IF d = c THEN [refresh[c] EXCEPT !.at = "applying"]
                                          ELSE [refresh[d] EXCEPT !.late = refresh[d].at = "read"]]
          /\ spent' = [spent EXCEPT !.puts = @ + 1]
       \/ /\ spent.faults < MaxFaults
          /\ settings' \in {settings, [settings EXCEPT !.stored = Normal(names)]}
          /\ spent' = [spent EXCEPT !.puts = @ + 1, !.faults = @ + 1]
          /\ UNCHANGED refresh
  /\ UNCHANGED <<net, hooks, mailbox, main, core, report, counts>>

\* refresh_boundary, once the program is applied: the selectors are read under the
\* lock,
ReadSelectors(c) ==
  /\ refresh[c].at = "applying"
  /\ refresh' = [refresh EXCEPT ![c] = [at |-> "read", names |-> settings.memory, late |-> FALSE]]
  /\ UNCHANGED <<net, hooks, settings, mailbox, main, core, report, counts, spent>>

\* and sent after it, if there is a collector by then.
SendBoundary(c) ==
  /\ refresh[c].at = "read"
  /\ mailbox' = IF main.at = "serving" THEN Append(mailbox, refresh[c].names) ELSE mailbox
  /\ refresh' = [refresh EXCEPT ![c] = [at |-> "idle", names |-> @.names, late |-> FALSE]]
  /\ spent' = [spent EXCEPT !.astray = refresh[c].late]
  /\ UNCHANGED <<net, hooks, settings, main, core, report, counts>>

\* The client goes while its handler awaits apply_policy, or room for the command:
\* what is left of the handler is dropped.
HangUp(c) ==
  /\ refresh[c].at \in {"applying", "read"} /\ spent.faults < MaxFaults
  /\ refresh' = [refresh EXCEPT ![c] = [at |-> "idle", names |-> @.names, late |-> FALSE]]
  /\ spent' = [spent EXCEPT !.faults = @ + 1, !.astray = TRUE]
  /\ UNCHANGED <<net, hooks, settings, mailbox, main, core, report, counts>>

------------------------------------------------------------------------------
\* main, and the worker

ReadSettings ==
  /\ main.at = "booting"
  /\ main' = [at |-> "opening", names |-> settings.memory]
  /\ UNCHANGED <<net, hooks, settings, refresh, mailbox, core, report, counts, spent>>

\* Collector::start: every hook is attached, or none and collection is
\* unavailable.
Open ==
  /\ main.at = "opening"
  /\ LET opened == Reconciled(<<>>, main.names, {})
     IN \/ /\ Resolvable(main.names)
           /\ hooks' = opened.hooks
           /\ core' = [boundary |-> main.names, attached |-> opened.attached, gaps |-> {}]
           /\ main' = [main EXCEPT !.at = "opened"]
           /\ UNCHANGED spent
        \/ /\ IF Resolvable(main.names) THEN Fault /\ Wanted(main.names) # <<>> ELSE UNCHANGED spent
           /\ main' = [main EXCEPT !.at = "unavailable"]
           /\ UNCHANGED <<hooks, core>>
  /\ UNCHANGED <<net, settings, refresh, mailbox, report, counts>>

\* Variant: the settings are not read again.
ServeOnly ==
  /\ main.at = "opened"
  /\ main' = [main EXCEPT !.at = "serving"]
  /\ UNCHANGED <<net, hooks, settings, refresh, mailbox, core, report, counts, spent>>

\* set_policy_handle, apply_policy, and a refresh for what changed since the
\* settings were read.
Serve ==
  /\ main.at = "opened"
  /\ main' = [main EXCEPT !.at = "serving"]
  /\ refresh' = [refresh EXCEPT ![Main] = [@ EXCEPT !.at = "applying"]]
  /\ UNCHANGED <<net, hooks, settings, mailbox, core, report, counts, spent>>

\* Interfaces whose attachment fails now, of those that are attached anew.
Failures(names) ==
  IF spent.faults = MaxFaults THEN {{}}
  ELSE SUBSET {i \in DOMAIN Wanted(names) : i \notin DOMAIN core.attached \/ ~core.attached[i].linked}
Charged(faulty) == [spent EXCEPT !.faults = @ + IF faulty THEN 1 ELSE 0]

\* CollectorCore::set_boundary
SetBoundary ==
  /\ Running /\ mailbox # <<>>
  /\ \E failing \in Failures(Head(mailbox)) :
       \E r \in {Reconciled(core.attached, Head(mailbox), failing)} :
          /\ core' = [core EXCEPT !.boundary = Head(mailbox), !.attached = r.attached]
          /\ hooks' = r.hooks
          /\ spent' = Charged(failing # {})
  /\ mailbox' = Tail(mailbox)
  /\ UNCHANGED <<net, settings, refresh, main, report, counts>>

StatsGap == 0

\* Variant: the first read of the counters is only a base for the next.
DeltaFromFirst(read) ==
  IF ~read THEN counts.delta ELSE IF counts.last = 0 THEN 0 ELSE counts.kernel - counts.last
\* last_delta stays what it was when the counters cannot be read.
Delta(read) == IF read THEN counts.kernel - counts.last ELSE counts.delta

\* The rest of poll_once, and ingest_batch: an interface without both hooks
\* opens a gap, one with both closes its own; a failed read of the counters
\* leaves the last difference to be reported again.
Observed(r, read) ==
  LET watched == Watched(r.attached, r.hooks)
      gaps == ((core.gaps \ watched) \ {StatsGap}) \cup (DOMAIN r.attached \ watched)
                 \cup (IF read THEN {} ELSE {StatsGap})
  IN /\ core' = [core EXCEPT !.attached = r.attached, !.gaps = gaps]
     /\ hooks' = r.hooks
     /\ report' = [state |-> IF gaps = {} THEN "running" ELSE "degraded",
                   missed |-> {i \in DOMAIN r.attached :
                                 r.hooks[i] # Hook /\ net.index[r.attached[i].name] \in {0, i}}]
     /\ counts' = [counts EXCEPT !.last = IF read THEN counts.kernel ELSE @,
                                 !.delta = Delta(read), !.total = @ + Delta(read)]

Poll ==
  /\ Running
  /\ \E read \in BOOLEAN :
       /\ read \/ spent.faults < MaxFaults
       /\ Observed([attached |-> core.attached, hooks |-> hooks], read)
       /\ spent' = Charged(~read)
  /\ UNCHANGED <<net, settings, refresh, mailbox, main>>

\* Every reconcile_interval the boundary is reconciled first.
PollReconciling ==
  /\ Running
  /\ UNCHANGED <<net, settings, refresh, mailbox, main>>
  /\ \E failing \in Failures(core.boundary) :
       /\ spent' = Charged(failing # {})
       /\ \E r \in {Reconciled(core.attached, core.boundary, failing)} : Observed(r, TRUE)

\* The daemon dies, its links with it, and starts again from the database.
Restart ==
  /\ spent.faults < MaxFaults
  /\ spent' = [spent EXCEPT !.faults = @ + 1, !.astray = FALSE]
  /\ hooks' = [i \in Index |-> {}]
  /\ settings' = [settings EXCEPT !.memory = settings.stored]
  /\ refresh' = [c \in Caller |-> [at |-> "idle", names |-> <<>>, late |-> FALSE]]
  /\ mailbox' = <<>>
  /\ main' = [at |-> "booting", names |-> <<>>]
  /\ core' = NoCore
  /\ report' = NoReport
  /\ counts' = [kernel |-> 0, last |-> 0, delta |-> 0, total |-> 0]
  /\ UNCHANGED net

Network == Appear \/ Vanish \/ Rename \/ RouteLost \/ Displace \/ Drop
Api == \/ \E c \in Client : Put(c) \/ HangUp(c)
       \/ \E c \in Caller : ReadSelectors(c) \/ SendBoundary(c)
Daemon == ReadSettings \/ Open \/ Serve \/ Restart
Worker == SetBoundary \/ Poll \/ PollReconciling

Next == Network \/ Api \/ Daemon \/ Worker

\* An interface the worker should attach, which it has not.
Linked(i) == i \in DOMAIN core.attached /\ core.attached[i].linked
Undone == /\ main.at = "serving" /\ Resolvable(core.boundary)
          /\ \E i \in DOMAIN Wanted(core.boundary) : ~Linked(i)

\* The worker's timer keeps going, and the reconcile interval with it.
Retry == Undone /\ PollReconciling

Spec == Init /\ [][Next]_vars
FairSpec == Spec /\ WF_vars(Retry)

------------------------------------------------------------------------------
\* Properties

\* No program is left on an interface that the collector has let go: changed
\* selectors, lost routes and failed attachments included (aya.rs:402
\* reconcile, 872 attach_interfaces).
HooksAreOwned ==
  \A i \in Index : hooks[i] # {} =>
    Running /\ i \in DOMAIN core.attached /\ core.attached[i].linked

\* A batch that says "running" was collected with both programs on every
\* attached interface, whatever other tools did to them; an interface whose name
\* another has taken over is not counted (collector/mod.rs:523, aya.rs:342).
LossIsReported ==
  report.state = "running" => report.missed = {}

\* Once no call is under way, the worker has the boundary of the settings,
\* changes made while the daemon starts included (api/mod.rs:268 "a later change
\* always re-applies", main.rs "Re-apply the boundary in case settings changed"),
\* unless the last call to end sent what another had changed since it read it, or
\* was dropped with its client.  Whatever went astray, the next call repairs.
Settled == /\ main.at = "serving" /\ mailbox = <<>>
           /\ \A c \in Caller : refresh[c].at = "idle"
BoundaryFollows == Settled /\ ~spent.astray => core.boundary = settings.memory

\* Interfaces that are selected and present are all attached in the end, however
\* they came and however often that failed, or are wanted no longer (PRD.md:432).
AttachRetried == Undone ~> ~Undone

\* Drops the daemon has read are never lost from the total; a failed read counts
\* the last difference twice (api/mod.rs:233, health.rs:107 record_kernel).
DropsKept == counts.total >= counts.last
=============================================================================
