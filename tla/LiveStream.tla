------------------------------ MODULE LiveStream -------------------------------
(***************************************************************************)
(* The live stream between the daemon and one browser page: ingest_batch,  *)
(* the broadcast channel with its bounded backlog, the stream handler and  *)
(* its filter (api/mod.rs, api/db.rs, api/dto.rs), and the page that loads *)
(* a list over REST and patches it with ticks (frontend store.ts, views).  *)
(*                                                                         *)
(* One row of the store is followed: n counts its movements, d stands for  *)
(* all its descriptive fields, of which flow_detail_signature looks at     *)
(* some.  The other rows of a list are handled in the same way and by      *)
(* themselves.                                                             *)
(***************************************************************************)
EXTENDS Integers, Sequences, SequencesExt

CONSTANTS
  Detail,       \* values of the descriptive fields
  Signature,    \* what flow_detail_signature tells of them, named by one that has it
  Filters,      \* stream filters, each the set of details it accepts
  Backlog,      \* STREAM_CHANNEL_CAPACITY
  WireCap,      \* bound: events written and not yet received
  MaxSeq,       \* bound: intervals
  MaxBreaks,    \* bound: lost connections and reopenings
  None

ASSUME StreamAssumption ==
  /\ Filters \subseteq SUBSET Detail /\ Signature \in [Detail -> Detail]
  /\ None \notin Detail /\ None \notin [next : Nat, from : Nat, resumed : BOOLEAN]
  /\ {Backlog, WireCap} \subseteq Nat \ {0} /\ {MaxSeq, MaxBreaks} \subseteq Nat

VARIABLES
  hist,      \* the row and its live representation after each interval
  details,   \* Db::tick_details: the signature last sent, or None
  ingest,    \* "idle", or whether the interval in work computes the counters
  sub,       \* the receiver of the page's connection, or None
  wire,      \* events on their way to the page
  source,    \* the page's EventSource: its filter and its last event id
  page,      \* the REST request: "none", "asked", or the page on its way
  view,      \* the row as the page shows it, or None; the interval it was read
             \* at and the last one taken in; since when intervals count for it;
             \* the interval a snapshot is owed for, or -1
  breaks

vars == <<hist, details, ingest, sub, wire, source, page, view, breaks>>

Seq0 == Len(hist) - 1          \* the sequence number of the last interval
At(s) == hist[s + 1]

Init ==
  /\ \E d \in Detail : hist = <<[n |-> 0, d |-> d, kind |-> "none", moved |-> FALSE,
                                 failed |-> FALSE, zero |-> FALSE, last |-> None]>>
  /\ details = None
  /\ ingest = "idle"
  /\ sub = None
  /\ wire = <<>>
  /\ \E want \in Filters : source = [want |-> want, lastId |-> 0]
  /\ page = [at |-> "asked"]
  /\ view = [row |-> None, base |-> 0, pos |-> 0, floor |-> 0, owed |-> -1]
  /\ breaks = 0

------------------------------------------------------------------------------
\* The daemon

\* ingest_batch asks for subscribers before it takes the lock.
StartIngest ==
  /\ ingest = "idle" /\ Seq0 < MaxSeq
  /\ ingest' = IF sub = None THEN "unheard" ELSE "heard"
  /\ UNCHANGED <<hist, details, sub, wire, source, page, view, breaks>>

\* State, end reason, Application and domains tell details apart; the profile of
\* the remote address, the interface and the name of the Application do not.
flow_detail_signature(d) == Signature[d]

\* Variants: a flow that was ever sent is patched; only changed details are sent.
KindOnce(moved, failed, d) ==
  IF ~moved \/ failed THEN "none" ELSE IF details = None THEN "full" ELSE "patch"
KindChanged(moved, failed, d) ==
  IF ~moved \/ failed \/ details = flow_detail_signature(d) THEN "none" ELSE "full"

\* The live representation: nothing of a row that did not move or whose ingest
\* failed, a patch while the signature is the one last sent.
Kind(moved, failed, d) ==
  IF ~moved \/ failed THEN "none"
  ELSE IF details = flow_detail_signature(d) THEN "patch" ELSE "full"

\* The counters of the overview are computed for subscribers only, and not at
\* all in the event of a failed ingest.
Zero(moved, failed) == failed \/ ingest = "unheard"

\* The end of an interval in which the row moved, or only its details changed,
\* or whose ingest failed after the row was stored.  An update that does not move
\* the row or closes it, a full map, cleared history and new settings forget the
\* signature.  The row is stored under the lock and the event broadcast after it,
\* here in one step.
Sent(moved, failed, d) ==
  LET kind == Kind(moved, failed, d)
      kept == IF kind = "none" THEN details ELSE flow_detail_signature(d)
  IN /\ details' \in IF failed THEN {details} ELSE {kept, None}
     /\ hist' = Append(hist, [n |-> At(Seq0).n + (IF moved THEN 1 ELSE 0), d |-> d, kind |-> kind,
                              moved |-> moved /\ ~failed, failed |-> failed,
                              zero |-> Zero(moved, failed), last |-> details'])

Send ==
  /\ ingest # "idle"
  /\ \/ \E moved \in BOOLEAN, d \in Detail : Sent(moved, FALSE, d)
     \/ Sent(TRUE, TRUE, At(Seq0).d)
  /\ ingest' = "idle"
  /\ UNCHANGED <<sub, wire, source, page, view, breaks>>

TickFrame(s) == [event |-> "tick", id |-> s]
ResyncFrame(to) == [event |-> "resync", to |-> to]

\* stream: a new receiver, and a first event for a request with Last-Event-ID.
Subscribe ==
  /\ sub = None
  /\ sub' = [next |-> Seq0 + 1, from |-> Seq0 + 1, resumed |-> source.lastId # 0]
  /\ view' = IF source.lastId # 0 THEN view ELSE [view EXCEPT !.pos = Seq0, !.floor = Seq0]
  /\ UNCHANGED <<hist, details, ingest, wire, source, page, breaks>>

\* The body of the response: the first event, a gap that the channel reports,
\* or the next interval.
Serve ==
  /\ sub # None /\ Len(wire) < WireCap
  /\ \/ /\ sub.resumed
        /\ wire' = Append(wire, ResyncFrame(sub.next - 1))
        /\ sub' = [sub EXCEPT !.resumed = FALSE]
     \/ /\ ~sub.resumed /\ Seq0 - sub.next >= Backlog
        /\ wire' = Append(wire, ResyncFrame(Seq0 - Backlog))
        /\ sub' = [sub EXCEPT !.next = Seq0 - Backlog + 1]
     \/ /\ ~sub.resumed /\ sub.next <= Seq0 /\ Seq0 - sub.next < Backlog
        /\ wire' = Append(wire, TickFrame(sub.next))
        /\ sub' = [sub EXCEPT !.next = @ + 1]
  /\ UNCHANGED <<hist, details, ingest, source, page, view, breaks>>

\* db_read of the list, with the filter of the page.
ReadPage ==
  /\ page.at = "asked"
  /\ page' = [at |-> "read", base |-> Seq0,
              row |-> IF At(Seq0).d \in source.want THEN [n |-> At(Seq0).n, d |-> At(Seq0).d]
                      ELSE None]
  /\ UNCHANGED <<hist, details, ingest, sub, wire, source, view, breaks>>

------------------------------------------------------------------------------
\* The page

\* A tick has the flows the filter matches: full records replace the row,
\* patches its counters; a row that is not listed is not added.
Merged(row, s) ==
  IF row = None \/ At(s).d \notin source.want THEN row
  ELSE CASE At(s).kind = "none" -> row
         [] At(s).kind = "patch" -> [row EXCEPT !.n = At(s).n]
         [] At(s).kind = "full" -> [n |-> At(s).n, d |-> At(s).d]

ReceiveTick ==
  /\ wire # <<>> /\ Head(wire).event = "tick"
  /\ LET s == Head(wire).id
     IN /\ view' = [view EXCEPT !.row = Merged(@, s), !.pos = s]
        /\ source' = [source EXCEPT !.lastId = s]
  /\ wire' = Tail(wire)
  /\ UNCHANGED <<hist, details, ingest, sub, page, breaks>>

\* Variant: a request that is under way is kept.
ReceiveResyncKeeping ==
  /\ wire # <<>> /\ Head(wire).event = "resync"
  /\ view' = [view EXCEPT !.pos = Head(wire).to, !.floor = Head(wire).to,
                          !.owed = Head(wire).to]
  /\ page' = IF page.at = "none" THEN [at |-> "asked"] ELSE page
  /\ wire' = Tail(wire)
  /\ UNCHANGED <<hist, details, ingest, sub, source, breaks>>

\* Variant: nothing is loaded again.
ReceiveResyncOnly ==
  /\ wire # <<>> /\ Head(wire).event = "resync"
  /\ view' = [view EXCEPT !.pos = Head(wire).to, !.floor = Head(wire).to,
                          !.owed = Head(wire).to]
  /\ wire' = Tail(wire)
  /\ UNCHANGED <<hist, details, ingest, sub, source, page, breaks>>

\* notifyResync: every query is invalidated, a request under way is given up.
ReceiveResync ==
  /\ wire # <<>> /\ Head(wire).event = "resync"
  /\ view' = [view EXCEPT !.pos = Head(wire).to, !.floor = Head(wire).to,
                          !.owed = Head(wire).to]
  /\ page' = [at |-> "asked"]
  /\ wire' = Tail(wire)
  /\ UNCHANGED <<hist, details, ingest, sub, source, breaks>>

\* The page replaces what the list shows, ticks taken in since included.
PageArrives ==
  /\ page.at = "read"
  /\ view' = [view EXCEPT !.row = page.row, !.base = page.base,
                          !.floor = IF page.base < view.pos THEN view.pos ELSE @,
                          !.owed = -1]
  /\ page' = [at |-> "none"]
  /\ UNCHANGED <<hist, details, ingest, sub, wire, source, breaks>>

\* Every sixth tick the list is read again.
Refresh ==
  /\ page.at = "none"
  /\ page' = [at |-> "asked"]
  /\ UNCHANGED <<hist, details, ingest, sub, wire, source, view, breaks>>

\* The connection is lost; the EventSource will ask again with its last id.
Lose ==
  /\ sub # None /\ breaks < MaxBreaks
  /\ sub' = None /\ wire' = <<>>
  /\ breaks' = breaks + 1
  /\ UNCHANGED <<hist, details, ingest, source, page, view>>

\* setStreamQuery with another filter, or a page that was hidden: a new
\* EventSource, and the list is read again.
Reopen ==
  /\ breaks < MaxBreaks
  /\ \E want \in Filters : source' = [want |-> want, lastId |-> 0]
  /\ sub' = None /\ wire' = <<>>
  /\ view' = [view EXCEPT !.floor = view.pos, !.owed = view.pos]
  /\ page' = [at |-> "asked"]
  /\ breaks' = breaks + 1
  /\ UNCHANGED <<hist, details, ingest>>

Daemon == StartIngest \/ Send
Server == Subscribe \/ Serve \/ ReadPage
Page == ReceiveTick \/ ReceiveResync \/ PageArrives

Next == Daemon \/ Server \/ Page \/ Refresh \/ Lose \/ Reopen

\* The runtime of the daemon and of the browser run what is ready, and answer
\* what is asked; intervals, reloads and breaks come as they like.
Fairness == /\ WF_vars(Serve) /\ WF_vars(ReadPage) /\ WF_vars(Subscribe)
            /\ WF_vars(ReceiveTick) /\ WF_vars(ReceiveResync) /\ WF_vars(PageArrives)

Spec == Init /\ [][Next]_vars
FairSpec == Spec /\ Fairness

------------------------------------------------------------------------------
\* Properties

\* Intervals reach the page one by one, and whatever it does not get is
\* announced and owed, until a snapshot read no earlier is shown: the stream
\* implements its abstract specification (api/mod.rs:695 "receive a `resync`
\* event instead of silently missing updates").
Feed == INSTANCE LiveFeed WITH published <- Seq0, pos <- view.pos, owed <- view.owed,
                               shown <- view.base
FeedSpec == Feed!FeedSpec

\* The intervals that moved the row and count for the row as it is shown.
Heard == {s \in (view.floor + 1)..view.pos : At(s).moved /\ At(s).d \in source.want}

\* Whatever the order in which pages and ticks overtake each other, the counters
\* on the page are not older than the last movement it has heard of, nor newer
\* than the interval it is at (db.rs:1181 the choice of patches, dto.rs:990).
RowIsCurrent ==
  view.row # None /\ view.pos >= view.base =>
    view.row.n <= At(view.pos).n /\ \A s \in Heard : At(s).n <= view.row.n

\* Ticks that carry zeros for the counters over the whole history.
ZeroTaken(s) == view.pos = s /\ At(s).zero /\ ~At(s).failed /\ sub # None /\ sub.from <= s

\* A page that stays connected sees zero counters at most once, with the first
\* interval of its connection (api/mod.rs:233 receiver_count).
ZeroOnlyAtOpening == \A s \in 1..Seq0 : ZeroTaken(s) => s = sub.from

\* What the page counts, in its row and over the whole history, is current.
CountersCurrent == RowIsCurrent /\ ZeroOnlyAtOpening

\* A compact patch never hides details the signature tells apart: a page that was
\* read while the signature was the one last sent shows details with the signature
\* of the last movement.  Of a filter that tells more apart (q looks at the interface
\* and the name of the Application, dto.rs:1223) this cannot be said: a change it
\* hides may be patched later.  (db.rs:1181 "descriptive changes", db.rs:4445)
Respecting(want) ==
  \A d, e \in Detail :
    flow_detail_signature(d) = flow_detail_signature(e) /\ d \in want => e \in want
DetailsFollow ==
  \A s \in Heard :
    /\ view.row # None /\ view.owed = -1 /\ view.floor <= view.base
    /\ At(view.base).last = flow_detail_signature(At(view.base).d)
    /\ Respecting(source.want)
    /\ s > view.base /\ (\A t \in Heard : t <= s)
    => flow_detail_signature(view.row.d) = flow_detail_signature(At(s).d)

\* A snapshot that is owed is shown at some time, even when resyncs keep
\* interrupting its request, once they stop (store.ts notifyResync).
Repaired == view.owed # -1 ~> view.owed = -1
=============================================================================
