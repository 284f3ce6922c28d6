------------------------------- MODULE LiveFeed --------------------------------
(***************************************************************************)
(* What the live stream promises one reader (the doc comment of stream,    *)
(* api/mod.rs): intervals reach it one after the other; when some do not,  *)
(* it is told, and the snapshot it shows afterwards was read no earlier    *)
(* than the gap.  LiveStream implements this.                              *)
(***************************************************************************)
EXTENDS Integers

VARIABLES published,   \* intervals the daemon has sent
          pos,         \* the last interval the reader has taken in or given up
          owed,        \* the end of the gap it was told of, or -1
          shown        \* the interval of the snapshot it shows

feedVars == <<published, pos, owed, shown>>

FeedInit == published = 0 /\ pos = 0 /\ owed = -1 /\ shown = 0

Publish == published' = published + 1 /\ UNCHANGED <<pos, owed, shown>>

\* The next interval, and never another one.
Take == pos < published /\ pos' = pos + 1 /\ UNCHANGED <<published, owed, shown>>

\* A gap of any length is announced.
Announce ==
  \E to \in pos..published : pos' = to /\ owed' = to /\ UNCHANGED <<published, shown>>

\* The reader connects anew, of its own accord, and starts from what is current.
Connect == pos' = published /\ UNCHANGED <<published, owed, shown>>

\* The reader shows a snapshot, which covers any gap it was told of.
Show == \E at \in owed..published : at >= 0 /\ shown' = at /\ owed' = -1 /\ UNCHANGED <<published, pos>>

FeedNext == Publish \/ Take \/ Announce \/ Connect \/ Show
FeedSpec == FeedInit /\ [][FeedNext]_feedVars
=============================================================================
