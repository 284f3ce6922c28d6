--------------------------- MODULE LiveStreamProofs ---------------------------
(***************************************************************************)
(* LiveStream implements LiveFeed, and what it shows is current, for any   *)
(* details, filters, backlog, number of intervals and breaks.              *)
(*                                                                         *)
(* What makes it so is the chain of what is on its way to the page: each   *)
(* frame continues where the one before it, or the page, stands, and the   *)
(* receiver of the connection where the last one does.  And a snapshot     *)
(* that is under way was read no earlier than the gap the page was last    *)
(* told of, because every resync gives up the request before it.           *)
(***************************************************************************)
EXTENDS LiveStream, TLAPS

Row == {None} \cup [n : Nat, d : Detail]
Interval == [n : Nat, d : Detail, kind : {"none", "patch", "full"}, moved : BOOLEAN,
             failed : BOOLEAN, zero : BOOLEAN, last : Detail \cup {None}]
Tick == [event : {"tick"}, id : Nat]
Resync == [event : {"resync"}, to : Nat]

StreamTypeOK ==
  /\ hist \in Seq(Interval) /\ Len(hist) >= 1
  /\ details \in Detail \cup {None}
  /\ ingest \in {"idle", "heard", "unheard"}
  /\ sub # None => sub \in [next : Nat \ {0}, from : Nat, resumed : BOOLEAN]
  /\ wire \in Seq(Tick \cup Resync)
  /\ source \in [want : Filters, lastId : Nat]
  /\ page \in [at : {"none", "asked"}] \cup [at : {"read"}, base : Nat, row : Row]
  /\ view \in [row : Row, base : Nat, pos : Nat, floor : Nat, owed : Nat \cup {-1}]

\* Where the page stands after the first i frames on their way to it.
Reached(frame) == IF frame.event = "tick" THEN frame.id ELSE frame.to
After(i) == IF i = 0 THEN view.pos ELSE Reached(wire[i])

FramesFollow ==
  \A i \in 1..Len(wire) :
    /\ After(i) <= Seq0
    /\ wire[i].event = "tick" => wire[i].id = After(i - 1) + 1
    /\ wire[i].event = "resync" => wire[i].to >= After(i - 1)
ReceiverFollows ==
  IF sub = None THEN wire = <<>>
  ELSE /\ sub.next <= Seq0 + 1
       /\ sub.resumed => wire = <<>> /\ view.pos < sub.next
       /\ ~sub.resumed => After(Len(wire)) = sub.next - 1
Chained == view.pos <= Seq0 /\ FramesFollow /\ ReceiverFollows

Repairing ==
  /\ view.base <= Seq0 /\ view.owed <= Seq0
  /\ page.at = "read" => view.owed <= page.base /\ page.base <= Seq0

StreamInvariant == StreamTypeOK /\ Chained /\ Repairing

------------------------------------------------------------------------------
\* The stream begins with an empty chain and nothing owed.
LEMMA StreamStarts == ASSUME Init PROVE StreamInvariant
  <1> USE StreamAssumption DEF Init
  <1>1. StreamTypeOK
    BY DEF StreamTypeOK, Row, Interval, Tick, Resync
  <1>2. Chained
    BY DEF Chained, FramesFollow, ReceiverFollows, After, Seq0
  <1>3. Repairing
    BY DEF Repairing, Seq0
  <1> QED BY <1>1, <1>2, <1>3 DEF StreamInvariant

LEMMA ReachedIsNat == \A frame \in Tick \cup Resync : Reached(frame) \in Nat
  BY DEF Reached, Tick, Resync

\* The chain is as good as before when more intervals have been sent.
LEMMA ChainGrows ==
  ASSUME StreamTypeOK, Chained, wire' = wire, sub' = sub, view'.pos = view.pos,
         Seq0 \in Nat, Seq0' \in Nat, Seq0 <= Seq0'
  PROVE  Chained'
  <1>1. \A i \in 0..Len(wire) : After(i) \in Int
    BY DEF After, Reached, StreamTypeOK, Tick, Resync
  <1>2. \A i : After(i)' = After(i)
    BY DEF After
  <1>3. (view.pos <= Seq0)'
    BY DEF Chained, StreamTypeOK
  <1>4. FramesFollow'
    <2> SUFFICES ASSUME NEW i \in 1..Len(wire)
                 PROVE  /\ After(i)' <= Seq0'
                        /\ wire[i].event = "tick" => wire[i].id = After(i - 1)' + 1
                        /\ wire[i].event = "resync" => wire[i].to >= After(i - 1)'
      BY DEF FramesFollow
    <2> QED BY <1>1, <1>2 DEF Chained, FramesFollow, StreamTypeOK
  <1>5. ReceiverFollows'
    BY <1>2 DEF Chained, ReceiverFollows, StreamTypeOK
  <1> QED BY <1>3, <1>4, <1>5 DEF Chained

LEMMA SeqIsNat == ASSUME StreamTypeOK PROVE Seq0 \in Nat
  BY DEF StreamTypeOK, Seq0

\* The broadcast of an interval.
LEMMA SendAdds ==
  ASSUME StreamTypeOK, Send
  PROVE  /\ hist' \in Seq(Interval) /\ Len(hist') = Len(hist) + 1
         /\ details' \in Detail \cup {None}
  <1> USE StreamAssumption DEF Send
  <1>1. PICK moved \in BOOLEAN, failed \in BOOLEAN, d \in Detail : Sent(moved, failed, d)
    <2>1. At(Seq0) \in Interval
      BY DEF At, Seq0, StreamTypeOK
    <2> QED BY <2>1 DEF Interval
  <1>2. details' \in Detail \cup {None}
    <2>1. flow_detail_signature(d) \in Detail
      BY DEF flow_detail_signature
    <2> QED BY <1>1, <2>1 DEF Sent, StreamTypeOK
  <1>3. /\ hist' \in Seq(Interval) /\ Len(hist') = Len(hist) + 1
    <2>1. At(Seq0) \in Interval
      BY DEF At, Seq0, StreamTypeOK
    <2>2. Kind(moved, failed, d) \in {"none", "patch", "full"}
      BY DEF Kind
    <2>3. Zero(moved, failed) \in BOOLEAN
      BY DEF Zero
    <2>4. [n |-> At(Seq0).n + (IF moved THEN 1 ELSE 0), d |-> d, kind |-> Kind(moved, failed, d),
           moved |-> moved /\ ~failed, failed |-> failed,
           zero |-> Zero(moved, failed), last |-> details'] \in Interval
      BY <1>2, <2>1, <2>2, <2>3 DEF Interval
    <2> QED BY <1>1, <2>4 DEF Sent, StreamTypeOK
  <1> QED BY <1>2, <1>3

LEMMA StreamSendKeeps == ASSUME StreamInvariant, Send PROVE StreamInvariant'
  <1> USE DEF StreamInvariant
  <1>1. StreamTypeOK'
    <2>1. ingest' = "idle" /\ UNCHANGED <<sub, wire, source, page, view>>
      BY DEF Send
    <2>2. /\ hist' \in Seq(Interval) /\ Len(hist') = Len(hist) + 1
          /\ details' \in Detail \cup {None}
      BY SendAdds
    <2> QED BY <2>1, <2>2 DEF StreamTypeOK
  <1>2. Seq0' = Seq0 + 1
    BY SendAdds DEF Seq0, StreamTypeOK
  <1>3. Chained'
    BY <1>2, ChainGrows, SeqIsNat DEF Send
  <1>4. Repairing'
    BY <1>2 DEF Send, Repairing, StreamTypeOK, Seq0, Row
  <1> QED BY <1>1, <1>3, <1>4

LEMMA StreamOthersKeep ==
  ASSUME StreamInvariant, StartIngest \/ ReadPage \/ PageArrives \/ Refresh
  PROVE  StreamInvariant'
  <1> USE StreamAssumption DEF StreamInvariant
  <1>1. Seq0' = Seq0 /\ Seq0 \in Nat
    BY SeqIsNat DEF StartIngest, ReadPage, PageArrives, Refresh, Seq0
  <1>2. CASE StartIngest
    <2>1. StreamTypeOK'
      BY <1>2 DEF StartIngest, StreamTypeOK
    <2>2. Chained'
      BY <1>1, <1>2, ChainGrows DEF StartIngest
    <2>3. Repairing'
      BY <1>1, <1>2 DEF StartIngest, Repairing
    <2> QED BY <2>1, <2>2, <2>3
  <1>3. CASE ReadPage
    <2>1. At(Seq0) \in Interval
      BY DEF At, Seq0, StreamTypeOK
    <2>2. page' \in [at : {"read"}, base : Nat, row : Row] /\ page'.base = Seq0
      BY <1>1, <1>3, <2>1 DEF ReadPage, Row, Interval
    <2>3. StreamTypeOK'
      BY <1>3, <2>2 DEF ReadPage, StreamTypeOK
    <2>4. Chained'
      BY <1>1, <1>3, ChainGrows DEF ReadPage
    <2>5. Repairing'
      BY <1>1, <1>3, <2>2 DEF ReadPage, Repairing
    <2> QED BY <2>3, <2>4, <2>5
  <1>4. CASE PageArrives
    <2>1. page \in [at : {"read"}, base : Nat, row : Row]
      BY <1>4 DEF PageArrives, StreamTypeOK
    <2>2. /\ view' \in [row : Row, base : Nat, pos : Nat, floor : Nat, owed : Nat \cup {-1}]
          /\ view'.pos = view.pos /\ view'.base = page.base /\ view'.owed = -1
      BY <1>4, <2>1 DEF PageArrives, StreamTypeOK
    <2>3. StreamTypeOK'
      BY <1>4, <2>2 DEF PageArrives, StreamTypeOK
    <2>4. Chained'
      BY <1>1, <1>4, <2>2, ChainGrows DEF PageArrives
    <2>5. Repairing'
      BY <1>1, <1>4, <2>1, <2>2 DEF PageArrives, Repairing
    <2> QED BY <2>3, <2>4, <2>5
  <1>5. CASE Refresh
    <2>1. StreamTypeOK'
      BY <1>5 DEF Refresh, StreamTypeOK
    <2>2. Chained'
      BY <1>1, <1>5, ChainGrows DEF Refresh
    <2>3. Repairing'
      BY <1>1, <1>5 DEF Refresh, Repairing
    <2> QED BY <2>1, <2>2, <2>3
  <1> QED BY <1>2, <1>3, <1>4, <1>5

\* A new connection, and the loss of one.
LEMMA StreamConnectionKeeps ==
  ASSUME StreamInvariant, Subscribe \/ Lose \/ Reopen
  PROVE  StreamInvariant'
  <1> USE StreamAssumption DEF StreamInvariant
  <1>1. Seq0' = Seq0 /\ Seq0 \in Nat
    BY SeqIsNat DEF Subscribe, Lose, Reopen, Seq0
  <1>2. CASE Subscribe
    <2>1. wire = <<>> /\ Len(wire) = 0
      BY <1>2 DEF Subscribe, Chained, ReceiverFollows
    <2>2. /\ view' \in [row : Row, base : Nat, pos : Nat, floor : Nat, owed : Nat \cup {-1}]
          /\ view'.base = view.base /\ view'.owed = view.owed
          /\ view'.pos \in {view.pos, Seq0} /\ (source.lastId = 0 => view'.pos = Seq0)
      BY <1>1, <1>2 DEF Subscribe, StreamTypeOK
    <2>3. sub' = [next |-> Seq0 + 1, from |-> Seq0 + 1, resumed |-> source.lastId # 0]
      BY <1>2 DEF Subscribe
    <2>4. StreamTypeOK'
      BY <1>1, <1>2, <2>2, <2>3 DEF Subscribe, StreamTypeOK
    <2>5. Chained'
      <3>1. wire' = <<>> /\ Len(wire') = 0
        BY <1>2, <2>1 DEF Subscribe
      <3>2. After(Len(wire))' = view'.pos
        BY <3>1 DEF After
      <3>3. sub' # None => ReceiverFollows'
        <4>1. sub'.next = Seq0 + 1 /\ (sub'.resumed <=> source.lastId # 0)
          BY <2>3
        <4>2. view'.pos <= Seq0
          BY <1>1, <2>2 DEF Chained
        <4>3. ~sub'.resumed => After(Len(wire))' = sub'.next - 1
          <5> SUFFICES ASSUME ~sub'.resumed PROVE After(Len(wire))' = sub'.next - 1
            OBVIOUS
          <5>1. view'.pos = Seq0
            BY <2>2, <4>1
          <5> QED BY <1>1, <3>2, <4>1, <5>1
        <4>4. view'.pos < sub'.next
          BY <1>1, <2>2, <4>1, <4>2
        <4> QED BY <1>1, <3>1, <4>1, <4>3, <4>4 DEF ReceiverFollows
      <3>4. FramesFollow' /\ (view.pos <= Seq0)'
        BY <1>1, <2>2, <3>1 DEF FramesFollow, Chained, StreamTypeOK
      <3>5. sub' = None => ReceiverFollows'
        BY <3>1 DEF ReceiverFollows
      <3> QED BY <3>3, <3>4, <3>5 DEF Chained
    <2>6. Repairing'
      BY <1>1, <1>2, <2>2 DEF Subscribe, Repairing
    <2> QED BY <2>4, <2>5, <2>6
  <1>3. CASE Lose
    <2>1. StreamTypeOK'
      BY <1>3 DEF Lose, StreamTypeOK
    <2>2. Chained'
      BY <1>1, <1>3 DEF Lose, Chained, FramesFollow, ReceiverFollows
    <2>3. Repairing'
      BY <1>1, <1>3 DEF Lose, Repairing
    <2> QED BY <2>1, <2>2, <2>3
  <1>4. CASE Reopen
    <2>1. /\ view' \in [row : Row, base : Nat, pos : Nat, floor : Nat, owed : Nat \cup {-1}]
          /\ view'.base = view.base /\ view'.owed = view.pos /\ view'.pos = view.pos
      BY <1>4 DEF Reopen, StreamTypeOK
    <2>2. StreamTypeOK'
      BY <1>4, <2>1 DEF Reopen, StreamTypeOK
    <2>3. Chained'
      BY <1>1, <1>4, <2>1 DEF Reopen, Chained, FramesFollow, ReceiverFollows
    <2>4. Repairing'
      BY <1>1, <1>4, <2>1 DEF Reopen, Repairing, Chained
    <2> QED BY <2>2, <2>3, <2>4
  <1> QED BY <1>2, <1>3, <1>4

\* The response writes a frame that goes on from the last one.
LEMMA StreamServeKeeps ==
  ASSUME StreamInvariant, Serve
  PROVE  StreamInvariant'
  <1> USE StreamAssumption DEF StreamInvariant
  <1>1. Seq0' = Seq0 /\ Seq0 \in Nat
    BY SeqIsNat DEF Serve, Seq0
  <1>2. sub \in [next : Nat \ {0}, from : Nat, resumed : BOOLEAN] /\ wire \in Seq(Tick \cup Resync)
    BY DEF Serve, StreamTypeOK
  <1>3. After(Len(wire)) \in Nat /\ After(Len(wire)) < sub.next
    <2>1. CASE sub.resumed
      <3>1. Len(wire) = 0 /\ view.pos < sub.next
        BY <2>1 DEF Serve, Chained, ReceiverFollows
      <3> QED BY <3>1 DEF After, StreamTypeOK
    <2>2. CASE ~sub.resumed
      <3>1. After(Len(wire)) = sub.next - 1
        BY <2>2 DEF Serve, Chained, ReceiverFollows
      <3> QED BY <1>2, <3>1
    <2> QED BY <2>1, <2>2
  <1>4. PICK frame \in Tick \cup Resync :
          /\ wire' = Append(wire, frame)
          /\ frame.event = "tick" => frame.id = After(Len(wire)) + 1
          /\ frame.event = "resync" => frame.to >= After(Len(wire))
          /\ Reached(frame) <= Seq0
          /\ sub' \in [next : Nat \ {0}, from : Nat, resumed : BOOLEAN]
          /\ sub'.next = Reached(frame) + 1 /\ ~sub'.resumed
    <2>1. CASE sub.resumed /\ wire' = Append(wire, ResyncFrame(sub.next - 1))
               /\ sub' = [sub EXCEPT !.resumed = FALSE]
      <3>1. /\ ResyncFrame(sub.next - 1) \in Resync
            /\ ResyncFrame(sub.next - 1).event = "resync"
            /\ ResyncFrame(sub.next - 1).to = sub.next - 1
            /\ Reached(ResyncFrame(sub.next - 1)) = sub.next - 1
        BY <1>2 DEF ResyncFrame, Resync, Reached
      <3>2. sub' \in [next : Nat \ {0}, from : Nat, resumed : BOOLEAN]
        BY <1>2, <2>1
      <3>3. sub'.next = (sub.next - 1) + 1 /\ ~sub'.resumed
        BY <1>2, <2>1
      <3>4. sub.next - 1 <= Seq0
        BY <1>1, <1>2 DEF Serve, Chained, ReceiverFollows
      <3> QED BY <1>2, <1>3, <2>1, <3>1, <3>2, <3>3, <3>4
    <2>2. CASE Seq0 - sub.next >= Backlog
               /\ wire' = Append(wire, ResyncFrame(Seq0 - Backlog))
               /\ sub' = [sub EXCEPT !.next = Seq0 - Backlog + 1] /\ ~sub.resumed
      <3>1. Seq0 - Backlog \in Nat /\ Seq0 - Backlog >= sub.next /\ Seq0 - Backlog <= Seq0
        BY <1>1, <1>2, <2>2
      <3>2. /\ ResyncFrame(Seq0 - Backlog) \in Resync
            /\ ResyncFrame(Seq0 - Backlog).event = "resync"
            /\ ResyncFrame(Seq0 - Backlog).to = Seq0 - Backlog
            /\ Reached(ResyncFrame(Seq0 - Backlog)) = Seq0 - Backlog
        BY <3>1 DEF ResyncFrame, Resync, Reached
      <3>3. sub' \in [next : Nat \ {0}, from : Nat, resumed : BOOLEAN]
        <4> DEFINE n == Seq0 - Backlog + 1
        <4>1. n \in Nat \ {0}
          BY <3>1
        <4>2. sub' = [sub EXCEPT !.next = n]
          BY <2>2
        <4> HIDE DEF n
        <4> QED BY <1>2, <4>1, <4>2
      <3>4. sub'.next = (Seq0 - Backlog) + 1 /\ ~sub'.resumed
        BY <1>2, <2>2
      <3> QED BY <1>2, <1>3, <2>2, <3>1, <3>2, <3>3, <3>4
    <2>3. CASE sub.next <= Seq0
               /\ wire' = Append(wire, TickFrame(sub.next))
               /\ sub' = [sub EXCEPT !.next = @ + 1] /\ ~sub.resumed
      <3>1. /\ TickFrame(sub.next) \in Tick
            /\ TickFrame(sub.next).event = "tick" /\ TickFrame(sub.next).id = sub.next
            /\ Reached(TickFrame(sub.next)) = sub.next
        BY <1>2 DEF TickFrame, Tick, Reached
      <3>2. After(Len(wire)) = sub.next - 1
        BY <2>3 DEF Serve, Chained, ReceiverFollows
      <3>3. sub' \in [next : Nat \ {0}, from : Nat, resumed : BOOLEAN]
        <4> DEFINE n == sub.next + 1
        <4>1. n \in Nat \ {0} /\ sub' = [sub EXCEPT !.next = n]
          BY <1>2, <2>3
        <4> HIDE DEF n
        <4> QED BY <1>2, <4>1
      <3>4. sub'.next = sub.next + 1 /\ ~sub'.resumed
        BY <1>2, <2>3
      <3> QED BY <1>2, <2>3, <3>1, <3>2, <3>3, <3>4
    <2> QED BY <2>1, <2>2, <2>3 DEF Serve
  <1>5. wire' \in Seq(Tick \cup Resync) /\ Len(wire') = Len(wire) + 1 /\ Len(wire) \in Nat
        /\ wire'[Len(wire')] = frame /\ \A i \in 1..Len(wire) : wire'[i] = wire[i]
    BY <1>2, <1>4
  <1>6. StreamTypeOK'
    BY <1>4, <1>5 DEF Serve, StreamTypeOK
  <1>7. \A i \in 0..Len(wire) : After(i)' = After(i)
    BY <1>5 DEF After, Serve
  <1>8. After(Len(wire))' = Reached(frame) /\ Reached(frame) \in Nat
    BY <1>4, <1>5, ReachedIsNat DEF After
  <1>9. FramesFollow'
    <2> SUFFICES ASSUME NEW i \in 1..Len(wire')
                 PROVE  /\ After(i)' <= Seq0'
                        /\ wire'[i].event = "tick" => wire'[i].id = After(i - 1)' + 1
                        /\ wire'[i].event = "resync" => wire'[i].to >= After(i - 1)'
      BY DEF FramesFollow
    <2>1. CASE i = Len(wire')
      <3>1. wire'[i] = frame /\ i - 1 = Len(wire) /\ After(i)' = Reached(frame)
        BY <1>5, <1>8, <2>1
      <3>2. After(i - 1)' = After(Len(wire))
        BY <1>5, <1>7, <3>1
      <3> QED BY <1>1, <1>4, <3>1, <3>2
    <2>2. CASE i # Len(wire')
      <3>1. i \in 1..Len(wire) /\ i - 1 \in 0..Len(wire) /\ wire'[i] = wire[i]
        BY <1>5, <2>2
      <3> QED BY <1>1, <1>7, <3>1 DEF Chained, FramesFollow
    <2> QED BY <2>1, <2>2
  <1>10. ReceiverFollows'
    <2>1. sub'.next <= Seq0 + 1 /\ After(Len(wire))' = sub'.next - 1
      BY <1>1, <1>4, <1>8
    <2>2. wire' # <<>>
      BY <1>5
    <2>3. sub' # None
      BY <1>4
    <2> QED BY <1>1, <1>4, <2>1, <2>3 DEF ReceiverFollows
  <1>11. Repairing'
    BY <1>1 DEF Serve, Repairing
  <1>12. (view.pos <= Seq0)'
    BY <1>1 DEF Serve, Chained
  <1> QED BY <1>6, <1>9, <1>10, <1>11, <1>12 DEF Chained

\* The page takes in the first frame, and everything behind it moves up.
LEMMA StreamReceiveKeeps ==
  ASSUME StreamInvariant, ReceiveTick \/ ReceiveResync
  PROVE  StreamInvariant'
  <1> USE StreamAssumption DEF StreamInvariant
  <1>1. Seq0' = Seq0 /\ Seq0 \in Nat
    BY SeqIsNat DEF ReceiveTick, ReceiveResync, Seq0
  <1>2. wire \in Seq(Tick \cup Resync) /\ wire # <<>> /\ Len(wire) \in Nat \ {0}
    BY DEF ReceiveTick, ReceiveResync, StreamTypeOK
  <1>3. wire' = Tail(wire) /\ sub' = sub
    BY DEF ReceiveTick, ReceiveResync
  <1>4. /\ wire' \in Seq(Tick \cup Resync) /\ Len(wire') = Len(wire) - 1
        /\ \A i \in 1..Len(wire') : wire'[i] = wire[i + 1]
    BY <1>2, <1>3
  <1>5. Head(wire) = wire[1] /\ wire[1] \in Tick \cup Resync
    BY <1>2
  <1>6. After(0) = view.pos /\ After(1) <= Seq0
    BY <1>2 DEF After, Chained, FramesFollow
  <1>7. /\ view' \in [row : Row, base : Nat, pos : Nat, floor : Nat, owed : Nat \cup {-1}]
        /\ view'.pos = After(1) /\ view'.base = view.base /\ view'.owed \in {view.owed, After(1)}
        /\ page'.at = "read" => page' = page /\ view'.owed = view.owed
    <2>1. CASE ReceiveTick
      <3> DEFINE s == wire[1].id
      <3>1. s \in Nat /\ After(1) = s
        BY <1>5, <2>1 DEF ReceiveTick, After, Reached, Tick, Resync
      <3>2. s <= Seq0
        BY <1>6, <3>1
      <3>3. At(s) \in Interval
        BY <3>1, <3>2 DEF At, Seq0, StreamTypeOK
      <3>4. Merged(view.row, s) \in Row
        BY <3>3 DEF Merged, Row, Interval, StreamTypeOK
      <3>5. view' = [view EXCEPT !.row = Merged(view.row, s), !.pos = s] /\ page' = page
        BY <1>5, <2>1 DEF ReceiveTick
      <3> QED BY <3>1, <3>4, <3>5 DEF StreamTypeOK
    <2>2. CASE ReceiveResync
      <3>1. wire[1].to \in Nat /\ After(1) = wire[1].to
        BY <1>5, <2>2 DEF ReceiveResync, After, Reached, Tick, Resync
      <3> QED BY <1>5, <2>2, <3>1 DEF ReceiveResync, StreamTypeOK
    <2> QED BY <2>1, <2>2
  <1>8. StreamTypeOK'
    <2>1. source' \in [want : Filters, lastId : Nat]
      <3>1. CASE ReceiveTick
        <4>1. wire[1].id \in Nat
          BY <1>5, <3>1 DEF ReceiveTick, Tick, Resync
        <4> QED BY <1>5, <3>1, <4>1 DEF ReceiveTick, StreamTypeOK
      <3>2. CASE ReceiveResync
        BY <3>2 DEF ReceiveResync, StreamTypeOK
      <3> QED BY <3>1, <3>2
    <2>2. page' \in [at : {"none", "asked"}] \cup [at : {"read"}, base : Nat, row : Row]
      BY DEF ReceiveTick, ReceiveResync, StreamTypeOK
    <2> QED BY <1>3, <1>4, <1>7, <2>1, <2>2 DEF ReceiveTick, ReceiveResync, StreamTypeOK
  <1>9. \A i \in 0..Len(wire') : After(i)' = After(i + 1)
    BY <1>2, <1>4, <1>7 DEF After
  <1>10. FramesFollow'
    <2> SUFFICES ASSUME NEW i \in 1..Len(wire')
                 PROVE  /\ After(i)' <= Seq0'
                        /\ wire'[i].event = "tick" => wire'[i].id = After(i - 1)' + 1
                        /\ wire'[i].event = "resync" => wire'[i].to >= After(i - 1)'
      BY DEF FramesFollow
    <2>1. i + 1 \in 1..Len(wire) /\ i \in 0..Len(wire') /\ i - 1 \in 0..Len(wire') /\ (i - 1) + 1 = i /\ (i + 1) - 1 = i
      BY <1>2, <1>4
    <2>2. After(i)' = After(i + 1) /\ After(i - 1)' = After(i) /\ wire'[i] = wire[i + 1]
      BY <1>4, <1>9, <2>1
    <2> QED BY <1>1, <2>1, <2>2 DEF Chained, FramesFollow
  <1>11. ReceiverFollows' /\ (view.pos <= Seq0)'
    <2>1. sub # None
      BY <1>2 DEF Chained, ReceiverFollows
    <2>2. ~sub.resumed
      BY <1>2, <2>1 DEF Chained, ReceiverFollows
    <2>3. After(Len(wire))' = After(Len(wire))
      <3>1. Len(wire') \in 0..Len(wire') /\ Len(wire') + 1 = Len(wire)
        BY <1>2, <1>4
      <3> QED BY <1>9, <3>1
    <2> QED BY <1>1, <1>3, <1>6, <1>7, <2>1, <2>2, <2>3 DEF Chained, ReceiverFollows
  <1>12. Repairing'
    BY <1>1, <1>6, <1>7 DEF Repairing
  <1> QED BY <1>8, <1>10, <1>11, <1>12 DEF Chained

LEMMA StreamStep == ASSUME StreamInvariant, [Next]_vars PROVE StreamInvariant'
  <1>1. CASE Daemon
    BY <1>1, StreamSendKeeps, StreamOthersKeep DEF Daemon
  <1>2. CASE Server
    BY <1>2, StreamConnectionKeeps, StreamServeKeeps, StreamOthersKeep DEF Server
  <1>3. CASE Page
    BY <1>3, StreamReceiveKeeps, StreamOthersKeep DEF Page
  <1>4. CASE Refresh \/ Lose \/ Reopen
    BY <1>4, StreamConnectionKeeps, StreamOthersKeep
  <1>5. CASE UNCHANGED vars
    <2>1. StreamTypeOK'
      BY <1>5 DEF vars, StreamInvariant, StreamTypeOK
    <2>2. Seq0' = Seq0 /\ Seq0 \in Nat
      BY <1>5, SeqIsNat DEF vars, Seq0, StreamInvariant
    <2>3. Chained'
      BY <1>5, <2>2, ChainGrows DEF vars, StreamInvariant
    <2>4. Repairing'
      BY <1>5, <2>2 DEF vars, StreamInvariant, Repairing
    <2> QED BY <2>1, <2>3, <2>4 DEF StreamInvariant
  <1> QED BY <1>1, <1>2, <1>3, <1>4, <1>5 DEF Next

\* Every variable holds a value of its type, what is on its way to the page is
\* a chain, and a request under way answers what is owed (api/mod.rs stream,
\* store.ts notifyResync).
THEOREM StreamIsChained == Spec => []StreamInvariant
  <1>1. Init => StreamInvariant
    BY StreamStarts
  <1>2. StreamInvariant /\ [Next]_vars => StreamInvariant'
    BY StreamStep
  <1> QED BY <1>1, <1>2, PTL DEF Spec

------------------------------------------------------------------------------
\* Each step of the stream is one of the feed's, or none that the feed can see.
LEMMA StreamStepIsFeedStep ==
  ASSUME StreamInvariant, StreamInvariant', [Next]_vars
  PROVE  [Feed!FeedNext]_(Feed!feedVars)
  <1> USE DEF Feed!feedVars
  <1>0. Seq0 \in Nat /\ view \in [row : Row, base : Nat, pos : Nat, floor : Nat, owed : Nat \cup {-1}]
    BY SeqIsNat DEF StreamInvariant, StreamTypeOK
  <1> DEFINE Unseen == UNCHANGED <<Seq0, view.pos, view.owed, view.base>>
  <1>1. CASE Send
    <2>1. Seq0' = Seq0 + 1
      BY <1>1, SendAdds DEF Seq0, StreamInvariant, StreamTypeOK
    <2>2. Feed!Publish
      BY <1>1, <2>1 DEF Feed!Publish, Send
    <2> QED BY <2>2 DEF Feed!FeedNext
  <1>2. CASE StartIngest \/ Serve \/ ReadPage \/ Refresh \/ Lose \/ UNCHANGED vars
    BY <1>2 DEF StartIngest, Serve, ReadPage, Refresh, Lose, vars, Seq0
  <1>3. CASE Subscribe
    <2>1. Seq0' = Seq0
      BY <1>3 DEF Subscribe, Seq0
    <2>2. CASE source.lastId # 0
      BY <1>3, <2>1, <2>2 DEF Subscribe
    <2>3. CASE source.lastId = 0
      <3>1. view'.pos = Seq0 /\ view'.owed = view.owed /\ view'.base = view.base
        BY <1>0, <1>3, <2>3 DEF Subscribe
      <3>2. Feed!Connect
        BY <2>1, <3>1 DEF Feed!Connect
      <3> QED BY <3>2 DEF Feed!FeedNext
    <2> QED BY <2>2, <2>3
  <1>4. CASE ReceiveTick
    <2>1. /\ wire \in Seq(Tick \cup Resync) /\ wire # <<>> /\ Head(wire) = wire[1]
          /\ 1 \in 1..Len(wire) /\ wire[1].event = "tick"
      BY <1>4 DEF ReceiveTick, StreamInvariant, StreamTypeOK
    <2>2. wire[1].id = view.pos + 1 /\ wire[1].id <= Seq0
      BY <2>1 DEF StreamInvariant, Chained, FramesFollow, After, Reached
    <2>3. view'.pos = wire[1].id /\ view'.owed = view.owed /\ view'.base = view.base
      BY <1>0, <1>4, <2>1 DEF ReceiveTick
    <2>4. Seq0' = Seq0
      BY <1>4 DEF ReceiveTick, Seq0
    <2>5. Feed!Take
      BY <1>0, <2>2, <2>3, <2>4 DEF Feed!Take
    <2> QED BY <2>5 DEF Feed!FeedNext
  <1>5. CASE ReceiveResync
    <2>1. /\ wire \in Seq(Tick \cup Resync) /\ wire # <<>> /\ Head(wire) = wire[1]
          /\ 1 \in 1..Len(wire) /\ wire[1].event = "resync" /\ wire[1] \in Tick \cup Resync
      BY <1>5 DEF ReceiveResync, StreamInvariant, StreamTypeOK
    <2>2. wire[1].to \in view.pos..Seq0
      BY <1>0, <2>1, ReachedIsNat DEF StreamInvariant, Chained, FramesFollow, After, Reached
    <2>3. view'.pos = wire[1].to /\ view'.owed = wire[1].to /\ view'.base = view.base
      BY <1>0, <1>5, <2>1 DEF ReceiveResync
    <2>4. Seq0' = Seq0
      BY <1>5 DEF ReceiveResync, Seq0
    <2>5. Feed!Announce
      BY <2>2, <2>3, <2>4 DEF Feed!Announce
    <2> QED BY <2>5 DEF Feed!FeedNext
  <1>6. CASE PageArrives
    <2>1. page.base \in Nat /\ view.owed <= page.base /\ page.base <= Seq0
      BY <1>6 DEF PageArrives, StreamInvariant, StreamTypeOK, Repairing
    <2>2. view'.base = page.base /\ view'.owed = -1 /\ view'.pos = view.pos
      BY <1>0, <1>6 DEF PageArrives
    <2>3. Seq0' = Seq0
      BY <1>6 DEF PageArrives, Seq0
    <2>4. page.base \in view.owed..Seq0 /\ page.base >= 0
      BY <1>0, <2>1
    <2>5. Feed!Show
      BY <2>2, <2>3, <2>4 DEF Feed!Show
    <2> QED BY <2>5 DEF Feed!FeedNext
  <1>7. CASE Reopen
    <2>1. view'.owed = view.pos /\ view'.pos = view.pos /\ view'.base = view.base
      BY <1>0, <1>7 DEF Reopen
    <2>2. Seq0' = Seq0 /\ view.pos \in view.pos..Seq0
      BY <1>0, <1>7 DEF Reopen, Seq0, StreamInvariant, Chained
    <2>3. Feed!Announce
      BY <2>1, <2>2 DEF Feed!Announce
    <2> QED BY <2>3 DEF Feed!FeedNext
  <1> QED BY <1>1, <1>2, <1>3, <1>4, <1>5, <1>6, <1>7 DEF Next, Daemon, Server, Page

\* The stream implements the feed: a page takes in every interval in order or is
\* told where it has to start again, and is not shown a snapshot older than a
\* gap it was told of (api/mod.rs:695 "receive a `resync` event instead of
\* silently missing updates").
THEOREM StreamImplementsFeed == Spec => FeedSpec
  <1>1. Init => Feed!FeedInit
    BY DEF Init, Feed!FeedInit, Seq0
  <1>2. StreamInvariant /\ StreamInvariant' /\ [Next]_vars => [Feed!FeedNext]_(Feed!feedVars)
    BY StreamStepIsFeedStep
  <1> QED BY <1>1, <1>2, StreamIsChained, PTL DEF Spec, FeedSpec, Feed!FeedSpec

------------------------------------------------------------------------------
\* What the page shows.

\* The row's counter never falls, and a patch has the signature last sent.
History ==
  /\ details = At(Seq0).last
  /\ \A s, t \in 0..Seq0 : s <= t => At(s).n <= At(t).n
  /\ \A s \in 1..Seq0 :
       /\ At(s).moved <=> At(s).kind # "none"
       /\ At(s).kind = "none" => At(s).last \in {At(s - 1).last, None}
       /\ At(s).kind = "patch" => At(s - 1).last = flow_detail_signature(At(s).d)
       /\ At(s).kind # "none" => At(s).last \in {flow_detail_signature(At(s).d), None}

\* An interval begun after the first of a connection knows of a subscriber.
Listening ==
  sub # None => /\ Seq0 >= sub.from => ingest # "unheard"
                /\ \A s \in (sub.from + 1)..Seq0 : At(s).zero => At(s).failed

Snapshot ==
  page.at = "read" /\ page.row # None =>
    page.row.n = At(page.base).n /\ page.row.d = At(page.base).d

\* No later than the snapshot or the last tick, no earlier than what was heard.
RowKept ==
  view.row # None => /\ \E s \in {view.base, view.pos} : view.row.n <= At(s).n
                     /\ \A s \in Heard : At(s).n <= view.row.n

\* The snapshot is of a time when the signature last sent was the row's.
Plain ==
  /\ view.row # None /\ view.owed = -1 /\ view.floor <= view.base
  /\ At(view.base).last = flow_detail_signature(At(view.base).d)

\* A connection without a tick shows the snapshot as it was.  While the ticks
\* catch up with the snapshot the row may still have its details; otherwise they
\* have the signature last sent, unless the filter hides it.
Accepted(signature) == \E e \in source.want : flow_detail_signature(e) = signature
DetailsKept ==
  /\ source.lastId = 0 /\ view.owed = -1 /\ view.row # None =>
       view.row.d = At(view.base).d
  /\ Plain /\ Respecting(source.want) =>
       \/ view.pos <= view.base /\ view.row.d = At(view.base).d
       \/ Accepted(At(view.pos).last) => flow_detail_signature(view.row.d) = At(view.pos).last

Shown == RowKept /\ DetailsKept /\ DetailsFollow

PageInvariant == History /\ Listening /\ Snapshot /\ Shown

LEMMA ViewTypes ==
  ASSUME StreamInvariant
  PROVE  /\ Seq0 \in Nat /\ \A s \in 0..Seq0 : At(s) \in Interval
         /\ view.base \in 0..Seq0 /\ view.pos \in 0..Seq0 /\ view.floor \in Nat
         /\ view.owed \in Nat \cup {-1} /\ view.row \in Row
         /\ Heard \subseteq (view.floor + 1)..view.pos /\ Heard \subseteq 0..Seq0
  <1>1. Seq0 \in Nat /\ \A s \in 0..Seq0 : At(s) \in Interval
    BY DEF StreamInvariant, StreamTypeOK, Seq0, At
  <1>2. /\ view.base \in 0..Seq0 /\ view.pos \in 0..Seq0 /\ view.floor \in Nat
        /\ view.owed \in Nat \cup {-1} /\ view.row \in Row
    BY <1>1 DEF StreamInvariant, StreamTypeOK, Chained, Repairing
  <1>3. Heard \subseteq (view.floor + 1)..view.pos
    BY DEF Heard
  <1> QED BY <1>1, <1>2, <1>3

\* What is not told to the page does not change what it shows.
LEMMA ShownStays ==
  ASSUME StreamInvariant, Shown, view' = view, source' = source,
         \A s \in 0..Seq0 : hist'[s + 1] = hist[s + 1]
  PROVE  Shown'
  <1>1. \A s \in 0..Seq0 : At(s)' = At(s)
    BY DEF At
  <1>2. At(view.base)' = At(view.base) /\ At(view.pos)' = At(view.pos)
    BY <1>1, ViewTypes DEF At
  <1>3. Heard' = Heard
    BY <1>1, ViewTypes DEF Heard, At
  <1>4. RowKept'
    BY <1>1, <1>2, <1>3, ViewTypes DEF Shown, RowKept, At
  <1>5. DetailsKept'
    BY <1>2 DEF Shown, DetailsKept, Plain, Accepted
  <1>6. DetailsFollow'
    BY <1>1, <1>2, <1>3, ViewTypes DEF Shown, DetailsFollow, At
  <1> QED BY <1>4, <1>5, <1>6 DEF Shown

\* With nothing heard of the row as it is shown, its counter is the snapshot's.
LEMMA NothingHeard ==
  ASSUME StreamInvariant, StreamInvariant', view'.floor >= view'.pos
  PROVE  Heard' = {}
  <1>1. view'.floor \in Nat /\ view'.pos \in Nat
    BY DEF StreamInvariant, StreamTypeOK
  <1> QED BY <1>1 DEF Heard

LEMMA PageSends ==
  ASSUME StreamInvariant, PageInvariant, Send
  PROVE  PageInvariant'
  <1> USE StreamAssumption
  <1>1. PICK moved \in BOOLEAN, failed \in BOOLEAN, d \in Detail : Sent(moved, failed, d)
    <2>1. At(Seq0) \in Interval
      BY ViewTypes
    <2> QED BY <2>1 DEF Interval, Send
  <1>2. PICK new \in Interval :
          /\ hist' = Append(hist, new)
          /\ new.n = At(Seq0).n + (IF moved THEN 1 ELSE 0) /\ new.d = d
          /\ new.kind = Kind(moved, failed, d) /\ new.moved = (moved /\ ~failed)
          /\ new.failed = failed /\ new.zero = Zero(moved, failed) /\ new.last = details'
    <2>1. At(Seq0) \in Interval /\ details' \in Detail \cup {None}
      BY ViewTypes, SendAdds DEF StreamInvariant
    <2>2. Kind(moved, failed, d) \in {"none", "patch", "full"} /\ Zero(moved, failed) \in BOOLEAN
      BY DEF Kind, Zero
    <2>3. [n |-> At(Seq0).n + (IF moved THEN 1 ELSE 0), d |-> d, kind |-> Kind(moved, failed, d),
           moved |-> moved /\ ~failed, failed |-> failed,
           zero |-> Zero(moved, failed), last |-> details'] \in Interval
      BY <2>1, <2>2 DEF Interval
    <2> QED BY <1>1, <2>3 DEF Sent
  <1>3. hist \in Seq(Interval) /\ Seq0 \in Nat /\ Len(hist) = Seq0 + 1
    BY DEF StreamInvariant, StreamTypeOK, Seq0
  <1>4. /\ Seq0' = Seq0 + 1 /\ hist'[Seq0 + 2] = new
        /\ \A s \in 0..Seq0 : hist'[s + 1] = hist[s + 1]
    BY <1>2, <1>3 DEF Seq0
  <1>n. PICK top \in Nat : top = Seq0
    BY <1>3
  <1>5. /\ \A s \in 0..top : At(s)' = At(s)
        /\ At(top + 1)' = new /\ Seq0' = top + 1
    <2>1. (top + 1) + 1 = Seq0 + 2 /\ Seq0' = top + 1
      BY <1>4, <1>n
    <2>2. hist'[(top + 1) + 1] = new
      BY <1>4, <2>1
    <2>3. \A s \in 0..top : hist'[s + 1] = hist[s + 1]
      BY <1>4, <1>n
    <2> QED BY <2>1, <2>2, <2>3 DEF At
  <1>6. /\ ingest # "idle" /\ ingest' = "idle" /\ UNCHANGED <<sub, page, view, source>>
        /\ Kind(moved, failed, d) = "none" => details' \in {details, None}
        /\ Kind(moved, failed, d) # "none" => details' \in {flow_detail_signature(d), None}
    <2>1. failed => Kind(moved, failed, d) = "none"
      BY DEF Kind
    <2> QED BY <1>1, <2>1 DEF Send, Sent
  <1>7. History'
    <2>1. details' = At(Seq0)'.last
      BY <1>2, <1>3, <1>n, <1>4 DEF At
    <2>2. ASSUME NEW s \in 0..(top + 1), NEW t \in 0..(top + 1), s <= t
          PROVE  At(s)'.n <= At(t)'.n
      <3>1. CASE t \in 0..top
        BY <1>5, <1>n, <2>2, <3>1 DEF PageInvariant, History
      <3>2. CASE t = top + 1 /\ s \in 0..top
        <4>1. At(s).n <= At(top).n /\ At(s).n \in Nat /\ At(top).n \in Nat
          BY <1>3, <1>n, <3>2, ViewTypes DEF PageInvariant, History, Interval
        <4>2. At(top).n <= new.n
          BY <1>2, <1>n, <4>1
        <4>3. new.n \in Nat
          BY DEF Interval
        <4> QED BY <1>5, <3>2, <4>1, <4>2, <4>3
      <3>3. CASE t = top + 1 /\ s = top + 1
        <4>1. new.n \in Nat
          BY DEF Interval
        <4> QED BY <1>5, <3>3, <4>1
      <3> QED BY <1>3, <1>n, <1>4, <2>2, <3>1, <3>2, <3>3
    <2>3. ASSUME NEW s \in 1..(top + 1)
          PROVE  /\ At(s)'.moved <=> At(s)'.kind # "none"
                 /\ At(s)'.kind = "none" => At(s)'.last \in {At(s - 1)'.last, None}
                 /\ At(s)'.kind = "patch" => At(s - 1)'.last = flow_detail_signature(At(s)'.d)
                 /\ At(s)'.kind # "none" => At(s)'.last \in {flow_detail_signature(At(s)'.d), None}
      <3>1. CASE s \in 1..top
        <4>1. At(s)' = At(s) /\ At(s - 1)' = At(s - 1)
          <5>1. s \in 0..top /\ s - 1 \in 0..top
            BY <1>n, <3>1
          <5> QED BY <1>5, <5>1
        <4> QED BY <1>n, <3>1, <4>1 DEF PageInvariant, History
      <3>2. CASE s = top + 1
        <4>1. At(s)' = new /\ At(s - 1)' = At(top)
          BY <1>3, <1>n, <1>5, <3>2 DEF At
        <4>2. details = At(top).last
          BY <1>n DEF PageInvariant, History
        <4> QED BY <1>2, <1>6, <4>1, <4>2 DEF Kind
      <3> QED BY <1>3, <1>n, <1>4, <3>1, <3>2
    <2> QED BY <1>5, <2>1, <2>2, <2>3 DEF History
  <1>8. Listening'
    <2> SUFFICES ASSUME sub # None, NEW s \in (sub.from + 1)..(top + 1), At(s)'.zero
                 PROVE  At(s)'.failed
      BY <1>5, <1>6 DEF Listening
    <2>1. sub.from \in Nat
      BY DEF StreamInvariant, StreamTypeOK
    <2>2. CASE s \in (sub.from + 1)..top
      BY <1>5, <1>n, <2>1, <2>2 DEF PageInvariant, Listening
    <2>3. CASE s = top + 1
      <3>1. ingest # "unheard"
        BY <1>3, <1>n, <2>1, <2>3 DEF PageInvariant, Listening
      <3> QED BY <1>2, <1>5, <2>3, <3>1 DEF Zero
    <2> QED BY <1>3, <1>n, <1>4, <2>1, <2>2, <2>3
  <1>9. Snapshot'
    <2>1. page.at = "read" => page.base \in 0..top
      BY <1>3, <1>n DEF StreamInvariant, StreamTypeOK, Repairing
    <2> QED BY <1>5, <1>6, <1>n, <2>1 DEF PageInvariant, Snapshot, At
  <1>10. Shown'
    BY <1>4, <1>6, ShownStays DEF PageInvariant
  <1> QED BY <1>7, <1>8, <1>9, <1>10 DEF PageInvariant

LEMMA HistoryStays == ASSUME History, UNCHANGED <<hist, details>> PROVE History'
  BY DEF History, At, Seq0

LEMMA ListeningStays ==
  ASSUME Listening, UNCHANGED hist,
         sub' # None => sub # None /\ sub'.from = sub.from,
         sub # None /\ ingest' = "unheard" => ingest = "unheard"
  PROVE  Listening'
  BY DEF Listening, At, Seq0

LEMMA PageQuiet ==
  ASSUME StreamInvariant, PageInvariant, StartIngest \/ Serve \/ ReadPage \/ Refresh \/ Lose
  PROVE  PageInvariant'
  <1>1. UNCHANGED <<hist, details, source, view>>
    BY DEF StartIngest, Serve, ReadPage, Refresh, Lose
  <1>2. History' /\ Shown'
    BY <1>1, HistoryStays, ShownStays DEF PageInvariant
  <1>3. Listening'
    <2>1. CASE StartIngest
      BY <1>1, <2>1, ListeningStays DEF PageInvariant, StartIngest
    <2>2. CASE Serve
      <3>1. sub \in [next : Nat \ {0}, from : Nat, resumed : BOOLEAN] /\ sub # None
        BY <2>2 DEF Serve, StreamInvariant, StreamTypeOK
      <3>2. sub'.from = sub.from /\ ingest' = ingest
        BY <2>2, <3>1 DEF Serve
      <3> QED BY <1>1, <3>1, <3>2, ListeningStays DEF PageInvariant
    <2>3. CASE ReadPage \/ Refresh \/ Lose
      BY <1>1, <2>3, ListeningStays DEF PageInvariant, ReadPage, Refresh, Lose
    <2> QED BY <2>1, <2>2, <2>3
  <1>4. Snapshot'
    BY <1>1 DEF PageInvariant, Snapshot, StartIngest, Serve, ReadPage, Refresh, Lose, At, Seq0
  <1> QED BY <1>2, <1>3, <1>4 DEF PageInvariant

\* A new connection without a last id starts where the daemon is: it has heard
\* nothing, and the row is the snapshot's.
LEMMA PageConnects ==
  ASSUME StreamInvariant, StreamInvariant', PageInvariant, Subscribe
  PROVE  PageInvariant'
  <1>1. /\ UNCHANGED <<hist, details, ingest, page, source>>
        /\ sub' = [next |-> Seq0 + 1, from |-> Seq0 + 1, resumed |-> source.lastId # 0]
    BY DEF Subscribe
  <1>2. History'
    BY <1>1, HistoryStays DEF PageInvariant
  <1>3. Listening'
    <2>1. sub'.from = Seq0 + 1 /\ Seq0 \in Nat /\ Seq0' = Seq0
      BY <1>1, ViewTypes DEF Seq0
    <2> QED BY <2>1 DEF Listening
  <1>4. Snapshot'
    BY <1>1 DEF PageInvariant, Snapshot, At
  <1>5. Shown'
    <2>1. CASE source.lastId # 0
      BY <1>1, <2>1, ShownStays DEF Subscribe, PageInvariant
    <2>2. CASE source.lastId = 0
      <3>1. /\ view'.row = view.row /\ view'.base = view.base /\ view'.owed = view.owed
            /\ view'.pos = Seq0 /\ view'.floor = Seq0
        BY <2>2 DEF Subscribe, StreamInvariant, StreamTypeOK
      <3>2. /\ Heard' = {} /\ \A s : At(s)' = At(s)
        BY <1>1, <3>1, NothingHeard, ViewTypes DEF At
      <3>3. At(view.base)' = At(view.base) /\ At(view.pos)' = At(Seq0)
        BY <1>1, <3>1 DEF At
      <3>4. RowKept'
        <4> SUFFICES ASSUME view.row # None
                     PROVE  view.row.n <= At(Seq0).n
          BY <3>1, <3>2, <3>3 DEF RowKept, At
        <4>1. PICK s \in {view.base, view.pos} : view.row.n <= At(s).n
          BY DEF PageInvariant, Shown, RowKept
        <4>2. s \in 0..Seq0 /\ Seq0 \in 0..Seq0 /\ s <= Seq0
          BY ViewTypes
        <4>3. At(s).n <= At(Seq0).n /\ At(s).n \in Nat /\ At(Seq0).n \in Nat
          BY <4>2, ViewTypes DEF PageInvariant, History, Interval
        <4>4. view.row.n \in Nat
          BY ViewTypes DEF Row
        <4> QED BY <4>1, <4>3, <4>4
      <3>5. DetailsKept'
        <4>1. Plain' => view.owed = -1 /\ view.row # None /\ Seq0 <= view.base
                        /\ At(view.base).last = flow_detail_signature(At(view.base).d)
          BY <3>1, <3>3 DEF Plain
        <4>2. view.owed = -1 /\ view.row # None => view.row.d = At(view.base).d
          BY <2>2 DEF PageInvariant, Shown, DetailsKept
        <4> QED BY <1>1, <3>1, <3>3, <4>1, <4>2 DEF DetailsKept
      <3>6. DetailsFollow'
        BY <3>2 DEF DetailsFollow
      <3> QED BY <3>4, <3>5, <3>6 DEF Shown
    <2> QED BY <2>1, <2>2
  <1> QED BY <1>2, <1>3, <1>4, <1>5 DEF PageInvariant

\* After a gap, a snapshot is owed.
LEMMA PageOwes ==
  ASSUME StreamInvariant, StreamInvariant', PageInvariant, ReceiveResync \/ Reopen
  PROVE  PageInvariant'
  <1>1. /\ UNCHANGED <<hist, details, ingest>> /\ page'.at = "asked"
        /\ sub' # None => sub' = sub
    BY DEF ReceiveResync, Reopen
  <1>2. History' /\ Listening' /\ Snapshot'
    BY <1>1, HistoryStays, ListeningStays DEF PageInvariant, Snapshot
  <1>3. /\ view'.row = view.row /\ view'.base = view.base
        /\ view'.floor = view'.pos /\ view'.owed = view'.pos
        /\ view.pos <= view'.pos /\ view'.pos \in 0..Seq0
    <2>1. CASE ReceiveResync
      <3>1. /\ wire \in Seq(Tick \cup Resync) /\ wire # <<>> /\ Head(wire) = wire[1]
            /\ 1 \in 1..Len(wire) /\ wire[1].event = "resync" /\ wire[1] \in Tick \cup Resync
        BY <2>1 DEF ReceiveResync, StreamInvariant, StreamTypeOK
      <3>2. wire[1].to \in view.pos..Seq0
        BY <3>1, ReachedIsNat, ViewTypes DEF StreamInvariant, Chained, FramesFollow, After, Reached
      <3> QED BY <2>1, <3>1, <3>2, ViewTypes DEF ReceiveResync, StreamInvariant, StreamTypeOK
    <2>2. CASE Reopen
      BY <2>2, ViewTypes DEF Reopen, StreamInvariant, StreamTypeOK
    <2> QED BY <2>1, <2>2
  <1>4. Heard' = {}
    BY <1>3, NothingHeard, ViewTypes
  <1>5. view'.owed # -1
    BY <1>3, ViewTypes
  <1>6. RowKept'
    <2> SUFFICES ASSUME view.row # None
                 PROVE  \E s \in {view.base, view'.pos} : view.row.n <= At(s).n
      BY <1>1, <1>3, <1>4 DEF RowKept, At
    <2>1. At(view.pos).n <= At(view'.pos).n /\ At(view.pos).n \in Nat /\ At(view'.pos).n \in Nat
      BY <1>3, ViewTypes DEF PageInvariant, History, Interval
    <2>2. view.row.n \in Nat
      BY ViewTypes DEF Row
    <2> QED BY <2>1, <2>2 DEF PageInvariant, Shown, RowKept
  <1>7. DetailsKept' /\ DetailsFollow'
    BY <1>4, <1>5 DEF DetailsKept, DetailsFollow, Plain
  <1> QED BY <1>2, <1>6, <1>7 DEF PageInvariant, Shown

\* The snapshot replaces the row, and counts from where the page is, if that is later.
LEMMA PageLoads ==
  ASSUME StreamInvariant, StreamInvariant', PageInvariant, PageArrives
  PROVE  PageInvariant'
  <1>1. /\ UNCHANGED <<hist, details, ingest, sub, source>>
        /\ page.at = "read" /\ page'.at = "none"
    BY DEF PageArrives
  <1>2. History' /\ Listening' /\ Snapshot'
    BY <1>1, HistoryStays, ListeningStays DEF PageInvariant, Snapshot
  <1>3. /\ view'.row = page.row /\ view'.base = page.base /\ view'.pos = view.pos
        /\ view'.floor = IF page.base < view.pos THEN view.pos ELSE view.floor
    BY DEF PageArrives, StreamInvariant, StreamTypeOK
  <1>4. page.base \in 0..Seq0 /\ page.row \in Row
    BY <1>1, ViewTypes DEF StreamInvariant, StreamTypeOK, Repairing
  <1>5. page.row # None => page.row.n = At(page.base).n /\ page.row.d = At(page.base).d
    BY <1>1 DEF PageInvariant, Snapshot
  <1>6. ASSUME NEW s \in Heard'
        PROVE  s \in 0..Seq0 /\ s <= page.base /\ page.base >= view.pos
    <2>1. s \in (view'.floor + 1)..view.pos /\ view'.floor \in Nat
      BY <1>3, <1>6 DEF Heard, StreamInvariant, StreamTypeOK
    <2> QED BY <1>3, <1>4, <2>1, ViewTypes
  <1>7. RowKept'
    <2> SUFFICES ASSUME page.row # None
                 PROVE  /\ page.row.n <= At(page.base).n
                        /\ \A s \in Heard' : At(s).n <= page.row.n
      BY <1>1, <1>3 DEF RowKept, At
    <2>1. At(page.base).n \in Nat
      BY <1>4, ViewTypes DEF Interval
    <2> QED BY <1>4, <1>5, <1>6, <2>1 DEF PageInvariant, History
  <1>8. DetailsKept'
    <2>1. view'.row # None => view'.row.d = At(view.base)'.d
      BY <1>1, <1>3, <1>5 DEF At
    <2>2. Plain' => view'.pos <= view'.base
      BY <1>3, <1>4, ViewTypes DEF Plain
    <2> QED BY <2>1, <2>2 DEF DetailsKept, Plain
  <1>9. DetailsFollow'
    <2>1. \A s \in Heard' : ~(s > view'.base)
      BY <1>3, <1>4, <1>6
    <2> QED BY <2>1 DEF DetailsFollow
  <1> QED BY <1>2, <1>7, <1>8, <1>9 DEF PageInvariant, Shown

\* A tick takes the row on from the interval before it.
LEMMA PageTakes ==
  ASSUME StreamInvariant, StreamInvariant', PageInvariant, ReceiveTick
  PROVE  PageInvariant'
  <1>1. UNCHANGED <<hist, details, ingest, sub, page>>
    BY DEF ReceiveTick
  <1>2. History' /\ Listening' /\ Snapshot'
    BY <1>1, HistoryStays, ListeningStays DEF PageInvariant, Snapshot, At
  <1>3. PICK s \in 1..Seq0 : /\ s = view.pos + 1 /\ source'.lastId = s
                             /\ source'.want = source.want
                             /\ view' = [view EXCEPT !.row = Merged(@, s), !.pos = s]
    <2>1. /\ wire \in Seq(Tick \cup Resync) /\ wire # <<>> /\ Head(wire) = wire[1]
          /\ 1 \in 1..Len(wire) /\ wire[1].event = "tick"
      BY DEF ReceiveTick, StreamInvariant, StreamTypeOK
    <2>2. wire[1].id = view.pos + 1 /\ wire[1].id <= Seq0
      BY <2>1 DEF StreamInvariant, Chained, FramesFollow, After, Reached
    <2>3. wire[1].id \in 1..Seq0
      BY <2>2, ViewTypes
    <2> QED BY <2>1, <2>2, <2>3 DEF ReceiveTick, StreamInvariant, StreamTypeOK
  <1>4. PICK row : row = Merged(view.row, s)
    OBVIOUS
  <1>5. /\ view'.row = row /\ view'.pos = s /\ view'.base = view.base
        /\ view'.floor = view.floor /\ view'.owed = view.owed
    BY <1>3, <1>4 DEF StreamInvariant, StreamTypeOK
  <1>6. /\ s \in 0..Seq0 /\ view.pos \in 0..Seq0 /\ view.base \in 0..Seq0 /\ s - 1 = view.pos
        /\ At(s) \in Interval /\ At(view.pos) \in Interval /\ At(view.base) \in Interval
    BY <1>3, ViewTypes
  <1>7. /\ At(s).moved <=> At(s).kind # "none"
        /\ At(s).kind = "none" => At(s).last \in {At(view.pos).last, None}
        /\ At(s).kind = "patch" => At(view.pos).last = flow_detail_signature(At(s).d)
        /\ At(s).kind # "none" => At(s).last \in {flow_detail_signature(At(s).d), None}
    BY <1>6 DEF PageInvariant, History
  <1>8. view.row = None => row = None
    BY <1>4 DEF Merged
  <1>9. ASSUME view.row # None
        PROVE  \/ row = view.row /\ (At(s).d \notin source.want \/ At(s).kind = "none")
               \/ /\ At(s).d \in source.want /\ At(s).kind = "patch"
                  /\ row.n = At(s).n /\ row.d = view.row.d
               \/ /\ At(s).d \in source.want /\ At(s).kind = "full"
                  /\ row.n = At(s).n /\ row.d = At(s).d
    <2>1. view.row \in [n : Nat, d : Detail]
      BY <1>9, ViewTypes DEF Row
    <2>2. At(s).kind \in {"none", "patch", "full"}
      BY <1>6 DEF Interval
    <2> QED BY <1>4, <1>9, <2>1, <2>2 DEF Merged
  <1>10. \A x : At(x)' = At(x)
    BY <1>1 DEF At
  <1>11. Heard' = Heard \cup {x \in {s} : /\ view.floor < s /\ At(s).moved
                                          /\ At(s).d \in source.want}
    <2>1. (view'.floor + 1)..view'.pos
            = ((view.floor + 1)..view.pos) \cup {x \in {s} : view.floor < s}
      BY <1>3, <1>5, ViewTypes
    <2>2. Heard' = {x \in (view'.floor + 1)..view'.pos : At(x).moved /\ At(x).d \in source.want}
      BY <1>3, <1>10 DEF Heard
    <2> QED BY <2>1, <2>2 DEF Heard
  <1>12. ASSUME NEW x \in Heard
         PROVE  x \in 0..Seq0 /\ x < s
    BY <1>3, <1>12, ViewTypes
  <1>13. ASSUME s \in Heard'
         PROVE  At(s).moved /\ At(s).d \in source.want
    <2>1. s \notin Heard
      BY <1>3, <1>12
    <2> QED BY <1>11, <1>13, <2>1
  <1>14. RowKept'
    <2> SUFFICES ASSUME row # None
                 PROVE  /\ \E x \in {view.base, s} : row.n <= At(x).n
                        /\ \A x \in Heard' : At(x).n <= row.n
      BY <1>5, <1>10 DEF RowKept, At
    <2>1. view.row # None /\ view.row.n \in Nat
      BY <1>8, ViewTypes DEF Row
    <2>2. /\ At(view.pos).n <= At(s).n /\ At(s).n \in Nat /\ At(view.pos).n \in Nat
          /\ At(view.base).n \in Nat
      BY <1>3, <1>6 DEF PageInvariant, History, Interval
    <2>3. \E x \in {view.base, s} : view.row.n <= At(x).n
      BY <2>1, <2>2 DEF PageInvariant, Shown, RowKept
    <2>4. \A x \in Heard : At(x).n <= At(s).n /\ At(x).n <= view.row.n
      BY <1>6, <1>12, <2>1 DEF PageInvariant, Shown, RowKept, History
    <2> QED BY <1>7, <1>9, <1>11, <1>13, <2>1, <2>2, <2>3, <2>4
  <1>17. /\ At(s).d \in Detail /\ source.want \subseteq Detail
         /\ ~Accepted(None)
    <2>1. source.want \subseteq Detail
      BY StreamAssumption DEF StreamInvariant, StreamTypeOK
    <2>2. \A e \in Detail : flow_detail_signature(e) # None
      BY StreamAssumption DEF flow_detail_signature
    <2> QED BY <1>6, <2>1, <2>2 DEF Interval, Accepted
  <1>15. DetailsKept'
    <2>1. source'.lastId # 0
      BY <1>3
    <2>2. ASSUME Plain', Respecting(source.want)
          PROVE  \/ s <= view.base /\ row.d = At(view.base).d
                 \/ Accepted(At(s).last) => flow_detail_signature(row.d) = At(s).last
      <3>1. Plain
        BY <1>5, <1>8, <1>10, <2>2 DEF Plain, At
      <3>2. \/ view.pos <= view.base /\ view.row.d = At(view.base).d
            \/ Accepted(At(view.pos).last) => flow_detail_signature(view.row.d) = At(view.pos).last
        BY <2>2, <3>1 DEF PageInvariant, Shown, DetailsKept
      <3>3. view.pos <= view.base => s <= view.base \/ view.pos = view.base
        BY <1>3, <1>6
      <3>4. ~Accepted(None)
        BY <1>17
      <3>5. At(s).d \notin source.want => ~Accepted(flow_detail_signature(At(s).d))
        BY <1>17, <2>2 DEF Accepted, Respecting
      <3>6. At(s).d \in source.want => Accepted(flow_detail_signature(At(s).d))
        BY DEF Accepted
      <3>7. At(view.base).last = flow_detail_signature(At(view.base).d) /\ view.row # None
        BY <3>1 DEF Plain
      <3>8. CASE At(s).kind = "none"
        <4>1. row = view.row
          BY <1>9, <3>7, <3>8
        <4> QED BY <1>7, <3>2, <3>3, <3>4, <3>7, <3>8, <4>1
      <3>9. CASE At(s).kind # "none" /\ At(s).d \notin source.want
        BY <1>7, <3>4, <3>5, <3>9
      <3>10. CASE At(s).kind = "patch" /\ At(s).d \in source.want
        <4>1. row.d = view.row.d
          BY <1>9, <3>7, <3>10
        <4>2. At(view.pos).last = flow_detail_signature(At(s).d)
          BY <1>7, <3>10
        <4> QED BY <1>7, <3>2, <3>3, <3>4, <3>6, <3>7, <3>10, <4>1, <4>2
      <3>11. CASE At(s).kind = "full" /\ At(s).d \in source.want
        <4>1. row.d = At(s).d
          BY <1>9, <3>7, <3>11
        <4> QED BY <1>7, <3>4, <3>11, <4>1
      <3> QED BY <1>6, <3>8, <3>9, <3>10, <3>11 DEF Interval
    <2> QED BY <1>3, <1>5, <1>10, <2>1, <2>2 DEF DetailsKept, Accepted, At
  <1>16. DetailsFollow'
    <2> SUFFICES ASSUME NEW x \in Heard', row # None, view.owed = -1,
                        view.floor <= view.base, Respecting(source.want),
                        At(view.base).last = flow_detail_signature(At(view.base).d),
                        x > view.base, \A t \in Heard' : t <= x
                 PROVE  flow_detail_signature(row.d) = flow_detail_signature(At(x).d)
      BY <1>3, <1>5, <1>10 DEF DetailsFollow, At
    <2>1. view.row # None
      BY <1>8
    <2>2. CASE x = s
      <3>1. At(s).moved /\ At(s).d \in source.want
        BY <1>13, <2>2
      <3>2. \/ view.pos <= view.base /\ view.row.d = At(view.base).d
            \/ Accepted(At(view.pos).last) => flow_detail_signature(view.row.d) = At(view.pos).last
        BY <2>1 DEF PageInvariant, Shown, DetailsKept, Plain
      <3>3. view.pos <= view.base => view.pos = view.base
        BY <1>3, <1>6, <2>2
      <3>4. Accepted(flow_detail_signature(At(s).d))
        BY <3>1 DEF Accepted
      <3> QED BY <1>7, <1>9, <2>1, <2>2, <3>1, <3>2, <3>3, <3>4
    <2>3. CASE x # s
      <3>1. x \in Heard /\ x < s
        BY <1>11, <1>12, <2>3
      <3>2. s \notin Heard'
        BY <1>3, <1>12, <3>1
      <3>3. flow_detail_signature(view.row.d) = flow_detail_signature(At(x).d)
        BY <1>11, <2>1, <3>1 DEF PageInvariant, Shown, DetailsFollow
      <3>4. ~(At(s).moved /\ At(s).d \in source.want)
        <4>1. view.floor < s
          BY <1>3, <3>1, ViewTypes
        <4> QED BY <1>11, <3>2, <4>1
      <3> QED BY <1>7, <1>9, <2>1, <3>3, <3>4
    <2> QED BY <2>2, <2>3
  <1> QED BY <1>2, <1>14, <1>15, <1>16 DEF PageInvariant, Shown

LEMMA PageStep ==
  ASSUME StreamInvariant, StreamInvariant', PageInvariant, [Next]_vars
  PROVE  PageInvariant'
  <1>1. CASE Daemon
    BY <1>1, PageSends, PageQuiet DEF Daemon
  <1>2. CASE Server
    BY <1>2, PageConnects, PageQuiet DEF Server
  <1>3. CASE Page
    BY <1>3, PageTakes, PageOwes, PageLoads DEF Page
  <1>4. CASE Refresh \/ Lose \/ Reopen
    BY <1>4, PageOwes, PageQuiet
  <1>5. CASE UNCHANGED vars
    <2>1. History' /\ Listening' /\ Snapshot' /\ Shown'
      BY <1>5, HistoryStays, ListeningStays, ShownStays DEF vars, PageInvariant, Snapshot, At
    <2> QED BY <2>1 DEF PageInvariant
  <1> QED BY <1>1, <1>2, <1>3, <1>4, <1>5 DEF Next

\* However ticks, snapshots, gaps and reconnections overtake each other, the row
\* lies between what the page heard of and the interval it is at, its details have
\* the signature last sent to it, and only the first interval of a connection can have
\* begun unheard (ingest_batch, Db::tick_details, store.ts).
THEOREM StreamShowsWhatItHeard == Spec => []PageInvariant
  <1>1. Init => PageInvariant
    <2> SUFFICES ASSUME Init PROVE PageInvariant
      OBVIOUS
    <2>1. /\ Seq0 = 0 /\ At(0).last = None /\ At(0).n = 0 /\ details = None /\ sub = None
          /\ page.at = "asked" /\ view.row = None
      BY DEF Init, Seq0, At
    <2>2. History
      BY <2>1 DEF History
    <2>3. Listening /\ Snapshot /\ Shown
      BY <2>1 DEF Listening, Snapshot, Shown, RowKept, DetailsKept, DetailsFollow, Plain
    <2> QED BY <2>2, <2>3 DEF PageInvariant
  <1>2. StreamInvariant /\ StreamInvariant' /\ PageInvariant /\ [Next]_vars => PageInvariant'
    BY PageStep
  <1> QED BY <1>1, <1>2, StreamIsChained, PTL DEF Spec

\* The counters on the page are no older than the last movement it has heard of
\* and no newer than the interval it is at, and the counters over the whole
\* history are zero at most in the first interval of a connection (db.rs the
\* choice of patches, api/mod.rs receiver_count).
THEOREM StreamCountersAreCurrent == Spec => []CountersCurrent
  <1>1. StreamInvariant /\ PageInvariant => CountersCurrent
    <2> SUFFICES ASSUME StreamInvariant, PageInvariant PROVE CountersCurrent
      OBVIOUS
    <2>1. RowIsCurrent
      <3> SUFFICES ASSUME view.row # None, view.pos >= view.base
                   PROVE  view.row.n <= At(view.pos).n /\ \A s \in Heard : At(s).n <= view.row.n
        BY DEF RowIsCurrent
      <3>1. view.row.n \in Nat
        BY ViewTypes DEF Row
      <3>2. /\ At(view.base).n <= At(view.pos).n
            /\ At(view.base).n \in Nat /\ At(view.pos).n \in Nat
        BY ViewTypes DEF PageInvariant, History, Interval
      <3> QED BY <3>1, <3>2 DEF PageInvariant, Shown, RowKept
    <2>2. ZeroOnlyAtOpening
      <3> SUFFICES ASSUME NEW s \in 1..Seq0, ZeroTaken(s) PROVE s = sub.from
        BY DEF ZeroOnlyAtOpening
      <3>1. sub # None /\ sub.from \in Nat /\ sub.from <= s /\ At(s).zero /\ ~At(s).failed
        BY DEF ZeroTaken, StreamInvariant, StreamTypeOK
      <3>2. s \notin (sub.from + 1)..Seq0
        BY <3>1 DEF PageInvariant, Listening
      <3> QED BY <3>1, <3>2, ViewTypes
    <2> QED BY <2>1, <2>2 DEF CountersCurrent
  <1> QED BY <1>1, StreamIsChained, StreamShowsWhatItHeard, PTL

\* A compact patch never hides details its signature tells apart: what the page
\* shows after it has heard of a movement has the signature that came with it
\* (Db::tick_details, flow_detail_signature).
THEOREM StreamDetailsFollow == Spec => []DetailsFollow
  <1>1. PageInvariant => DetailsFollow
    BY DEF PageInvariant, Shown
  <1> QED BY <1>1, StreamShowsWhatItHeard, PTL
=============================================================================
