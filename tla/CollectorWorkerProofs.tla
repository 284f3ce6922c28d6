------------------------- MODULE CollectorWorkerProofs -------------------------
(***************************************************************************)
(* The safety of the worker between its two channels, for any number of    *)
(* clients, requests, hang-ups and ticks, any capacities, and any bound on *)
(* the sequence numbers.                                                   *)
(***************************************************************************)
EXTENDS CollectorWorker, Integers, TLAPS

------------------------------------------------------------------------------
\* Sequence numbers

LEMMA ModRange == ASSUME NEW S \in Nat \ {0}, NEW a \in Nat PROVE a % S \in 0..(S - 1)
  OBVIOUS

LEMMA ModDivides ==
  ASSUME NEW S \in Nat \ {0}, NEW a \in Nat
  PROVE  a = S * (a \div S) + (a % S) /\ (a \div S) \in Nat
  OBVIOUS

\* Division with a remainder has one result.
LEMMA ModUnique ==
  ASSUME NEW S \in Nat \ {0}, NEW q \in Nat, NEW p \in Nat, NEW r \in 0..(S - 1), NEW u \in 0..(S - 1),
         S * q + r = S * p + u
  PROVE  r = u
  <1>1. ASSUME NEW a \in Nat, NEW b \in Nat, a < b PROVE S * a + S <= S * b
    <2>1. a + 1 <= b
      BY <1>1
    <2>2. S * (a + 1) <= S * b
      BY <2>1
    <2>3. S * (a + 1) = S * a + S
      OBVIOUS
    <2> QED BY <2>2, <2>3
  <1>2. ~(q < p)
    BY <1>1
  <1>3. ~(p < q)
    BY <1>1
  <1> QED BY <1>2, <1>3

\* A number that is counted on from a wrapped one wraps to the same.
LEMMA ModPlus ==
  ASSUME NEW S \in Nat \ {0}, NEW a \in Nat, NEW b \in Nat
  PROVE  ((a % S) + b) % S = (a + b) % S
  <1> DEFINE q == a \div S
             p == ((a % S) + b) \div S
             k == (a + b) \div S
             r == ((a % S) + b) % S
             u == (a + b) % S
  <1>1. a = S * q + (a % S) /\ q \in Nat /\ a % S \in 0..(S - 1)
    BY ModRange, ModDivides
  <1>2. (a % S) + b = S * p + r /\ p \in Nat /\ r \in 0..(S - 1)
    <2>1. (a % S) + b \in Nat
      BY <1>1
    <2> HIDE DEF q
    <2> QED BY <2>1, ModRange, ModDivides
  <1>3. a + b = S * k + u /\ k \in Nat /\ u \in 0..(S - 1)
    <2>1. a + b \in Nat
      OBVIOUS
    <2> QED BY <2>1, ModRange, ModDivides
  <1> HIDE DEF q, p, k, r, u
  <1>4. S * (q + p) + r = S * k + u
    <2>1. S * (q + p) = S * q + S * p
      BY <1>1, <1>2
    <2>2. S * q \in Nat /\ S * p \in Nat /\ S * k \in Nat
      BY <1>1, <1>2, <1>3
    <2> QED BY <1>1, <1>2, <1>3, <2>1, <2>2
  <1>5. r = u
    <2> DEFINE w == q + p
    <2>1. w \in Nat /\ S * w + r = S * k + u
      BY <1>1, <1>2, <1>4
    <2> HIDE DEF w
    <2> QED BY <1>2, <1>3, <2>1, ModUnique
  <1> QED BY <1>5 DEF r, u

------------------------------------------------------------------------------
\* The invariant

\* How far main and the worker are, of each other.
Together ==
  /\ hooks <=> worker \in {"select", "poll", "sending"}
  /\ main \in {"opening", "unavailable"} => worker = "off"
  /\ main \in {"opened", "starting", "draining", "stopping"} => worker # "off"
  /\ main = "stopped" => worker \in {"off", "detached"}

Types ==
  /\ main \in {"opening", "opened", "unavailable", "starting", "draining",
               "stopping", "stopped"}
  /\ worker \in {"off", "select", "poll", "sending", "detached"}
  /\ hooks \in BOOLEAN /\ cancelled \in BOOLEAN
  /\ batches \in Seq(0 .. SeqBound - 1) /\ Len(batches) <= BatchCapacity
  /\ sequence \in 0 .. SeqBound - 1 /\ ingested \in 0 .. SeqBound - 1
  /\ requests \in 0 .. MaxRequests /\ hangups \in 0 .. MaxHangups
  /\ ticks \in 0 .. MaxStartupTicks

\* Every client is somewhere in its request, with a command in the channel just
\* when it waits for the answer, and never with two.
Requests ==
  /\ pc \in [Client -> {"idle", "send", "await"}]
  /\ left \in [Client -> 0 .. 2]
  /\ commands \in Seq(Client \cup {None}) /\ Len(commands) <= QueueCapacity
  /\ main \in {"opening", "opened"} => \A c \in Client : pc[c] = "idle"
  /\ \A c \in Client : pc[c] = "idle" <=> left[c] = 0
  /\ worker = "detached" => commands = <<>>
  /\ \A c \in Client :
       pc[c] = "await" /\ worker # "detached" => \E i \in DOMAIN commands : commands[i] = c
  /\ \A i \in DOMAIN commands :
       commands[i] # None => /\ pc[commands[i]] = "await"
                             /\ \A j \in DOMAIN commands : commands[j] = commands[i] => j = i

WorkerInvariant == Types /\ Together /\ Requests /\ NoBatchLost

LEMMA SeqBoundIsPositive == SeqBound \in Nat \ {0}
  BY WorkerAssumption

LEMMA WorkerStarts == ASSUME Init PROVE WorkerInvariant
  <1> USE WorkerAssumption DEF Init
  <1>1. Types
    <2>1. batches \in Seq(0..(SeqBound - 1)) /\ Len(batches) = 0
      OBVIOUS
    <2>2. 0 \in 0..(SeqBound - 1) /\ 0 \in 0..MaxRequests /\ 0 \in 0..MaxHangups /\ 0 \in 0..MaxStartupTicks
      BY SeqBoundIsPositive
    <2>3. Len(batches) <= BatchCapacity
      BY <2>1
    <2>4. /\ sequence \in 0 .. SeqBound - 1 /\ ingested \in 0 .. SeqBound - 1
          /\ requests \in 0 .. MaxRequests /\ hangups \in 0 .. MaxHangups /\ ticks \in 0 .. MaxStartupTicks
      BY <2>2
    <2>5. main = "opening" /\ worker = "off" /\ hooks = FALSE /\ cancelled = FALSE
      OBVIOUS
    <2> HIDE DEF Init
    <2> QED BY <2>1, <2>3, <2>4, <2>5 DEF Types
  <1>2. Together
    BY DEF Together
  <1>3. Requests
    BY DEF Requests
  <1>4. NoBatchLost
    <2>1. 0 % SeqBound = 0
      OBVIOUS
    <2> QED BY <2>1 DEF NoBatchLost
  <1> QED BY <1>1, <1>2, <1>3, <1>4 DEF WorkerInvariant

------------------------------------------------------------------------------
\* main, the worker and the batch channel

LEMMA WorkerTypes ==
  ASSUME WorkerInvariant, [Next]_vars
  PROVE  Types'
  <1> USE WorkerAssumption DEF WorkerInvariant, Types, mainVars, clientVars, workerVars, counters
  <1>1. CASE Open \/ OpenFails \/ Attach \/ Ready \/ Join \/ Signal
    BY <1>1 DEF Open, OpenFails, Attach, Ready, Join, Signal
  <1>2. CASE Drain
    BY <1>2 DEF Drain
  <1>3. CASE Serve
    BY <1>3 DEF Serve
  <1>4. CASE Tick
    BY <1>4 DEF Tick
  <1>5. CASE Poll
    <2>1. After(sequence) \in 0..(SeqBound - 1)
      <3>1. sequence + 1 \in Nat
        OBVIOUS
      <3> QED BY <3>1, SeqBoundIsPositive, ModRange DEF After
    <2> QED BY <1>5, <2>1 DEF Poll
  <1>6. CASE SendBatch
    BY <1>6 DEF SendBatch
  <1>7. CASE Detach
    BY <1>7 DEF Detach
  <1>8. CASE \E c \in Client : Handler(c) \/ HangUp(c)
    BY <1>8 DEF Handler, Send, Dropped, HangUp
  <1>9. CASE \E c \in Client : \E n \in 1..2 : Begin(c, n)
    BY <1>9 DEF Begin
  <1>10. CASE UNCHANGED vars
    BY <1>10 DEF vars
  <1> QED BY <1>1, <1>2, <1>3, <1>4, <1>5, <1>6, <1>7, <1>8, <1>9, <1>10
          DEF Next, MainStep, WorkerStep

LEMMA WorkerTogether ==
  ASSUME WorkerInvariant, [Next]_vars
  PROVE  Together'
  <1> USE DEF WorkerInvariant, Types, Together, mainVars, clientVars, workerVars, counters
  <1>1. CASE Open \/ OpenFails \/ MainStep \/ Signal
    BY <1>1 DEF Open, OpenFails, MainStep, Attach, Ready, Drain, Join, Signal
  <1>2. CASE WorkerStep
    BY <1>2 DEF WorkerStep, Serve, Tick, Poll, SendBatch, Detach
  <1>3. CASE \E c \in Client : Handler(c) \/ HangUp(c) \/ \E n \in 1..2 : Begin(c, n)
    BY <1>3 DEF Handler, Send, Dropped, HangUp, Begin
  <1>4. CASE UNCHANGED vars
    BY <1>4 DEF vars
  <1> QED BY <1>1, <1>2, <1>3, <1>4 DEF Next

\* A poll counts one on from what is in the channel; draining takes off the
\* oldest; everything else leaves both ends alone.
LEMMA WorkerLosesNothing ==
  ASSUME WorkerInvariant, [Next]_vars
  PROVE  NoBatchLost'
  <1> USE WorkerAssumption DEF WorkerInvariant, Types
  <1> SUFFICES ASSUME worker' # "detached" PROVE NoBatchLost'
    BY DEF NoBatchLost
  <1>0. worker # "detached"
    BY DEF Next, Open, OpenFails, MainStep, Attach, Ready, Drain, Join, Signal, WorkerStep,
           Serve, Tick, Poll, SendBatch, Detach, Handler, Send, Dropped, HangUp, Begin,
           vars, mainVars, clientVars, workerVars, counters, Together
  <1>1. CASE Drain
    <2>1. /\ batches' \in Seq(0..(SeqBound - 1)) /\ Len(batches') = Len(batches) - 1
          /\ \A i \in DOMAIN batches' : i + 1 \in DOMAIN batches /\ batches'[i] = batches[i + 1]
          /\ 1 \in DOMAIN batches /\ ingested' = batches[1] /\ sequence' = sequence /\ worker' = worker
      BY <1>1 DEF Drain, workerVars
    <2>2. ingested' = (ingested + 1) % SeqBound
      BY <1>0, <2>1 DEF NoBatchLost
    <2>3. ASSUME NEW n \in Nat PROVE (ingested' + n) % SeqBound = (ingested + (n + 1)) % SeqBound
      <3>1. (((ingested + 1) % SeqBound) + n) % SeqBound = ((ingested + 1) + n) % SeqBound
        <4>1. ingested + 1 \in Nat
          OBVIOUS
        <4> HIDE DEF WorkerInvariant, Types
        <4> QED BY <4>1, SeqBoundIsPositive, ModPlus
      <3>2. (ingested + 1) + n = ingested + (n + 1)
        OBVIOUS
      <3> QED BY <2>2, <3>1, <3>2
    <2>4. \A i \in DOMAIN batches' : batches'[i] = (ingested' + i) % SeqBound
      <3> SUFFICES ASSUME NEW i \in DOMAIN batches' PROVE batches'[i] = (ingested' + i) % SeqBound
        OBVIOUS
      <3>1. i \in Nat /\ i + 1 \in DOMAIN batches /\ batches'[i] = batches[i + 1]
        BY <2>1
      <3>2. batches[i + 1] = (ingested + (i + 1)) % SeqBound
        BY <1>0, <3>1 DEF NoBatchLost
      <3> QED BY <2>3, <3>1, <3>2
    <2>5. CASE worker = "sending"
      <3>1. sequence = (ingested + ((Len(batches') + 1) + 1)) % SeqBound
        <4>1. (ingested + Len(batches)) + 1 = ingested + ((Len(batches') + 1) + 1)
          BY <2>1
        <4>2. sequence = ((ingested + Len(batches)) + 1) % SeqBound
          BY <1>0, <2>5 DEF NoBatchLost
        <4> QED BY <4>1, <4>2
      <3>2. sequence' = (ingested' + (Len(batches') + 1)) % SeqBound
        BY <2>1, <2>3, <3>1
      <3>3. ingested' + (Len(batches') + 1) = (ingested' + Len(batches')) + 1
        BY <2>1
      <3> QED BY <2>1, <2>4, <2>5, <3>2, <3>3 DEF NoBatchLost
    <2>6. CASE worker # "sending"
      <3>1. sequence = (ingested + (Len(batches') + 1)) % SeqBound
        <4>1. (ingested + Len(batches)) + 0 = ingested + (Len(batches') + 1)
          BY <2>1
        <4>2. sequence = ((ingested + Len(batches)) + 0) % SeqBound
          BY <1>0, <2>6 DEF NoBatchLost
        <4> QED BY <4>1, <4>2
      <3>2. sequence' = (ingested' + Len(batches')) % SeqBound
        BY <2>1, <2>3, <3>1
      <3>3. (ingested' + Len(batches')) + 0 = ingested' + Len(batches')
        BY <2>1
      <3> QED BY <2>1, <2>4, <2>6, <3>2, <3>3 DEF NoBatchLost
    <2> QED BY <2>5, <2>6
  <1>2. CASE Poll
    <2>1. sequence = (ingested + Len(batches)) % SeqBound
      <3>1. (ingested + Len(batches)) + 0 = ingested + Len(batches)
        OBVIOUS
      <3> QED BY <1>0, <1>2, <3>1 DEF Poll, NoBatchLost
    <2>2. sequence' = ((ingested + Len(batches)) + 1) % SeqBound
      <3>1. (((ingested + Len(batches)) % SeqBound) + 1) % SeqBound = ((ingested + Len(batches)) + 1) % SeqBound
        <4>1. ingested + Len(batches) \in Nat
          OBVIOUS
        <4> HIDE DEF WorkerInvariant, Types
        <4> QED BY <4>1, SeqBoundIsPositive, ModPlus
      <3> QED BY <1>2, <2>1, <3>1 DEF Poll, After
    <2> QED BY <1>0, <1>2, <2>2 DEF Poll, NoBatchLost, mainVars
  <1>3. CASE SendBatch
    <2>1. /\ batches' = Append(batches, sequence) /\ ingested' = ingested /\ sequence' = sequence
          /\ worker' = "select" /\ worker = "sending"
      BY <1>3 DEF SendBatch, mainVars
    <2>2. sequence = ((ingested + Len(batches)) + 1) % SeqBound
      BY <1>0, <2>1 DEF NoBatchLost
    <2>3. /\ Len(batches') = Len(batches) + 1 /\ DOMAIN batches' = 1..Len(batches')
          /\ DOMAIN batches = 1..Len(batches)
          /\ \A i \in 1..Len(batches) : batches'[i] = batches[i]
          /\ batches'[Len(batches')] = sequence
      BY <2>1
    <2>4. (ingested + Len(batches)) + 1 = ingested + Len(batches')
      BY <2>3
    <2>5. \A i \in DOMAIN batches' : batches'[i] = (ingested' + i) % SeqBound
      <3> SUFFICES ASSUME NEW i \in 1..Len(batches') PROVE batches'[i] = (ingested' + i) % SeqBound
        BY <2>3
      <3>1. CASE i = Len(batches')
        BY <2>1, <2>2, <2>3, <2>4, <3>1
      <3>2. CASE i # Len(batches')
        <4>1. i \in DOMAIN batches
          BY <2>3, <3>2
        <4> QED BY <1>0, <2>1, <2>3, <4>1 DEF NoBatchLost
      <3> QED BY <3>1, <3>2
    <2>6. (ingested' + Len(batches')) + 0 = ingested + Len(batches')
      BY <2>1, <2>3
    <2> QED BY <2>1, <2>2, <2>4, <2>5, <2>6 DEF NoBatchLost
  <1>4. CASE UNCHANGED <<batches, sequence, ingested>> /\ (worker' = "sending" <=> worker = "sending")
    BY <1>0, <1>4 DEF NoBatchLost
  <1>5. CASE Open \/ OpenFails \/ Attach \/ Ready \/ Join \/ Signal \/ Serve \/ Tick \/ Detach
    BY <1>4, <1>5 DEF Open, OpenFails, Attach, Ready, Join, Signal, Serve, Tick, Detach, Together,
                      mainVars, clientVars, workerVars
  <1>6. CASE \E c \in Client : Handler(c) \/ HangUp(c) \/ \E n \in 1..2 : Begin(c, n)
    BY <1>4, <1>6 DEF Handler, Send, Dropped, HangUp, Begin, mainVars, workerVars
  <1>7. CASE UNCHANGED vars
    BY <1>4, <1>7 DEF vars, mainVars, workerVars
  <1> QED BY <1>1, <1>2, <1>3, <1>5, <1>6, <1>7 DEF Next, MainStep, WorkerStep

------------------------------------------------------------------------------
\* The requests

\* A command that is answered belongs to a client that waited, and the others
\* stay where they are.
LEMMA ServedIsOneOf ==
  ASSUME WorkerInvariant, Serve
  PROVE  Requests'
  <1> USE DEF WorkerInvariant
  <1> DEFINE first == commands[1]
  <1>1. /\ commands \in Seq(Client \cup {None}) /\ Len(commands) \in Nat \ {0} /\ 1 \in DOMAIN commands
        /\ Head(commands) = first /\ first \in Client \cup {None}
        /\ commands' = Tail(commands) /\ Len(commands') = Len(commands) - 1
        /\ commands' \in Seq(Client \cup {None})
        /\ DOMAIN commands' = 1..Len(commands') /\ DOMAIN commands = 1..Len(commands)
        /\ \A i \in DOMAIN commands' : i + 1 \in DOMAIN commands /\ commands'[i] = commands[i + 1]
    BY DEF Serve, Requests
  <1>2. main' = main /\ worker' = "poll" /\ worker = "select"
    BY DEF Serve, mainVars
  <1>3. /\ pc' \in [Client -> {"idle", "send", "await"}] /\ left' \in [Client -> 0 .. 2]
        /\ \A c \in Client : pc'[c] = "idle" <=> left'[c] = 0
        /\ \A c \in Client : c # first => pc'[c] = pc[c]
        /\ first # None => pc'[first] # "await"
    <2>1. CASE first = None
      <3>1. pc' = pc /\ left' = left
        BY <1>1, <2>1 DEF Serve
      <3> QED BY <2>1, <3>1 DEF Requests
    <2>2. CASE first # None
      <3>1. first \in Client /\ pc[first] = "await" /\ left[first] \in {1, 2}
        BY <1>1, <2>2 DEF Requests
      <3>2. left' = [left EXCEPT ![first] = @ - 1] /\ pc' = [pc EXCEPT ![first] = IF left[first] = 1 THEN "idle" ELSE "send"]
        BY <1>1, <2>2 DEF Serve, Answered
      <3> QED BY <3>1, <3>2 DEF Requests
    <2> QED BY <2>1, <2>2
  <1>4. ASSUME NEW c \in Client, pc'[c] = "await" PROVE \E i \in DOMAIN commands' : commands'[i] = c
    <2>1. c # first /\ pc[c] = "await"
      BY <1>3, <1>4, WorkerAssumption DEF Requests
    <2>2. PICK j \in DOMAIN commands : commands[j] = c
      BY <1>2, <2>1 DEF Requests
    <2>3. j - 1 \in DOMAIN commands' /\ (j - 1) + 1 = j
      BY <1>1, <2>1, <2>2
    <2> QED BY <1>1, <2>2, <2>3
  <1>5. ASSUME NEW i \in DOMAIN commands', commands'[i] # None
        PROVE  /\ pc'[commands'[i]] = "await"
               /\ \A j \in DOMAIN commands' : commands'[j] = commands'[i] => j = i
    <2>1. commands'[i] = commands[i + 1] /\ i + 1 \in DOMAIN commands /\ i + 1 # 1 /\ i \in Nat
      BY <1>1
    <2>2. commands[i + 1] \in Client /\ commands[i + 1] # first
      BY <1>1, <1>5, <2>1 DEF Requests
    <2>3. pc[commands[i + 1]] = "await"
      BY <1>5, <2>1 DEF Requests
    <2>4. ASSUME NEW j \in DOMAIN commands', commands'[j] = commands'[i] PROVE j = i
      <3>1. j + 1 = i + 1
        BY <1>1, <1>5, <2>1, <2>4 DEF Requests
      <3> QED BY <1>1, <2>1, <3>1
    <2> QED BY <1>3, <2>1, <2>2, <2>3, <2>4
  <1>6. main' \in {"opening", "opened"} => \A c \in Client : pc'[c] = "idle"
    <2> SUFFICES ASSUME main' \in {"opening", "opened"}, NEW c \in Client PROVE pc'[c] = "idle"
      OBVIOUS
    <2>1. \A d \in Client : pc[d] = "idle"
      BY <1>2 DEF Requests
    <2>2. first = None
      BY <1>1, <2>1 DEF Requests
    <2> QED BY <1>1, <2>1, <2>2 DEF Serve
  <1>7. Len(commands') <= QueueCapacity
    BY <1>1, WorkerAssumption DEF Requests
  <1> QED BY <1>1, <1>2, <1>3, <1>4, <1>5, <1>6, <1>7 DEF Requests

LEMMA SentIsOnce ==
  ASSUME WorkerInvariant, NEW c \in Client, Send(c)
  PROVE  Requests'
  <1> USE WorkerAssumption DEF WorkerInvariant
  <1>1. main' = main /\ worker' = worker /\ main \notin {"opening", "opened"} /\ c # None
    BY DEF Send, mainVars, workerVars, Requests
  <1>2. CASE worker = "detached"
    <2>1. left[c] \in {1, 2}
      BY DEF Send, Requests
    <2>2. /\ left' = [left EXCEPT ![c] = @ - 1] /\ pc' = [pc EXCEPT ![c] = IF left[c] = 1 THEN "idle" ELSE "send"]
          /\ commands' = commands
      BY <1>2 DEF Send, Answered
    <2>3. commands = <<>>
      BY <1>2 DEF Requests
    <2> QED BY <1>1, <1>2, <2>1, <2>2, <2>3 DEF Requests
  <1>3. CASE worker # "detached"
    <2>1. /\ commands' = Append(commands, c) /\ pc' = [pc EXCEPT ![c] = "await"] /\ left' = left
          /\ Len(commands) < QueueCapacity /\ pc[c] = "send"
      BY <1>3 DEF Send
    <2>2. /\ commands' \in Seq(Client \cup {None}) /\ Len(commands') = Len(commands) + 1
          /\ DOMAIN commands' = 1..Len(commands') /\ DOMAIN commands = 1..Len(commands)
          /\ \A i \in DOMAIN commands : commands'[i] = commands[i] /\ i \in DOMAIN commands'
          /\ commands'[Len(commands')] = c /\ Len(commands') \in DOMAIN commands' /\ Len(commands) \in Nat
      BY <2>1 DEF Requests
    <2>3. \A i \in DOMAIN commands : commands[i] # c
      BY <1>1, <2>1 DEF Requests
    <2>4. ASSUME NEW d \in Client, pc'[d] = "await" PROVE \E i \in DOMAIN commands' : commands'[i] = d
      <3>1. CASE d = c
        BY <2>2, <3>1
      <3>2. CASE d # c
        <4>1. PICK i \in DOMAIN commands : commands[i] = d
          BY <1>3, <2>1, <2>4, <3>2 DEF Requests
        <4> QED BY <2>2, <4>1
      <3> QED BY <3>1, <3>2
    <2>5. ASSUME NEW i \in DOMAIN commands', commands'[i] # None
          PROVE  /\ pc'[commands'[i]] = "await"
                 /\ \A j \in DOMAIN commands' : commands'[j] = commands'[i] => j = i
      <3>1. \A j \in DOMAIN commands' : j \in DOMAIN commands \/ j = Len(commands')
        BY <2>2
      <3>2. CASE i = Len(commands')
        BY <2>1, <2>2, <2>3, <3>1, <3>2 DEF Requests
      <3>3. CASE i \in DOMAIN commands
        <4>1. pc[commands[i]] = "await" /\ commands[i] \in Client
          BY <2>2, <2>5, <3>3 DEF Requests
        <4>2. pc'[commands[i]] = "await"
          BY <2>1, <4>1 DEF Requests
        <4>3. \A j \in DOMAIN commands : commands[j] = commands[i] => j = i
          BY <2>2, <2>5, <3>3 DEF Requests
        <4> QED BY <2>2, <2>3, <3>1, <3>3, <4>2, <4>3
      <3> QED BY <3>1, <3>2, <3>3
    <2>6. /\ pc' \in [Client -> {"idle", "send", "await"}] /\ left' \in [Client -> 0 .. 2]
          /\ \A d \in Client : pc'[d] = "idle" <=> left'[d] = 0
      BY <2>1 DEF Requests
    <2>7. Len(commands') <= QueueCapacity
      BY <2>1, <2>2
    <2> QED BY <1>1, <1>3, <2>2, <2>4, <2>5, <2>6, <2>7 DEF Requests
  <1> QED BY <1>2, <1>3

LEMMA HungUpIsForgotten ==
  ASSUME WorkerInvariant, NEW c \in Client, HangUp(c)
  PROVE  Requests'
  <1> USE WorkerAssumption DEF WorkerInvariant
  <1>1. main' = main /\ worker' = worker /\ c # None
    BY DEF HangUp, mainVars, workerVars
  <1>2. /\ commands' = [i \in DOMAIN commands |-> IF commands[i] = c THEN None ELSE commands[i]]
        /\ pc' = [pc EXCEPT ![c] = "idle"] /\ left' = [left EXCEPT ![c] = 0]
    BY DEF HangUp
  <1>3. /\ commands' \in Seq(Client \cup {None}) /\ Len(commands') = Len(commands)
        /\ DOMAIN commands' = DOMAIN commands
    BY <1>2 DEF Requests
  <1>4. \A i \in DOMAIN commands : commands'[i] = IF commands[i] = c THEN None ELSE commands[i]
    BY <1>2
  <1>5. /\ pc' \in [Client -> {"idle", "send", "await"}] /\ left' \in [Client -> 0 .. 2]
        /\ \A d \in Client : pc'[d] = "idle" <=> left'[d] = 0
        /\ \A d \in Client : d # c => pc'[d] = pc[d]
        /\ pc'[c] = "idle"
    BY <1>2 DEF Requests
  <1>6. ASSUME NEW d \in Client, pc'[d] = "await", worker # "detached"
        PROVE  \E i \in DOMAIN commands' : commands'[i] = d
    <2>1. d # c /\ pc[d] = "await"
      BY <1>5, <1>6
    <2>2. PICK i \in DOMAIN commands : commands[i] = d
      BY <1>6, <2>1 DEF Requests
    <2> QED BY <1>3, <1>4, <2>1, <2>2
  <1>7. ASSUME NEW i \in DOMAIN commands', commands'[i] # None
        PROVE  /\ pc'[commands'[i]] = "await"
               /\ \A j \in DOMAIN commands' : commands'[j] = commands'[i] => j = i
    <2>1. commands[i] # c /\ commands'[i] = commands[i] /\ commands[i] \in Client
      BY <1>3, <1>4, <1>7 DEF Requests
    <2>2. pc[commands[i]] = "await" /\ \A j \in DOMAIN commands : commands[j] = commands[i] => j = i
      BY <1>3, <1>7, <2>1 DEF Requests
    <2>3. \A j \in DOMAIN commands' : commands'[j] = commands'[i] => commands[j] = commands[i]
      BY <1>3, <1>4, <1>7, <2>1
    <2> QED BY <1>3, <1>5, <2>1, <2>2, <2>3
  <1>8. main' \in {"opening", "opened"} => \A d \in Client : pc'[d] = "idle"
    BY <1>1, <1>5 DEF Requests
  <1>9. worker' = "detached" => commands' = <<>>
    <2> SUFFICES ASSUME worker' = "detached" PROVE commands' = <<>>
      OBVIOUS
    <2>1. commands = <<>>
      BY <1>1 DEF Requests
    <2>2. Len(commands') = 0
      BY <1>3, <2>1
    <2> QED BY <1>3, <2>2
  <1>10. Len(commands') <= QueueCapacity
    BY <1>3 DEF Requests
  <1> QED BY <1>1, <1>3, <1>5, <1>6, <1>7, <1>8, <1>9, <1>10 DEF Requests

LEMMA RequestsAreKept ==
  ASSUME WorkerInvariant, [Next]_vars
  PROVE  Requests'
  <1> USE WorkerAssumption DEF WorkerInvariant
  <1>1. CASE UNCHANGED <<pc, left, commands>> /\ (worker' = "detached" <=> worker = "detached")
             /\ (main' \in {"opening", "opened"} => main \in {"opening", "opened"})
    BY <1>1 DEF Requests
  <1>2. CASE Open \/ OpenFails \/ Ready \/ Drain \/ Join \/ Signal \/ Tick \/ Poll \/ SendBatch \/ UNCHANGED vars
    BY <1>1, <1>2 DEF Open, OpenFails, Ready, Drain, Join, Signal, Tick, Poll, SendBatch, vars,
                      mainVars, clientVars, workerVars, Together, Types
  <1>3. CASE Attach
    <2>1. /\ \A c \in Client : pc[c] = "idle"
          /\ pc' = [pc EXCEPT ![Main] = "send"] /\ left' = [left EXCEPT ![Main] = 2]
          /\ commands' = commands /\ worker' = worker /\ main' = "starting"
      BY <1>3 DEF Attach, Requests, workerVars
    <2>2. \A i \in DOMAIN commands : commands[i] = None
      BY <2>1 DEF Requests
    <2> QED BY <2>1, <2>2 DEF Requests
  <1>4. CASE Serve
    BY <1>4, ServedIsOneOf
  <1>5. CASE Detach
    <2>1. /\ commands' = <<>> /\ worker' = "detached" /\ pc' = pc /\ left' = left /\ main' = main
      BY <1>5 DEF Detach, mainVars
    <2>2. Len(commands') = 0 /\ DOMAIN commands' = {} /\ commands' \in Seq(Client \cup {None})
      BY <2>1
    <2> QED BY <2>1, <2>2 DEF Requests
  <1>6. ASSUME NEW c \in Client, Dropped(c) PROVE Requests'
    <2>1. left[c] \in {1, 2} /\ worker' = "detached" /\ worker = "detached" /\ main' = main
      BY <1>6 DEF Dropped, Requests, workerVars, mainVars
    <2>2. /\ left' = [left EXCEPT ![c] = @ - 1] /\ pc' = [pc EXCEPT ![c] = IF left[c] = 1 THEN "idle" ELSE "send"]
          /\ commands' = commands
      BY <1>6 DEF Dropped, Answered
    <2>3. commands = <<>> /\ main \notin {"opening", "opened"}
      BY <1>6, <2>1 DEF Requests, Together
    <2> QED BY <2>1, <2>2, <2>3 DEF Requests
  <1>7. ASSUME NEW c \in Client, NEW n \in 1..2, Begin(c, n) PROVE Requests'
    <2>1. /\ pc[c] = "idle" /\ pc' = [pc EXCEPT ![c] = "send"] /\ left' = [left EXCEPT ![c] = n]
          /\ commands' = commands /\ worker' = worker /\ main' = main /\ main \notin {"opening", "opened"}
      BY <1>7 DEF Begin, mainVars, workerVars
    <2>2. \A i \in DOMAIN commands : commands[i] # c
      BY <2>1 DEF Requests
    <2>3. /\ pc' \in [Client -> {"idle", "send", "await"}] /\ left' \in [Client -> 0 .. 2]
          /\ \A d \in Client : pc'[d] = "idle" <=> left'[d] = 0
          /\ \A d \in Client : d # c => pc'[d] = pc[d]
          /\ pc'[c] = "send"
      BY <2>1 DEF Requests
    <2>4. \A i \in DOMAIN commands : commands[i] # None => commands[i] \in Client /\ pc'[commands[i]] = "await"
      BY <2>2, <2>3 DEF Requests
    <2> QED BY <2>1, <2>3, <2>4 DEF Requests
  <1>8. ASSUME NEW c \in Client, Send(c) \/ HangUp(c) PROVE Requests'
    BY <1>8, SentIsOnce, HungUpIsForgotten
  <1> QED BY <1>2, <1>3, <1>4, <1>5, <1>6, <1>7, <1>8 DEF Next, MainStep, WorkerStep, Handler

------------------------------------------------------------------------------
THEOREM WorkerKeeps == Spec => []WorkerInvariant
  <1>1. Init => WorkerInvariant
    BY WorkerStarts
  <1>2. WorkerInvariant /\ [Next]_vars => WorkerInvariant'
    <2> SUFFICES ASSUME WorkerInvariant, [Next]_vars PROVE WorkerInvariant'
      OBVIOUS
    <2>1. Types' /\ Together' /\ Requests' /\ NoBatchLost'
      BY WorkerTypes, WorkerTogether, RequestsAreKept, WorkerLosesNothing
    <2> QED BY <2>1 DEF WorkerInvariant
  <1> QED BY <1>1, <1>2, PTL DEF Spec

\* Every variable holds a value of its type, the channels keep their capacities,
\* and a client waits just when its command is in the channel (collector/mod.rs
\* PolicyHandle::request, run_worker).
THEOREM WorkerTypeOK == Spec => []TypeOK
  <1>1. WorkerInvariant => TypeOK
    BY DEF WorkerInvariant, Types, Requests, TypeOK
  <1> QED BY <1>1, WorkerKeeps, PTL

\* Backpressure delays polling and drops nothing, whatever the capacities
\* (run_worker, the await on batch_tx.send).
THEOREM WorkerNoBatchLost == Spec => []NoBatchLost
  <1>1. WorkerInvariant => NoBatchLost
    BY DEF WorkerInvariant
  <1> QED BY <1>1, WorkerKeeps, PTL

\* A clean stop leaves no program attached (Collector::shutdown).
THEOREM WorkerStopsDetached == Spec => []StopsDetached
  <1>1. WorkerInvariant => StopsDetached
    BY DEF WorkerInvariant, Together, StopsDetached
  <1> QED BY <1>1, WorkerKeeps, PTL
=============================================================================
