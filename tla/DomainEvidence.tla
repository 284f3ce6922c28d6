---------------------------- MODULE DomainEvidence ----------------------------
(***************************************************************************)
(* From packets to domain observations: the tc programs parse a packet,    *)
(* pick DNS responses, TLS ClientHellos and HTTP requests by port and      *)
(* first bytes, and copy the start of the payload into a ring buffer       *)
(* (zimascope-ebpf parse.rs, tc.rs); each poll drains the ring, reads the  *)
(* names and reports what it has not reported yet (domain.rs of both       *)
(* crates).                                                                *)
(*                                                                         *)
(* A payload is a sequence of parts: a DNS header, question or record, a   *)
(* TLS hello or extension, an HTTP request line or header.  Lengths count  *)
(* parts.                                                                  *)
(***************************************************************************)
EXTENDS Integers, Sequences, FiniteSets, SequencesExt, FiniteSetsExt

CONSTANTS
  Frame,          \* frames the network may carry: Ethernet, IP and TCP/UDP fields
  Spelling,       \* spellings of names: a name, or NoName if it is refused
  NoName,
  SampleMax,      \* DOMAIN_SAMPLE_MAX, in parts
  DomainRoom,     \* samples the ring buffer holds
  MaxAnswers, MaxLabels, MaxExtensions, MaxHeaders,
  MinTTL, MaxTTL, DirectTTL,   \* in polls
  MaxFrames,      \* bound: frames
  MaxTime         \* bound: ticks

ASSUME EvidenceAssumption ==
  /\ {SampleMax, DomainRoom, MaxAnswers, MaxLabels} \subseteq Nat \ {0}
  /\ {MinTTL, MaxTTL, DirectTTL} \subseteq Nat /\ MinTTL <= MaxTTL

\* An answer for an IPv4 address.
IsAnswer(x) == x.part = "record" /\ x.a

\* Lengths and lives are unsigned on the wire.
ASSUME WireAssumption ==
  \A f \in Frame :
    /\ {f.ihl, f.total, f.dataOffset} \subseteq Nat
    /\ f.payload \in Seq(ToSet(f.payload))
    /\ \A x \in ToSet(f.payload) : IsAnswer(x) => x.ttl \in Nat

VARIABLES
  now,         \* the time
  stats,       \* KERNEL_STATS
  domainRing,  \* DOMAIN_EVENTS, oldest first
  dedupe,      \* DomainDecoder: key -> expiry
  reported,    \* observations handed to the store, with the time of the poll
  heard,       \* history: what every drained sample said, with the time of the poll
  arrived      \* history: samples the packets held, packets refused, samples drained

domainVars == <<now, stats, domainRing, dedupe, reported, heard, arrived>>

Least(a, b) == IF a < b THEN a ELSE b
Most(a, b) == IF a < b THEN b ELSE a

------------------------------------------------------------------------------
\* parse.rs: one frame, its headers in the order they are read.  Lengths of
\* headers are in words; f.captured words can be read.

EthHeader == 4
VlanHeader == 1
Ipv4Header == 5
UdpHeader == 2
TcpHeader == 5

NetworkHeader(f) == EthHeader + (IF f.tags > 0 THEN VlanHeader ELSE 0)
TransportLength(f) == IF f.protocol = "tcp" THEN f.dataOffset ELSE UdpHeader

\* Each check the parser makes, in its order, and what it answers when one fails.
Outcome(f) ==
  LET l3 == NetworkHeader(f)
      l4 == l3 + f.ihl
      limit == Least(l3 + f.total, f.captured)
      least == IF f.protocol = "tcp" THEN TcpHeader ELSE UdpHeader
      checks ==
        <<[fails |-> l3 > f.captured, as |-> "truncated"],
          [fails |-> f.tags > 1 \/ ~f.ipv4, as |-> "skipped"],
          [fails |-> l3 + 1 > f.captured, as |-> "truncated"],
          [fails |-> f.version # 4 \/ f.ihl < Ipv4Header \/ f.total < f.ihl, as |-> "invalid"],
          [fails |-> l3 + 2 > f.captured, as |-> "truncated"],
          [fails |-> f.later, as |-> "skipped"],        \* not the first fragment
          [fails |-> l3 + Ipv4Header > f.captured, as |-> "truncated"],
          [fails |-> f.protocol \notin {"tcp", "udp"}, as |-> "skipped"],
          [fails |-> l4 + least > limit, as |-> "truncated"],
          [fails |-> TransportLength(f) < least, as |-> "invalid"],
          [fails |-> l4 + TransportLength(f) > limit, as |-> "truncated"]>>
      failing == {i \in DOMAIN checks : checks[i].fails}
  IN IF failing = {} THEN "flow" ELSE checks[Min(failing)].as

\* Where the payload starts, and where the packet ends.
Parse(f) ==
  IF Outcome(f) = "flow"
    THEN [outcome |-> "flow", start |-> NetworkHeader(f) + f.ihl + TransportLength(f),
          end |-> NetworkHeader(f) + f.total]
    ELSE [outcome |-> Outcome(f), start |-> 0, end |-> 0]

------------------------------------------------------------------------------
\* tc.rs sample_domains: which packets are samples, by port and first part.

Candidate(f) ==
  LET first == f.payload[1]
      dns == 53 \in {f.source, f.port}
      to(port) == ~dns /\ f.outbound /\ f.protocol = "tcp" /\ f.port = port
  IN CASE f.payload = <<>> -> "none"
       [] dns /\ first.part = "dns" /\ first.response -> "dns"
       [] to(443) /\ first.part = "hello" -> "tls"
       [] to(80) /\ first.part = "request" /\ first.letter \in {"G", "P", "H", "D"} -> "http"
       [] OTHER -> "none"

\* The sample emit_domain_sample copies: at most SampleMax of what the IP header
\* declares; copying more than the packet has fails.
Available(f, r) == r.end - r.start
Sample(f, r) ==
  [kind |-> Candidate(f), at |-> now, ifindex |-> f.ifindex, peer |-> f.peer,
   payload |-> SubSeq(f.payload, 1, Least(Available(f, r), SampleMax))]
Copies(f, r) == Least(Available(f, r), SampleMax) <= Len(f.payload)

Count(field) == [stats EXCEPT ![field] = @ + 1]

\* Variant: a sample the ring has no room for is not counted.
Unnoticed(counts) == counts
\* record_dropped
Lost(counts) == [counts EXCEPT !.dropped = @ + 1]

\* What the packet holds, whatever becomes of it.
Offered(f) == Outcome(f) = "flow" /\ Candidate(f) # "none" /\ Available(f, Parse(f)) # 0
Refused(f) == Outcome(f) \in {"truncated", "invalid"}
Once(holds) == IF holds THEN 1 ELSE 0
Arrived(f) ==
  [arrived EXCEPT !.offered = @ + Once(Offered(f)), !.refused = @ + Once(Refused(f))]

Receive(f) ==
  LET r == Parse(f)
      seen == Count("seen")
      parsed == [seen EXCEPT !.parsed = @ + 1]
  IN /\ stats.seen < MaxFrames
     /\ IF r.outcome # "flow"
          THEN /\ stats' = IF r.outcome = "skipped" THEN seen
                                                    ELSE [seen EXCEPT !.failed = @ + 1]
               /\ UNCHANGED domainRing
          ELSE IF Candidate(f) = "none" \/ Available(f, r) = 0
          THEN stats' = parsed /\ UNCHANGED domainRing
          ELSE IF Len(domainRing) < DomainRoom /\ Copies(f, r)
          THEN /\ stats' = [parsed EXCEPT !.emitted = @ + 1]
               /\ domainRing' = Append(domainRing, Sample(f, r))
          ELSE stats' = Lost(parsed) /\ UNCHANGED domainRing
     /\ arrived' = Arrived(f)
     /\ UNCHANGED <<now, dedupe, reported, heard>>

------------------------------------------------------------------------------
\* zimascope-ebpf/domain.rs: reading a sample.

\* The answers the loop of parse_dns_response emits: of the MaxAnswers records
\* after the question, whatever section of the message they are in, as many as
\* the header counts answers.
Answers(s) == {i \in 3..Least(Len(s), 2 + MaxAnswers) : IsAnswer(s[i])}
Emitted(s) == {i \in Answers(s) : Cardinality({j \in Answers(s) : j < i}) < s[1].answers}

parse_dns_response(s) ==
  IF /\ Len(s) >= 2 /\ s[1].response /\ s[1].questions > 0 /\ s[1].answers > 0
     /\ s[2].labels \in 1..(MaxLabels - 1)
    THEN Emitted(s)
    ELSE {}

\* The first of some parts that carries a name, or NoName.
Named(parts) ==
  LET found == SelectInSeq(parts, LAMBDA x : x.spelling # NoName)
  IN IF found = 0 THEN NoName ELSE parts[found].spelling

\* Nothing is read of a hello whose record does not end within the sample.
extract_tls_sni(s) ==
  IF s[1].length > Len(s) THEN NoName ELSE Named(SubSeq(s, 2, Least(Len(s), 1 + MaxExtensions)))

extract_http_host(s) ==
  IF s[1].whole THEN Named(SubSeq(s, 2, Least(Len(s), 1 + MaxHeaders))) ELSE NoName

------------------------------------------------------------------------------
\* collector/domain.rs: validation, deduplication, expiry.

clamp_dns_ttl(ttl) == Most(MinTTL, Least(ttl, MaxTTL))

normalize_domain(spelling) == IF spelling = NoName THEN NoName ELSE Spelling[spelling]

\* What a sample says of an address and for how long, or NoName.
Observation(s, spelling, address, life) ==
  LET domain == normalize_domain(spelling)
  IN IF domain = NoName THEN NoName
     ELSE [key |-> [domain |-> domain, address |-> address,
                    evidence |-> s.kind, context |-> s.ifindex],
           at |-> s.at, expires |-> s.at + life]

\* All that one sample says, part by part.
Said(s) ==
  LET p == s.payload
      answer(i) == Observation(s, p[2].spelling, p[i].address, clamp_dns_ttl(p[i].ttl))
      direct(spelling) == <<Observation(s, spelling, s.peer, DirectTTL)>>
  IN CASE s.kind = "dns" ->
            [i \in 1..Len(p) |-> IF i \in parse_dns_response(p) THEN answer(i) ELSE NoName]
       [] s.kind = "tls" -> direct(extract_tls_sni(p))
       [] OTHER -> direct(extract_http_host(p))

\* push: an observation is new unless its key is remembered and has not expired.
Fresh(memory, o) == o.key \notin DOMAIN memory \/ memory[o.key] <= now
Push(state, o) ==
  IF o # NoName /\ Fresh(state.dedupe, o)
    THEN [dedupe |-> [k \in DOMAIN state.dedupe \cup {o.key} |->
                        IF k = o.key THEN o.expires ELSE state.dedupe[k]],
          out |-> Append(state.out, o)]
    ELSE state

Decode(state, s) == FoldLeft(Push, state, Said(s))

\* Variant: a key is forgotten in the poll before it expires.
UnexpiredNextPoll(memory) ==
  LET live == {k \in DOMAIN memory : memory[k] > now + 1} IN [k \in live |-> memory[k]]
\* purge_expired
Unexpired(memory) ==
  LET live == {k \in DOMAIN memory : memory[k] > now} IN [k \in live |-> memory[k]]

\* poll_once: the ring is drained, then what has expired is forgotten.
Stamp(o) == [key |-> o.key, at |-> o.at, expires |-> o.expires, polled |-> now]
Poll ==
  LET result == FoldLeft(Decode, [dedupe |-> dedupe, out |-> <<>>], domainRing)
      said == (UNION {ToSet(Said(s)) : s \in ToSet(domainRing)}) \ {NoName}
  IN /\ dedupe' = Unexpired(result.dedupe)
     /\ reported' = reported \cup {Stamp(o) : o \in ToSet(result.out)}
     /\ heard' = heard \cup {Stamp(o) : o \in said}
     /\ arrived' = [arrived EXCEPT !.drained = @ + Len(domainRing)]
     /\ domainRing' = <<>>
     /\ UNCHANGED <<now, stats>>

Tick ==
  /\ now < MaxTime /\ now' = now + 1
  /\ UNCHANGED <<stats, domainRing, dedupe, reported, heard, arrived>>

DomainInit ==
  /\ now = 0 /\ domainRing = <<>> /\ dedupe = <<>> /\ reported = {} /\ heard = {}
  /\ stats = [seen |-> 0, parsed |-> 0, failed |-> 0, emitted |-> 0, dropped |-> 0]
  /\ arrived = [offered |-> 0, refused |-> 0, drained |-> 0]

DomainNext == (\E f \in Frame : Receive(f)) \/ Poll \/ Tick
DomainSpec == DomainInit /\ [][DomainNext]_domainVars

------------------------------------------------------------------------------
\* Properties

\* Nothing is lost on the way from the packet to the store unless a counter says
\* so.  What a drained sample says was reported at that poll, or an earlier
\* report of the same name, address, evidence and interface was still valid.
\* And of the samples the packets held, exactly those not counted as dropped were
\* drained or wait in the ring, and exactly the refused packets count as failed.
\* (collector/domain.rs push and purge_expired, tc.rs process and emit_domain_sample)
NothingIsLost ==
  /\ \A h \in heard :
       \E o \in reported :
         /\ o.key = h.key /\ o.polled <= h.polled
         /\ o.expires > h.polled \/ o = h
  /\ arrived.offered = arrived.drained + Len(domainRing) + stats.dropped
  /\ stats.emitted = arrived.drained + Len(domainRing)
  /\ stats.failed = arrived.refused

\* Nothing is reported again while an earlier report of it is valid, although
\* the key is remembered only until it expires, expiries may be in the past
\* when a sample waited in the ring, and clients ask the same name many times.
\* (collector/domain.rs push, purge_expired)
ReportedOnce ==
  \A o, p \in reported : o.key = p.key /\ o.polled < p.polled => o.expires <= p.polled
=============================================================================
