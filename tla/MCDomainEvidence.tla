-------------------------- MODULE MCDomainEvidence --------------------------
(* One name in two spellings and two addresses, on two interfaces: answers   *)
(* with short and long lives and more records than are read, hellos that fit *)
(* the sample and one that does not, and frames the parser refuses.          *)
EXTENDS DomainEvidence

MCSpelling == [Nas |-> "nas", nas |-> "nas", Bad |-> NoName]

Header(answers) == [part |-> "dns", response |-> TRUE, questions |-> 1, answers |-> answers]
Question(name) == [part |-> "question", spelling |-> name, labels |-> 1]
A(address, ttl) == [part |-> "record", a |-> TRUE, address |-> address, ttl |-> ttl]
Alias == [part |-> "record", a |-> FALSE]
Hello(length) == [part |-> "hello", length |-> length]
Extension(name) == [part |-> "extension", spelling |-> name]
Get(letter) == [part |-> "request", letter |-> letter, whole |-> TRUE]

Ip(payload) ==
  [tags |-> 0, ipv4 |-> TRUE, captured |-> 20, version |-> 4, ihl |-> 5, total |-> 7 + Len(payload),
   later |-> FALSE, protocol |-> "udp", dataOffset |-> 5, source |-> 53, port |-> 9,
   outbound |-> FALSE, ifindex |-> 1, peer |-> "a1", payload |-> payload]
Tcp(port, payload) ==
  [Ip(payload) EXCEPT !.protocol = "tcp", !.total = 10 + Len(payload), !.source = 9,
                      !.port = port, !.outbound = TRUE]

Answer == Ip(<<Header(1), Question("nas"), A("a1", 0)>>)
MCFrame ==
  {Answer,
   [Ip(<<Header(3), Question("Nas"), Alias, A("a1", 3), A("a2", 3), A("a3", 3)>>) EXCEPT !.tags = 1],
   [Answer EXCEPT !.ifindex = 2],
   [Answer EXCEPT !.total = @ + 2],                      \* declares more than it carries
   [Answer EXCEPT !.captured = 6],
   [Answer EXCEPT !.later = TRUE],
   [Tcp(443, <<Hello(3), Extension(NoName), Extension("nas")>>) EXCEPT !.ifindex = 2],
   Tcp(443, <<Hello(7), Extension("nas"), Extension(NoName), Extension(NoName),
              Extension(NoName), Extension(NoName), Extension(NoName)>>),
   Tcp(80, <<Get("G"), Extension("Bad")>>), Tcp(80, <<Get("H"), Extension("nas")>>),
   [Tcp(80, <<Get("O"), Extension("nas")>>) EXCEPT !.dataOffset = 4]}
=============================================================================
