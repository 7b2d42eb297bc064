----------------------------- MODULE MCFastPath -----------------------------
(* Small instances of FastPath: three flows, two named hosts. *)
EXTENDS FastPath

CONSTANTS web, tls, dns, ip1, ip2, netflix, plain

MCIsTCP == [t \in Tuples |-> t # dns]
MCSrcIP == [t \in Tuples |-> IF t = tls THEN ip1 ELSE ip2]
MCSrcPort == [t \in Tuples |-> 50000]
MCDstPort == [t \in Tuples |-> CASE t = web -> 80 [] t = tls -> 443 [] t = dns -> 53]
MCContains == [h \in Hosts |-> IF h = netflix THEN {"netflix", "x.com"} ELSE {}]

Rules(ips, ports, apps, domains) ==
  [ips |-> ips, ports |-> ports, apps |-> apps, domains |-> domains]

\* One rule of each kind; applications that are only guessed from the port.
MCRuleSets ==
  {Rules({ip1}, {}, {}, {}), Rules({}, {53}, {}, {}),
   Rules({}, {}, {"NETFLIX"}, {}), Rules({}, {}, {"TWITTER", "NETFLIX"}, {}),
   Rules({}, {}, {"HTTP", "HTTPS"}, {}),
   Rules({}, {}, {}, {plain})}

\* What a TCP stack sends: handshake, data, close, reset.
MCFlagSets ==
  {{"SYN"}, {"SYN", "ACK"}, {"ACK"}, {"FIN", "ACK"}, {"RST"}, {"RST", "ACK"}}

\* The same with fewer combinations, for three flows and time.
FewFlagSets == {{"SYN"}, {"SYN", "ACK"}, {"FIN", "ACK"}, {"RST"}}
FewRuleSets ==
  {Rules({ip1}, {53}, {}, {plain}), Rules({}, {}, {"TWITTER", "NETFLIX", "HTTP"}, {})}
=============================================================================
