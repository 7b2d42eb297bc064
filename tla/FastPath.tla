------------------------------ MODULE FastPath ------------------------------
(***************************************************************************)
(* One fast path worker: FastPathProcessor::processPacket over the         *)
(* connection table of its own ConnectionTracker.  A worker handles one    *)
(* packet at a time and nobody else writes its table, so a packet is one   *)
(* step.  The rules are what main() installs before processFile starts and *)
(* do not change here.                                                     *)
(*                                                                         *)
(* A packet is its five-tuple, its TCP flags and what its payload is to    *)
(* the extractors: nothing, a TLS ClientHello or an HTTP request or a DNS  *)
(* query naming a host, or anything else (which includes the Ethernet      *)
(* padding of a short frame: payload_length is what is left of the frame). *)
(***************************************************************************)
EXTENDS AppSignatures, FiniteSets, Functions

CONSTANTS
  Tuples, IsTCP, SrcIP, SrcPort, DstPort,  \* the five-tuples and their fields
  FlagSets,    \* the combinations of TCP flags that occur
  Hosts,       \* names in ClientHellos, Host headers and DNS questions
  NoHost,      \* the empty string
  Contains,    \* the signatures that occur in a name
  MaxConns,    \* max_connections_
  StaleAfter,  \* the timeout run() gives to cleanupStale
  MaxTime,     \* bound: the last instant of steady_clock
  MaxPackets,  \* bound: packets handled
  RuleSets     \* the rule sets main() may have installed

ASSUME FastPathAssumption ==
  /\ IsTCP \in [Tuples -> BOOLEAN]
  /\ SrcPort \in [Tuples -> Nat] /\ DstPort \in [Tuples -> Nat]
  /\ FlagSets \subseteq SUBSET {"SYN", "ACK", "FIN", "RST"}
  /\ NoHost \notin Hosts /\ Contains \in [Hosts -> SUBSET Signatures]
  /\ MaxConns \in Nat \ {0} /\ StaleAfter \in Nat
  /\ MaxTime \in Nat /\ MaxPackets \in Nat

\* sniToAppType, by the host; the empty name is no application.
AppOf(h) == IF h = NoHost THEN "UNKNOWN" ELSE SniToAppType(Contains[h])

\* AppType, as far as it occurs.
Apps == {"UNKNOWN", "HTTP", "HTTPS", "DNS"} \cup {AppOf(h) : h \in Hosts}

\* An extractor finds no name in a payload of kind "other".  The name in a
\* ClientHello may be empty, and so may a Host header in front of its colon;
\* that of a DNS question never is.
Payloads ==
  [kind : {"none", "other"}, host : {NoHost}]
    \cup [kind : {"hello", "http"}, host : Hosts \cup {NoHost}]
    \cup [kind : {"dns"}, host : Hosts]

\* Only a TCP packet has flags.
Packets ==
  [tuple : {t \in Tuples : IsTCP[t]}, flags : FlagSets, payload : Payloads]
    \cup [tuple : {t \in Tuples : ~IsTCP[t]}, flags : {{}}, payload : Payloads]

VARIABLES
  conns,       \* connections_: a function from the tracked tuples
  now,         \* steady_clock
  rules,       \* RuleManager's sets
  counts,      \* total_seen_, classified_count_, blocked_count_
  hits,        \* sni_extractions_, classification_hits_
  handled,     \* packets_processed_
  last         \* history: the packet just handled and its verdict

vars == <<conns, now, rules, counts, hits, handled, last>>

Nothing == [packet |-> {}, action |-> "none"]

Init ==
  /\ conns = << >>
  /\ now = 0
  /\ rules \in RuleSets
  /\ counts = [seen |-> 0, classified |-> 0, blocked |-> 0]
  /\ hits = [sni |-> 0, app |-> 0]
  /\ handled = 0
  /\ last = Nothing

-----------------------------------------------------------------------------
(* RuleManager::shouldBlock *)

ShouldBlock(t, app, host) ==
  \/ SrcIP[t] \in rules.ips
  \/ DstPort[t] \in rules.ports
  \/ app # "UNKNOWN" /\ app \in rules.apps
  \/ host # NoHost /\ host \in rules.domains

-----------------------------------------------------------------------------
(* ConnectionTracker *)

\* The entry getOrCreateConnection makes.
NewConnection ==
  [state |-> "NEW", app |-> "UNKNOWN", sni |-> NoHost, last_seen |-> now,
   action |-> "FORWARD", syn |-> FALSE, syn_ack |-> FALSE, fin |-> FALSE]

\* evictOldest may choose any tuple here: equal times are found in the order
\* of the hash table.
Oldest == {t \in DOMAIN conns :
             \A u \in DOMAIN conns : conns[t].last_seen <= conns[u].last_seen}

\* Faulty form of Evictions: the table is allowed one entry too many.
EvictionsTooLate(t) ==
  IF t \in DOMAIN conns \/ Cardinality(DOMAIN conns) <= MaxConns
  THEN {{}} ELSE {{u} : u \in Oldest}

\* The sets of tuples getOrCreateConnection may remove to make room for t.
Evictions(t) ==
  IF t \in DOMAIN conns \/ Cardinality(DOMAIN conns) < MaxConns
  THEN {{}} ELSE {{u} : u \in Oldest}

\* Faulty form of Block: the connection keeps its state.
BlockActionOnly(c) == [c EXCEPT !.action = "DROP"]

\* blockConnection
Block(c) == [c EXCEPT !.state = "BLOCKED", !.action = "DROP"]

\* classifyConnection: only the first classification counts.
Classify(c, app, host) ==
  IF c.state = "CLASSIFIED" THEN c
  ELSE [c EXCEPT !.state = "CLASSIFIED", !.app = app, !.sni = host]

-----------------------------------------------------------------------------
(* FastPathProcessor *)

\* Faulty form of UpdateTCPState: any ACK closes the connection.
UpdateTCPStateAnyAck(c, flags) ==
  LET fin == c.fin \/ "FIN" \in flags IN
  [c EXCEPT !.fin = fin,
            !.state = IF "RST" \in flags \/ "ACK" \in flags THEN "CLOSED" ELSE @]

\* updateTCPState.  CLOSED overrides every other state, BLOCKED too.
UpdateTCPState(c, flags) ==
  LET syn     == c.syn \/ ("SYN" \in flags /\ "ACK" \notin flags)
      syn_ack == c.syn_ack \/ {"SYN", "ACK"} \subseteq flags
      fin     == c.fin \/ "FIN" \in flags
      state   == CASE "RST" \in flags \/ (fin /\ "ACK" \in flags) -> "CLOSED"
                   [] c.state = "NEW" /\ syn /\ syn_ack /\ "ACK" \in flags
                        -> "ESTABLISHED"
                   [] OTHER -> c.state
  IN  [c EXCEPT !.state = state, !.syn = syn, !.syn_ack = syn_ack, !.fin = fin]

\* tryExtractSNI looks at every port (a ClientHello with a name is never
\* shorter than the 50 bytes asked for outside port 443), tryExtractHTTPHost
\* at port 80 only, the DNS extractor at port 53 in either direction.
Named(p) == \/ p.payload.kind = "hello"
            \/ p.payload.kind = "http" /\ DstPort[p.tuple] = 80
Asked(p) == p.payload.kind = "dns" /\ 53 \in {DstPort[p.tuple], SrcPort[p.tuple]}

\* What inspectPayload classifies the connection as, if as anything.
AppFound(p) ==
  CASE Named(p) -> AppOf(p.payload.host)
    [] ~Named(p) /\ Asked(p) -> "DNS"
    [] OTHER -> CASE DstPort[p.tuple] = 80 -> "HTTP"
                  [] DstPort[p.tuple] = 443 -> "HTTPS"
                  [] OTHER -> "none"
HostFound(p) == IF Named(p) \/ Asked(p) THEN p.payload.host ELSE NoHost

\* Faulty form of Inspects: every payload is looked at.
InspectsAlways(c, p) == p.payload.kind # "none"

\* Does processPacket get to inspectPayload with this connection and packet?
Inspects(c, p) ==
  c.state \notin {"BLOCKED", "CLASSIFIED"} /\ p.payload.kind # "none"

\* Faulty form of InspectPayload: other ports are classified too.
InspectPayloadAnyPort(c, p) ==
  IF Inspects(c, p) THEN Classify(c, AppFound(p), HostFound(p)) ELSE c

InspectPayload(c, p) ==
  IF Inspects(c, p) /\ AppFound(p) # "none"
  THEN Classify(c, AppFound(p), HostFound(p)) ELSE c

\* The applications that do not add to classification_hits_.
Generic(p) ==
  {"UNKNOWN", IF p.payload.kind = "hello" THEN "HTTPS" ELSE "HTTP"}

\* Faulty form of CheckRules: only classified connections are looked up.
CheckRulesClassifiedOnly(c, p) ==
  /\ c.state = "CLASSIFIED"
  /\ ShouldBlock(p.tuple, c.app, c.sni)

\* checkRules, by what the connection has been classified as so far
CheckRules(c, p) == ShouldBlock(p.tuple, c.app, c.sni)

One(b) == IF b THEN 1 ELSE 0

\* processPacket and the counters around it
ProcessPacket(p) ==
  /\ handled < MaxPackets
  /\ \E gone \in Evictions(p.tuple) :
       LET t     == p.tuple
           isNew == t \notin DOMAIN conns
           found == IF isNew THEN NewConnection ELSE conns[t]
           seen  == [found EXCEPT !.last_seen = now]
           tcp   == IF IsTCP[t] THEN UpdateTCPState(seen, p.flags) ELSE seen
           early == tcp.state = "BLOCKED"
           named == InspectPayload(tcp, p)
           bad   == ~early /\ CheckRules(named, p)
           read  == Inspects(tcp, p) /\ Named(p)
       IN  /\ conns' = [u \in (DOMAIN conns \ gone) \cup {t} |->
                          IF u # t THEN conns[u]
                          ELSE IF bad THEN Block(named) ELSE named]
           /\ counts' = [seen       |-> counts.seen + One(isNew),
                         classified |-> counts.classified + One(named # tcp),
                         blocked    |-> counts.blocked + One(bad)]
           /\ hits' = [sni |-> hits.sni + One(read /\ p.payload.kind = "hello"),
                       app |-> hits.app + One(read /\ named.app \notin Generic(p))]
           /\ last' = [packet |-> {p},
                       action |-> IF early \/ bad THEN "DROP" ELSE "FORWARD"]
  /\ handled' = handled + 1
  /\ UNCHANGED <<now, rules>>

\* The input queue stays empty for 100 ms: run() calls cleanupStale.
CleanupStale ==
  /\ conns' = Restrict(conns, {t \in DOMAIN conns :
                                 /\ now - conns[t].last_seen <= StaleAfter
                                 /\ conns[t].state # "CLOSED"})
  /\ last' = Nothing
  /\ UNCHANGED <<now, rules, counts, hits, handled>>

Tick ==
  /\ now < MaxTime
  /\ now' = now + 1
  /\ last' = Nothing
  /\ UNCHANGED <<conns, rules, counts, hits, handled>>

Next == (\E p \in Packets : ProcessPacket(p)) \/ CleanupStale \/ Tick

Spec == Init /\ [][Next]_vars

-----------------------------------------------------------------------------
(* Properties *)

States == {"NEW", "ESTABLISHED", "CLASSIFIED", "BLOCKED", "CLOSED"}

Connection ==
  [state : States, app : Apps, sni : Hosts \cup {NoHost}, last_seen : Nat,
   action : {"FORWARD", "DROP"}, syn : BOOLEAN, syn_ack : BOOLEAN, fin : BOOLEAN]

\* Types; and every entry was last seen in the past.
TypeOK ==
  /\ DOMAIN conns \subseteq Tuples
  /\ \A t \in DOMAIN conns :
       conns[t] \in Connection /\ conns[t].last_seen <= now
  /\ now \in Nat /\ handled \in Nat
  /\ rules \in RuleSets
  /\ counts \in [seen : Nat, classified : Nat, blocked : Nat]
  /\ hits \in [sni : Nat, app : Nat]
  /\ last = Nothing \/ last \in [packet : {{p} : p \in Packets},
                                action : {"FORWARD", "DROP"}]

\* The table never has more than max_connections_ entries.
TableBound == Cardinality(DOMAIN conns) <= MaxConns

\* An entry is BLOCKED exactly when what it is classified as matches a rule:
\* no path through processPacket forgets to look the rules up, and none
\* leaves a connection blocked that was reclassified as something harmless.
BlockedIffRuleMatches ==
  \A t \in DOMAIN conns :
     conns[t].state = "BLOCKED" <=> ShouldBlock(t, conns[t].app, conns[t].sni)

\* The verdict on a packet and the state it leaves its connection in agree;
\* in particular a packet from a blocked address or to a blocked port is
\* never forwarded, closed connection or not.
VerdictMatchesState ==
  \A p \in last.packet :
     /\ p.tuple \in DOMAIN conns
     /\ last.action = "DROP" <=> conns[p.tuple].state = "BLOCKED"
     /\ SrcIP[p.tuple] \in rules.ips \/ DstPort[p.tuple] \in rules.ports
          => last.action = "DROP"

\* A connection named by a host all of whose signatures belong to blocked
\* applications is blocked, whichever of them sniToAppType finds first, unless
\* the name came from a DNS question.
SignaturesDecide ==
  \A t \in DOMAIN conns :
     /\ conns[t].sni # NoHost /\ conns[t].app # "DNS"
     /\ AppsIn(Contains[conns[t].sni]) # {}
     /\ AppsIn(Contains[conns[t].sni]) \subseteq rules.apps
     => conns[t].state = "BLOCKED"

\* The tracker's counters never run behind the table.
CountersCover ==
  /\ Cardinality({t \in DOMAIN conns : conns[t].state = "BLOCKED"})
       <= counts.blocked
  /\ Cardinality(DOMAIN conns) <= counts.seen
  /\ hits.app <= counts.classified /\ hits.sni <= counts.classified

\* The step handles a packet of t that closes its connection.
Closes(t) == \E p \in last'.packet : p.tuple = t /\ IsTCP[t] /\
               ("RST" \in p.flags \/ (conns'[t].fin /\ "ACK" \in p.flags))

\* A blocked connection stops being blocked in three ways only: a packet with
\* RST, or with ACK once FIN was seen, reopens the question; the table is
\* full and it is the least recently seen entry; or it has been silent for
\* longer than the timeout.
BlockedSticks ==
  [][\A t \in DOMAIN conns : conns[t].state = "BLOCKED" =>
       IF t \in DOMAIN conns'
       THEN conns'[t].state = "BLOCKED" \/ Closes(t)
       ELSE \/ Cardinality(DOMAIN conns) = MaxConns /\ t \in Oldest
            \/ now - conns[t].last_seen > StaleAfter]_vars

\* Once a connection has been classified, its application and host do not
\* change unless it is closed: later payloads are not looked at.
ClassifiedOnce ==
  [][\A t \in DOMAIN conns \cap DOMAIN conns' :
       /\ conns[t].state \in {"CLASSIFIED", "BLOCKED"}
       /\ conns[t].app # conns'[t].app \/ conns[t].sni # conns'[t].sni
       => Closes(t)]_vars

-----------------------------------------------------------------------------
(* Claims of the documentation that the code does not keep *)

\* include/connection_tracker.h on blockConnection: "Modifies connection fate
\* routing to drop subsequent payloads."  No packet of a tracked connection
\* that is blocked is forwarded.
BlockedDropsAll ==
  [][\A t \in DOMAIN conns : conns[t].state = "BLOCKED" =>
       \A p \in last'.packet : p.tuple = t => last'.action = "DROP"]_vars

\* README.md: "Aegis automatically flags any TLS Client Hellos reporting
\* `.googlevideo.` or `.netflix` signatures and terminates the entire tracked
\* connection output blocks."
HellosFlagged ==
  \A p \in last.packet :
     p.payload.kind = "hello" /\ AppOf(p.payload.host) \in rules.apps
     => last.action = "DROP"

\* The same of the hello a connection is named by, and signature by signature:
\* "--block-app Netflix" drops a hello for a host with a `.netflix` signature.
SignatureFlagged ==
  \A p \in last.packet :
     /\ p.payload.kind = "hello" /\ p.payload.host # NoHost
     /\ conns[p.tuple].sni = p.payload.host /\ conns[p.tuple].app # "DNS"
     /\ AppsIn(Contains[p.payload.host]) \cap rules.apps # {}
     => last.action = "DROP"
=============================================================================
