--------------------------- MODULE FastPathProofs ---------------------------
(***************************************************************************)
(* Theorems about module FastPath, for any flows, hosts, rules and flags,  *)
(* and any size of the table.                                              *)
(***************************************************************************)
EXTENDS FastPath, FiniteSetTheorems, WellFoundedInduction, TLAPS

\* A named connection has the application of its name, unless the name came
\* from a DNS question.
Tells(c) == c.sni # NoHost => c.app \in {"DNS", AppOf(c.sni)}

\* A packet closes the connection it leaves as c.
ClosedBy(p, c) == IsTCP[p.tuple] /\ ("RST" \in p.flags \/ (c.fin /\ "ACK" \in p.flags))

\* The inductive invariant of verdicts.
VerdictInv ==
  TypeOK /\ BlockedIffRuleMatches /\ \A t \in DOMAIN conns : Tells(conns[t])

-----------------------------------------------------------------------------
(* Connections *)

\* An entry the tracker makes.
LEMMA NewType ==
  ASSUME now \in Nat
  PROVE  /\ NewConnection \in Connection /\ NewConnection.state = "NEW"
         /\ Tells(NewConnection)
BY DEF NewConnection, Connection, States, Apps, Tells

\* A packet changes when an entry was last seen, and the TCP flags its state:
\* never its names, and never to BLOCKED.
LEMMA SeenType ==
  ASSUME NEW c \in Connection, now \in Nat
  PROVE  LET s == [c EXCEPT !.last_seen = now]
         IN  /\ s \in Connection /\ s.last_seen = now /\ s.state = c.state
             /\ s.app = c.app /\ s.sni = c.sni /\ s.fin = c.fin
BY DEF Connection

\* updateTCPState leaves a connection that has got past NEW in its state, or
\* closes it.
LEMMA UpdateType ==
  ASSUME NEW c \in Connection, NEW flags
  PROVE  LET u == UpdateTCPState(c, flags)
         IN  /\ u \in Connection /\ u.last_seen = c.last_seen
             /\ u.app = c.app /\ u.sni = c.sni
             /\ u.state = "BLOCKED" => c.state = "BLOCKED"
             /\ c.state # "NEW" => \/ u.state = c.state \/ "RST" \in flags
                                   \/ u.fin /\ "ACK" \in flags
<1> DEFINE syn == c.syn \/ ("SYN" \in flags /\ "ACK" \notin flags)
           syn_ack == c.syn_ack \/ {"SYN", "ACK"} \subseteq flags
           fin == c.fin \/ "FIN" \in flags
           closing == "RST" \in flags \/ (fin /\ "ACK" \in flags)
           opening == c.state = "NEW" /\ syn /\ syn_ack /\ "ACK" \in flags
           state == CASE closing -> "CLOSED" [] opening -> "ESTABLISHED"
                      [] OTHER -> c.state
<1>1. syn \in BOOLEAN /\ syn_ack \in BOOLEAN /\ fin \in BOOLEAN
  OBVIOUS
<1>2. state \in {"CLOSED", "ESTABLISHED", c.state}
  <2> HIDE DEF closing, opening
  <2> QED OBVIOUS
<1>3. UpdateTCPState(c, flags) =
        [c EXCEPT !.state = state, !.syn = syn, !.syn_ack = syn_ack, !.fin = fin]
  BY DEF UpdateTCPState
<1>4. c.state # "NEW" => \/ state = c.state \/ "RST" \in flags
                         \/ fin /\ "ACK" \in flags
  OBVIOUS
<1> HIDE DEF syn, syn_ack, fin, state
<1>5. LET u == UpdateTCPState(c, flags)
      IN  /\ u \in Connection /\ u.last_seen = c.last_seen /\ u.app = c.app
          /\ u.sni = c.sni /\ u.state = state /\ u.fin = fin
  BY <1>1, <1>2, <1>3 DEF Connection, States
<1> QED BY <1>2, <1>4, <1>5

\* What an extractor finds is an application and a host, or nothing.
LEMMA FoundType ==
  ASSUME NEW p \in Packets
  PROVE  /\ p.tuple \in Tuples
         /\ AppFound(p) \in Apps \cup {"none"}
         /\ HostFound(p) \in Hosts \cup {NoHost}
         /\ HostFound(p) # NoHost => AppFound(p) \in {"DNS", AppOf(HostFound(p))}
<1>1. p.tuple \in Tuples /\ p.payload \in Payloads
  BY DEF Packets
<1>2. p.payload.host \in Hosts \cup {NoHost}
  BY <1>1 DEF Payloads
<1>3. AppOf(p.payload.host) \in Apps
  BY <1>2 DEF AppOf, Apps
<1>4. AppFound(p) \in {AppOf(p.payload.host), "DNS", "HTTP", "HTTPS", "none"}
  BY DEF AppFound
<1>5. HostFound(p) \in Hosts \cup {NoHost}
  BY <1>2 DEF HostFound
<1>6. HostFound(p) # NoHost => AppFound(p) \in {"DNS", AppOf(HostFound(p))}
  BY DEF HostFound, AppFound
<1> QED BY <1>1, <1>3, <1>4, <1>5, <1>6 DEF Apps

\* inspectPayload keeps a blocked or classified connection as it is, and blocks
\* none.
LEMMA InspectType ==
  ASSUME NEW c \in Connection, NEW p \in Packets
  PROVE  LET n == InspectPayload(c, p)
         IN  /\ n \in Connection /\ n.last_seen = c.last_seen
             /\ c.state \in {"BLOCKED", "CLASSIFIED"} => n = c
             /\ n.state = "BLOCKED" => c.state = "BLOCKED"
             /\ n.fin = c.fin /\ (Tells(c) => Tells(n))
<1>1. CASE InspectPayload(c, p) = c
  BY <1>1
<1>2. CASE /\ Inspects(c, p) /\ AppFound(p) # "none"
           /\ InspectPayload(c, p) = [c EXCEPT !.state = "CLASSIFIED",
                                        !.app = AppFound(p), !.sni = HostFound(p)]
  <2>1. /\ AppFound(p) \in Apps /\ HostFound(p) \in Hosts \cup {NoHost}
        /\ HostFound(p) # NoHost => AppFound(p) \in {"DNS", AppOf(HostFound(p))}
    BY <1>2, FoundType
  <2>2. c.state \notin {"BLOCKED", "CLASSIFIED"}
    BY <1>2 DEF Inspects
  <2>3. LET n == InspectPayload(c, p)
        IN  /\ n \in Connection /\ n.last_seen = c.last_seen /\ n.fin = c.fin
            /\ n.state = "CLASSIFIED" /\ n.app = AppFound(p) /\ n.sni = HostFound(p)
    BY <1>2, <2>1 DEF Connection, States
  <2> QED BY <2>1, <2>2, <2>3 DEF Tells
<1> QED BY <1>1, <1>2 DEF InspectPayload, Classify

\* blockConnection changes nothing but the fate of a connection.
LEMMA BlockType ==
  ASSUME NEW c \in Connection
  PROVE  /\ Block(c) \in Connection /\ Block(c).state = "BLOCKED"
         /\ Block(c).app = c.app /\ Block(c).sni = c.sni
         /\ Block(c).last_seen = c.last_seen /\ Block(c).fin = c.fin
BY DEF Block, Connection, States

-----------------------------------------------------------------------------
(* Steps *)

\* The table after a packet of t that made room by removing gone.
Replaced(t, gone, c) ==
  [u \in (DOMAIN conns \ gone) \cup {t} |-> IF u # t THEN conns[u] ELSE c]

\* A blocked connection stays blocked, a blocked or classified one keeps its
\* application and host.
Lasts(old, new) ==
  /\ old.state = "BLOCKED" => new.state = "BLOCKED"
  /\ old.state \in {"CLASSIFIED", "BLOCKED"}
       => new.app = old.app /\ new.sni = old.sni

\* What processPacket comes to: the entry it leaves is blocked if and only if
\* a rule matches it, and so is the packet.
Settles(p, gone, c) ==
  /\ conns' = Replaced(p.tuple, gone, c)
  /\ c \in Connection /\ c.last_seen = now
  /\ c.state = "BLOCKED" <=> ShouldBlock(p.tuple, c.app, c.sni)
  /\ Tells(c)
  /\ p.tuple \in DOMAIN conns => Lasts(conns[p.tuple], c) \/ ClosedBy(p, c)
  /\ last' = [packet |-> {p},
              action |-> IF c.state = "BLOCKED" THEN "DROP" ELSE "FORWARD"]
  /\ UNCHANGED <<now, rules>>

\* Whichever way processPacket takes, early return included, it settles.
LEMMA PacketSettles ==
  ASSUME VerdictInv, NEW p \in Packets, ProcessPacket(p)
  PROVE  \E gone \in Evictions(p.tuple) : \E c : Settles(p, gone, c)
<1> DEFINE t == p.tuple
           isNew == t \notin DOMAIN conns
           found == IF isNew THEN NewConnection ELSE conns[t]
           seen == [found EXCEPT !.last_seen = now]
           tcp == IF IsTCP[t] THEN UpdateTCPState(seen, p.flags) ELSE seen
           early == tcp.state = "BLOCKED"
           named == InspectPayload(tcp, p)
           bad == ~early /\ CheckRules(named, p)
           c == IF bad THEN Block(named) ELSE named
<1>1. PICK gone \in Evictions(t) :
        /\ conns' = Replaced(t, gone, c)
        /\ last' = [packet |-> {p}, action |-> IF early \/ bad THEN "DROP" ELSE "FORWARD"]
  BY DEF ProcessPacket, Replaced
<1>2. UNCHANGED <<now, rules>> /\ now \in Nat
  BY DEF ProcessPacket, VerdictInv, TypeOK
<1>3. /\ found \in Connection
      /\ found.state = "BLOCKED" => ShouldBlock(t, found.app, found.sni)
      /\ Tells(found)
      /\ ~isNew => found = conns[t]
  <2>1. CASE isNew
    BY <2>1, <1>2, NewType
  <2>2. CASE ~isNew
    BY <2>2 DEF VerdictInv, TypeOK, BlockedIffRuleMatches
  <2> QED BY <2>1, <2>2
<1> HIDE DEF found
<1>4. /\ seen \in Connection /\ seen.last_seen = now
      /\ seen.state = "BLOCKED" => ShouldBlock(t, seen.app, seen.sni)
      /\ Tells(seen) /\ seen.state = found.state
      /\ seen.app = found.app /\ seen.sni = found.sni
  BY <1>2, <1>3, SeenType DEF Tells
<1> HIDE DEF seen
<1>5. /\ tcp \in Connection /\ tcp.last_seen = now
      /\ tcp.state = "BLOCKED" => ShouldBlock(t, tcp.app, tcp.sni)
      /\ Tells(tcp)
      /\ tcp.app = seen.app /\ tcp.sni = seen.sni
      /\ seen.state # "NEW" => tcp.state = seen.state \/ ClosedBy(p, tcp)
  <2>1. CASE IsTCP[t]
    <3>1. tcp = UpdateTCPState(seen, p.flags)
      BY <2>1
    <3> HIDE DEF tcp
    <3> QED BY <2>1, <3>1, <1>4, UpdateType DEF Tells, ClosedBy
  <2>2. CASE ~IsTCP[t]
    BY <2>2, <1>4
  <2> QED BY <2>1, <2>2
<1> HIDE DEF tcp
<1>6. /\ named \in Connection /\ named.last_seen = now
      /\ tcp.state \in {"BLOCKED", "CLASSIFIED"} => named = tcp
      /\ named.state = "BLOCKED" => early
      /\ named.fin = tcp.fin /\ Tells(named)
  BY <1>5, InspectType
<1> HIDE DEF named
<1>e. ~isNew => Lasts(conns[t], named) \/ ClosedBy(p, named)
  BY <1>3, <1>4, <1>5, <1>6 DEF ClosedBy, Lasts
<1>7. CheckRules(named, p) <=> ShouldBlock(t, named.app, named.sni)
  BY DEF CheckRules
<1>8. CASE early
  <2>1. c = named /\ named = tcp /\ c.state = "BLOCKED"
    BY <1>6, <1>8
  <2>2. Settles(p, gone, named)
    BY <1>1, <1>2, <1>e, <1>5, <1>6, <1>8, <2>1 DEF Settles
  <2> QED BY <1>1, <2>2
<1>9. CASE bad
  <2>1. c = Block(named)
    BY <1>9
  <2>2. /\ c \in Connection /\ c.last_seen = now /\ c.state = "BLOCKED"
        /\ ShouldBlock(t, c.app, c.sni) /\ Tells(c)
        /\ ~isNew => Lasts(conns[t], c) \/ ClosedBy(p, c)
    BY <1>e, <1>6, <1>7, <1>9, <2>1, BlockType DEF Tells, Lasts, ClosedBy
  <2> HIDE DEF c
  <2>3. Settles(p, gone, c)
    BY <1>1, <1>2, <1>9, <2>2 DEF Settles
  <2> QED BY <1>1, <2>3
<1>10. CASE ~early /\ ~bad
  <2>1. /\ c = named /\ named.state # "BLOCKED"
        /\ ~ShouldBlock(t, named.app, named.sni)
    BY <1>6, <1>7, <1>10
  <2>2. Settles(p, gone, named)
    BY <1>1, <1>2, <1>e, <1>6, <1>10, <2>1 DEF Settles
  <2> QED BY <1>1, <2>2
<1> QED BY <1>8, <1>9, <1>10

\* Types after a packet.
LEMMA TypePacket ==
  ASSUME TypeOK, NEW p \in Packets, ProcessPacket(p), NEW gone, NEW c,
         Settles(p, gone, c)
  PROVE  TypeOK'
<1>1. /\ conns' = Replaced(p.tuple, gone, c) /\ c \in Connection /\ c.last_seen = now
      /\ UNCHANGED <<now, rules>>
  BY DEF Settles
<1>2. p.tuple \in Tuples
  BY FoundType
<1>3. DOMAIN conns' = (DOMAIN conns \ gone) \cup {p.tuple}
  BY <1>1 DEF Replaced
<1>4. \A u \in DOMAIN conns' : conns'[u] = IF u # p.tuple THEN conns[u] ELSE c
  BY <1>1, <1>3 DEF Replaced
<1>5. DOMAIN conns' \subseteq Tuples
  BY <1>2, <1>3 DEF TypeOK
<1>6. \A u \in DOMAIN conns' : conns'[u] \in Connection /\ conns'[u].last_seen <= now'
  <2> SUFFICES ASSUME NEW u \in DOMAIN conns'
               PROVE  conns'[u] \in Connection /\ conns'[u].last_seen <= now
    BY <1>1
  <2>1. now \in Nat
    BY DEF TypeOK
  <2>2. CASE u = p.tuple
    BY <1>1, <1>4, <2>1, <2>2
  <2>3. CASE u # p.tuple
    BY <1>3, <1>4, <2>3 DEF TypeOK
  <2> QED BY <2>2, <2>3
<1>7. now' \in Nat /\ rules' \in RuleSets /\ handled' \in Nat
  BY <1>1 DEF TypeOK, ProcessPacket
<1>8. counts' \in [seen : Nat, classified : Nat, blocked : Nat]
  <2>1. \E x, y, z \in {0, 1} :
          counts' = [seen |-> counts.seen + x, classified |-> counts.classified + y,
                     blocked |-> counts.blocked + z]
    BY DEF ProcessPacket, One
  <2> QED BY <2>1 DEF TypeOK
<1>9. hits' \in [sni : Nat, app : Nat]
  <2>1. \E x, y \in {0, 1} : hits' = [sni |-> hits.sni + x, app |-> hits.app + y]
    BY DEF ProcessPacket, One
  <2> QED BY <2>1 DEF TypeOK
<1>10. last' \in [packet : {{q} : q \in Packets}, action : {"FORWARD", "DROP"}]
  BY DEF Settles
<1> QED BY <1>5, <1>6, <1>7, <1>8, <1>9, <1>10 DEF TypeOK

\* Time and cleanup change no entry.
LEMMA OthersKeep ==
  ASSUME VerdictInv, CleanupStale \/ Tick \/ UNCHANGED vars
  PROVE  /\ DOMAIN conns' \subseteq DOMAIN conns
         /\ \A t \in DOMAIN conns' : conns'[t] = conns[t]
         /\ UNCHANGED <<rules, counts, hits, handled>>
         /\ now' \in Nat /\ now' >= now
         /\ last' = Nothing \/ UNCHANGED vars
<1>1. CASE CleanupStale
  BY <1>1 DEF CleanupStale, Restrict, VerdictInv, TypeOK
<1>2. CASE Tick \/ UNCHANGED vars
  BY <1>2 DEF Tick, vars, VerdictInv, TypeOK
<1> QED BY <1>1, <1>2

\* The invariant is inductive.
LEMMA VerdictNext == VerdictInv /\ [Next]_vars => VerdictInv'
<1> SUFFICES ASSUME VerdictInv, [Next]_vars PROVE VerdictInv'
  OBVIOUS
<1>1. CASE \E p \in Packets : ProcessPacket(p)
  <2>1. PICK p \in Packets : ProcessPacket(p)
    BY <1>1
  <2>2. PICK gone \in Evictions(p.tuple) : \E c : Settles(p, gone, c)
    BY <2>1, PacketSettles
  <2>3. PICK c : Settles(p, gone, c)
    BY <2>2
  <2>4. TypeOK'
    BY <2>1, <2>3, TypePacket DEF VerdictInv
  <2>5. /\ DOMAIN conns' = (DOMAIN conns \ gone) \cup {p.tuple}
        /\ \A u \in DOMAIN conns' : conns'[u] = IF u # p.tuple THEN conns[u] ELSE c
        /\ UNCHANGED rules
    BY <2>3 DEF Settles, Replaced
  <2>6. ASSUME NEW u \in DOMAIN conns'
        PROVE  /\ conns'[u].state = "BLOCKED"
                    <=> ShouldBlock(u, conns'[u].app, conns'[u].sni)
               /\ Tells(conns'[u])
    <3>1. CASE u = p.tuple
      <4>1. conns'[u] = c
        BY <2>5, <3>1
      <4> QED BY <2>3, <3>1, <4>1 DEF Settles
    <3>2. CASE u # p.tuple
      <4>1. conns'[u] = conns[u] /\ u \in DOMAIN conns
        BY <2>5, <3>2
      <4> QED BY <4>1 DEF VerdictInv, BlockedIffRuleMatches
    <3> QED BY <3>1, <3>2
  <2>7. BlockedIffRuleMatches'
    BY <2>5, <2>6 DEF BlockedIffRuleMatches, ShouldBlock
  <2> QED BY <2>4, <2>6, <2>7 DEF VerdictInv, Tells
<1>2. CASE CleanupStale \/ Tick \/ UNCHANGED vars
  <2>1. /\ DOMAIN conns' \subseteq DOMAIN conns
        /\ \A t \in DOMAIN conns' : conns'[t] = conns[t]
        /\ UNCHANGED <<rules, counts, hits, handled>>
        /\ now' \in Nat /\ now' >= now
        /\ last' = Nothing \/ UNCHANGED vars
    BY <1>2, OthersKeep
  <2>2. \A t \in DOMAIN conns' : conns'[t] \in Connection /\ conns'[t].last_seen <= now'
    <3> SUFFICES ASSUME NEW t \in DOMAIN conns'
                 PROVE  conns[t] \in Connection /\ conns[t].last_seen <= now'
      BY <2>1
    <3>1. conns[t] \in Connection /\ conns[t].last_seen <= now /\ now \in Nat
      BY <2>1 DEF VerdictInv, TypeOK
    <3>2. conns[t].last_seen \in Nat
      BY <3>1 DEF Connection
    <3> QED BY <2>1, <3>1, <3>2
  <2>3. TypeOK'
    BY <2>1, <2>2 DEF VerdictInv, TypeOK, vars
  <2>4. BlockedIffRuleMatches'
    BY <2>1 DEF VerdictInv, BlockedIffRuleMatches, ShouldBlock
  <2> QED BY <2>1, <2>3, <2>4 DEF VerdictInv, Tells
<1> QED BY <1>1, <1>2 DEF Next

\* The invariant holds from the empty table on.
LEMMA VerdictSafe == Spec => []VerdictInv
<1>1. Init => VerdictInv
  <2> SUFFICES ASSUME Init PROVE VerdictInv
    OBVIOUS
  <2>1. DOMAIN conns = {}
    BY DEF Init
  <2>2. TypeOK
    BY <2>1 DEF Init, TypeOK
  <2> QED BY <2>1, <2>2 DEF VerdictInv, BlockedIffRuleMatches
<1> QED BY <1>1, VerdictNext, PTL DEF Spec

-----------------------------------------------------------------------------
(* Verdicts *)

\* Entries, counters and the clock keep their types.
THEOREM TypeCorrect == Spec => []TypeOK
<1>1. VerdictInv => TypeOK BY DEF VerdictInv
<1> QED BY <1>1, VerdictSafe, PTL

\* In every state of the table exactly the connections that match a rule are
\* blocked, whatever packets came in which order.
THEOREM RulesDecide == Spec => []BlockedIffRuleMatches
<1>1. VerdictInv => BlockedIffRuleMatches BY DEF VerdictInv
<1> QED BY <1>1, VerdictSafe, PTL

\* The verdict on a packet is the state it leaves its connection in.
THEOREM VerdictIsState == Spec => []VerdictMatchesState
<1>1. Init => VerdictMatchesState
  BY DEF Init, VerdictMatchesState, Nothing
<1>2. VerdictInv /\ VerdictMatchesState /\ [Next]_vars => VerdictMatchesState'
  <2> SUFFICES ASSUME VerdictInv, VerdictMatchesState, [Next]_vars
               PROVE  VerdictMatchesState'
    OBVIOUS
  <2>1. CASE \E p \in Packets : ProcessPacket(p)
    <3>1. PICK p \in Packets : ProcessPacket(p)
      BY <2>1
    <3>2. PICK gone \in Evictions(p.tuple) : \E c : Settles(p, gone, c)
      BY <3>1, PacketSettles
    <3>3. PICK c : Settles(p, gone, c)
      BY <3>2
    <3>4. p.tuple \in DOMAIN conns' /\ conns'[p.tuple] = c /\ UNCHANGED rules
      BY <3>3 DEF Settles, Replaced
    <3>5. /\ last'.packet = {p}
          /\ last'.action = "DROP" <=> c.state = "BLOCKED"
      BY <3>3 DEF Settles
    <3>6. SrcIP[p.tuple] \in rules.ips \/ DstPort[p.tuple] \in rules.ports
            => c.state = "BLOCKED"
      BY <3>3 DEF Settles, ShouldBlock
    <3> QED BY <3>4, <3>5, <3>6 DEF VerdictMatchesState
  <2>2. CASE last' = Nothing
    BY <2>2 DEF VerdictMatchesState, Nothing
  <2>3. CASE UNCHANGED vars
    BY <2>3 DEF VerdictMatchesState, vars
  <2> QED BY <2>1, <2>2, <2>3, OthersKeep DEF Next
<1> QED BY <1>1, <1>2, VerdictSafe, PTL DEF Spec

-----------------------------------------------------------------------------
(* Signatures *)

\* Of the entries that occur in a name one is the first, and its application
\* is what sniToAppType returns.
LEMMA FirstSignature ==
  ASSUME NEW n, Matching(n) # {}
  PROVE  SniToAppType(n) \in AppsIn(n)
<1> DEFINE found == Matching(n)
<1>1. found \subseteq Nat
  <2>1. DOMAIN AppTable \subseteq Nat
    BY DEF AppTable
  <2> QED BY <2>1 DEF Matching
<1> HIDE DEF found
<1>2. \E i \in found : \A j \in found : i <= j
  <2>1. PICK i \in found : \A j \in found : ~(<<j, i>> \in OpToRel(<, Nat))
    BY <1>1, WFMin, NatLessThanWellFounded DEF found
  <2>2. \A j \in found : ~(j < i)
    BY <1>1, <2>1 DEF OpToRel
  <2>3. ASSUME NEW j \in found PROVE i <= j
    <3>1. i \in Nat /\ j \in Nat /\ ~(j < i)
      BY <1>1, <2>1, <2>2
    <3> QED BY <3>1
  <2> QED BY <2>1, <2>3
<1>3. SniToAppType(n) = AppTable[CHOOSE i \in found : \A j \in found : i <= j].app
  BY DEF SniToAppType, found
<1>4. (CHOOSE i \in found : \A j \in found : i <= j) \in found
  BY <1>2
<1> QED BY <1>3, <1>4 DEF AppsIn, found

\* No entry of the table is for the unknown application.
LEMMA SignaturesAreKnown == ASSUME NEW n PROVE "UNKNOWN" \notin AppsIn(n)
<1>1. \A i \in DOMAIN AppTable : AppTable[i].app # "UNKNOWN"
  BY DEF AppTable
<1> QED BY <1>1 DEF AppsIn, Matching

\* A connection is blocked when all signatures in its name belong to blocked
\* applications, whichever of them stands first in the table.
THEOREM BlockedBySignature == Spec => []SignaturesDecide
<1>1. ASSUME VerdictInv PROVE SignaturesDecide
  <2> SUFFICES ASSUME NEW t \in DOMAIN conns,
                      conns[t].sni # NoHost, conns[t].app # "DNS",
                      AppsIn(Contains[conns[t].sni]) # {},
                      AppsIn(Contains[conns[t].sni]) \subseteq rules.apps
               PROVE  conns[t].state = "BLOCKED"
    BY DEF SignaturesDecide
  <2>1. conns[t].app = SniToAppType(Contains[conns[t].sni])
    BY <1>1 DEF VerdictInv, Tells, AppOf
  <2>2. Matching(Contains[conns[t].sni]) # {}
    BY DEF AppsIn
  <2>3. conns[t].app \in rules.apps /\ conns[t].app # "UNKNOWN"
    BY <2>1, <2>2, FirstSignature, SignaturesAreKnown
  <2>4. ShouldBlock(t, conns[t].app, conns[t].sni)
    BY <2>3 DEF ShouldBlock
  <2> QED BY <1>1, <2>4 DEF VerdictInv, BlockedIffRuleMatches
<1> QED BY <1>1, VerdictSafe, PTL

-----------------------------------------------------------------------------
(* The table *)

Bounded == IsFiniteSet(DOMAIN conns) /\ TableBound

\* Room is made before an entry is added.
LEMMA BoundedNext == VerdictInv /\ Bounded /\ [Next]_vars => Bounded'
<1> SUFFICES ASSUME VerdictInv, Bounded, [Next]_vars PROVE Bounded'
  OBVIOUS
<1> DEFINE D == DOMAIN conns
<1>d. IsFiniteSet(D) /\ Cardinality(D) \in Nat /\ Cardinality(D) <= MaxConns
  BY FS_CardinalityType DEF Bounded, TableBound
<1>m. MaxConns \in Nat \ {0}
  BY FastPathAssumption
<1>1. CASE \E p \in Packets : ProcessPacket(p)
  <2>1. PICK p \in Packets : ProcessPacket(p)
    BY <1>1
  <2>2. PICK gone \in Evictions(p.tuple) : \E c : Settles(p, gone, c)
    BY <2>1, PacketSettles
  <2>3. DOMAIN conns' = (D \ gone) \cup {p.tuple}
    BY <2>2 DEF Settles, Replaced
  <2>4. CASE p.tuple \in D /\ gone = {}
    <3>1. DOMAIN conns' = D
      BY <2>3, <2>4
    <3> QED BY <1>d, <3>1 DEF Bounded, TableBound
  <2>5. CASE p.tuple \notin D /\ Cardinality(D) < MaxConns /\ gone = {}
    <3>1. DOMAIN conns' = D \cup {p.tuple}
      BY <2>3, <2>5
    <3>2. /\ IsFiniteSet(D \cup {p.tuple})
          /\ Cardinality(D \cup {p.tuple}) = Cardinality(D) + 1
      BY <1>d, <2>5, FS_AddElement
    <3>3. Cardinality(D \cup {p.tuple}) <= MaxConns
      BY <1>d, <1>m, <2>5, <3>2
    <3> QED BY <3>1, <3>2, <3>3 DEF Bounded, TableBound
  <2>6. CASE p.tuple \notin D /\ \E u \in D : gone = {u}
    <3>1. PICK u \in D : gone = {u}
      BY <2>6
    <3>2. /\ IsFiniteSet(D \ {u})
          /\ Cardinality(D \ {u}) = Cardinality(D) - 1
      BY <1>d, <3>1, FS_RemoveElement
    <3>3. p.tuple \notin D \ {u}
      BY <2>6
    <3>4. /\ IsFiniteSet((D \ {u}) \cup {p.tuple})
          /\ Cardinality((D \ {u}) \cup {p.tuple}) = Cardinality(D \ {u}) + 1
      BY <3>2, <3>3, FS_AddElement
    <3>5. Cardinality((D \ {u}) \cup {p.tuple}) <= MaxConns
      BY <1>d, <1>m, <3>2, <3>4
    <3> QED BY <2>3, <3>1, <3>4, <3>5 DEF Bounded, TableBound
  <2> QED BY <2>2, <2>4, <2>5, <2>6 DEF Evictions, Oldest
<1>2. CASE CleanupStale \/ Tick \/ UNCHANGED vars
  <2>1. DOMAIN conns' \subseteq D
    BY <1>2, OthersKeep
  <2>2. /\ IsFiniteSet(DOMAIN conns') /\ Cardinality(DOMAIN conns') <= Cardinality(D)
        /\ Cardinality(DOMAIN conns') \in Nat
    BY <1>d, <2>1, FS_Subset, FS_CardinalityType
  <2>3. Cardinality(DOMAIN conns') <= MaxConns
    BY <1>d, <1>m, <2>2
  <2> QED BY <2>2, <2>3 DEF Bounded, TableBound
<1> QED BY <1>1, <1>2 DEF Next

\* So the table is always finite and within its limit.
LEMMA BoundedSafe == Spec => []Bounded
<1>1. Init => Bounded
  <2> SUFFICES ASSUME Init PROVE Bounded
    OBVIOUS
  <2>1. DOMAIN conns = {}
    BY DEF Init
  <2>2. IsFiniteSet(DOMAIN conns) /\ Cardinality(DOMAIN conns) = 0
    BY <2>1, FS_EmptySet
  <2>3. 0 <= MaxConns
    BY FastPathAssumption
  <2> QED BY <2>2, <2>3 DEF Bounded, TableBound
<1> QED BY <1>1, BoundedNext, VerdictSafe, PTL DEF Spec

\* The table never has more than max_connections_ entries.
THEOREM TableIsBounded == Spec => []TableBound
<1>1. Bounded => TableBound BY DEF Bounded
<1> QED BY <1>1, BoundedSafe, PTL

-----------------------------------------------------------------------------
(* The counters *)

\* The entries counted by blocked_count_ that are still there.
BlockedNow == {t \in DOMAIN conns : conns[t].state = "BLOCKED"}

\* A host found by an extractor is classified as something.
LEMMA NamedIsSomething ==
  ASSUME NEW p \in Packets, Named(p)
  PROVE  AppFound(p) # "none"
<1>1. AppFound(p) = AppOf(p.payload.host)
  BY DEF AppFound
<1>2. \A i \in DOMAIN AppTable : AppTable[i].app # "none"
  BY DEF AppTable
<1>3. \A n : "none" \notin AppsIn(n)
  BY <1>2 DEF AppsIn, Matching
<1>4. \A n : SniToAppType(n) # "none"
  <2> TAKE n
  <2>1. CASE Matching(n) = {}
    BY <2>1 DEF SniToAppType
  <2>2. CASE Matching(n) # {}
    BY <1>3, <2>2, FirstSignature
  <2> QED BY <2>1, <2>2
<1> QED BY <1>1, <1>4 DEF AppOf

\* What a packet adds to the counters: a connection seen for every entry it
\* makes, a blocked one for every entry it blocks, and no extraction or hit
\* without a classification.
Counts(p, gone, c) ==
  /\ conns' = Replaced(p.tuple, gone, c)
  /\ counts'.seen = counts.seen + One(p.tuple \notin DOMAIN conns)
  /\ counts'.blocked \in {counts.blocked, counts.blocked + 1}
  /\ c.state = "BLOCKED" /\ p.tuple \notin BlockedNow
       => counts'.blocked = counts.blocked + 1
  /\ \/ counts'.classified = counts.classified + 1
     \/ counts'.classified = counts.classified /\ UNCHANGED hits
  /\ hits'.sni \in {hits.sni, hits.sni + 1}
  /\ hits'.app \in {hits.app, hits.app + 1}

\* Every way through processPacket counts.
LEMMA PacketCounts ==
  ASSUME VerdictInv, NEW p \in Packets, ProcessPacket(p)
  PROVE  \E gone \in Evictions(p.tuple) : \E c : Counts(p, gone, c)
<1> DEFINE t == p.tuple
           isNew == t \notin DOMAIN conns
           found == IF isNew THEN NewConnection ELSE conns[t]
           seen == [found EXCEPT !.last_seen = now]
           tcp == IF IsTCP[t] THEN UpdateTCPState(seen, p.flags) ELSE seen
           early == tcp.state = "BLOCKED"
           named == InspectPayload(tcp, p)
           bad == ~early /\ CheckRules(named, p)
           c == IF bad THEN Block(named) ELSE named
           read == Inspects(tcp, p) /\ Named(p)
<1>1. PICK gone \in Evictions(t) :
        /\ conns' = Replaced(t, gone, c)
        /\ counts' = [seen       |-> counts.seen + One(isNew),
                      classified |-> counts.classified + One(named # tcp),
                      blocked    |-> counts.blocked + One(bad)]
        /\ hits' = [sni |-> hits.sni + One(read /\ p.payload.kind = "hello"),
                    app |-> hits.app + One(read /\ named.app \notin Generic(p))]
  BY DEF ProcessPacket, Replaced
<1>2. now \in Nat
  BY DEF VerdictInv, TypeOK
<1>3. /\ counts.seen \in Nat /\ counts.classified \in Nat /\ counts.blocked \in Nat
      /\ hits.sni \in Nat /\ hits.app \in Nat
      /\ hits = [sni |-> hits.sni, app |-> hits.app]
  BY DEF VerdictInv, TypeOK
<1>4. /\ found \in Connection
      /\ found.state = "BLOCKED" => t \in BlockedNow
  <2>1. CASE isNew
    BY <2>1, <1>2, NewType
  <2>2. CASE ~isNew
    BY <2>2 DEF VerdictInv, TypeOK, BlockedNow
  <2> QED BY <2>1, <2>2
<1> HIDE DEF found
<1>5. seen \in Connection /\ seen.state = found.state
  BY <1>2, <1>4, SeenType
<1> HIDE DEF seen
<1>6. tcp \in Connection /\ (early => t \in BlockedNow)
  <2>1. CASE IsTCP[t]
    <3>1. tcp = UpdateTCPState(seen, p.flags)
      BY <2>1
    <3> HIDE DEF tcp
    <3> QED BY <3>1, <1>4, <1>5, UpdateType
  <2>2. CASE ~IsTCP[t]
    BY <2>2, <1>4, <1>5
  <2> QED BY <2>1, <2>2
<1> HIDE DEF tcp
<1>7. named.state = "BLOCKED" => early
  BY <1>6, InspectType
<1>8. read => named # tcp
  <2> SUFFICES ASSUME read PROVE named # tcp
    OBVIOUS
  <2>1. AppFound(p) # "none" /\ tcp.state # "CLASSIFIED"
    BY NamedIsSomething DEF Inspects
  <2>2. named = [tcp EXCEPT !.state = "CLASSIFIED", !.app = AppFound(p),
                            !.sni = HostFound(p)]
    BY <2>1 DEF InspectPayload, Classify
  <2>3. named.state = "CLASSIFIED"
    BY <1>6, <2>2 DEF Connection
  <2> QED BY <2>1, <2>3
<1> HIDE DEF named
<1>9. c.state = "BLOCKED" /\ t \notin BlockedNow => bad
  BY <1>6, <1>7
<1> HIDE DEF bad, read, isNew, c
<1>10. \A b : One(b) \in {0, 1} /\ (b => One(b) = 1) /\ (~b => One(b) = 0)
  BY DEF One
<1>11. counts'.seen = counts.seen + One(isNew)
  BY <1>1
<1>12. /\ counts'.blocked \in {counts.blocked, counts.blocked + 1}
       /\ bad => counts'.blocked = counts.blocked + 1
  <2>1. counts'.blocked = counts.blocked + One(bad)
    BY <1>1
  <2>2. One(bad) \in {0, 1} /\ (bad => One(bad) = 1)
    BY <1>10
  <2> QED BY <1>3, <2>1, <2>2
<1>13. /\ \/ counts'.classified = counts.classified + 1
          \/ counts'.classified = counts.classified /\ UNCHANGED hits
       /\ hits'.sni \in {hits.sni, hits.sni + 1}
       /\ hits'.app \in {hits.app, hits.app + 1}
  <2> DEFINE hello == read /\ p.payload.kind = "hello"
             hit == read /\ named.app \notin Generic(p)
             first == named # tcp
  <2>1. (hello => first) /\ (hit => first)
    BY <1>8
  <2>2. /\ counts'.classified = counts.classified + One(first)
        /\ hits' = [sni |-> hits.sni + One(hello), app |-> hits.app + One(hit)]
    BY <1>1
  <2> HIDE DEF hello, hit, first
  <2>3. /\ One(hello) \in {0, 1} /\ One(hit) \in {0, 1}
        /\ first => One(first) = 1
        /\ ~first => One(first) = 0 /\ One(hello) = 0 /\ One(hit) = 0
    BY <1>10, <2>1
  <2>4. hits'.sni = hits.sni + One(hello) /\ hits'.app = hits.app + One(hit)
    BY <2>2
  <2>5. CASE first
    <3>1. counts'.classified = counts.classified + 1
      BY <2>2, <2>3, <2>5
    <3>2. /\ hits'.sni \in {hits.sni, hits.sni + 1}
          /\ hits'.app \in {hits.app, hits.app + 1}
      BY <1>3, <2>3, <2>4
    <3> QED BY <3>1, <3>2
  <2>6. CASE ~first
    <3>1. One(first) = 0 /\ One(hello) = 0 /\ One(hit) = 0
      BY <2>3, <2>6
    <3>2. /\ counts'.classified = counts.classified
          /\ hits'.sni = hits.sni /\ hits'.app = hits.app
      BY <1>3, <2>2, <2>4, <3>1
    <3>3. hits' = [sni |-> hits'.sni, app |-> hits'.app]
      BY <2>2
    <3>4. hits' = hits
      BY <1>3, <3>2, <3>3
    <3> QED BY <3>2, <3>4
  <2> QED BY <2>5, <2>6
<1>14. Counts(p, gone, c)
  BY <1>1, <1>9, <1>11, <1>12, <1>13 DEF Counts, isNew
<1> QED BY <1>1, <1>14

\* CountersCover is inductive once types and finiteness are known.
LEMMA CountersNext ==
  VerdictInv /\ Bounded /\ CountersCover /\ [Next]_vars => CountersCover'
<1> SUFFICES ASSUME VerdictInv, Bounded, CountersCover, [Next]_vars
             PROVE  CountersCover'
  OBVIOUS
<1> DEFINE D == DOMAIN conns
           B == BlockedNow
<1>1. /\ counts.seen \in Nat /\ counts.classified \in Nat /\ counts.blocked \in Nat
      /\ hits.sni \in Nat /\ hits.app \in Nat
  BY DEF VerdictInv, TypeOK
<1>2. /\ IsFiniteSet(D) /\ Cardinality(D) \in Nat
      /\ IsFiniteSet(B) /\ Cardinality(B) \in Nat
  <2>1. IsFiniteSet(D) /\ B \subseteq D
    BY DEF Bounded, BlockedNow
  <2> QED BY <2>1, FS_Subset, FS_CardinalityType
<1>3. /\ Cardinality(B) <= counts.blocked /\ Cardinality(D) <= counts.seen
      /\ hits.app <= counts.classified /\ hits.sni <= counts.classified
  BY DEF CountersCover, BlockedNow
<1>4. CASE \E p \in Packets : ProcessPacket(p)
  <2>1. PICK p \in Packets : ProcessPacket(p)
    BY <1>4
  <2>2. PICK gone \in Evictions(p.tuple) : \E c : Counts(p, gone, c)
    BY <2>1, PacketCounts
  <2>3. PICK c : Counts(p, gone, c)
    BY <2>2
  <2>4. /\ DOMAIN conns' = (D \ gone) \cup {p.tuple}
        /\ \A u \in DOMAIN conns' : conns'[u] = IF u # p.tuple THEN conns[u] ELSE c
    BY <2>3 DEF Counts, Replaced
  <2>5. Cardinality(DOMAIN conns') <= counts'.seen
    <3>1. DOMAIN conns' \subseteq D \cup {p.tuple}
      BY <2>4
    <3>2. /\ IsFiniteSet(D \cup {p.tuple})
          /\ Cardinality(D \cup {p.tuple}) =
               IF p.tuple \in D THEN Cardinality(D) ELSE Cardinality(D) + 1
      BY <1>2, FS_AddElement
    <3>3. Cardinality(DOMAIN conns') \in Nat
          /\ Cardinality(DOMAIN conns') <= Cardinality(D \cup {p.tuple})
      BY <3>1, <3>2, FS_Subset, FS_CardinalityType
    <3>4. counts'.seen = counts.seen + IF p.tuple \in D THEN 0 ELSE 1
      BY <2>3 DEF Counts, One
    <3> QED BY <1>1, <1>2, <1>3, <3>2, <3>3, <3>4
  <2>6. Cardinality(B') <= counts'.blocked
    <3>1. B' \subseteq B \cup {p.tuple} /\ (p.tuple \in B' => c.state = "BLOCKED")
      BY <2>4 DEF BlockedNow
    <3>2. counts'.blocked \in {counts.blocked, counts.blocked + 1}
      BY <2>3 DEF Counts
    <3>3. CASE p.tuple \in B' /\ p.tuple \notin B
      <4>1. counts'.blocked = counts.blocked + 1
        BY <2>3, <3>1, <3>3 DEF Counts
      <4>2. /\ IsFiniteSet(B \cup {p.tuple})
            /\ Cardinality(B \cup {p.tuple}) = Cardinality(B) + 1
        BY <1>2, <3>3, FS_AddElement
      <4>3. Cardinality(B') \in Nat /\ Cardinality(B') <= Cardinality(B \cup {p.tuple})
        BY <3>1, <4>2, FS_Subset, FS_CardinalityType
      <4> QED BY <1>1, <1>2, <1>3, <4>1, <4>2, <4>3
    <3>4. CASE ~(p.tuple \in B' /\ p.tuple \notin B)
      <4>1. B' \subseteq B
        BY <3>1, <3>4
      <4>2. Cardinality(B') \in Nat /\ Cardinality(B') <= Cardinality(B)
        BY <1>2, <4>1, FS_Subset, FS_CardinalityType
      <4> QED BY <1>1, <1>2, <1>3, <3>2, <4>2
    <3> QED BY <3>3, <3>4
  <2>7. hits'.app <= counts'.classified /\ hits'.sni <= counts'.classified
    <3>1. /\ \/ counts'.classified = counts.classified + 1
             \/ counts'.classified = counts.classified /\ UNCHANGED hits
          /\ hits'.sni \in {hits.sni, hits.sni + 1}
          /\ hits'.app \in {hits.app, hits.app + 1}
      BY <2>3 DEF Counts
    <3> QED BY <1>1, <1>3, <3>1
  <2> QED BY <2>5, <2>6, <2>7 DEF CountersCover, BlockedNow
<1>5. CASE CleanupStale \/ Tick \/ UNCHANGED vars
  <2>1. DOMAIN conns' \subseteq D /\ \A u \in DOMAIN conns' : conns'[u] = conns[u]
    BY <1>5, OthersKeep
  <2>2. counts' = counts /\ hits' = hits
    BY <1>5 DEF CleanupStale, Tick, vars
  <2>3. B' \subseteq B
    BY <2>1 DEF BlockedNow
  <2>4. /\ Cardinality(DOMAIN conns') \in Nat /\ Cardinality(DOMAIN conns') <= Cardinality(D)
        /\ Cardinality(B') \in Nat /\ Cardinality(B') <= Cardinality(B)
    BY <1>2, <2>1, <2>3, FS_Subset, FS_CardinalityType
  <2>5. Cardinality(DOMAIN conns') <= counts.seen /\ Cardinality(B') <= counts.blocked
    BY <1>1, <1>2, <1>3, <2>4
  <2> QED BY <1>3, <2>2, <2>5 DEF CountersCover, BlockedNow
<1> QED BY <1>4, <1>5 DEF Next

\* total_seen_ and blocked_count_ never fall behind the entries of the table,
\* and every extraction the fast path counts was a classification.
THEOREM CountersKeepUp == Spec => []CountersCover
<1>1. Init => CountersCover
  <2> SUFFICES ASSUME Init PROVE CountersCover
    OBVIOUS
  <2>1. DOMAIN conns = {}
    BY DEF Init
  <2>2. {t \in DOMAIN conns : conns[t].state = "BLOCKED"} = {}
    BY <2>1
  <2>3. Cardinality({}) = 0
    BY FS_EmptySet
  <2> QED BY <2>1, <2>2, <2>3 DEF Init, CountersCover
<1> QED BY <1>1, CountersNext, VerdictSafe, BoundedSafe, PTL DEF Spec

-----------------------------------------------------------------------------
(* What a step may not do *)

\* A step that handles a packet of t keeps a verdict and a name, or closes.
LEMMA EntryLasts ==
  ASSUME VerdictInv, [Next]_vars, NEW t \in DOMAIN conns, t \in DOMAIN conns'
  PROVE  Lasts(conns[t], conns'[t]) \/ Closes(t)
<1>1. CASE \E p \in Packets : ProcessPacket(p)
  <2>1. PICK p \in Packets : ProcessPacket(p)
    BY <1>1
  <2>2. PICK gone \in Evictions(p.tuple) : \E c : Settles(p, gone, c)
    BY <2>1, PacketSettles
  <2>3. PICK c : Settles(p, gone, c)
    BY <2>2
  <2>4. /\ conns'[t] = IF t # p.tuple THEN conns[t] ELSE c
        /\ last'.packet = {p}
    BY <2>3 DEF Settles, Replaced
  <2>5. CASE t = p.tuple
    <3>1. Lasts(conns[t], c) \/ ClosedBy(p, c)
      BY <2>3, <2>5 DEF Settles
    <3> QED BY <2>4, <2>5, <3>1 DEF ClosedBy, Closes
  <2>6. CASE t # p.tuple
    BY <2>4, <2>6 DEF Lasts
  <2> QED BY <2>5, <2>6
<1>2. CASE CleanupStale \/ Tick \/ UNCHANGED vars
  <2>1. conns'[t] = conns[t]
    BY <1>2, OthersKeep
  <2> QED BY <2>1 DEF Lasts
<1> QED BY <1>1, <1>2 DEF Next

\* Only a full table and silence remove a blocked entry.
LEMMA EntryGone ==
  ASSUME VerdictInv, Bounded, [Next]_vars, NEW t \in DOMAIN conns,
         t \notin DOMAIN conns', conns[t].state = "BLOCKED"
  PROVE  \/ Cardinality(DOMAIN conns) = MaxConns /\ t \in Oldest
         \/ now - conns[t].last_seen > StaleAfter
<1>1. CASE \E p \in Packets : ProcessPacket(p)
  <2>1. PICK p \in Packets : ProcessPacket(p)
    BY <1>1
  <2>2. PICK gone \in Evictions(p.tuple) : \E c : Settles(p, gone, c)
    BY <2>1, PacketSettles
  <2>3. DOMAIN conns' = (DOMAIN conns \ gone) \cup {p.tuple}
    BY <2>2 DEF Settles, Replaced
  <2>4. t \in gone
    BY <2>3
  <2>5. t \in Oldest /\ ~(Cardinality(DOMAIN conns) < MaxConns)
    BY <2>2, <2>4 DEF Evictions
  <2>6. Cardinality(DOMAIN conns) \in Nat /\ MaxConns \in Nat
    BY FastPathAssumption, FS_CardinalityType DEF Bounded
  <2> QED BY <2>5, <2>6 DEF Bounded, TableBound
<1>2. CASE CleanupStale
  <2>1. ~(now - conns[t].last_seen <= StaleAfter)
    BY <1>2 DEF CleanupStale, Restrict
  <2>2. conns[t].last_seen \in Nat /\ now \in Nat /\ StaleAfter \in Nat
    BY FastPathAssumption DEF VerdictInv, TypeOK, Connection
  <2> QED BY <2>1, <2>2
<1>3. CASE Tick \/ UNCHANGED vars
  BY <1>3 DEF Tick, vars
<1> QED BY <1>1, <1>2, <1>3 DEF Next

\* A blocked connection stops being blocked only when a packet closes it, the
\* table is full and it is the oldest, or it has been silent for too long.
THEOREM BlockedStays == Spec => BlockedSticks
<1>1. VerdictInv /\ Bounded /\ [Next]_vars =>
        [\A t \in DOMAIN conns : conns[t].state = "BLOCKED" =>
           IF t \in DOMAIN conns'
           THEN conns'[t].state = "BLOCKED" \/ Closes(t)
           ELSE \/ Cardinality(DOMAIN conns) = MaxConns /\ t \in Oldest
                \/ now - conns[t].last_seen > StaleAfter]_vars
  BY EntryLasts, EntryGone DEF Lasts
<1> QED BY <1>1, VerdictSafe, BoundedSafe, PTL DEF Spec, BlockedSticks

\* A classification lasts until a packet closes the connection.
THEOREM ClassificationStays == Spec => ClassifiedOnce
<1>1. VerdictInv /\ [Next]_vars =>
        [\A t \in DOMAIN conns \cap DOMAIN conns' :
           /\ conns[t].state \in {"CLASSIFIED", "BLOCKED"}
           /\ conns[t].app # conns'[t].app \/ conns[t].sni # conns'[t].sni
           => Closes(t)]_vars
  BY EntryLasts DEF Lasts
<1> QED BY <1>1, VerdictSafe, PTL DEF Spec, ClassifiedOnce
=============================================================================
