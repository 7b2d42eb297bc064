---------------------------- MODULE RuleManager -----------------------------
(***************************************************************************)
(* RuleManager: the blocking rules, in four parts with a lock each, looked *)
(* up by the fast paths while the application changes, saves and loads     *)
(* them through DPIEngine.  What is done under one of the four locks is    *)
(* one step; every method that takes more than one lock is several.        *)
(*                                                                         *)
(* A name is a sequence of letters, two of which mean something: Star and  *)
(* Space.  A rule, and a line of a rule file, is a pair of its type and a  *)
(* value.                                                                  *)
(***************************************************************************)
EXTENDS Bytes, SequencesExt

CONSTANTS
  Admins,      \* threads that call the methods that change, save or load
  FastPaths,   \* threads that call shouldBlock
  Letters,     \* the characters of names
  IPs, Ports, Names,   \* what rules are made of
  AppNames,    \* appTypeToString, in the order of AppType, UNKNOWN first
  Queries,     \* the arguments of shouldBlock
  Files,       \* the rule files there may be at the beginning
  Star, Space, \* '*' and ' '
  MaxOps       \* bound: calls of the admins

AppTypes == 0 .. Len(AppNames) - 1
UNKNOWN == 0

\* uint32_t
Addresses == {ip \in Nat : ip \div 16777216 < 256}

\* A name: the argument of blockDomain, and what stands behind DOMAIN in a
\* file.  It is one line: names with line breaks are left out.
Name == Seq(Letters)

\* The numbers between the dots of an address as text, where parseIP skips
\* what is no digit and takes nothing for zero.  There may be fewer than four;
\* more than four, or one above 255, are left out.
Octets == {o \in Seq(ByteValues) : Len(o) \in 1 .. 4}

\* A line of a rule file: behind PORT is the number std::stoi reads, or none.
Line == ({"IP"} \X Octets) \cup ({"APP"} \X STRING) \cup ({"DOMAIN"} \X Name)
          \cup ({"PORT"} \X {v \in Seq(Int) : Len(v) <= 1})
          \cup ((STRING \ {"IP", "APP", "DOMAIN", "PORT"}) \X Name)

ASSUME RuleAssumption ==
  /\ Admins \cap FastPaths = {}
  /\ {Star, Space} \subseteq Letters /\ Star # Space
  /\ IPs \subseteq Addresses /\ Ports \subseteq WordValues /\ Names \subseteq Name
  /\ AppNames \in Seq(STRING) /\ Len(AppNames) > 0 /\ IsInjective(AppNames)
  /\ Queries \subseteq [ip : Addresses, port : WordValues, app : AppTypes,
                        host : Seq(Letters)]
  /\ \A f \in Files : f \subseteq Seq(Line)
  /\ MaxOps \in Nat

\* What the methods that block and unblock may be called with.
AnyRule == ({"IP"} \X IPs) \cup ({"APP"} \X AppTypes)
             \cup ({"DOMAIN"} \X Names) \cup ({"PORT"} \X Ports)

VARIABLES
  rules,       \* blocked_ips_, _apps_, _domains_, domain_patterns_, blocked_ports_
  disk,        \* the rule file: none, or a sequence of lines
  apc, part,   \* where an admin's call is, and at which of the four locks
  todo, read,  \* loadRules: lines to come; history: lines done
  buffer,      \* saveRules: lines written so far
  lpc, query, reason,  \* a lookup: the lock it is at, its arguments, its result
  held, ever,  \* history: rules in force all through, at some time of, a call
  alone,       \* history: admins whose load or save no other has disturbed
  snap,        \* history: the rules when they were last saved undisturbed
  ops          \* calls so far

adminVars == <<apc, part, todo, read, buffer, alone, snap, ops>>
lookupVars == <<lpc, query, reason>>
vars == <<rules, disk, adminVars, lookupVars, held, ever>>

NoRules == [ips |-> {}, apps |-> {}, domains |-> {}, patterns |-> << >>, ports |-> {}]

-----------------------------------------------------------------------------
(* Text *)

\* Faulty form of IpToString: the octets in network order.
IpToStringReversed(ip) == SwapBytes32(BytesOf(ip))

\* ipToString: four octets, the lowest byte first.
IpToString(ip) == BytesOf(ip)

\* parseIP: octets that are not there are zero.  Those up to 255 set disjoint
\* bits, so that "|" is a sum.
ParseIP(octets) ==
  Host32([i \in 1 .. 4 |-> IF i <= Len(octets) THEN octets[i] ELSE 0])

\* A name up to its first space.
UpToSpace(name) ==
  LET i == SelectInSeq(name, LAMBDA c : c = Space)
  IN  IF i = 0 THEN name ELSE SubSeq(name, 1, i - 1)

\* iss >> value: spaces in front are skipped, the next one ends the word.
FirstWord(name) ==
  LET i == SelectInSeq(name, LAMBDA c : c # Space)
  IN  IF i = 0 THEN << >> ELSE UpToSpace(SubSeq(name, i, Len(name)))

\* Faulty form of PortOf: the value keeps its bits.
PortOfWide(n) == n

\* blockPort(std::stoi(value)): the argument is a uint16_t.
PortOf(n) == n % 65536

\* blockDomain: anything with a star in it is a pattern.
IsPattern(name) == Contains(name, Star)
Pattern == {n \in Name : IsPattern(n)}

\* What is left of a vector when the elements outside S are erased one by one.
Only(s, S) ==
  LET left[n \in 0 .. Len(s)] ==
        IF n = 0 THEN << >>
        ELSE IF s[n] \in S THEN Append(left[n - 1], s[n]) ELSE left[n - 1]
  IN  left[Len(s)]

\* domainMatchesPattern: a star means something at the beginning only.
DomainMatchesPattern(domain, pattern) ==
  /\ pattern # << >>
  /\ IF Head(pattern) = Star THEN IsSuffix(Tail(pattern), domain)
                             ELSE domain = pattern

-----------------------------------------------------------------------------
(* What is done under one lock *)

\* blockIP, blockApp, blockDomain, blockPort
Added(rs, r) ==
  CASE r[1] = "IP"   -> [rs EXCEPT !.ips = @ \cup {r[2]}]
    [] r[1] = "APP"  -> [rs EXCEPT !.apps = @ \cup {r[2]}]
    [] r[1] = "PORT" -> [rs EXCEPT !.ports = @ \cup {r[2]}]
    [] r[1] = "DOMAIN" /\ IsPattern(r[2]) ->
         [rs EXCEPT !.patterns = Append(@, r[2])]
    [] r[1] = "DOMAIN" /\ ~IsPattern(r[2]) ->
         [rs EXCEPT !.domains = @ \cup {r[2]}]

\* unblockIP, unblockApp, unblockDomain, unblockPort
Removed(rs, r) ==
  CASE r[1] = "IP"   -> [rs EXCEPT !.ips = @ \ {r[2]}]
    [] r[1] = "APP"  -> [rs EXCEPT !.apps = @ \ {r[2]}]
    [] r[1] = "PORT" -> [rs EXCEPT !.ports = @ \ {r[2]}]
    [] r[1] = "DOMAIN" ->
         [rs EXCEPT !.domains = @ \ {r[2]},
                    !.patterns = Only(@, ToSet(@) \ {r[2]})]

\* The order in which clearAll and saveRules visit the four parts.
Parts == <<"IP", "APP", "DOMAIN", "PORT">>

\* Faulty form of Cleared: the patterns stay.
ClearedButPatterns(rs, p) ==
  CASE p = "IP"     -> [rs EXCEPT !.ips = {}]
    [] p = "APP"    -> [rs EXCEPT !.apps = {}]
    [] p = "DOMAIN" -> [rs EXCEPT !.domains = {}]
    [] p = "PORT"   -> [rs EXCEPT !.ports = {}]

\* clearAll, one part
Cleared(rs, p) ==
  CASE p = "IP"     -> [rs EXCEPT !.ips = {}]
    [] p = "APP"    -> [rs EXCEPT !.apps = {}]
    [] p = "DOMAIN" -> [rs EXCEPT !.domains = {}, !.patterns = << >>]
    [] p = "PORT"   -> [rs EXCEPT !.ports = {}]

Lines(type, S) == [i \in 1 .. Len(S) |-> <<type, S[i]>>]

\* Faulty form of Saved: plain names are forgotten when there are patterns.
SavedPatternsOnly(rs, p) ==
  CASE p = "IP"     -> Lines("IP", SetToSeq({IpToString(ip) : ip \in rs.ips}))
    [] p = "APP"    -> Lines("APP", SetToSeq({AppNames[a + 1] : a \in rs.apps}))
    [] p = "DOMAIN" -> Lines("DOMAIN", rs.patterns)
    [] p = "PORT"   -> Lines("PORT", SetToSeq({<<n>> : n \in rs.ports}))

\* What saveRules writes for one part: getBlockedIPs, getBlockedApps,
\* getBlockedDomains, and the ports.  The order of a hash table is arbitrary
\* and does not matter to loadRules.
Saved(rs, p) ==
  CASE p = "IP"     -> Lines("IP", SetToSeq({IpToString(ip) : ip \in rs.ips}))
    [] p = "APP"    -> Lines("APP", SetToSeq({AppNames[a + 1] : a \in rs.apps}))
    [] p = "DOMAIN" -> Lines("DOMAIN", SetToSeq(rs.domains) \o rs.patterns)
    [] p = "PORT"   -> Lines("PORT", SetToSeq({<<n>> : n \in rs.ports}))

\* The rules a line of the file adds: none, or one.  A line of another type, a
\* comment, an unknown application and an empty name are skipped.
Loaded(line) ==
  CASE line[1] = "IP"  -> {<<"IP", ParseIP(line[2])>>}
    [] line[1] = "APP" ->
         {<<"APP", a>> : a \in {b \in AppTypes : AppNames[b + 1] = line[2]}}
    [] line[1] = "DOMAIN" /\ FirstWord(line[2]) # << >> ->
         {<<"DOMAIN", FirstWord(line[2])>>}
    [] line[1] = "PORT" -> {<<"PORT", PortOf(n)>> : n \in ToSet(line[2])}
    [] OTHER -> {}

\* std::stoi throws on a port that is no number.
Throws(line) == line[1] = "PORT" /\ line[2] = << >>

\* Faulty form of Blocked: the patterns are not looked at.
BlockedExactly(rs, p, q) ==
  CASE p = "IP"     -> q.ip \in rs.ips
    [] p = "PORT"   -> q.port \in rs.ports
    [] p = "APP"    -> q.app # UNKNOWN /\ q.app \in rs.apps
    [] p = "DOMAIN" -> q.host # << >> /\ q.host \in rs.domains

\* isIPBlocked, isPortBlocked, isAppBlocked, isDomainBlocked
Blocked(rs, p, q) ==
  CASE p = "IP"     -> q.ip \in rs.ips
    [] p = "PORT"   -> q.port \in rs.ports
    [] p = "APP"    -> q.app # UNKNOWN /\ q.app \in rs.apps
    [] p = "DOMAIN" ->
         /\ q.host # << >>
         /\ \/ q.host \in rs.domains
            \/ \E i \in DOMAIN rs.patterns :
                 DomainMatchesPattern(q.host, rs.patterns[i])

-----------------------------------------------------------------------------
(* Histories *)

InForce(rs) ==
  ({"IP"} \X rs.ips) \cup ({"APP"} \X rs.apps) \cup ({"PORT"} \X rs.ports)
    \cup ({"DOMAIN"} \X (rs.domains \cup ToSet(rs.patterns)))

\* The calls with a history: lookups and saves.
Watched(t) == IF t \in Admins THEN apc[t] = "save" ELSE lpc[t] # "idle"

\* Admin a changes the rules while other calls are under way.
Change(a, rs) ==
  /\ rules' = rs
  /\ alone' = alone \cap {a}
  /\ held' = [t \in DOMAIN held |-> held[t] \cap InForce(rs)]
  /\ ever' = [t \in DOMAIN ever |->
                IF Watched(t) THEN ever[t] \cup InForce(rs) ELSE {}]

\* Thread t begins, ends a call with a history.
Begin(t) ==
  /\ held' = [held EXCEPT ![t] = InForce(rules)]
  /\ ever' = [ever EXCEPT ![t] = InForce(rules)]
End(t) == held' = [held EXCEPT ![t] = {}] /\ ever' = [ever EXCEPT ![t] = {}]

Keep == UNCHANGED <<rules, held, ever>>

-----------------------------------------------------------------------------
Init ==
  /\ rules = NoRules /\ disk \in Files
  /\ apc = [a \in Admins |-> "idle"] /\ part = [a \in Admins |-> 1]
  /\ todo = [a \in Admins |-> << >>] /\ read = [a \in Admins |-> << >>]
  /\ buffer = [a \in Admins |-> << >>]
  /\ lpc = [f \in FastPaths |-> "idle"]
  /\ query \in [FastPaths -> Queries]
  /\ reason = [f \in FastPaths |-> "none"]
  /\ held = [t \in Admins \cup FastPaths |-> {}]
  /\ ever = [t \in Admins \cup FastPaths |-> {}]
  /\ alone = {} /\ snap = {} /\ ops = 0

Call(a) == apc[a] = "idle" /\ ops < MaxOps /\ ops' = ops + 1

Block(a, r) ==
  /\ Call(a)
  /\ Change(a, Added(rules, r))
  /\ UNCHANGED <<disk, apc, part, todo, read, buffer, snap, lookupVars>>

Unblock(a, r) ==
  /\ Call(a)
  /\ Change(a, Removed(rules, r))
  /\ UNCHANGED <<disk, apc, part, todo, read, buffer, snap, lookupVars>>

\* clearAll
ClearAll(a) ==
  /\ Call(a)
  /\ apc' = [apc EXCEPT ![a] = "clear"]
  /\ Keep /\ UNCHANGED <<disk, part, todo, read, buffer, alone, snap, lookupVars>>

\* loadRules opens the file; one that cannot be opened changes nothing.
LoadRules(a) ==
  /\ Call(a)
  /\ \E lines \in disk : todo' = [todo EXCEPT ![a] = lines]
  /\ apc' = [apc EXCEPT ![a] = "reload"]
  /\ alone' = {a}
  /\ Keep /\ UNCHANGED <<disk, part, read, buffer, snap, lookupVars>>

\* The next of the four blocks of clearAll, called by itself or by loadRules.
ClearPart(a) ==
  /\ apc[a] \in {"clear", "reload"}
  /\ Change(a, Cleared(rules, Parts[part[a]]))
  /\ IF part[a] < 4
     THEN part' = [part EXCEPT ![a] = @ + 1] /\ UNCHANGED apc
     ELSE /\ apc' = [apc EXCEPT ![a] = IF @ = "clear" THEN "idle" ELSE "load"]
          /\ part' = [part EXCEPT ![a] = 1]
  /\ UNCHANGED <<disk, todo, read, buffer, snap, ops, lookupVars>>

\* One line of the loop in loadRules.
LoadLine(a) ==
  /\ apc[a] = "load" /\ todo[a] # << >> /\ ~Throws(Head(todo[a]))
  /\ LET new == Loaded(Head(todo[a]))
     IN  IF new = {} THEN Keep /\ UNCHANGED alone
                     ELSE \E r \in new : Change(a, Added(rules, r))
  /\ todo' = [todo EXCEPT ![a] = Tail(@)]
  /\ read' = [read EXCEPT ![a] = Append(@, Head(todo[a]))]
  /\ UNCHANGED <<disk, apc, part, buffer, snap, ops, lookupVars>>

\* The end of the file, or the exception of a port that is no number: the
\* lines after it are not loaded.
LoadEnd(a) ==
  /\ apc[a] = "load" /\ (todo[a] # << >> => Throws(Head(todo[a])))
  /\ todo' = [todo EXCEPT ![a] = << >>] /\ read' = [read EXCEPT ![a] = << >>]
  /\ apc' = [apc EXCEPT ![a] = "idle"] /\ alone' = alone \ {a}
  /\ Keep /\ UNCHANGED <<disk, part, buffer, snap, ops, lookupVars>>

\* saveRules opens, and so empties, the file.  That no other save is under way
\* is an assumption about the callers, not a guard of the code: two streams
\* into one file would overwrite each other.
SaveRules(a) ==
  /\ Call(a) /\ \A b \in Admins : apc[b] # "save"
  /\ disk' = {<< >>}
  /\ apc' = [apc EXCEPT ![a] = "save"]
  /\ Begin(a) /\ alone' = {a} /\ snap' = {}
  /\ UNCHANGED <<rules, part, todo, read, buffer, lookupVars>>

\* One part is copied under its lock and written; the file is complete after
\* the last.
SavePart(a) ==
  /\ apc[a] = "save"
  /\ LET lines == buffer[a] \o Saved(rules, Parts[part[a]]) IN
     IF part[a] < 4
     THEN /\ part' = [part EXCEPT ![a] = @ + 1]
          /\ buffer' = [buffer EXCEPT ![a] = lines]
          /\ Keep /\ UNCHANGED <<apc, disk, alone, snap>>
     ELSE /\ part' = [part EXCEPT ![a] = 1] /\ apc' = [apc EXCEPT ![a] = "idle"]
          /\ buffer' = [buffer EXCEPT ![a] = << >>]
          /\ disk' = {lines} /\ alone' = alone \ {a}
          /\ snap' = IF a \in alone THEN {rules} ELSE {}
          /\ End(a) /\ UNCHANGED rules
  /\ UNCHANGED <<todo, read, ops, lookupVars>>

-----------------------------------------------------------------------------
(* shouldBlock *)

Tests == {"IP", "PORT", "APP", "DOMAIN"}

\* Their order.
NextTest(p) == CASE p = "IP" -> "PORT" [] p = "PORT" -> "APP"
                 [] p = "APP" -> "DOMAIN" [] p = "DOMAIN" -> "done"

ShouldBlock(f, q) ==
  /\ lpc[f] = "idle"
  /\ query' = [query EXCEPT ![f] = q]
  /\ lpc' = [lpc EXCEPT ![f] = "IP"]
  /\ reason' = [reason EXCEPT ![f] = "none"]
  /\ Begin(f) /\ UNCHANGED <<rules, disk, adminVars>>

\* One of the four tests; the first that says yes ends the lookup.
Test(f) ==
  /\ lpc[f] \in Tests
  /\ LET yes == Blocked(rules, lpc[f], query[f])
     IN  /\ reason' = [reason EXCEPT ![f] = IF yes THEN lpc[f] ELSE "none"]
         /\ lpc' = [lpc EXCEPT ![f] = IF yes THEN "done" ELSE NextTest(lpc[f])]
  /\ Keep /\ UNCHANGED <<disk, adminVars, query>>

\* checkRules has the answer.
Answered(f) ==
  /\ lpc[f] = "done"
  /\ lpc' = [lpc EXCEPT ![f] = "idle"]
  /\ End(f) /\ UNCHANGED <<rules, disk, adminVars, query, reason>>

Next ==
  \/ \E a \in Admins :
       \/ \E r \in AnyRule : Block(a, r) \/ Unblock(a, r)
       \/ ClearAll(a) \/ LoadRules(a) \/ SaveRules(a)
       \/ ClearPart(a) \/ LoadLine(a) \/ LoadEnd(a) \/ SavePart(a)
  \/ \E f \in FastPaths :
       (\E q \in Queries : ShouldBlock(f, q)) \/ Test(f) \/ Answered(f)

Spec == Init /\ [][Next]_vars

-----------------------------------------------------------------------------
(* Properties *)

RuleSets ==
  [ips : SUBSET Addresses, apps : SUBSET AppTypes, ports : SUBSET WordValues,
   domains : SUBSET (Name \ Pattern), patterns : Seq(Pattern)]

\* Rules have the types of the C++ containers; a port is a uint16_t even if
\* the file says otherwise, and the two kinds of names do not mix.
TypeOK ==
  /\ rules \in RuleSets /\ snap \subseteq RuleSets
  /\ disk \subseteq Seq(Line)
  /\ apc \in [Admins -> {"idle", "clear", "reload", "load", "save"}]
  /\ part \in [Admins -> 1 .. 4]
  /\ todo \in [Admins -> Seq(Line)] /\ read \in [Admins -> Seq(Line)]
  /\ buffer \in [Admins -> Seq(Line)]
  /\ lpc \in [FastPaths -> Tests \cup {"idle", "done"}]
  /\ query \in [FastPaths -> Queries]
  /\ reason \in [FastPaths -> Tests \cup {"none"}]
  /\ DOMAIN held = Admins \cup FastPaths /\ DOMAIN ever = Admins \cup FastPaths
  /\ alone \subseteq Admins /\ ops \in 0 .. MaxOps

\* The rules that block a query: the address, the port, the application if it
\* is known, and every name that is the host or, behind a leading star, ends
\* it.
Covers(r, q) ==
  \/ r = <<"IP", q.ip>> \/ r = <<"PORT", q.port>>
  \/ r = <<"APP", q.app>> /\ q.app # UNKNOWN
  \/ /\ r[1] = "DOMAIN" /\ q.host # << >>
     /\ \/ r[2] = q.host
        \/ \E i \in 0 .. Len(q.host) :
             r[2] = <<Star>> \o SubSeq(q.host, i + 1, Len(q.host))

\* Four locks taken one after the other are as good as one for a lookup:
\* a rule that is in force from its beginning to its end is found, whatever
\* admins do to the others, and a reason it gives is a rule that was in force
\* while it ran.
LookupRegular ==
  \A f \in FastPaths : lpc[f] = "done" =>
    /\ (\E r \in held[f] : Covers(r, query[f])) => reason[f] # "none"
    /\ reason[f] # "none" =>
         \E r \in ever[f] : r[1] = reason[f] /\ Covers(r, query[f])

\* The rules a list of lines stands for, read as a whole.
Meaning(lines) ==
  LET rs    == UNION {Loaded(line) : line \in ToSet(lines)}
      names == [i \in DOMAIN lines |->
                  IF lines[i][1] = "DOMAIN" THEN FirstWord(lines[i][2]) ELSE << >>]
      Of(type) == {r[2] : r \in {x \in rs : x[1] = type}}
  IN  [ips |-> Of("IP"), apps |-> Of("APP"), ports |-> Of("PORT"),
       domains |-> {d \in Of("DOMAIN") : ~IsPattern(d)},
       patterns |-> Only(names, Pattern)]

\* Unless another admin interferes, loadRules leaves exactly the rules of the
\* lines it has read, nothing of what was there before; an exception in the
\* middle of a file leaves those before it.
LoadFollowsFile ==
  \A a \in alone : apc[a] = "load" => rules = Meaning(read[a])

\* Unless another admin interferes, what saveRules wrote loadRules brings back,
\* names cut down to their first word and those without one left out.
RoundTrip ==
  \A a \in alone, old \in snap :
    apc[a] = "load" /\ todo[a] = << >> =>
      LET names == {FirstWord(d) : d \in old.domains \cup ToSet(old.patterns)}
      IN  /\ rules.ips = old.ips /\ rules.apps = old.apps
          /\ rules.ports = old.ports
          /\ rules.domains = {d \in names : ~IsPattern(d) /\ d # << >>}
          /\ rules.patterns =
               Only([i \in DOMAIN old.patterns |-> FirstWord(old.patterns[i])],
                    Pattern)

\* The rules written in a file, names as they are.
Recorded(lines) ==
  UNION {IF line[1] = "DOMAIN" THEN {line} ELSE Loaded(line) : line \in ToSet(lines)}

\* A file saved while other admins change the rules need not be what the rules
\* ever were, but it has every rule that was in force all the time, and no
\* rule that never was.
SaveRegular ==
  [][\A a \in Admins : apc[a] = "save" /\ apc'[a] = "idle" =>
       \A lines \in disk' :
         held[a] \subseteq Recorded(lines) /\ Recorded(lines) \subseteq ever[a]]_vars
=============================================================================
