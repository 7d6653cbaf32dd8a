------------------------------ MODULE Firewall ------------------------------
(***************************************************************************)
(* The firewall NF (examples/firewall): rules from a file, added one after *)
(* the other to an LPM table, and the handler that accepts or drops by the *)
(* most specific rule for the source address.  Addresses are bit strings.  *)
(***************************************************************************)
EXTENDS Integers, Sequences, FiniteSets, FiniteSetsExt, SequencesExt

CONSTANTS
    Bits,           \* length of an address
    RuleSets,       \* rule files: sequences of [ip, depth, action]
    MaxRules,       \* rules that the LPM table has room for
    Width,          \* 2^8: action is a uint8_t
    MaxPackets      \* bound: packets handled

VARIABLES
    rules,          \* setup_rules
    lpm,            \* the LPM table: prefixes and what they map to
    pc,             \* "setup", "running" or "exited"
    next,           \* the rule that lpm_setup adds next
    stats,          \* firewall_pkt_stats
    done            \* history: the packets and what was decided

vars == <<rules, lpm, pc, next, stats, done>>

Address == [1 .. Bits -> {0, 1}]
NoStats == [drop |-> 0, accept |-> 0, not_ipv4 |-> 0, total |-> 0]

\* setup_rules: a file without "ip", "depth" or "action" ends the process.
Init ==
    /\ rules \in RuleSets
    /\ lpm = {} /\ pc = IF \A i \in DOMAIN rules : "action" \in DOMAIN rules[i]
                        THEN "setup" ELSE "exited"
    /\ next = 1 /\ stats = NoStats /\ done = {}

Prefix(ip, depth) == SubSeq(ip, 1, depth)

\* uint8_t action
Action(a) == a % Width

\* rte_lpm_add: depth 1 to 32, and a later rule for the same prefix replaces it.
LpmAdd(r) ==
    LET p == Prefix(r.ip, r.depth)
    IN  {e \in lpm : e.prefix # p} \cup {[prefix |-> p, hop |-> Action(r.action)]}

\* lpm_setup: a rule that cannot be added ends the loop, and the NF runs with the
\* rules before it.
AddRule ==
    /\ pc = "setup" /\ next <= Len(rules)
    /\ LET r == rules[next] IN
       IF r.depth \in 1 .. Bits /\ (Cardinality(lpm) < MaxRules \/ Cardinality(LpmAdd(r)) <= MaxRules)
       THEN lpm' = LpmAdd(r) /\ next' = next + 1 /\ pc' = pc
       ELSE UNCHANGED <<lpm, next>> /\ pc' = "running"
    /\ UNCHANGED <<rules, stats, done>>

SetupDone ==
    /\ pc = "setup" /\ next > Len(rules) /\ pc' = "running"
    /\ UNCHANGED <<rules, lpm, next, stats, done>>

Matches(a) == {e \in lpm : IsPrefix(e.prefix, a)}

\* Mutant: the first match decides.
LookupShortest(a) == CHOOSE e \in Matches(a) : \A d \in Matches(a) : Len(e.prefix) <= Len(d.prefix)

\* rte_lpm_lookup.
Lookup(a) == CHOOSE e \in Matches(a) : \A d \in Matches(a) : Len(e.prefix) >= Len(d.prefix)

\* Rule 0 accepts, any other and none drops.
Verdict(a) == IF Matches(a) # {} /\ Lookup(a).hop = 0 THEN "accept" ELSE "drop"

Count(k) == stats' = [stats EXCEPT ![k] = @ + 1, !.total = @ + 1]

\* packet_handler.
Packet(a) ==
    /\ pc = "running" /\ stats.total < MaxPackets
    /\ Count(Verdict(a)) /\ done' = done \cup {[ip |-> a, verdict |-> Verdict(a)]}
    /\ UNCHANGED <<rules, lpm, pc, next>>

NotIpv4 ==
    /\ pc = "running" /\ stats.total < MaxPackets
    /\ Count("not_ipv4") /\ UNCHANGED <<rules, lpm, pc, next, done>>

Next == AddRule \/ SetupDone \/ NotIpv4 \/ \E a \in Address : Packet([i \in 1 .. Bits |-> a[i]])

Spec == Init /\ [][Next]_vars

-----------------------------------------------------------------------------
\* The rules that got into the table, the last one for each prefix.
InForce == {i \in 1 .. next - 1 : \A j \in i + 1 .. next - 1 :
               Prefix(rules[j].ip, rules[j].depth) # Prefix(rules[i].ip, rules[i].depth)}
For(a)  == {i \in InForce : IsPrefix(Prefix(rules[i].ip, rules[i].depth), a)}

\* A packet is accepted exactly if the longest rule for its address, of those up
\* to the first that could not be added, has an action that is 0 in 8 bits (256
\* accepts, too); without a rule it is dropped.
DecidedByLongest ==
    \A d \in done :
        LET best == {i \in For(d.ip) : \A j \in For(d.ip) : rules[j].depth <= rules[i].depth}
        IN  d.verdict = "accept" <=> \E i \in best : rules[i].action % Width = 0
=============================================================================
