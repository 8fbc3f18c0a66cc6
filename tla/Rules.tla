------------------------------- MODULE Rules -------------------------------
(***************************************************************************)
(* The configuration file (ffcontrol.c): sections of options become deny   *)
(* rules and asymmetric rules, and a new conntrack is judged by them.      *)
(*                                                                         *)
(* A line of the file is an action.  A value is a model value: ports,      *)
(* protocols, addresses and masked marks differ only in whether they match *)
(* the conntrack's.  Options "port", "ip_v4_addr" and "ip_v6_addr" stand   *)
(* for the four attributes FourOf gives them.                              *)
(***************************************************************************)
EXTENDS Naturals, Sequences, FiniteSets, SequencesExt

CONSTANTS
    Options,      \* options of a fastforward section: [name, value]
    AsymOptions,  \* options of an asym_fastforward section
    Conntracks,   \* [attrs, family, mcast, iif, route] judged in the end
    Interfaces,   \* names of the interfaces CMM knows
    MaxLines      \* bound on the lines of the file

VARIABLES
    denyRules,    \* a set of rules, because one that matches is enough;
                  \* a rule is a sequence of attributes, newest first
    asymFFRules,  \* a sequence of rules, newest first
    section,      \* section_data and the handler in charge
    parser,       \* "reading", then "running" or, after an error, "stopped"
    failed,       \* ret of cmmFcParser
    asymff,       \* globalConf.asymff_enable
    written,      \* history: the sections as they stand in the file
    lines         \* history: lines read

ruleVars == <<denyRules, asymFFRules, section, parser, failed, asymff, written, lines>>

\* The attributes that the options "port", "ip_v4_addr", "ip_v6_addr" stand for.
PortAttrs == <<"orig_src_port", "orig_dst_port", "repl_src_port", "repl_dst_port">>

Ipv4Attrs == <<"orig_src_ipv4", "orig_dst_ipv4", "reply_src_ipv4", "reply_dst_ipv4">>

Ipv6Attrs == <<"orig_src_ipv6", "orig_dst_ipv6", "reply_src_ipv6", "reply_dst_ipv6">>

FourOf == [port |-> PortAttrs, ip_v4_addr |-> Ipv4Attrs, ip_v6_addr |-> Ipv6Attrs]

\* The attributes whose value is 16 bytes wide.
V6Attrs == Range(Ipv6Attrs)

\* The options that are one attribute.
SingleOptions == Range(PortAttrs) \cup Range(Ipv4Attrs) \cup V6Attrs \cup {"mark", "proto"}

AsymNames == {"orig_src_port", "orig_dst_port", "l3proto", "l4proto", "interface"}

RuleInit ==
    /\ denyRules = {}
    /\ asymFFRules = <<>>
    /\ section = [hdlr |-> "none", rule |-> <<>>, last |-> FALSE]
    /\ parser = "reading"
    /\ failed = FALSE
    /\ asymff = FALSE
    /\ written = <<>>
    /\ lines = 0

(***************************************************************************)
(* The reader.                                                             *)
(***************************************************************************)
ReadLine ==
    /\ parser = "reading"
    /\ lines < MaxLines
    /\ lines' = lines + 1

\* The end handler of the section in charge, if it has one.
EndedDeny == IF section.hdlr = "fastforward" THEN denyRules \cup {section.rule} ELSE denyRules

EndedAsym == IF section.hdlr = "asym_fastforward" THEN <<section.rule>> \o asymFFRules ELSE asymFFRules

\* A bug to compare with: a section goes on with the rule of the last one.
StartedKeeps(name) == [section EXCEPT !.hdlr = name]

\* section_rule_start_hdlr; rule and asym_rule are one field (a union).
Started(name) ==
    IF name \in {"fastforward", "asym_fastforward"}
    THEN [hdlr |-> name, rule |-> <<>>, last |-> FALSE]
    ELSE [section EXCEPT !.hdlr = name]

\* "config <name>".  An unknown name leaves no handler after a section that
\* has an end handler, and the old one in charge after a section that has none.
ConfigLine(name) ==
    /\ ReadLine
    /\ denyRules' = EndedDeny
    /\ asymFFRules' = EndedAsym
    /\ section' = IF name # "unknown"
                  THEN Started(name)
                  ELSE IF section.hdlr = "other" THEN section ELSE [section EXCEPT !.hdlr = "none"]
    /\ written' = IF name \in {"fastforward", "asym_fastforward"}
                  THEN Append(written, [kind |-> name, options |-> {}])
                  ELSE written
    /\ UNCHANGED <<parser, failed, asymff>>

Noted(o) ==
    written' = [written EXCEPT ![Len(written)].options = @ \cup {o}]

\* cmmFcRuleAddAttribut, with a value it can store.
WithAttribut(rule, type, value) == <<[type |-> type, value |-> value]>> \o rule

\* The copy of a rule passes no address, and cmmFcRuleAddAttribut adds no
\* attribute of 16 bytes without one.
Copy(rule) == Reverse(SelectSeq(rule, LAMBDA a : a.type \notin V6Attrs))

\* An option that stands for four attributes makes four rules: the first goes
\* on with the rule of the section, the others with a copy of it, and the last
\* one is left for the end of the section.
Expanded(o) ==
    LET types == FourOf[o.name]
        Made(i) == WithAttribut(IF i = 1 THEN section.rule ELSE Copy(section.rule), types[i], o.value)
    IN  [deny |-> {Made(i) : i \in 1 .. Len(types) - 1}, rule |-> Made(Len(types))]

\* A valid option of a fastforward section.  Nothing may follow an option that
\* makes four rules.
OptionLine(o) ==
    /\ ReadLine
    /\ section.hdlr = "fastforward"
    /\ ~section.last
    /\ o.name \in SingleOptions \cup DOMAIN FourOf
    /\ IF o.name \in DOMAIN FourOf
       THEN /\ denyRules' = denyRules \cup Expanded(o).deny
            /\ section' = [section EXCEPT !.rule = Expanded(o).rule, !.last = TRUE]
       ELSE /\ section' = [section EXCEPT !.rule = WithAttribut(@, o.name, o.value)]
            /\ UNCHANGED denyRules
    /\ Noted(o)
    /\ UNCHANGED <<asymFFRules, parser, failed, asymff>>

\* A valid option of an asym_fastforward section.
AsymOptionLine(o) ==
    /\ ReadLine
    /\ section.hdlr = "asym_fastforward"
    /\ o.name \in AsymNames
    /\ section' = [section EXCEPT !.rule = WithAttribut(@, o.name, o.value)]
    /\ Noted(o)
    /\ UNCHANGED <<denyRules, asymFFRules, parser, failed, asymff>>

\* A line that its section's handler refuses: a bad value or an unknown option,
\* or any option after one that made four rules.  The reader goes on.
BadOptionLine ==
    /\ ReadLine
    /\ section.hdlr # "none"
    /\ failed' = TRUE
    /\ UNCHANGED <<denyRules, asymFFRules, section, parser, asymff, written>>

\* A comment, an empty line, an option with no handler in charge or with no
\* value, an unknown option of an asymmetric section, or an option that belongs
\* to another handler.
IgnoredLine ==
    /\ ReadLine
    /\ UNCHANGED <<denyRules, asymFFRules, section, parser, failed, asymff, written>>

\* The last section ends with the file; main gives up if a line was refused.
EndOfFile ==
    /\ parser = "reading"
    /\ denyRules' = EndedDeny
    /\ asymFFRules' = EndedAsym
    /\ section' = [section EXCEPT !.hdlr = "none"]
    /\ parser' = IF failed THEN "stopped" ELSE "running"
    /\ UNCHANGED <<failed, asymff, written, lines>>

\* cmmAsymFFProcessClientCmd
AsymFFEnable(on) ==
    /\ parser = "running"
    /\ asymff' = on
    /\ UNCHANGED <<denyRules, asymFFRules, section, parser, failed, written, lines>>

RuleNext ==
    \/ \E name \in {"fastforward", "asym_fastforward", "other", "unknown"} : ConfigLine(name)
    \/ \E o \in Options : OptionLine(o)
    \/ \E o \in AsymOptions : AsymOptionLine(o)
    \/ BadOptionLine
    \/ IgnoredLine
    \/ EndOfFile
    \/ \E on \in BOOLEAN : AsymFFEnable(on)

RuleSpec == RuleInit /\ [][RuleNext]_ruleVars

(***************************************************************************)
(* The verdict on a conntrack.                                             *)
(***************************************************************************)
\* One attribute against the conntrack, which may not have it.
Holds(a, ct) ==
    /\ a.type \in DOMAIN ct.attrs
    /\ a.value = ct.attrs[a.type]

RuleMatches(rule, ct) == \A i \in 1 .. Len(rule) : Holds(rule[i], ct)

\* cmmFcIsLoopback: iif is "lo", "none" for a connection of this host, or "lan".
IsLoopback(ct) ==
    \/ ct.iif = "lo"
    \/ ct.route = "none"
    \/ /\ ct.route # "unicast"
       /\ ~(ct.iif # "none" /\ ct.route = "local")

IsConntrack4Allowed(ct) ==
    /\ ~ct.mcast
    /\ ~IsLoopback(ct)
    /\ \A rule \in denyRules : ~RuleMatches(rule, ct)

\* The IPv6 twin also compares addresses, which are attributes like any other.
IsConntrack6Allowed(ct) ==
    /\ ~ct.mcast
    /\ ~IsLoopback(ct)
    /\ \A rule \in denyRules : ~RuleMatches(rule, ct)

Allowed(ct) == IF ct.family = "v4" THEN IsConntrack4Allowed(ct) ELSE IsConntrack6Allowed(ct)

\* What one asymmetric rule says: the first attribute that does not hold ends
\* it, and the whole search if it names an interface CMM does not know.
AsymRuleSays(rule, ct) ==
    LET Fails == {i \in 1 .. Len(rule) : ~Holds(rule[i], ct)}
        Asks(i) == rule[i].type = "interface" /\ "interface" \in DOMAIN ct.attrs
        Aborts == {i \in 1 .. Len(rule) : Asks(i) /\ ct.attrs["interface"] \notin Interfaces}
    IN  IF Fails = {} THEN "match"
        ELSE IF Min(Fails) \in Aborts THEN "abort" ELSE "miss"

\* cmmFcIsConntrackAsymFastForwarded
IsAsymFastForwarded(ct) ==
    \E i \in 1 .. Len(asymFFRules) :
        /\ AsymRuleSays(asymFFRules[i], ct) = "match"
        /\ \A j \in 1 .. i - 1 : AsymRuleSays(asymFFRules[j], ct) = "miss"

\* dir_filter of the entry that __cmmCtRegister makes for a new conntrack.  It
\* is a mark only: the one place that reads it is inside "#if 0", so that both
\* directions are offloaded whatever it says.
DirFilter(ct) == IF asymff /\ IsAsymFastForwarded(ct) THEN {"ORIGINATOR"} ELSE {}

(***************************************************************************)
(* What the file means: a section speaks of the conntracks for which all   *)
(* its options hold, and an option that stands for four attributes holds   *)
(* if one of them does.                                                    *)
(***************************************************************************)
OptionHolds(o, ct) ==
    IF o.name \in DOMAIN FourOf
    THEN \E i \in 1 .. Len(FourOf[o.name]) : Holds([type |-> FourOf[o.name][i], value |-> o.value], ct)
    ELSE Holds([type |-> o.name, value |-> o.value], ct)

Speaks(kind, ct) ==
    \E i \in 1 .. Len(written) :
        /\ written[i].kind = kind
        /\ \A o \in written[i].options : OptionHolds(o, ct)

\* An address in a section whose last option makes four rules.
LosesAddress ==
    \E i \in 1 .. Len(written) : \E o, p \in written[i].options :
        o.name \in V6Attrs /\ p.name \in DOMAIN FourOf

\* Once the daemon runs, a routed unicast conntrack is refused exactly if a
\* fastforward section of the file speaks of it, whatever sections and lines
\* surround it; a section that gives an IPv6 address before an option that
\* makes four rules still refuses all it speaks of.
RefusedAsWritten ==
    parser = "running" =>
        \A ct \in Conntracks :
            /\ Speaks("fastforward", ct) => ~Allowed(ct)
            /\ ~Allowed(ct) /\ ~ct.mcast /\ ~IsLoopback(ct) /\ ~LosesAddress => Speaks("fastforward", ct)

\* With asymmetric fast forwarding enabled a new conntrack is marked in
\* dir_filter only if an asym_fastforward section speaks of it, and always then
\* if CMM knows the interface it came from; with it disabled none is
\* (cmmFcIsConntrackAsymFastForwarded, whose search ends at an unknown interface).
AsymAsWritten ==
    parser = "running" =>
        \A ct \in Conntracks :
            /\ DirFilter(ct) # {} => asymff /\ Speaks("asym_fastforward", ct)
            /\ /\ asymff
               /\ Speaks("asym_fastforward", ct)
               /\ "interface" \in DOMAIN ct.attrs => ct.attrs["interface"] \in Interfaces
               => DirFilter(ct) # {}

\* The daemon refuses and marks every conntrack as the file says.
RulesAsWritten == RefusedAsWritten /\ AsymAsWritten

\* "this option is like 4 differents rules" (ffcontrol.c): each of the four
\* refuses what the section's other options also hold for, and nothing else.
FourRulesAsOne ==
    parser = "running" =>
        \A ct \in Conntracks :
            ~Allowed(ct) /\ ~ct.mcast /\ ~IsLoopback(ct) => Speaks("fastforward", ct)
=============================================================================
