-------------------------- MODULE ResolverChoice ---------------------------
(***************************************************************************)
(* The two pure algorithms of src/internal/relay/dns.go: ParseScutilDNS,   *)
(* which turns the report of scutil --dns into resolvers, and              *)
(* selectResolver, which picks the one that is asked about a name.         *)
(*                                                                         *)
(* A domain name is the sequence of its labels, normalised; a line of the  *)
(* report is a key ("resolver" opens a block) and a value.  Ports and the  *)
(* lines the parser skips are left out.                                    *)
(***************************************************************************)
EXTENDS Integers, SequencesExt

CONSTANT IPv4       \* the addresses that parse as IPv4

\* A report as the parser reads it; Atoi accepts a sign.
IsReport(report) ==
    /\ report \in Seq(ToSet(report))
    /\ \A line \in ToSet(report) :
          /\ line.key = "order" => line.value \in Int
          /\ line.key = "domain" => line.value \in Seq(ToSet(line.value)) \ {<<>>}

EmptyBlock == [seen |-> FALSE, domains |-> <<>>, servers |-> <<>>, order |-> 0]

\* flush: a block without a usable nameserver is dropped.
Flush(resolvers, block) ==
    IF ~block.seen \/ block.servers = <<>> THEN resolvers
    ELSE Append(resolvers, [domains |-> block.domains, servers |-> block.servers,
                            order |-> block.order])

AddLine(block, line) ==
    IF ~block.seen THEN block
    ELSE CASE line.key = "domain" /\ ~Contains(block.domains, line.value)
                -> [block EXCEPT !.domains = Append(@, line.value)]
           [] line.key = "nameserver" /\ line.value \in IPv4
                -> [block EXCEPT !.servers = Append(@, line.value)]
           [] line.key = "order" -> [block EXCEPT !.order = line.value]
           [] OTHER -> block

\* sort.SliceStable by order: each resolver after those that are not of a higher one.
Insert(list, resolver) ==
    LET last == Max({i \in DOMAIN list : list[i].order <= resolver.order} \cup {0})
    IN  InsertAt(list, last + 1, resolver)

SortByOrder(resolvers) ==
    LET sorted[n \in 0 .. Len(resolvers)] ==
            IF n = 0 THEN <<>> ELSE Insert(sorted[n - 1], resolvers[n])
    IN  sorted[Len(resolvers)]

\* A turn of the loop over the lines: a block begins, or the current one gets a line.
NextLine(acc, line) ==
    IF line.key = "resolver"
    THEN [resolvers |-> Flush(acc.resolvers, acc.block), block |-> [EmptyBlock EXCEPT !.seen = TRUE]]
    ELSE [acc EXCEPT !.block = AddLine(@, line)]

Collected(report) ==
    LET after[n \in 0 .. Len(report)] ==
            IF n = 0 THEN [resolvers |-> <<>>, block |-> EmptyBlock]
            ELSE NextLine(after[n - 1], report[n])
    IN  after[Len(report)]

ParseScutilDNS(report) ==
    LET end == Collected(report) IN SortByOrder(Flush(end.resolvers, end.block))

\* The longest suffix of the name among a resolver's domains, -1 if there is none;
\* a resolver without domains is a default resolver and offers 0.
Offer(resolver, name) ==
    IF resolver.domains = <<>> THEN 0
    ELSE Max({Len(d) : d \in {d \in ToSet(resolver.domains) : IsSuffix(d, name)}} \cup {-1})

\* Mutant of Better: the order counts before the length.
BetterByOrder(best, length, order) ==
    \/ best.index = 0 /\ length >= 0
    \/ length >= 0 /\ order < best.order
    \/ length > best.length /\ order = best.order

Better(best, length, order) ==
    \/ length > best.length
    \/ length >= 0 /\ length = best.length /\ order < best.order

\* The index of the resolver to ask, 0 if there is none: the longest suffix, then
\* the lowest order, then the first.
selectResolver(resolvers, name) ==
    LET best[i \in 0 .. Len(resolvers)] ==
            IF i = 0 THEN [index |-> 0, length |-> -1, order |-> 0]
            ELSE LET b == best[i - 1]
                     n == Offer(resolvers[i], name)
                 IN  IF Better(b, n, resolvers[i].order)
                     THEN [index |-> i, length |-> n, order |-> resolvers[i].order]
                     ELSE b
    IN  best[Len(resolvers)].index

-----------------------------------------------------------------------------
(* What they are to compute, stated without the loops. *)

\* The blocks of a report, as sets of line numbers: from each "resolver" line up to
\* the next.
Blocks(report) ==
    LET starts == {i \in 1 .. Len(report) : report[i].key = "resolver"}
        next(i) == Min({j \in starts : j > i} \cup {Len(report) + 1})
    IN  {i .. next(i) - 1 : i \in starts}

Lines(report, block, key) == {i \in block : report[i].key = key}
Values(report, block, key) == {report[i].value : i \in Lines(report, block, key)}

\* The order of a block is that of its last line about it.
OrderOf(report, block) ==
    LET orders == Lines(report, block, "order")
    IN  IF orders = {} THEN 0 ELSE report[Max(orders)].value

Usable(report) == {b \in Blocks(report) : Values(report, b, "nameserver") \cap IPv4 # {}}

\* The lengths by which a block matches a name; without a domain it matches any.
Matches(report, block, name) ==
    {Len(d) : d \in {d \in Values(report, block, "domain") : IsSuffix(d, name)}}
        \cup (IF Values(report, block, "domain") = {} THEN {0} ELSE {})

\* The nameservers that may be asked about a name: those of a block that no other
\* one beats by a longer suffix, or by a lower order for the same.
Responsible(report, name) ==
    UNION {Values(report, b, "nameserver") \cap IPv4 :
             b \in {b \in Usable(report) :
                      \E n \in Matches(report, b, name) :
                         \A c \in Usable(report) : \A m \in Matches(report, c, name) :
                            \/ m < n
                            \/ m = n /\ OrderOf(report, b) <= OrderOf(report, c)}}
=============================================================================
