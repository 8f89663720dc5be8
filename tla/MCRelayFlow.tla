---------------------------- MODULE MCRelayFlow -----------------------------
EXTENDS RelayFlow

Cleartext(port, blank, ok, n) ==
    [intercepted |-> port # "other", tls |-> FALSE, https |-> port = "443", records |-> <<>>, isHello |-> FALSE, hello |-> 0,
     head |-> blank, named |-> ok, size |-> n]

Hello(lengths, n, ok) ==
    LET recs == [i \in DOMAIN lengths |-> [handshake |-> TRUE, length |-> lengths[i]]]
    IN  [intercepted |-> TRUE, tls |-> TRUE, https |-> TRUE, records |-> recs, isHello |-> TRUE, hello |-> n,
         head |-> 0, named |-> ok, size |-> FoldLeft(+, 0, lengths) + Len(lengths)]

\* A ClientHello in two records that ends where the buffer does, an HTTP request
\* without a name, bytes that outgrow the buffer undecided, and a direct flow.
MCStreams == {Hello(<<1, 1>>, 1, TRUE), Cleartext("80", 2, FALSE, 2),
              Cleartext("80", 0, FALSE, 5), Cleartext("other", 0, FALSE, 2)}
=============================================================================
