------------------------- MODULE HostnameSniffing --------------------------
(***************************************************************************)
(* sniffHostname of src/internal/proxy/connect.go: which host the first    *)
(* bytes of an intercepted TCP stream name, asked again after every write  *)
(* with everything received so far.                                        *)
(*                                                                         *)
(* A stream is described by what the parser tells apart: whether its first *)
(* byte is the TLS handshake type, its TLS records (handshake or not, and  *)
(* their length), the length of the ClientHello they carry, and for        *)
(* cleartext the number of bytes up to the blank line that ends the HTTP   *)
(* header (0: there is none).  "named" says whether clientHelloServerName, *)
(* or the request's Host, yields a name validProxyHostname accepts.        *)
(***************************************************************************)
EXTENDS Naturals, SequencesExt

CONSTANTS
    RecordHeader,     \* bytes of a TLS record header, 5 in the code
    HandshakeHeader,  \* bytes of a handshake header, 4 in the code
    MaxInitial        \* maxInitialClientBytes

ASSUME SizesAssumption ==
    RecordHeader \in Nat \ {0} /\ HandshakeHeader \in Nat \ {0} /\ MaxInitial \in Nat \ {0}

\* Bytes of the first k records: of their payload, and on the wire.
Carried(s, k) ==
    LET sum[i \in 0 .. Len(s.records)] == IF i = 0 THEN 0 ELSE sum[i - 1] + s.records[i].length
    IN  sum[k]
Offset(s, k) == Carried(s, k) + k * RecordHeader

\* Mutant of HelloStep: the record is used before all of it has arrived.
HelloStepEager(s, n, k) ==
    LET record == s.records[k]
    IN  IF n < Offset(s, k - 1) + RecordHeader THEN "needMore"
        ELSE IF ~record.handshake THEN "unavailable"
        ELSE IF Carried(s, k) >= HandshakeHeader + s.hello
        THEN IF s.named /\ n >= Offset(s, k) THEN "resolved" ELSE "unavailable"
        ELSE IF n = Offset(s, k) THEN "needMore" ELSE "next"

\* One turn of sniffTLSClientHello: record k of the n bytes received.
HelloStep(s, n, k) ==
    LET record == s.records[k]
        handshake == Carried(s, k)
    IN  IF n < Offset(s, k - 1) + RecordHeader THEN "needMore"
        ELSE IF ~record.handshake \/ record.length = 0 \/ handshake > MaxInitial THEN "unavailable"
        ELSE IF n < Offset(s, k) THEN "needMore"
        ELSE IF handshake >= HandshakeHeader /\ (~s.isHello \/ s.hello + HandshakeHeader > MaxInitial)
        THEN "unavailable"
        ELSE IF handshake >= HandshakeHeader + s.hello
        THEN IF s.named THEN "resolved" ELSE "unavailable"
        ELSE IF n = Offset(s, k) THEN "needMore"
        ELSE "next"

\* The loop ends with the first record that decides.
sniffTLSClientHello(s, n) ==
    LET decisive == {k \in 1 .. Len(s.records) : HelloStep(s, n, k) # "next"}
    IN  IF decisive = {} THEN "needMore" ELSE HelloStep(s, n, Min(decisive))

sniffHTTPHost(s, n) ==
    IF s.head = 0 \/ n < s.head THEN "needMore"
    ELSE IF s.named THEN "resolved" ELSE "unavailable"

sniffHostname(s, n) ==
    IF n = 0 THEN "needMore"
    ELSE IF s.tls THEN sniffTLSClientHello(s, n)
    ELSE IF s.https THEN "unavailable"
    ELSE sniffHTTPHost(s, n)

-----------------------------------------------------------------------------
(* What the loop is to compute, stated without it. *)

\* The records that carry the ClientHello: up to the first that completes it.
HelloRecords(s) ==
    LET ends == {k \in 1 .. Len(s.records) : Carried(s, k) >= HandshakeHeader + s.hello}
    IN  IF ends = {} THEN 0 ELSE Min(ends)

\* The bytes after which the stream has named its host, 0 if it never does.
NamedAfter(s) ==
    IF s.tls
    THEN LET last == HelloRecords(s)
         IN  IF /\ last # 0 /\ s.isHello /\ s.named
                /\ Carried(s, last) <= MaxInitial
                /\ \A k \in 1 .. last : s.records[k].handshake /\ s.records[k].length > 0
             THEN Offset(s, last) ELSE 0
    ELSE IF s.https \/ ~s.named THEN 0 ELSE s.head
=============================================================================
