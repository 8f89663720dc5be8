---------------------------- MODULE MCSystemDNS -----------------------------
(***************************************************************************)
(* Questions about one name, on a Mac that is at home and then in a VPN    *)
(* with split DNS.  The first report has a resolver for another domain     *)
(* before the default one.  The second has a line before the first block,  *)
(* a default resolver of the lowest order, two resolvers for dev.corp that *)
(* differ in their order and of which the second is for corp too, a        *)
(* repeated domain, and a block whose only nameserver is an IPv6 address.  *)
(***************************************************************************)
EXTENDS SystemDNS

CONSTANTS home, vpn, lab, six

MCIPv4 == {home, vpn, lab}
MCNames == {<<"git", "dev", "corp">>}

Line(key, value) == [key |-> key, value |-> value]

MCReports == <<
    <<Line("resolver", 1), Line("domain", <<"local">>), Line("nameserver", lab),
      Line("resolver", 2), Line("nameserver", home), Line("order", 5)>>,
    <<Line("order", 9),
      Line("resolver", 1), Line("nameserver", home), Line("order", 1),
      Line("resolver", 2), Line("domain", <<"dev", "corp">>), Line("nameserver", home),
      Line("order", 3), Line("domain", <<"dev", "corp">>),
      Line("resolver", 3), Line("domain", <<"git", "dev", "corp">>), Line("nameserver", six),
      Line("resolver", 4), Line("domain", <<"corp">>), Line("domain", <<"dev", "corp">>),
      Line("nameserver", six), Line("nameserver", lab), Line("nameserver", vpn),
      Line("order", 2)>> >>
=============================================================================
