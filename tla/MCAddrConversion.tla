-------------------------- MODULE MCAddrConversion --------------------------
(* Octets at both ends of the byte range and next to its middle, so that a *)
(* shift, a byte order or a truncation error shows in some address; ports  *)
(* at both ends of the u16 range.  IPv6: loopback and a link-local address *)
(* with and without a flow label and a scope id (fe80::1%2).               *)
EXTENDS AddrConversion

MCOctets == {0, 1, 127, 128, 255}
MCPorts == {0, 443, 65535}
=============================================================================
