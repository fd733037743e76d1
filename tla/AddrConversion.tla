--------------------------- MODULE AddrConversion ---------------------------
(***************************************************************************)
(* The conversions between the sensor's Addr and std's SocketAddr          *)
(* (network-monitor/src/lib.rs, From<Addr> for SocketAddr and             *)
(* From<SocketAddr> for Addr), checked over bounded sets of addresses.     *)
(*                                                                         *)
(* A SocketAddr is V4 (four octets and a port) or V6 (an address, a port,  *)
(* a flow label and a scope id).  An Addr::V4 holds a SockaddrIn, whose    *)
(* ip() is the address as a 32-bit host-order integer; an Addr::V6 holds a *)
(* SockaddrIn6, which keeps all four fields of a SocketAddrV6.  The 128-bit *)
(* IPv6 address is carried unchanged by every conversion, so it is a model *)
(* value here.                                                             *)
(***************************************************************************)
EXTENDS Naturals, Sequences

CONSTANTS
  Octets,     \* sample octet values, a subset of 0..255
  Ports,      \* sample ports, a subset of 0..65535
  V6Ips,      \* sample IPv6 addresses (model values)
  FlowInfos,  \* sample sin6_flowinfo values
  ScopeIds    \* sample sin6_scope_id values

ASSUME Octets \subseteq 0..255 /\ Ports \subseteq 0..65535

SocketAddrV4 == [family : {"V4"}, octets : [1..4 -> Octets], port : Ports]
SocketAddrV6 == [family : {"V6"}, ip : V6Ips, port : Ports,
                 flowinfo : FlowInfos, scope : ScopeIds]

VARIABLE sa   \* the generic socket address under conversion

-----------------------------------------------------------------------------
(* SockaddrIn from a SocketAddrV4 stores the octets in network order;      *)
(* ip() reads them back as the host-order u32 (u32::from_be), held here   *)
(* as its two 16-bit halves since TLC integers are signed 32-bit.          *)
HostOrderBits(o) == [hi |-> o[1] * 256 + o[2], lo |-> o[3] * 256 + o[4]]

(* From<SocketAddr> for Addr: V4(v.into()), V6(v.into()).                  *)
FromSocketAddr(s) ==
  IF s.family = "V4"
  THEN [family |-> "V4", bits |-> HostOrderBits(s.octets), port |-> s.port]
  ELSE [family |-> "V6", ip |-> s.ip, port |-> s.port,
        flowinfo |-> s.flowinfo, scope |-> s.scope]

(* (u >> n) as u8, for n a multiple of 8 below 32.                         *)
ShiftAsU8(u, n) == ((IF n >= 16 THEN u.hi ELSE u.lo) \div 2^(n % 16)) % 256

\* Mutant helper: the octets taken lowest byte first.
OctetsLittleEndian(bits) ==
  <<ShiftAsU8(bits, 0), ShiftAsU8(bits, 8), ShiftAsU8(bits, 16), ShiftAsU8(bits, 24)>>

(* [(bits >> 24) as u8, (bits >> 16) as u8, (bits >> 8) as u8, bits as u8] *)
Octets4(bits) ==
  <<ShiftAsU8(bits, 24), ShiftAsU8(bits, 16), ShiftAsU8(bits, 8), ShiftAsU8(bits, 0)>>

(* From<Addr> for SocketAddr: V4 rebuilds the octets from v.ip();          *)
(* V6 is SocketAddr::new(v.ip().into(), v.port()), which makes a           *)
(* SocketAddrV6 with flow label 0 and scope id 0.                          *)
ToSocketAddr(a) ==
  IF a.family = "V4"
  THEN [family |-> "V4", octets |-> Octets4(a.bits), port |-> a.port]
  ELSE [family |-> "V6", ip |-> a.ip, port |-> a.port, flowinfo |-> 0, scope |-> 0]

InitV4 == sa \in SocketAddrV4
InitV6 == sa \in SocketAddrV6

SpecV4 == InitV4 /\ [][UNCHANGED sa]_sa
SpecV6 == InitV6 /\ [][UNCHANGED sa]_sa

-----------------------------------------------------------------------------
(* Spec 4.5 and 8: converting a generic socket address to the sensor's     *)
(* Addr and back yields the original value, and the Addr it went through   *)
(* converts back to itself: the conversions are a bijection on the         *)
(* addresses both sides can represent (no port or address bits lost).      *)
RoundTrip ==
  /\ ToSocketAddr(FromSocketAddr(sa)) = sa
  /\ FromSocketAddr(ToSocketAddr(FromSocketAddr(sa))) = FromSocketAddr(sa)

=============================================================================
