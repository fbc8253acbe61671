\* two hosts with two probes each, of which three become users
CONSTANTS
  Ips = {ip1, ip2}
  Ports = {port1, port2}
  Packets = {p, q}
  MaxUsers = 3
  MaxSent = 3
SPECIFICATION ServerSpec
INVARIANTS
  ServerTypeOK
  OneUserPerAddress
  UsersCounted
  HandledForSender
  IdsNeverReused
CHECK_DEADLOCK FALSE
