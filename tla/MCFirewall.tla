----------------------------- MODULE MCFirewall -----------------------------
EXTENDS Firewall

\* The defaults of LoadConfig.
Default == [area |-> 1, redir |-> "Redir", mod |-> "iptables", dns |-> "redir_host",
            cn |-> "unset", common |-> TRUE, wan |-> TRUE, vm |-> FALSE, quic |-> FALSE,
            ipv6 |-> FALSE, devices |-> "none"]

\* Every firewall area, redirect mode and backend occurs, with each switch on
\* and off; neighbours differ in what the leftovers of the other depend on.
Rules ==
    {Default,
     [Default EXCEPT !.area = 2, !.dns = "mix"],
     [Default EXCEPT !.area = 3, !.redir = "Mix", !.dns = "mix", !.quic = TRUE],
     [Default EXCEPT !.redir = "Tproxy", !.common = FALSE, !.ipv6 = TRUE, !.quic = TRUE, !.cn = "ON"],
     [Default EXCEPT !.area = 3, !.redir = "Tproxy", !.ipv6 = TRUE, !.dns = "fake-ip", !.cn = "OFF"],
     [Default EXCEPT !.area = 4, !.redir = "Pure", !.wan = FALSE, !.vm = TRUE],
     [Default EXCEPT !.area = 5, !.redir = "T&U", !.common = FALSE],
     [Default EXCEPT !.mod = "nftables", !.cn = "ON", !.devices = "black", !.quic = TRUE],
     [Default EXCEPT !.mod = "nftables", !.area = 3, !.redir = "Tun", !.ipv6 = TRUE, !.devices = "white"],
     [Default EXCEPT !.mod = "nftables", !.area = 2, !.redir = "Tproxy", !.vm = TRUE, !.wan = FALSE],
     [Default EXCEPT !.mod = "nftables", !.area = 5, !.redir = "TCP"],
     [Default EXCEPT !.mod = "nftables", !.area = 3, !.redir = "Mix", !.cn = "ON"]}

DeviceOnly == {[Default EXCEPT !.area = 2, !.redir = "Mix"], Default}
OneNet == {"lan"}
=============================================================================
