---------------------------- MODULE MCIxgbeFilter ----------------------------
EXTENDS IxgbeFilter

MCVector == [x \in Addrs \cup McAddrs |-> IF x \in {"a1", "m1"} THEN 0 ELSE 1]

MCBase == [NoConf EXCEPT !.filter = TRUE]
MCMap == <<[vlan |-> 33, pools |-> {0}], [vlan |-> 1, pools |-> {0, 1}]>>

\* The filter on and off; pools with one of their map's entries in both
\* halves; pools with traffic classes, in valid number and not, and with
\* virtual functions; traffic classes alone; and flow directors of two sizes
\* and of one that does not exist.
MCConfs == {[MCBase EXCEPT !.mq = "vmdq_dcb", !.num = AllPools, !.map = MCMap,
                           !.fdir = [mode |-> "perfect", alloc |-> 64, drop |-> 1]],
            [MCBase EXCEPT !.filter = FALSE, !.strip = TRUE, !.extend = TRUE,
                           !.fdir = [mode |-> "signature", alloc |-> 128, drop |-> 0]],
            [MCBase EXCEPT !.mq = "vmdq", !.tx = "vmdq", !.num = AllPools, !.filter = FALSE, !.map = MCMap,
                           !.fdir = [mode |-> "perfect", alloc |-> 0, drop |-> 0]],
            [MCBase EXCEPT !.mq = "vmdq_dcb", !.tx = "vmdq_dcb", !.num = HalfPools, !.txNum = HalfPools,
                           !.queues = ETH_DCB_NUM_QUEUES, !.map = MCMap],
            [MCBase EXCEPT !.mq = "dcb", !.queues = ETH_DCB_NUM_QUEUES, !.filter = FALSE]}

MCUcLists == {<<>>, <<[addr |-> "a1", pool |-> 0]>>,
              <<[addr |-> "a2", pool |-> 1], [addr |-> "a1", pool |-> 0], [addr |-> "a3", pool |-> 0]>>}

MCRules == {[types |-> {"vlan"}, vlans |-> {1}, pools |-> {}, dst |-> 1],
            [types |-> {"vlan", "pool"}, vlans |-> {}, pools |-> {0}, dst |-> 0]}

\* Two flows that share a bucket of the smaller perfect table but not of the
\* larger ones, and one that may not name ports.
MCFlows == {[id |-> 1, l4 |-> "tcp", ports |-> TRUE, hash |-> [bucket |-> 3, signature |-> 7]],
            [id |-> 2, l4 |-> "udp", ports |-> TRUE, hash |-> [bucket |-> 3 + 2^11, signature |-> 7]],
            [id |-> 3, l4 |-> "none", ports |-> TRUE, hash |-> [bucket |-> 5, signature |-> 8]]}

MCMasks == {[only_ip |-> FALSE, ports |-> TRUE, vlan |-> TRUE],
            [only_ip |-> TRUE, ports |-> TRUE, vlan |-> FALSE], NoMasks}

=============================================================================
