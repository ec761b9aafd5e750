----------------------------- MODULE MCIxgbePort -----------------------------
EXTENDS IxgbePort

\* One queue per class in turn, and all priorities in the first two classes.
MCEven == [u \in TC |-> u % 4]
MCBase == [rx |-> "rss", tx |-> "none", n |-> 0, queue |-> MCEven, all_queues |-> TRUE,
           pfc |-> FALSE, rss_hf |-> TRUE, loopback |-> FALSE, speed |-> Speeds,
           lsc |-> TRUE, full_duplex |-> TRUE]

\* Plain, loopback, one slow speed, four and eight classes.
MCConfs == {MCBase,
            [MCBase EXCEPT !.rx = "none", !.loopback = TRUE, !.lsc = FALSE],
            [MCBase EXCEPT !.rx = "vmdq", !.tx = "vmdq", !.speed = {"1G"}],
            [MCBase EXCEPT !.rx = "dcb", !.tx = "dcb", !.n = 4, !.pfc = TRUE],
            [MCBase EXCEPT !.rx = "vmdq_dcb", !.tx = "vmdq_dcb", !.n = 8,
                           !.queue = [u \in TC |-> u], !.pfc = TRUE]}

MCFcConfs == {[mode |-> "full", high |-> 100, low |-> 30, time |-> 1],
              [mode |-> "tx", high |-> 400, low |-> 40, time |-> 1],
              [mode |-> "none", high |-> 40, low |-> 0, time |-> 1]}

MCModules == {NoModule, Dac, Sr, LrOther, OneG}

=============================================================================
