SPECIFICATION FairSpec
CHECK_DEADLOCK FALSE
CONSTANTS
    Producers = {p1, p2}
    Consumers = {c1, c2}
    Msgs = {z, m}
    Zero = z
    msg_count = 3
PROPERTIES FifoSpec FifoLive
