\* One worker of one pool and two of the other, queues of one job.
CONSTANTS
    NoJob = NoJob
    None = None
    TCPWorkers = {t1}
    UDPWorkers = {u1, u2}
    QueueCap = 1
    Streams <- MCStreams
SPECIFICATION FairSpec
INVARIANTS TypeOK NoSendOnClosedChannel JobsConserved CompletedMeansEverythingProbed
PROPERTIES Termination ImplementsContract
