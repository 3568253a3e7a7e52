--------------------------- MODULE MCScanPipeline ---------------------------
(* Target streams for the pipeline: enough jobs to fill the queues, failures
   in either order, jobs for both pools and ports without a payload. *)
EXTENDS ScanPipeline

MixedStream    == <<"tcp", "udp", "ip_end", "tcp", "udp", "ip_end">>
FailingStreams == {<<"unresolved", "tcp", "ip_end", "bad_cidr">>,
                   <<"tcp", "ip_end", "bad_cidr", "unresolved", "udp_unsupported">>,
                   <<"udp", "read_error">>}
DrainStream    == <<"udp_unsupported", "udp", "udp_unsupported", "tcp", "ip_end">>
StrandStream   == <<"udp_unsupported", "udp_unsupported", "udp", "udp", "ip_end">>
LongStream     == <<"tcp", "tcp", "tcp", "tcp", "tcp", "tcp", "ip_end">>

MCStreams == {MixedStream, DrainStream, StrandStream, LongStream, <<"ip_end">>, << >>}
                 \cup FailingStreams
=============================================================================
