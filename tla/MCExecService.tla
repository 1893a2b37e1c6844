---------------------------- MODULE MCExecService ----------------------------
EXTENDS ExecService

CONSTANTS a, b

Ask(kind, reads, events) == [kind |-> kind, reads |-> reads, events |-> events]
Unused == Ask("none", FALSE, 0)

\* Two runs that want the desktop; one beside a raw run; two raw runs, one read,
\* that compete for retention; and a run with a slow reader.
MCRequests ==
    {a :> Ask("operation", FALSE, 0) @@ b :> Ask("operation", FALSE, 0),
     a :> Ask("operation", FALSE, 0) @@ b :> Ask("raw", FALSE, 0),
     a :> Ask("raw", TRUE, 0) @@ b :> Ask("raw", FALSE, 0),
     a :> Ask("operation", TRUE, 3) @@ b :> Unused}
=============================================================================
