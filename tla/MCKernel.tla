------------------------------ MODULE MCKernel ------------------------------
EXTENDS Kernel, TLC
CONSTANTS startup, alpha, bravo, charlie, idle

MCTask    == {startup, alpha, bravo, charlie, idle}
MCCreated == <<startup, bravo, charlie, alpha>>

\* Sleeping and waiting for the start: bravo keeps a period and does not log.
DelayBase   == (startup :> 2) @@ (alpha :> 2) @@ (bravo :> 1) @@ (charlie :> 1) @@ (idle :> 0)
DelayPeriod == (startup :> 2) @@ (alpha :> 3) @@ (bravo :> 4) @@ (charlie :> 2)
DelayUntil  == {bravo}
DelayBit    == (alpha :> 3) @@ (bravo :> 2) @@ (charlie :> 3)
DelayLog    == {alpha, charlie}

\* The mutex: two tasks of one priority and one below them log.
MutexBase   == (startup :> 3) @@ (alpha :> 2) @@ (bravo :> 2) @@ (charlie :> 1) @@ (idle :> 0)
MutexPeriod == (startup :> 1) @@ (alpha :> 1) @@ (bravo :> 2) @@ (charlie :> 1)
MutexUntil  == {}
MutexBit    == (alpha :> 1) @@ (bravo :> 1) @@ (charlie :> 2)
MutexLog    == {alpha, bravo, charlie}
=============================================================================
