--------------------------- MODULE MCThreadPool ---------------------------
EXTENDS ThreadPool, TLC

\* Three jobs: one is taken, one is queued, one is pushed.  And the socket 0.
MCJobs == 0..3
=============================================================================
