---------------------------- MODULE MCOpenKnxHost ----------------------------
EXTENDS OpenKnxHost

\* The events of the bounded number of telegrams.
MCItems == [id : 1..(MaxTelegrams * Fanout), at : 0..MaxMillis]
=============================================================================
