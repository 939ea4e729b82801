------------------------------ MODULE MCFirehose -------------------------------
\* Firehose for TLC: the chat relay and two network relays.
EXTENDS Firehose

CONSTANTS chat, n1, n2    \* model values

TwoNetworkRelays == {n1, n2}

=============================================================================
