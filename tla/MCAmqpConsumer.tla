-------------------------- MODULE MCAmqpConsumer --------------------------
EXTENDS AmqpConsumer

NoFaults == {}
HardFaults == {"listener", "channel", "crash"}
Stops == {"listener", "shutdown"}
NoPoison == {}
FirstIsPoison == {1}
===========================================================================
