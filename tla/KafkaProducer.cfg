\* A queue of two messages: it fills, refuses and drains; reports and events
\* are served in the call that caused them or any later one.
CONSTANTS
  Lengths = {1, 2}
  MaxMessages = 2
  Percent = 100
  Errors = {e1, e2}
  NoError = NoError
  MaxCalls = 3
  MaxEvents = 1
SPECIFICATION ProducerSpec
INVARIANT DeliveriesAccounted
\* The bound on calls ends every behaviour.
CHECK_DEADLOCK FALSE
