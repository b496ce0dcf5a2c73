SPECIFICATION BusFairSpec
CONSTANTS
  Calls <- DriverCalls
INVARIANT BusReleased
PROPERTIES ImplementsTransfer CallsReturn
