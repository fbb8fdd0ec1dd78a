\* Two messages on a connection, in any pieces.
SPECIFICATION Spec

CONSTANTS
  Messages <- MCMessages
  MaxMessages = 2

INVARIANT NothingHeldBack

PROPERTY ImplementsChannel
