\* Strings with escaped quotes.
SPECIFICATION Spec

CONSTANTS
  Messages <- MCEscapeMessages
  MaxMessages = 1

INVARIANT NothingHeldBack
