\* Objects without escapes, and without blanks in strings.
SPECIFICATION Spec

CONSTANTS
  Messages <- MCPlainMessages
  MaxMessages = 2

PROPERTY ImplementsChannel
