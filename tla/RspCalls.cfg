SPECIFICATION RCSpec
CONSTANTS
  Clients = {c1}
  InboxSize = 2
INVARIANTS RCTypeOK OwnReply ConfirmedIsNews SuccessIsAnswered
PROPERTIES AlwaysReturns
