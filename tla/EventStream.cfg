\* Five events, a mailbox of two, three connections; the audit
\* forgets the oldest of six.
SPECIFICATION FairSpec
CONSTANTS
  AuditLimit = 5
  QueueLimit = 2
  MaxEvents = 5
  MaxOthers = 1
  MaxConnections = 3
INVARIANTS
  TypeOK
  MailboxBounded
  NoFactSkipped
PROPERTY StreamEnds
\* When the run has ended and no connection is left nothing happens any more.
CHECK_DEADLOCK FALSE
