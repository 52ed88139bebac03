\* One Run of each queue profile, every product flaw, every outage.
SPECIFICATION Spec
CONSTANTS
    MaxReceive = 3
    Polls = 2
    Outages = {"none", "receipts", "dlq", "db", "api", "browser", "decision", "health", "send", "delete"}
CHECK_DEADLOCK FALSE
INVARIANTS IInv PassIsTrue FailIsProductFault CasesAreIsolated NoMessageOutlivesItsSubject
PROPERTIES ImplementsCustody
