---------------------------- MODULE MCAuditExport -----------------------------
\* Small instances of AuditExport: pages of two rows, exports of at most six.
EXTENDS AuditExport

MCRequested == {-1, 0, 2, 3, 4, 7}
===============================================================================
